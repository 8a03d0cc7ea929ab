--------------------------- MODULE SnapshotStore ---------------------------
(***************************************************************************)
(* What both journal modes promise to the b-tree of each connection: a     *)
(* read transaction sees one committed database image for as long as it    *)
(* lasts, one connection at a time may write, only on top of the newest    *)
(* image, and a commit replaces that image at once.  A connection that     *)
(* dies loses its transaction, or had committed it a moment before.        *)
(***************************************************************************)
EXTENDS Naturals

CONSTANTS Conn, Page, NoConn

VARIABLES
  db,        \* the newest committed image: the transaction that wrote each page
  view,      \* the image each connection reads, NoView outside a transaction
  writer     \* the connection that may write

NoView == [p \in Page |-> 0]

SSInit ==
  /\ db # NoView
  /\ view = [c \in Conn |-> NoView]
  /\ writer = NoConn

\* A read transaction starts on the newest image, never on an older one.
Begin(c) ==
  /\ view[c] = NoView
  /\ view' = [view EXCEPT ![c] = db]
  /\ UNCHANGED <<db, writer>>

End(c) ==
  /\ view[c] # NoView /\ writer # c
  /\ view' = [view EXCEPT ![c] = NoView]
  /\ UNCHANGED <<db, writer>>

\* Reading on an older image precludes writing: that would fork the history.
Upgrade(c) ==
  /\ writer = NoConn
  /\ view[c] = db
  /\ writer' = c
  /\ UNCHANGED <<db, view>>

\* The writer sees its own changes, nobody else does; it may take some back.
Modify(c) ==
  /\ writer = c
  /\ view' = [view EXCEPT ![c] = view'[c]]
  /\ \A p \in Page : \/ view'[c][p] = db[p]
                      \/ \A q \in Page : view'[c][p] > db[q]
  /\ UNCHANGED <<db, writer>>

Commit(c) ==
  /\ writer = c
  /\ db' = view[c]
  /\ writer' = NoConn
  /\ UNCHANGED view

Abort(c) ==
  /\ writer = c
  /\ view' = [view EXCEPT ![c] = db]
  /\ writer' = NoConn
  /\ UNCHANGED db

\* The connections of S die; a writer among them may just have committed.
Vanish(S) ==
  /\ view' = [c \in Conn |-> IF c \in S THEN NoView ELSE view[c]]
  /\ writer' = IF writer \in S THEN NoConn ELSE writer
  /\ db' = db \/ (writer \in S /\ db' = view[writer])

SSNext ==
  \/ \E c \in Conn : Begin(c) \/ End(c) \/ Upgrade(c) \/ Modify(c) \/ Commit(c)
                     \/ Abort(c)
  \/ \E S \in SUBSET Conn : Vanish(S)

SSSpec == SSInit /\ [][SSNext]_<<db, view, writer>>
=============================================================================
