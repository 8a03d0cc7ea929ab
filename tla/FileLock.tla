------------------------------ MODULE FileLock ------------------------------
(***************************************************************************)
(* What the locking layer of the VFS promises to the pager, as the comment *)
(* on the lock levels in os.h states it: any number of connections hold    *)
(* SHARED, at most one holds RESERVED or more, no other process obtains     *)
(* SHARED while one holds PENDING, and EXCLUSIVE precludes every other     *)
(* lock.                                                                   *)
(***************************************************************************)
EXTENDS Naturals

CONSTANTS Conn,              \* the open connections to one database file
          proc               \* proc[c] is the process of connection c

NO_LOCK        == 0
SHARED_LOCK    == 1
RESERVED_LOCK  == 2
PENDING_LOCK   == 3
EXCLUSIVE_LOCK == 4
LockLevels     == NO_LOCK..EXCLUSIVE_LOCK

VARIABLE held                \* the level each connection may rely on

AbsTypeOK == held \in [Conn -> LockLevels]

\* A process that has SHARED already keeps it and shares it out.
ProcessReads(c) ==
  \E b \in Conn \ {c} :
     proc[b] = proc[c] /\ held[b] \in {SHARED_LOCK, RESERVED_LOCK}

\* May c go to level e, given what the other connections hold?
Admissible(c, e) ==
  \A d \in Conn \ {c} :
     /\ e = SHARED_LOCK => \/ held[d] < PENDING_LOCK
                           \/ held[d] = PENDING_LOCK /\ ProcessReads(c)
     /\ e \in {RESERVED_LOCK, PENDING_LOCK} => held[d] <= SHARED_LOCK
     /\ e = EXCLUSIVE_LOCK => held[d] = NO_LOCK

AbsInit == held = [c \in Conn |-> NO_LOCK]

\* c raises its lock; SHARED is always the first rung.
Acquire(c, e) ==
  /\ e > held[c]
  /\ held[c] = NO_LOCK => e = SHARED_LOCK
  /\ Admissible(c, e)
  /\ held' = [held EXCEPT ![c] = e]

\* The connections of S give locks up: one of them when it unlocks, all those
\* of a process when the process dies.
Relinquish(S) ==
  held' \in {h \in [Conn -> LockLevels] :
               /\ \A c \in S : h[c] <= held[c] /\ h[c] <= SHARED_LOCK
               /\ \A c \in Conn \ S : h[c] = held[c]}

AbsNext ==
  \/ \E c \in Conn, e \in LockLevels : Acquire(c, e)
  \/ \E S \in SUBSET Conn : Relinquish(S)

AbsSpec == AbsInit /\ [][AbsNext]_held

\* EXCLUSIVE precludes all other locks and RESERVED..EXCLUSIVE is held by one
\* connection only (the table above NO_LOCK in os.h).
Compatible(h) ==
  \A c, d \in Conn : c # d =>
     /\ h[c] = EXCLUSIVE_LOCK => h[d] = NO_LOCK
     /\ h[c] >= RESERVED_LOCK => h[d] <= SHARED_LOCK
=============================================================================
