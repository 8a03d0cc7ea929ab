---------------------------- MODULE MultiCommit ----------------------------
(***************************************************************************)
(* Transactions that change several attached database files: vdbeCommit    *)
(* with its super-journal, the rollback of such a transaction by its own   *)
(* connection, and the recovery of its files one at a time by others,      *)
(* with process deaths and power losses at any step.                       *)
(*                                                                         *)
(* The image of a file is the number of the transaction that wrote it, or  *)
(* Half.  A journal is what decides whether it is played back: does it     *)
(* begin with a header, which super-journal does its tail name, which      *)
(* image does it restore.  The steps inside one file's pager are those of  *)
(* RollbackPager.  Next to every file is what the disk may hold of it.     *)
(***************************************************************************)
EXTENDS Naturals, FiniteSets

CONSTANTS
  File, Conn,
  Writers,                 \* the connections that write
  NoFile,
  MaxTx,                   \* bound: transactions, the initial content being 0
  MaxDeaths, MaxPowerLoss, \* bounds: process deaths, power losses
  MaxFailures,             \* bound: commits that fail or are rolled back
  journalMode,             \* journalMode[c]: "DELETE" or "PERSIST"
  extraSync,               \* is the deletion of a journal synced?
  ShortJournals,           \* FALSE: see BeginWrite
  LoseUnsynced             \* FALSE: see PowerLoss

ASSUME MultiAssumption ==
  /\ IsFiniteSet(File) /\ Writers \subseteq Conn
  /\ MaxTx \in Nat /\ {MaxDeaths, MaxPowerLoss, MaxFailures} \subseteq Nat
  /\ journalMode \in [Conn -> {"DELETE", "PERSIST"}]
  /\ extraSync \in BOOLEAN
  /\ ShortJournals \in BOOLEAN /\ LoseUnsynced \in BOOLEAN
  /\ NoFile \notin [hot : BOOLEAN, super : Nat, orig : Nat]

VARIABLES
  db, dbDisk,        \* each database file, and what the disk may hold of it
  jr, jrDisk,        \* each journal
  super, superDisk,  \* the super-journals: their children; may each be on disk?
  lock,              \* lock[c][f]: eLock
  pc, loc,           \* the program counter and the locals of each connection
  view,              \* the images a connection reads
  committed,         \* the images that recovery must find
  maybe,             \* those a power loss may leave
  nTx, nDeaths, nLosses, nFailures

dbVars == <<db, dbDisk>>
jrVars == <<jr, jrDisk>>
superVars == <<super, superDisk>>
connVars == <<lock, pc, loc, view>>
histVars == <<committed, maybe, nTx>>
faultVars == <<nDeaths, nLosses, nFailures>>
vars == <<dbVars, jrVars, superVars, connVars, histVars, faultVars>>

NO_LOCK == 0
SHARED_LOCK == 1
RESERVED_LOCK == 2
EXCLUSIVE_LOCK == 4

Tx == 1..MaxTx
Half == MaxTx + 1          \* an image that is neither before nor after
NoSuper == 0
Journals == {NoFile} \cup
  [hot : BOOLEAN, super : Tx \cup {NoSuper}, orig : 0..MaxTx]
Idle == [tx |-> 0, files |-> {}, todo |-> {}, cur |-> NoFile, play |-> FALSE,
         kids |-> {}, ending |-> "none"]
Pcs == {"idle", "excl", "super", "superSync", "phaseOne", "name", "jsync",
        "write", "dbsync", "del", "delSync", "phaseTwo", "rollback", "check",
        "play", "sync", "finalize", "endSync", "kids"}

Init ==
  /\ db = [f \in File |-> 0] /\ dbDisk = [f \in File |-> {0}]
  /\ jr = [f \in File |-> NoFile] /\ jrDisk = [f \in File |-> {NoFile}]
  /\ super = [t \in {} |-> {}]
  /\ superDisk = [t \in Tx |-> {FALSE}]
  /\ lock = [c \in Conn |-> [f \in File |-> NO_LOCK]]
  /\ pc = [c \in Conn |-> "idle"] /\ loc = [c \in Conn |-> Idle]
  /\ view = [c \in Conn |-> [f \in File |-> Half]]
  /\ committed = db /\ maybe = {db}
  /\ nTx = 0 /\ nDeaths = 0 /\ nLosses = 0 /\ nFailures = 0

Others(c) == Conn \ {c}
Goto(c, label) == pc' = [pc EXCEPT ![c] = label]
Level(c, f, level) == lock' = [lock EXCEPT ![c][f] = level]
Written(c) == {f \in File : lock[c][f] >= RESERVED_LOCK}
-----------------------------------------------------------------------------
(* The files and the disk under them *)

\* Nothing is kept about the disk once no power loss can follow.
KeptAfter(losses, contents) == IF losses < MaxPowerLoss THEN contents ELSE {}
Kept(contents) == KeptAfter(nLosses, contents)

DbWrite(f, image) ==
  /\ db' = [db EXCEPT ![f] = image]
  /\ dbDisk' = [dbDisk EXCEPT ![f] = Kept(@ \cup {image, Half})]
DbSync(f) == dbDisk' = [dbDisk EXCEPT ![f] = Kept({db[f]})] /\ UNCHANGED db

JrWrite(f, j) ==
  /\ jr' = [jr EXCEPT ![f] = j]
  /\ jrDisk' = [jrDisk EXCEPT ![f] = Kept(@ \cup {j})]
JrSync(f) == jrDisk' = [jrDisk EXCEPT ![f] = Kept({jr[f]})] /\ UNCHANGED jr

Without(t) == [u \in DOMAIN super \ {t} |-> super[u]]

\* Is journal j played back when the super-journals of s exist?
Played(j, s) == /\ j # NoFile /\ j.hot
                /\ j.super = NoSuper \/ j.super \in s

\* The images that readers find when nobody is left: d under the journals j.
Recovered(d, j, s) == [f \in File |-> IF Played(j[f], s) THEN j[f].orig
                                      ELSE d[f]]
-----------------------------------------------------------------------------
(* Reading *)

HotJournal(f) == jr[f] # NoFile /\ jr[f].hot

Looks(c, f) ==
  /\ pc[c] = "idle" /\ Written(c) = {} /\ lock[c][f] = NO_LOCK
  /\ \A d \in Others(c) : lock[d][f] < EXCLUSIVE_LOCK

\* sqlite3PagerSharedLock without a hot journal.
BeginRead(c, f) ==
  /\ Looks(c, f)
  /\ HotJournal(f) => \E d \in Others(c) : lock[d][f] = RESERVED_LOCK
  /\ Level(c, f, SHARED_LOCK)
  /\ view' = [view EXCEPT ![c][f] = db[f]]
  /\ UNCHANGED <<dbVars, jrVars, superVars, pc, loc, histVars, faultVars>>

\* With one: pager_playback(pPager, 1) begins.
BeginRecovery(c, f) ==
  /\ Looks(c, f)
  /\ HotJournal(f)
  /\ \A d \in Others(c) : lock[d][f] = NO_LOCK
  /\ Level(c, f, EXCLUSIVE_LOCK) /\ Goto(c, "check")
  /\ loc' = [loc EXCEPT ![c] = [Idle EXCEPT !.cur = f, !.ending = "hot"]]
  /\ UNCHANGED <<dbVars, jrVars, superVars, view, histVars, faultVars>>

EndRead(c) ==
  /\ pc[c] = "idle" /\ Written(c) = {}
  /\ \E f \in File : lock[c][f] = SHARED_LOCK
  /\ lock' = [lock EXCEPT ![c] = [f \in File |-> NO_LOCK]]
  /\ view' = [view EXCEPT ![c] = [f \in File |-> Half]]
  /\ UNCHANGED <<dbVars, jrVars, superVars, pc, loc, histVars, faultVars>>
-----------------------------------------------------------------------------
(* Writing *)

\* The first change of file f: RESERVED, and a journal without a header that
\* counts.  A journal that is there already is overwritten: with ShortJournals
\* it may be longer than the new one and keep its tail.
BeginWrite(c, f) ==
  /\ c \in Writers /\ pc[c] = "idle" /\ lock[c][f] = SHARED_LOCK
  /\ \A d \in Others(c) : lock[d][f] < RESERVED_LOCK
  /\ nTx + (IF Written(c) = {} THEN 1 ELSE 0) <= MaxTx
  /\ Level(c, f, RESERVED_LOCK)
  /\ IF Written(c) = {}
     THEN nTx' = nTx + 1 /\ loc' = [loc EXCEPT ![c].tx = nTx + 1]
     ELSE UNCHANGED <<nTx, loc>>
  /\ \E tail \in {NoSuper} \cup (IF ShortJournals /\ jr[f] # NoFile
                                 THEN {jr[f].super} ELSE {}) :
       JrWrite(f, [hot |-> FALSE, super |-> tail, orig |-> view[c][f]])
  /\ UNCHANGED <<dbVars, superVars, pc, view, committed, maybe, faultVars>>

\* sqlite3PagerExclusiveLock
ExclusiveLock(c, f) ==
  /\ pc[c] \in {"idle", "excl"} /\ lock[c][f] = RESERVED_LOCK
  /\ \A d \in Others(c) : lock[d][f] = NO_LOCK
  /\ Level(c, f, EXCLUSIVE_LOCK)
  /\ UNCHANGED <<dbVars, jrVars, superVars, pc, loc, view, histVars, faultVars>>

\* A page is spilled before the commit: the journal is synced without a name.
Spill(c, f) ==
  /\ pc[c] = "idle" /\ lock[c][f] = EXCLUSIVE_LOCK
  /\ db[f] # Half
  /\ LET j == [jr[f] EXCEPT !.hot = TRUE]
     IN jr' = [jr EXCEPT ![f] = j] /\ jrDisk' = [jrDisk EXCEPT ![f] = Kept({j})]
  /\ DbWrite(f, Half)
  /\ UNCHANGED <<superVars, connVars, histVars, faultVars>>

\* A commit of one file whose deletion is not synced is what RollbackPager is
\* about: without extraSync it is left out here.
Commit(c) ==
  /\ pc[c] = "idle" /\ Written(c) # {}
  /\ ~extraSync => Cardinality(Written(c)) > 1
  /\ loc' = [loc EXCEPT ![c].files = Written(c), ![c].todo = Written(c)]
  /\ Goto(c, "excl")
  /\ UNCHANGED <<dbVars, jrVars, superVars, lock, view, histVars, faultVars>>

\* Mutant: the first phase of the commit waits for one of the files only.
MutAllExclusive(c) == \E f \in loc[c].files : lock[c][f] = EXCLUSIVE_LOCK
AllExclusive(c) == \A f \in loc[c].files : lock[c][f] = EXCLUSIVE_LOCK

Locked(c) ==
  /\ pc[c] = "excl"
  /\ AllExclusive(c)
  /\ Goto(c, IF Cardinality(loc[c].files) > 1 THEN "super" ELSE "phaseOne")
  /\ UNCHANGED <<dbVars, jrVars, superVars, lock, loc, view, histVars,
                 faultVars>>

\* The super-journal has a name of its own and lists the journals.
CreateSuper(c) ==
  /\ pc[c] = "super"
  /\ LET t == loc[c].tx
     IN /\ super' = [u \in DOMAIN super \cup {t} |->
                       IF u = t THEN loc[c].files ELSE super[u]]
        /\ superDisk' = [superDisk EXCEPT ![t] = {FALSE, TRUE}]
  /\ Goto(c, "superSync")
  /\ UNCHANGED <<dbVars, jrVars, lock, loc, view, histVars, faultVars>>

\* Mutant: nothing waits for the super-journal to reach the disk.
MutSyncSuper(c) ==
  /\ pc[c] = "superSync"
  /\ Goto(c, "phaseOne")
  /\ UNCHANGED <<dbVars, jrVars, superVars, lock, loc, view, histVars,
                 faultVars>>
SyncSuper(c) ==
  /\ pc[c] = "superSync"
  /\ superDisk' = [superDisk EXCEPT ![loc[c].tx] = {TRUE}]
  /\ Goto(c, "phaseOne")
  /\ UNCHANGED <<dbVars, jrVars, super, lock, loc, view, histVars, faultVars>>

\* sqlite3BtreeCommitPhaseOne of one file.
PhaseOne(c) ==
  /\ pc[c] = "phaseOne"
  /\ \E f \in loc[c].todo :
       loc' = [loc EXCEPT ![c].cur = f, ![c].todo = @ \ {f}]
  /\ Goto(c, IF Cardinality(loc[c].files) > 1 THEN "name" ELSE "jsync")
  /\ UNCHANGED <<dbVars, jrVars, superVars, lock, view, histVars, faultVars>>

\* Mutant: only the first journal names the super-journal.
MutNamedIn(c, f) ==
  IF loc[c].todo = {} THEN jr[f].super ELSE loc[c].tx
NamedIn(c, f) == loc[c].tx

\* writeSuperJournal, which makes the name the tail of the file.
WriteSuperJournal(c) ==
  /\ pc[c] = "name"
  /\ LET f == loc[c].cur
     IN JrWrite(f, [jr[f] EXCEPT !.super = NamedIn(c, f)])
  /\ Goto(c, "jsync")
  /\ UNCHANGED <<dbVars, superVars, lock, loc, view, histVars, faultVars>>

SyncJournal(c) ==
  /\ pc[c] = "jsync"
  /\ LET j == [jr[loc[c].cur] EXCEPT !.hot = TRUE]
     IN /\ jr' = [jr EXCEPT ![loc[c].cur] = j]
        /\ jrDisk' = [jrDisk EXCEPT ![loc[c].cur] = Kept({j})]
  /\ Goto(c, "write")
  /\ UNCHANGED <<dbVars, superVars, lock, loc, view, histVars, faultVars>>

WritePages(c) ==
  /\ pc[c] = "write"
  /\ \E image \in {Half, loc[c].tx} :
       /\ DbWrite(loc[c].cur, image)
       /\ Goto(c, IF image = Half THEN "write" ELSE "dbsync")
  /\ UNCHANGED <<jrVars, superVars, lock, loc, view, histVars, faultVars>>

SyncDatabase(c) ==
  /\ pc[c] = "dbsync"
  /\ DbSync(loc[c].cur)
  /\ Goto(c, IF loc[c].todo # {} THEN "phaseOne"
             ELSE IF Cardinality(loc[c].files) > 1 THEN "del" ELSE "phaseTwo")
  /\ loc' = [loc EXCEPT ![c].todo = IF @ = {} THEN loc[c].files ELSE @,
                        ![c].ending = IF loc[c].todo = {} THEN "commit" ELSE @]
  /\ UNCHANGED <<jrVars, superVars, lock, view, histVars, faultVars>>

Image(c) == [f \in File |-> IF f \in loc[c].files THEN loc[c].tx
                            ELSE committed[f]]

\* The sync of a commit settles it, unless an earlier one is still uncertain.
Settled == IF Cardinality(maybe) = 2 THEN {committed} ELSE maybe

\* The super-journal is unlinked: the transaction is committed.
DeleteSuper(c) ==
  /\ pc[c] = "del"
  /\ super' = Without(loc[c].tx)
  /\ superDisk' = [superDisk EXCEPT ![loc[c].tx] = {FALSE, TRUE}]
  /\ committed' = Image(c) /\ maybe' = maybe \cup {Image(c)}
  /\ Goto(c, "delSync")
  /\ UNCHANGED <<dbVars, jrVars, lock, loc, view, nTx, faultVars>>

SyncDirectory(c) ==
  /\ pc[c] = "delSync"
  /\ superDisk' = [superDisk EXCEPT ![loc[c].tx] = {FALSE}]
  /\ maybe' = Settled
  /\ Goto(c, "phaseTwo")
  /\ UNCHANGED <<dbVars, jrVars, super, lock, loc, view, committed, nTx,
                 faultVars>>

PhaseTwo(c) ==
  /\ pc[c] = "phaseTwo" /\ loc[c].todo # {}
  /\ \E f \in loc[c].todo :
       loc' = [loc EXCEPT ![c].cur = f, ![c].todo = @ \ {f}]
  /\ Goto(c, "finalize")
  /\ UNCHANGED <<dbVars, jrVars, superVars, lock, view, histVars, faultVars>>
-----------------------------------------------------------------------------
(* Rolling back *)

PhaseOnePcs == {"excl", "super", "superSync", "phaseOne", "name", "jsync",
                "write", "dbsync", "del", "delSync"}

\* A step of the commit fails, or a rollback is asked for: every file is
\* rolled back.  A super-journal that could not be synced is deleted; an error
\* of SyncDirectory comes after the commit.
Fail(c) ==
  /\ nFailures < MaxFailures
  /\ pc[c] \in PhaseOnePcs \cup {"idle"} /\ Written(c) # {}
  /\ nFailures' = nFailures + 1
  /\ loc' = [loc EXCEPT ![c].todo = Written(c), ![c].ending = "rollback"]
  /\ IF pc[c] = "superSync"
     THEN /\ super' = Without(loc[c].tx)
          /\ superDisk' = [superDisk EXCEPT ![loc[c].tx] = @ \cup {FALSE}]
     ELSE UNCHANGED superVars
  /\ Goto(c, "rollback")
  /\ UNCHANGED <<dbVars, jrVars, lock, view, histVars, nDeaths, nLosses>>

\* sqlite3PagerRollback of one file.
RollbackFile(c) ==
  /\ pc[c] = "rollback" /\ loc[c].todo # {}
  /\ \E f \in loc[c].todo :
       loc' = [loc EXCEPT ![c].cur = f, ![c].todo = @ \ {f}]
  /\ Goto(c, "check")
  /\ UNCHANGED <<dbVars, jrVars, superVars, lock, view, histVars, faultVars>>

SuperExists(j) == j.super = NoSuper \/ j.super \in DOMAIN super

\* pager_playback: a journal whose super-journal is gone is not played back.
CheckSuper(c) ==
  /\ pc[c] = "check"
  /\ loc' = [loc EXCEPT ![c].play = SuperExists(jr[loc[c].cur])]
  /\ Goto(c, "play")
  /\ UNCHANGED <<dbVars, jrVars, superVars, lock, view, histVars, faultVars>>

PlayBack(c) ==
  /\ pc[c] = "play"
  /\ LET f == loc[c].cur
     IN IF ~loc[c].play \/ ~jr[f].hot \/ db[f] = jr[f].orig
        THEN Goto(c, "sync") /\ UNCHANGED dbVars
        ELSE \E image \in {Half, jr[f].orig} :
               /\ db[f] # image
               /\ DbWrite(f, image)
               /\ Goto(c, IF image = Half THEN "play" ELSE "sync")
  /\ UNCHANGED <<jrVars, superVars, lock, loc, view, histVars, faultVars>>

SyncPlayed(c) ==
  /\ pc[c] = "sync"
  /\ DbSync(loc[c].cur)
  /\ Goto(c, "finalize")
  /\ UNCHANGED <<jrVars, superVars, lock, loc, view, histVars, faultVars>>
-----------------------------------------------------------------------------
(* pager_end_transaction *)

Single(c) == loc[c].ending = "commit" /\ Cardinality(loc[c].files) = 1

\* A journal that names a super-journal is truncated, and so is one that has
\* been played back to its end.  A recovery that has not read a header yet
\* leaves the file alone, because journalOff is still zero.
EndedJournal(c, j) ==
  IF journalMode[c] = "DELETE" THEN NoFile
  ELSE IF Single(c) THEN [j EXCEPT !.hot = FALSE]
  ELSE IF loc[c].ending = "hot" /\ ~loc[c].play THEN j
  ELSE [j EXCEPT !.hot = FALSE, !.super = NoSuper]

Finalize(c) ==
  /\ pc[c] = "finalize"
  /\ JrWrite(loc[c].cur, EndedJournal(c, jr[loc[c].cur]))
  /\ IF Single(c)
     THEN committed' = Image(c) /\ maybe' = maybe \cup {Image(c)}
     ELSE UNCHANGED <<committed, maybe>>
  /\ loc' = [loc EXCEPT ![c].kids =
       IF loc[c].ending # "commit" /\ loc[c].play
          /\ jr[loc[c].cur].super \in DOMAIN super
       THEN super[jr[loc[c].cur].super] ELSE {},
       ![c].tx = IF loc[c].ending # "commit" THEN jr[loc[c].cur].super ELSE @]
  /\ Goto(c, "endSync")
  /\ UNCHANGED <<dbVars, superVars, lock, view, nTx, faultVars>>

\* The lock goes back to SHARED.
EndSync(c) ==
  /\ pc[c] = "endSync"
  /\ IF extraSync \/ journalMode[c] = "PERSIST" THEN JrSync(loc[c].cur)
     ELSE UNCHANGED jrVars
  /\ maybe' = IF Single(c) THEN Settled ELSE maybe
  /\ Level(c, loc[c].cur, SHARED_LOCK)
  /\ view' = [view EXCEPT ![c][loc[c].cur] = db[loc[c].cur]]
  /\ Goto(c, "kids")
  /\ UNCHANGED <<dbVars, superVars, loc, committed, nTx, faultVars>>

\* What follows the end of the transaction in one of its files.
NextFile(c) ==
  IF loc[c].ending = "hot" THEN "idle"
  ELSE IF loc[c].ending = "commit" THEN "phaseTwo" ELSE "rollback"

\* Mutant: every child is taken for finished.
MutNames(g, t) == FALSE
Names(g, t) == jr[g] # NoFile /\ jr[g].super = t

\* pager_delsuper looks at the children one by one; one that still names the
\* super-journal needs it.
CheckChild(c) ==
  /\ pc[c] = "kids" /\ loc[c].kids # {}
  /\ \E g \in loc[c].kids :
       IF Names(g, loc[c].tx)
       THEN /\ loc' = [loc EXCEPT ![c].kids = {}]
            /\ Goto(c, NextFile(c))
            /\ UNCHANGED superVars
       ELSE /\ loc' = [loc EXCEPT ![c].kids = @ \ {g}]
            /\ IF loc[c].kids = {g}
               THEN /\ Goto(c, NextFile(c))
                    /\ super' = Without(loc[c].tx)
                    /\ superDisk' = [superDisk EXCEPT ![loc[c].tx] =
                                       @ \cup {FALSE}]
               ELSE UNCHANGED <<pc, superVars>>
  /\ UNCHANGED <<dbVars, jrVars, lock, view, histVars, faultVars>>

NoChildren(c) ==
  /\ pc[c] = "kids" /\ loc[c].kids = {}
  /\ Goto(c, NextFile(c))
  /\ UNCHANGED <<dbVars, jrVars, superVars, lock, loc, view, histVars,
                 faultVars>>

\* All files are done: the statement ends and gives its locks back.
EndTransaction(c) ==
  /\ pc[c] \in {"phaseTwo", "rollback"} /\ loc[c].todo = {}
  /\ Goto(c, "idle") /\ loc' = [loc EXCEPT ![c] = Idle]
  /\ lock' = [lock EXCEPT ![c] = [f \in File |-> NO_LOCK]]
  /\ view' = [view EXCEPT ![c] = [f \in File |-> Half]]
  /\ UNCHANGED <<dbVars, jrVars, superVars, histVars, faultVars>>
-----------------------------------------------------------------------------
(* Failures *)

Die(c) ==
  /\ nDeaths < MaxDeaths
  /\ pc[c] = "idle" => Written(c) # {}
  /\ nDeaths' = nDeaths + 1
  /\ Goto(c, "idle") /\ loc' = [loc EXCEPT ![c] = Idle]
  /\ lock' = [lock EXCEPT ![c] = [f \in File |-> NO_LOCK]]
  /\ view' = [view EXCEPT ![c] = [f \in File |-> Half]]
  /\ UNCHANGED <<dbVars, jrVars, superVars, histVars, nLosses, nFailures>>

Uncertain  == Cardinality(maybe) > 1
Finalizing == \E c \in Conn : \/ pc[c] = "delSync"
                              \/ pc[c] = "endSync" /\ Single(c)

\* The disk keeps any of the contents written since the last sync.  A commit
\* whose process died, or had an error, before the directory was synced is
\* seen by others and may yet be undone, in some of its files: without
\* LoseUnsynced the power stays on then.
PowerLoss ==
  /\ nLosses < MaxPowerLoss
  /\ Uncertain /\ ~LoseUnsynced => Finalizing /\ Cardinality(maybe) = 2
  /\ nLosses' = nLosses + 1
  /\ \E d \in [File -> UNION {dbDisk[f] : f \in File}],
        j \in [File -> UNION {jrDisk[f] : f \in File}],
        s \in SUBSET {t \in Tx : TRUE \in superDisk[t]} :
       /\ \A f \in File : d[f] \in dbDisk[f] /\ j[f] \in jrDisk[f]
       /\ \A t \in Tx \ s : FALSE \in superDisk[t]
       /\ db' = d /\ jr' = j
       /\ super' = [t \in s |-> File]
       /\ committed' = Recovered(d, j, s)
  /\ maybe' = maybe \cap {committed'}
  /\ dbDisk' = [f \in File |-> KeptAfter(nLosses', {db'[f]})]
  /\ jrDisk' = [f \in File |-> KeptAfter(nLosses', {jr'[f]})]
  /\ superDisk' = [t \in Tx |-> {t \in DOMAIN super'}]
  /\ pc' = [c \in Conn |-> "idle"] /\ loc' = [c \in Conn |-> Idle]
  /\ lock' = [c \in Conn |-> [f \in File |-> NO_LOCK]]
  /\ view' = [c \in Conn |-> [f \in File |-> Half]]
  /\ UNCHANGED <<nTx, nDeaths, nFailures>>

Step(c) ==
  \/ EndRead(c) \/ Commit(c) \/ Locked(c) \/ CreateSuper(c)
  \/ SyncSuper(c) \/ PhaseOne(c) \/ WriteSuperJournal(c)
  \/ SyncJournal(c) \/ WritePages(c) \/ SyncDatabase(c)
  \/ DeleteSuper(c) \/ SyncDirectory(c) \/ PhaseTwo(c)
  \/ Fail(c) \/ RollbackFile(c) \/ CheckSuper(c) \/ PlayBack(c)
  \/ SyncPlayed(c) \/ Finalize(c) \/ EndSync(c) \/ CheckChild(c)
  \/ NoChildren(c) \/ EndTransaction(c) \/ Die(c)
  \/ \E f \in File : \/ BeginRead(c, f) \/ BeginRecovery(c, f)
                     \/ BeginWrite(c, f) \/ ExclusiveLock(c, f)
                     \/ Spill(c, f)

Next == (\E c \in Conn : Step(c)) \/ PowerLoss

Spec == Init /\ [][Next]_vars
-----------------------------------------------------------------------------
(* Properties *)

\* Every variable keeps its type, and a commit of several files goes through
\* its first phase with EXCLUSIVE on each of them: vdbeCommit gets all the locks
\* before it writes the name of the super-journal anywhere.
TypeOK ==
  /\ db \in [File -> 0..MaxTx \cup {Half}]
  /\ jr \in [File -> Journals]
  /\ DOMAIN super \subseteq Tx
  /\ \A t \in DOMAIN super : super[t] \subseteq File
  /\ pc \in [Conn -> Pcs]
  /\ lock \in [Conn -> [File -> NO_LOCK..EXCLUSIVE_LOCK]]
  /\ committed \in [File -> 0..MaxTx]
  /\ \A c \in Conn : pc[c] \in PhaseOnePcs \ {"excl"} =>
       \A f \in loc[c].files : lock[c][f] = EXCLUSIVE_LOCK

\* If every process died now, its files would be recovered, in whatever order
\* and by whomever, to the images after the last committed transaction: all of
\* its files or none, although their journals go one by one.
RecoveryIsExact == Recovered(db, jr, DOMAIN super) = committed

\* A power loss leaves all files before or all files after the transaction
\* that was being committed.
PowerLossIsAtomic == committed \in maybe

\* A connection that reads several files sees all of a transaction or none of
\* it, although phase two gives the files back one by one.
ReaderSeesCommitted ==
  \A c \in Conn, f \in File :
    pc[c] = "idle" /\ lock[c][f] = SHARED_LOCK => view[c][f] = committed[f]

\* A super-journal is not deleted while a journal still needs it: only the
\* commit may make the images that recovery finds other ones.
OnlyCommitCommits ==
  [][super' # super /\ committed' = committed =>
       Recovered(db', jr', DOMAIN super')
         = Recovered(db, jr, DOMAIN super)]_vars
=============================================================================
