---------------------------- MODULE MultiCommitProofs ----------------------------
(***************************************************************************)
(* Why a transaction over several files is in all of them or in none.      *)
(* IInv is the inductive invariant: a file that is not as committed has    *)
(* journals that bring it back and a super-journal that stands (Guarded),  *)
(* each connection knows how far its commit, rollback or recovery has come *)
(* (ConnInv), the journals that a power loss may leave restore the images  *)
(* before the only commit that is uncertain (DiskInv).  The proof splits a *)
(* step of c in what it leaves to the other connections (OthersKeep), to c *)
(* itself (OwnKeep), and to the files and the disk.                        *)
(***************************************************************************)
EXTENDS MultiCommit, TLAPS, FiniteSetTheorems

\* A new journal of this model is not shorter than the one it replaces, and the
\* power stays on when a process dies between a deletion and its sync.  The
\* other cases lose the atomicity of a commit; see the constants.
Sound == ~ShortJournals /\ ~LoseUnsynced

\* The commit of c needs a super-journal.
MultiTx(c) == Cardinality(loc[c].files) > 1

\* What is seen of a file now, or may be after a power loss.
DbSeen(f) == dbDisk[f] \cup {db[f]}
JrSeen(f) == jrDisk[f] \cup {jr[f]}

\* Nothing but the committed image is seen of f, now or after a power loss.
Clean(f) == DbSeen(f) \subseteq {committed[f]}

\* The types of the locals and of the locks.
Endings == {"none", "commit", "rollback", "hot"}
Locs == [tx : 0..MaxTx, files : SUBSET File, todo : SUBSET File,
         cur : File \cup {NoFile}, play : BOOLEAN, kids : SUBSET File,
         ending : Endings]
Locks == {NO_LOCK, SHARED_LOCK, RESERVED_LOCK, EXCLUSIVE_LOCK}
Images == 0..MaxTx \cup {Half}

\* The types of the variables.
FileTypes ==
  /\ db \in [File -> Images] /\ dbDisk \in [File -> SUBSET Images]
  /\ jr \in [File -> Journals] /\ jrDisk \in [File -> SUBSET Journals]
SuperTypes ==
  /\ DOMAIN super \subseteq Tx
  /\ \A t \in DOMAIN super : super[t] \subseteq File
  /\ superDisk \in [Tx -> SUBSET BOOLEAN]
ConnTypes ==
  /\ pc \in [Conn -> Pcs] /\ loc \in [Conn -> Locs]
  /\ lock \in [Conn -> [File -> Locks]] /\ view \in [Conn -> [File -> Images]]
HistTypes ==
  /\ committed \in [File -> 0..MaxTx]
  /\ maybe \subseteq [File -> 0..MaxTx] /\ IsFiniteSet(maybe)
  /\ nTx \in 0..MaxTx /\ nLosses \in Nat
TypeInv == FileTypes /\ SuperTypes /\ ConnTypes /\ HistTypes

\* At most one connection may write a file, and nobody reads it under EXCLUSIVE.
LockInv ==
  \A c, d \in Conn, f \in File :
    c # d => /\ lock[c][f] >= RESERVED_LOCK => lock[d][f] < RESERVED_LOCK
             /\ lock[c][f] = EXCLUSIVE_LOCK => lock[d][f] = NO_LOCK

\* Journal j alone brings f back to what is committed.
Restores(j, f) ==
  /\ j # NoFile /\ j.hot /\ j.orig = committed[f]
  /\ j.super \in {NoSuper, jr[f].super}
\* Super-journal t is there, and a power loss leaves it.
Stands(t) == t # NoSuper => t \in DOMAIN super /\ superDisk[t] \subseteq {TRUE}

\* A file that is not as committed is brought back by every journal it may have.
\* A journal that would be played back now does no harm.
Guarded(f) == ~Clean(f) => /\ \A j \in JrSeen(f) : Restores(j, f)
                           /\ Stands(jr[f].super)
Exact(f) == Played(jr[f], DOMAIN super) => jr[f].orig = committed[f]
FileInv == \A f \in File : Guarded(f) /\ Exact(f)

\* Names are those of transactions that have begun; nothing is known on disk of
\* later ones, and a super-journal lists the files whose journals name it.
NameInv ==
  /\ \A f \in File : \A j \in JrSeen(f) : j # NoFile => j.super <= nTx
  /\ \A f \in File : jr[f] # NoFile /\ jr[f].super \in DOMAIN super =>
       f \in super[jr[f].super]
  /\ \A t \in DOMAIN super : t <= nTx
  /\ \A t \in Tx : t > nTx => superDisk[t] \subseteq {FALSE}
  /\ \A m \in maybe, f \in File : m[f] <= nTx

\* What c may rely on by the lock it has of a file.
LevelInv(c) ==
  \A f \in File :
    /\ lock[c][f] \in {SHARED_LOCK, RESERVED_LOCK} => Clean(f)
    /\ lock[c][f] = SHARED_LOCK => view[c][f] = committed[f]
    /\ lock[c][f] = RESERVED_LOCK => ~HotJournal(f)

\* Connection c has a transaction that is not committed.
OnePcs == PhaseOnePcs \ {"delSync"}
Waits(c) ==
  /\ Single(c)
  /\ \/ pc[c] = "phaseTwo" /\ loc[c].todo # {}
     \/ pc[c] = "finalize"
Works(c) ==
  \/ pc[c] = "idle" /\ Written(c) # {}
  \/ pc[c] \in OnePcs
  \/ Waits(c)

\* Where a file is at hand, and where the super-journal must stand.
CurPcs == {"name", "jsync", "write", "dbsync"}
LatePcs == {"phaseOne", "del"} \cup CurPcs

\* How far the commit has come with a file: its journal is synced with the right
\* tail, and then the file itself is written and synced.
Tail(c) == IF MultiTx(c) THEN loc[c].tx ELSE NoSuper
Journaled(c, f) ==
  /\ JrSeen(f) \subseteq {jr[f]} /\ HotJournal(f) /\ jr[f].super = Tail(c)
Done(c, f) == Journaled(c, f) /\ DbSeen(f) \subseteq {loc[c].tx}

\* What is the transaction's own: its number is in no image and in no journal but
\* those of its files, which restore what is committed.
OwnInv(c) ==
  /\ loc[c].tx \in 1..nTx
  /\ \A m \in maybe, f \in File : m[f] # loc[c].tx
  /\ \A f \in File : \A j \in JrSeen(f) : j # NoFile /\ j.super = loc[c].tx =>
       /\ f \in Written(c)
       /\ pc[c] \notin {"idle", "excl", "super", "superSync"}
  /\ pc[c] # "idle" => loc[c].files = Written(c) /\ loc[c].files # {}
  /\ \A f \in Written(c) : /\ jr[f] # NoFile /\ jr[f].orig = committed[f]
                           /\ jr[f].super \in {NoSuper, loc[c].tx}

\* What each step of the first phase can rely on.
StepInv(c) ==
  /\ pc[c] \notin {"idle", "excl"} =>
       \A f \in loc[c].files : lock[c][f] = EXCLUSIVE_LOCK
  /\ pc[c] \in OnePcs => loc[c].todo \subseteq loc[c].files
  /\ pc[c] \in {"excl", "super", "superSync", "del", "phaseTwo"} =>
       loc[c].todo = loc[c].files
  /\ pc[c] \in {"super", "superSync", "name", "del"} => MultiTx(c)
  /\ pc[c] = "superSync" \/ (pc[c] \in LatePcs /\ MultiTx(c)) =>
       /\ loc[c].tx \in DOMAIN super
       /\ super[loc[c].tx] = loc[c].files
  /\ pc[c] \in LatePcs /\ MultiTx(c) => superDisk[loc[c].tx] \subseteq {TRUE}
  /\ pc[c] \in CurPcs => loc[c].cur \in loc[c].files \ loc[c].todo
  /\ pc[c] = "phaseOne" => loc[c].todo # {}
  /\ pc[c] = "del" => loc[c].ending = "commit"
  /\ pc[c] = "finalize" => loc[c].files = {loc[c].cur}
  /\ pc[c] # "idle" => MultiTx(c) \/ extraSync

\* The files that the first phase has still to write.
NotDone(c) ==
  IF pc[c] \in CurPcs THEN loc[c].todo \cup {loc[c].cur}
  ELSE IF pc[c] = "phaseOne" THEN loc[c].todo
  ELSE IF pc[c] \in {"del", "phaseTwo", "finalize"} THEN {}
  ELSE loc[c].files

\* The files whose journal does not name the super-journal yet.
NotNamed(c) ==
  IF pc[c] = "idle" THEN Written(c)
  ELSE IF pc[c] \in {"jsync", "write", "dbsync"} THEN loc[c].todo
  ELSE NotDone(c)

\* The files behind the first phase are done, and those before it are unnamed.
ProgressInv(c) ==
  /\ pc[c] # "idle" => \A f \in loc[c].files \ NotDone(c) : Done(c, f)
  /\ \A f \in NotNamed(c) : jr[f].super = NoSuper
  /\ pc[c] = "jsync" => jr[loc[c].cur].super = Tail(c)
  /\ pc[c] \in {"write", "dbsync"} => Journaled(c, loc[c].cur)
  /\ pc[c] = "dbsync" => db[loc[c].cur] = loc[c].tx

\* All of this while the transaction is not committed.
WorkInv(c) == Works(c) => OwnInv(c) /\ StepInv(c) /\ ProgressInv(c)

\* The files a commit of several files has still to give back.
TwoPcs == {"delSync", "phaseTwo", "finalize", "endSync", "kids"}
FinishInv(c) ==
  /\ pc[c] \in TwoPcs /\ loc[c].ending = "commit" /\ ~Waits(c) =>
       \A f \in loc[c].todo : /\ Clean(f) /\ lock[c][f] = EXCLUSIVE_LOCK
                              /\ jr[f] # NoFile
  /\ pc[c] = "delSync" =>
       /\ loc[c].todo = Written(c) /\ loc[c].files = Written(c)
       /\ loc[c].ending = "commit" /\ MultiTx(c)
       /\ loc[c].tx \in 1..nTx /\ loc[c].tx \notin DOMAIN super
       /\ \A f \in loc[c].files : \A j \in JrSeen(f) :
            j # NoFile /\ j.hot /\ j.super = loc[c].tx
  /\ pc[c] = "phaseTwo" => loc[c].ending = "commit"
  /\ pc[c] \in {"finalize", "endSync", "kids"} /\ Single(c) => loc[c].todo = {}
  /\ pc[c] = "endSync" /\ Single(c) =>
       /\ loc[c].files = {loc[c].cur} /\ extraSync
       /\ jr[loc[c].cur] # NoFile => ~jr[loc[c].cur].hot

\* The file whose transaction is being ended is locked, and is as committed
\* before its journal goes.
EndPcs == {"check", "play", "sync", "finalize", "endSync"}
CurInv(c) ==
  pc[c] \in EndPcs =>
    /\ loc[c].cur \in File /\ lock[c][loc[c].cur] >= RESERVED_LOCK
    /\ loc[c].cur \notin loc[c].todo
    /\ pc[c] \in {"check", "play", "sync"} => loc[c].ending \in {"hot", "rollback"}
    /\ pc[c] # "endSync" => jr[loc[c].cur] # NoFile
    /\ pc[c] \in {"play", "sync", "finalize"} /\ loc[c].ending # "commit" =>
         loc[c].play = SuperExists(jr[loc[c].cur])
    /\ pc[c] = "sync" => db[loc[c].cur] = committed[loc[c].cur]
    /\ pc[c] \in {"finalize", "endSync"} /\ ~Waits(c) => Clean(loc[c].cur)

\* What the rollback or the recovery has still to do.
RollInv(c) ==
  /\ pc[c] = "rollback" => loc[c].ending = "rollback"
  /\ pc[c] \in EndPcs \cup {"rollback", "kids"} /\ loc[c].ending = "rollback" =>
       \A f \in loc[c].todo : lock[c][f] >= RESERVED_LOCK /\ jr[f] # NoFile
  /\ pc[c] \in EndPcs /\ loc[c].ending = "hot" => Written(c) = {loc[c].cur}
  /\ pc[c] = "kids" /\ loc[c].ending = "hot" => Written(c) = {}
  /\ pc[c] \in EndPcs \cup {"kids"} => loc[c].ending # "none"
  /\ loc[c].ending = "commit" => pc[c] \in {"del"} \cup TwoPcs

\* No journal but those still to be looked at needs the super-journal.
KidsLeft(c) == pc[c] \in {"endSync", "kids"} /\ loc[c].kids # {}
KidsInv(c) ==
  KidsLeft(c) =>
    /\ loc[c].tx \in 1..nTx /\ loc[c].ending # "commit"
    /\ \A g \in File : Names(g, loc[c].tx) => g \in loc[c].kids

\* No two connections act for one transaction.
Busy(c) == Works(c) \/ pc[c] = "delSync" \/ KidsLeft(c)
PairInv ==
  \A c, d \in Conn : c # d /\ Works(c) /\ Busy(d) => loc[c].tx # loc[d].tx

\* The invariant of a connection.
ConnInv(c) ==
  /\ LevelInv(c) /\ WorkInv(c) /\ FinishInv(c) /\ CurInv(c) /\ RollInv(c)
  /\ KidsInv(c)

\* The deletion that commits has been made and not been synced.
Pending(c) == \/ pc[c] = "delSync"
              \/ pc[c] = "endSync" /\ Single(c)
\* At most that commit is uncertain, if two images may be left.
PendInv ==
  /\ committed \in maybe
  /\ \A c \in Conn : Pending(c) => Cardinality(maybe) >= 2
  /\ Cardinality(maybe) = 2 => \A c, d \in Conn : Pending(c) /\ Pending(d) => c = d
  /\ Cardinality(maybe) = 2 => \A c \in Conn : Pending(c) =>
       \A m \in maybe : \A f \in File \ loc[c].files : m[f] = committed[f]

\* The states in which the power may go, see PowerLoss.
Trusted == \/ Cardinality(maybe) = 1
           \/ Cardinality(maybe) = 2 /\ \E c \in Conn : Pending(c)
\* Journal j may be played back after a power loss, and what all those restore.
MayPlay(j) == /\ j # NoFile /\ j.hot
              /\ j.super = NoSuper \/ TRUE \in superDisk[j.super]
Undoes(m) == \A f \in File : \A j \in JrSeen(f) : MayPlay(j) => j.orig = m[f]
\* The journals that a power loss may leave restore the images before the
\* uncertain commit, or what is committed if none is uncertain.
DiskInv ==
  Trusted => \A m \in maybe : m # committed \/ maybe = {m} => Undoes(m)

\* The inductive invariant.
IInv ==
  /\ TypeInv /\ LockInv /\ FileInv /\ NameInv /\ PairInv /\ PendInv /\ DiskInv
  /\ \A c \in Conn : ConnInv(c)

USE DEF NO_LOCK, SHARED_LOCK, RESERVED_LOCK, EXCLUSIVE_LOCK
-----------------------------------------------------------------------------
(* Values *)

\* What the assumption says of the constants, one at a time.
LEMMA Constants ==
  /\ IsFiniteSet(File) /\ Writers \subseteq Conn
  /\ MaxTx \in Nat /\ MaxDeaths \in Nat /\ MaxPowerLoss \in Nat
  /\ journalMode \in [Conn -> {"DELETE", "PERSIST"}] /\ extraSync \in BOOLEAN
  /\ NoFile \notin [hot : BOOLEAN, super : Nat, orig : Nat]
BY MultiAssumption

\* What a journal that is there is made of.
LEMMA JournalFields ==
  ASSUME NEW j \in Journals, j # NoFile
  PROVE  /\ j \in [hot : BOOLEAN, super : Tx \cup {NoSuper}, orig : 0..MaxTx]
         /\ j.hot \in BOOLEAN /\ j.super \in Tx \cup {NoSuper}
         /\ j.super \in Nat /\ j.orig \in 0..MaxTx
BY Constants DEF Journals, Tx, NoSuper

\* Any three fields make a journal, which is not the missing one.
LEMMA MakeJournal ==
  ASSUME NEW h \in BOOLEAN, NEW t \in Tx \cup {NoSuper}, NEW o \in 0..MaxTx
  PROVE  /\ [hot |-> h, super |-> t, orig |-> o] \in Journals
         /\ [hot |-> h, super |-> t, orig |-> o] # NoFile
<1>2. [hot |-> h, super |-> t, orig |-> o] \in [hot : BOOLEAN, super : Nat, orig : Nat]
  BY Constants DEF Tx, NoSuper
<1>. QED
  BY <1>2, Constants DEF Journals

\* A journal with another field is a journal still.
LEMMA ChangeJournal ==
  ASSUME NEW j \in Journals, j # NoFile, NEW h \in BOOLEAN,
         NEW t \in Tx \cup {NoSuper}
  PROVE  /\ [j EXCEPT !.hot = h] = [hot |-> h, super |-> j.super, orig |-> j.orig]
         /\ [j EXCEPT !.super = t] = [hot |-> j.hot, super |-> t, orig |-> j.orig]
         /\ [j EXCEPT !.hot = h, !.super = t]
              = [hot |-> h, super |-> t, orig |-> j.orig]
<1>1. PICK a \in BOOLEAN, u \in Tx \cup {NoSuper}, o \in 0..MaxTx :
        j = [hot |-> a, super |-> u, orig |-> o]
  BY JournalFields
<1>2. j.super = u /\ j.orig = o /\ j.hot = a
  BY <1>1
<1>3. [j EXCEPT !.hot = h] = [hot |-> h, super |-> u, orig |-> o]
  BY <1>1
<1>4. [j EXCEPT !.super = t] = [hot |-> a, super |-> t, orig |-> o]
  BY <1>1
<1>5. [j EXCEPT !.hot = h, !.super = t] = [[j EXCEPT !.hot = h] EXCEPT !.super = t]
  BY <1>1
<1>6. [[hot |-> h, super |-> u, orig |-> o] EXCEPT !.super = t]
        = [hot |-> h, super |-> t, orig |-> o]
  OBVIOUS
<1>7. [j EXCEPT !.hot = h, !.super = t] = [hot |-> h, super |-> t, orig |-> o]
  BY <1>3, <1>5, <1>6
<1>. QED
  BY <1>2, <1>3, <1>4, <1>7

\* The types, one at a time.
LEMMA Types ==
  ASSUME TypeInv, NEW c \in Conn, NEW f \in File
  PROVE  /\ lock[c][f] \in {0, 1, 2, 4} /\ loc[c] \in Locs /\ pc[c] \in Pcs
         /\ loc[c].tx \in 0..MaxTx /\ loc[c].files \subseteq File
         /\ loc[c].todo \subseteq File /\ loc[c].kids \subseteq File
         /\ loc[c].play \in BOOLEAN
         /\ loc[c].cur \in File \cup {NoFile}
         /\ loc[c].ending \in {"none", "commit", "rollback", "hot"}
         /\ db[f] \in Images /\ jr[f] \in Journals /\ committed[f] \in 0..MaxTx
         /\ view[c][f] \in Images /\ DbSeen(f) \subseteq Images
         /\ JrSeen(f) \subseteq Journals /\ MaxTx \in Nat /\ nTx \in Nat
BY Constants DEF TypeInv, FileTypes, SuperTypes, ConnTypes, HistTypes, Locks,
  Locs, Endings, DbSeen, JrSeen

\* A commit or a rollback works on files that it has locked and that have a
\* journal.
LEMMA WrittenHere ==
  ASSUME TypeInv, NEW c \in Conn, ConnInv(c),
         pc[c] \in PhaseOnePcs \cup {"idle"}, NEW f \in Written(c)
  PROVE  f \in File /\ jr[f] # NoFile /\ lock[c][f] \in {2, 4}
<1>1. f \in File /\ lock[c][f] \in {2, 4}
  BY Types DEF Written
<1>2. CASE pc[c] = "delSync"
  <2>. USE DEF ConnInv, FinishInv, WorkInv, Works
  <2>1. /\ pc[c] \in TwoPcs /\ loc[c].ending = "commit" /\ ~Waits(c)
        /\ f \in loc[c].todo
    BY <1>2 DEF ConnInv, FinishInv, Waits, TwoPcs
  <2>. QED
    BY <1>1, <1>2, <2>1 DEF ConnInv, FinishInv
<1>3. CASE pc[c] # "delSync"
  <2>1. Works(c)
    BY <1>3 DEF Works, OnePcs, Written, PhaseOnePcs
  <2>. QED
    BY <1>1, <2>1 DEF ConnInv, WorkInv, OwnInv
<1>. QED
  BY <1>2, <1>3

\* The file that a connection is at, and those it has still to do, are there
\* with their journals.
LEMMA CurHere ==
  ASSUME TypeInv, NEW c \in Conn, ConnInv(c),
         pc[c] \in EndPcs \cup CurPcs \cup {"phaseTwo", "rollback"}
  PROVE  /\ pc[c] \in EndPcs \cup CurPcs => loc[c].cur \in File
         /\ pc[c] \in (EndPcs \ {"endSync"}) \cup CurPcs => jr[loc[c].cur] # NoFile
         /\ pc[c] \in {"phaseTwo", "rollback"} =>
              \A f \in loc[c].todo : jr[f] # NoFile
<1>. USE DEF EndPcs, CurPcs
<1>1. CASE pc[c] \in EndPcs
  <2>1. loc[c].cur \in File /\ (pc[c] # "endSync" => jr[loc[c].cur] # NoFile)
    BY <1>1 DEF ConnInv, CurInv
  <2>2. pc[c] \notin CurPcs \cup {"phaseTwo", "rollback"}
    BY <1>1
  <2>. QED
    BY <1>1, <2>1, <2>2
<1>2. CASE pc[c] \in CurPcs
  <2>1. Works(c)
    BY <1>2 DEF Works, OnePcs, PhaseOnePcs
  <2>2. loc[c].cur \in loc[c].files \ loc[c].todo /\ loc[c].files = Written(c)
        /\ loc[c].todo \subseteq loc[c].files
    BY <1>2, <2>1 DEF ConnInv, WorkInv, OwnInv, StepInv, OnePcs, PhaseOnePcs
  <2>3. \A f \in Written(c) : f \in File /\ jr[f] # NoFile
    BY <1>2, WrittenHere DEF PhaseOnePcs
  <2>. QED
    BY <1>2, <2>2, <2>3
<1>3. CASE pc[c] = "phaseTwo"
  <2>1. CASE Works(c)
    <3>1. loc[c].todo = loc[c].files /\ loc[c].files = Written(c)
      BY <1>3, <2>1 DEF ConnInv, WorkInv, OwnInv, StepInv
    <3>. QED
      BY <1>3, <2>1, <3>1 DEF ConnInv, WorkInv, OwnInv
  <2>2. CASE ~Works(c)
    <3>1. ~Waits(c) /\ loc[c].ending = "commit" /\ pc[c] \in TwoPcs
      BY <1>3, <2>2 DEF Works, ConnInv, FinishInv, TwoPcs
    <3>. QED
      BY <1>3, <3>1 DEF ConnInv, FinishInv
  <2>. QED
    BY <2>1, <2>2
<1>4. CASE pc[c] = "rollback"
  BY <1>4 DEF ConnInv, RollInv
<1>. QED
  BY <1>1, <1>2, <1>3, <1>4
-----------------------------------------------------------------------------
(* What a step does to the files *)

DbSame(f) == db'[f] = db[f] /\ dbDisk'[f] = dbDisk[f]
JrSame(f) == jr'[f] = jr[f] /\ jrDisk'[f] = jrDisk[f]
FileSame(f) == DbSame(f) /\ JrSame(f)

\* A write to a database file adds its image and Half to what may be on disk.
LEMMA DbWriteDoes ==
  ASSUME FileTypes, NEW f \in File, NEW image \in Images, DbWrite(f, image)
  PROVE  /\ db' \in [File -> Images] /\ dbDisk' \in [File -> SUBSET Images]
         /\ db'[f] = image /\ DbSeen(f)' \subseteq DbSeen(f) \cup {image, Half}
         /\ \A g \in File : g # f => DbSame(g)
<1>1. Half \in Images
  BY DEF Images
<1>2. db' = [db EXCEPT ![f] = image]
      /\ dbDisk' = [dbDisk EXCEPT ![f] = Kept(dbDisk[f] \cup {image, Half})]
  BY DEF DbWrite
<1>3. Kept(dbDisk[f] \cup {image, Half}) \subseteq dbDisk[f] \cup {image, Half}
  BY DEF Kept, KeptAfter
<1>4. dbDisk[f] \subseteq Images
  BY DEF FileTypes
<1>. HIDE DEF Images
<1>5. db' \in [File -> Images] /\ db'[f] = image
  BY <1>2 DEF FileTypes
<1>6. dbDisk' \in [File -> SUBSET Images]
      /\ dbDisk'[f] \subseteq dbDisk[f] \cup {image, Half}
  BY <1>1, <1>2, <1>3, <1>4 DEF FileTypes
<1>. QED
  BY <1>2, <1>5, <1>6 DEF DbSame, DbSeen, FileTypes

\* A sync leaves on disk nothing but the image that is there.
LEMMA DbSyncDoes ==
  ASSUME FileTypes, NEW f \in File, DbSync(f)
  PROVE  /\ db' \in [File -> Images] /\ dbDisk' \in [File -> SUBSET Images]
         /\ db' = db /\ DbSeen(f)' \subseteq {db[f]}
         /\ \A g \in File : g # f => DbSame(g)
<1>1. db' = db /\ dbDisk' = [dbDisk EXCEPT ![f] = Kept({db[f]})]
  BY DEF DbSync
<1>2. Kept({db[f]}) \subseteq {db[f]} /\ db[f] \in Images
  BY DEF Kept, KeptAfter, FileTypes
<1>3. dbDisk' \in [File -> SUBSET Images] /\ dbDisk'[f] \subseteq {db[f]}
  BY <1>1, <1>2 DEF FileTypes
<1>. QED
  BY <1>1, <1>3 DEF DbSame, DbSeen, FileTypes

\* A write adds to what the disk may hold, a sync leaves nothing else.
JrPut(f, j) ==
  /\ jr' \in [File -> Journals] /\ jrDisk' \in [File -> SUBSET Journals]
  /\ jr'[f] = j
  /\ \A g \in File : g # f => JrSame(g)

\* A write to a journal adds to what may be on disk.
LEMMA JrWriteDoes ==
  ASSUME FileTypes, NEW f \in File, NEW j \in Journals, JrWrite(f, j)
  PROVE  JrPut(f, j) /\ JrSeen(f)' \subseteq JrSeen(f) \cup {j}
<1>1. /\ jr' = [jr EXCEPT ![f] = j]
      /\ jrDisk' = [jrDisk EXCEPT ![f] = Kept(jrDisk[f] \cup {j})]
  BY DEF JrWrite
<1>2. Kept(jrDisk[f] \cup {j}) \subseteq jrDisk[f] \cup {j}
      /\ jrDisk[f] \subseteq Journals
  BY DEF Kept, KeptAfter, FileTypes
<1>3. jrDisk' \in [File -> SUBSET Journals]
      /\ jrDisk'[f] \subseteq jrDisk[f] \cup {j}
  BY <1>1, <1>2 DEF FileTypes
<1>4. jr' \in [File -> Journals] /\ jr'[f] = j
  BY <1>1 DEF FileTypes
<1>. QED
  BY <1>1, <1>3, <1>4 DEF JrPut, JrSame, JrSeen, FileTypes

\* A journal that is written and synced is alone on disk.
LEMMA JrReplaceDoes ==
  ASSUME FileTypes, NEW f \in File, NEW j \in Journals,
         jr' = [jr EXCEPT ![f] = j],
         jrDisk' = [jrDisk EXCEPT ![f] = Kept({j})]
  PROVE  JrPut(f, j) /\ JrSeen(f)' \subseteq {j}
<1>2. Kept({j}) \subseteq {j}
  BY DEF Kept, KeptAfter, FileTypes
<1>3. jrDisk' \in [File -> SUBSET Journals] /\ jrDisk'[f] \subseteq {j}
  BY <1>2 DEF FileTypes
<1>4. jr' \in [File -> Journals] /\ jr'[f] = j
  BY DEF FileTypes
<1>. QED
  BY <1>3, <1>4 DEF JrPut, JrSame, JrSeen, FileTypes

\* A sync of a journal leaves on disk nothing but the journal that is there.
LEMMA JrSyncDoes ==
  ASSUME FileTypes, NEW f \in File, JrSync(f)
  PROVE  JrPut(f, jr[f]) /\ JrSeen(f)' \subseteq {jr[f]}
<1>1. jr[f] \in Journals /\ jr' = [jr EXCEPT ![f] = jr[f]]
  BY DEF FileTypes, JrSync
<1>2. jrDisk' = [jrDisk EXCEPT ![f] = Kept({jr[f]})]
  BY DEF JrSync
<1>. QED
  BY <1>1, <1>2, JrReplaceDoes

\* What is not written is seen as before.
LEMMA FilesStay ==
  ASSUME NEW f \in File
  PROVE  /\ UNCHANGED dbVars => DbSame(f) /\ DbSeen(f)' = DbSeen(f)
         /\ UNCHANGED jrVars => JrSame(f) /\ JrSeen(f)' = JrSeen(f)
         /\ DbSame(f) => DbSeen(f)' = DbSeen(f)
         /\ JrSame(f) => JrSeen(f)' = JrSeen(f)
BY DEF dbVars, jrVars, DbSame, JrSame, DbSeen, JrSeen
-----------------------------------------------------------------------------
(* A step of c changes the locals of c alone *)

OtherSame(c) ==
  \A d \in Conn \ {c} : /\ pc'[d] = pc[d] /\ loc'[d] = loc[d]
                        /\ lock'[d] = lock[d] /\ view'[d] = view[d]

\* Goto moves the program counter of c alone.
LEMMA GotoDoes ==
  ASSUME ConnTypes, NEW c \in Conn, NEW l \in Pcs, Goto(c, l)
  PROVE  /\ pc' \in [Conn -> Pcs] /\ pc'[c] = l
         /\ \A d \in Conn \ {c} : pc'[d] = pc[d]
BY DEF ConnTypes, Goto

\* Level changes one lock of one connection.
LEMMA LevelDoes ==
  ASSUME ConnTypes, NEW c \in Conn, NEW f \in File, NEW l \in Locks, Level(c, f, l)
  PROVE  /\ lock' \in [Conn -> [File -> Locks]] /\ lock'[c][f] = l
         /\ \A g \in File : g # f => lock'[c][g] = lock[c][g]
         /\ \A d \in Conn \ {c} : lock'[d] = lock[d]
BY DEF ConnTypes, Level

\* A connection that unlocks everything leaves the others alone.
LEMMA UnlockDoes ==
  ASSUME ConnTypes, NEW c \in Conn,
         lock' = [lock EXCEPT ![c] = [f \in File |-> NO_LOCK]],
         view' = [view EXCEPT ![c] = [f \in File |-> Half]]
  PROVE  /\ lock' \in [Conn -> [File -> Locks]]
         /\ view' \in [Conn -> [File -> Images]]
         /\ \A f \in File : lock'[c][f] = NO_LOCK
         /\ \A d \in Conn \ {c} : lock'[d] = lock[d] /\ view'[d] = view[d]
<1>1. Half \in Images /\ NO_LOCK \in Locks
  BY DEF Images, Locks
<1>. QED
  BY <1>1 DEF ConnTypes

\* The types of the four variables of the connections.
LEMMA ConnSplit ==
  ASSUME NEW c \in Conn
  PROVE  /\ ConnTypes <=> /\ pc \in [Conn -> Pcs] /\ loc \in [Conn -> Locs]
                          /\ lock \in [Conn -> [File -> Locks]]
                          /\ view \in [Conn -> [File -> Images]]
         /\ UNCHANGED pc => \A d \in Conn \ {c} : pc'[d] = pc[d]
BY DEF ConnTypes

\* The locals of a connection that does nothing have their type.
LEMMA IdleLocs == Idle \in Locs
BY Constants DEF Idle, Locs, Endings

\* The locals keep their types when a commit takes its files,
LEMMA LocBegins ==
  ASSUME loc \in [Conn -> Locs], NEW c \in Conn,
         NEW S \in SUBSET File,
         loc' = [loc EXCEPT ![c].files = S, ![c].todo = S]
  PROVE  loc' \in [Conn -> Locs] /\ \A d \in Conn \ {c} : loc'[d] = loc[d]
<1>1. loc' \in [Conn -> Locs]
  BY ZenonT(30) DEF Locs
<1>. QED
  BY <1>1

\* when a new round over the files begins,
LEMMA LocGoes ==
  ASSUME loc \in [Conn -> Locs], NEW c \in Conn,
         NEW S \in SUBSET File, NEW e \in Endings,
         loc' = [loc EXCEPT ![c].todo = S, ![c].ending = e]
  PROVE  loc' \in [Conn -> Locs] /\ \A d \in Conn \ {c} : loc'[d] = loc[d]
<1>1. loc' \in [Conn -> Locs]
  BY ZenonT(30) DEF Locs
<1>. QED
  BY <1>1

\* when a journal has been judged,
LEMMA LocPlays ==
  ASSUME loc \in [Conn -> Locs], NEW c \in Conn,
         NEW p \in BOOLEAN,
         loc' = [loc EXCEPT ![c].play = p]
  PROVE  loc' \in [Conn -> Locs] /\ \A d \in Conn \ {c} : loc'[d] = loc[d]
<1>1. loc' \in [Conn -> Locs]
  BY DEF Locs
<1>. QED
  BY <1>1

\* when the transaction has ended in a file,
LEMMA LocEnds ==
  ASSUME loc \in [Conn -> Locs], NEW c \in Conn,
         NEW S \in SUBSET File, NEW x \in 0..MaxTx,
         loc' = [loc EXCEPT ![c].kids = S, ![c].tx = x]
  PROVE  loc' \in [Conn -> Locs] /\ \A d \in Conn \ {c} : loc'[d] = loc[d]
<1>1. loc' \in [Conn -> Locs]
  BY ZenonT(30) DEF Locs
<1>. QED
  BY <1>1

\* when a child is looked at,
LEMMA LocKids ==
  ASSUME loc \in [Conn -> Locs], NEW c \in Conn,
         NEW S \in SUBSET File,
         loc' = [loc EXCEPT ![c].kids = S]
  PROVE  loc' \in [Conn -> Locs] /\ \A d \in Conn \ {c} : loc'[d] = loc[d]
<1>1. loc' \in [Conn -> Locs]
  BY DEF Locs
<1>. QED
  BY <1>1

\* when a transaction gets its number,
LEMMA LocStarts ==
  ASSUME loc \in [Conn -> Locs], NEW c \in Conn,
         NEW x \in 0..MaxTx,
         loc' = [loc EXCEPT ![c].tx = x]
  PROVE  loc' \in [Conn -> Locs] /\ \A d \in Conn \ {c} : loc'[d] = loc[d]
<1>1. loc' \in [Conn -> Locs]
  BY DEF Locs
<1>. QED
  BY <1>1

\* and when the next file is taken.
LEMMA LocPicks ==
  ASSUME loc \in [Conn -> Locs], NEW c \in Conn, NEW f \in loc[c].todo,
         loc' = [loc EXCEPT ![c].cur = f, ![c].todo = @ \ {f}]
  PROVE  loc' \in [Conn -> Locs] /\ \A d \in Conn \ {c} : loc'[d] = loc[d]
<1>1. f \in File
  BY DEF Locs
<1>2. loc' \in [Conn -> Locs]
  BY <1>1 DEF Locs
<1>. QED
  BY <1>2

\* A step of c keeps the types and changes nothing of the other connections.
LEMMA ConnStep ==
  ASSUME TypeInv, NEW c \in Conn, ConnInv(c), Step(c)
  PROVE  ConnTypes' /\ OtherSame(c)
<1>. USE DEF OtherSame, TypeInv, connVars
<1>0. /\ pc \in [Conn -> Pcs] /\ loc \in [Conn -> Locs] /\ ConnTypes
      /\ lock \in [Conn -> [File -> Locks]] /\ view \in [Conn -> [File -> Images]]
  BY DEF ConnTypes
<1>z. /\ {"idle", "excl", "super", "superSync", "phaseOne", "name", "jsync",
          "write", "dbsync", "del", "delSync", "phaseTwo", "rollback", "check",
          "play", "sync", "finalize", "endSync", "kids"} = Pcs
      /\ {0, 1, 2, 4} = Locks
  BY DEF Pcs, Locks
<1>y. \A l \in Pcs : Goto(c, l) => /\ pc' \in [Conn -> Pcs]
                                   /\ \A d \in Conn \ {c} : pc'[d] = pc[d]
  BY <1>0, GotoDoes
<1>x. \A f \in File, l \in Locks : Level(c, f, l) =>
        /\ lock' \in [Conn -> [File -> Locks]]
        /\ \A d \in Conn \ {c} : lock'[d] = lock[d]
  BY <1>0, LevelDoes
<1>w. lock' = [lock EXCEPT ![c] = [f \in File |-> NO_LOCK]]
      /\ view' = [view EXCEPT ![c] = [f \in File |-> Half]] =>
        /\ lock' \in [Conn -> [File -> Locks]]
        /\ view' \in [Conn -> [File -> Images]]
        /\ \A d \in Conn \ {c} : lock'[d] = lock[d] /\ view'[d] = view[d]
  BY <1>0, UnlockDoes
<1>v. ASSUME NEW v \in Locs, loc' = [loc EXCEPT ![c] = v]
      PROVE  loc' \in [Conn -> Locs] /\ \A d \in Conn \ {c} : loc'[d] = loc[d]
  BY <1>0, <1>v
<1>u. Idle \in Locs
  BY IdleLocs
<1>. HIDE DEF Pcs, Locks, Locs, TypeInv
<1>1. CASE EndRead(c)
  BY <1>0, <1>w, <1>1 DEF EndRead, ConnTypes
<1>2. CASE Commit(c)
  <2>1. PICK W \in SUBSET File : W = Written(c)
    BY DEF Written
  <2>. HIDE DEF Written
  <2>2. loc' = [loc EXCEPT ![c].files = W, ![c].todo = W]
    BY <1>2, <2>1 DEF Commit
  <2>3. loc' \in [Conn -> Locs] /\ \A d \in Conn \ {c} : loc'[d] = loc[d]
    BY <1>0, <2>1, <2>2, LocBegins
  <2>. QED
    BY <1>0, <1>z, <1>y, <1>2, <2>3 DEF Commit, ConnTypes
<1>3. CASE Locked(c)
  BY <1>0, <1>z, <1>y, <1>3 DEF Locked, ConnTypes
<1>4. CASE CreateSuper(c)
  BY <1>0, <1>z, <1>y, <1>4 DEF CreateSuper, ConnTypes
<1>5. CASE SyncSuper(c)
  BY <1>0, <1>z, <1>y, <1>5 DEF SyncSuper, ConnTypes
<1>6. CASE PhaseOne(c)
  <2>1. loc' \in [Conn -> Locs] /\ \A d \in Conn \ {c} : loc'[d] = loc[d]
    BY <1>0, <1>6, LocPicks DEF PhaseOne
  <2>. QED
    BY <1>0, <1>z, <1>y, <1>6, <2>1 DEF PhaseOne, ConnTypes
<1>7. CASE WriteSuperJournal(c)
  BY <1>0, <1>z, <1>y, <1>7 DEF WriteSuperJournal, ConnTypes
<1>8. CASE SyncJournal(c)
  BY <1>0, <1>z, <1>y, <1>8 DEF SyncJournal, ConnTypes
<1>9. CASE WritePages(c)
  BY <1>0, <1>z, <1>y, <1>9 DEF WritePages, ConnTypes
<1>10. CASE SyncDatabase(c)
  <2>1. PICK T \in SUBSET File, e \in Endings :
          loc' = [loc EXCEPT ![c].todo = T, ![c].ending = e]
    <3>1. loc[c].todo \in SUBSET File /\ loc[c].files \in SUBSET File
          /\ loc[c].ending \in Endings
      BY <1>0 DEF Locs
    <3>. DEFINE T == IF loc[c].todo = {} THEN loc[c].files ELSE loc[c].todo
                e == IF loc[c].todo = {} THEN "commit" ELSE loc[c].ending
    <3>2. loc' = [loc EXCEPT ![c].todo = T, ![c].ending = e]
      BY <1>0, <1>10 DEF SyncDatabase
    <3>3. T \in SUBSET File /\ e \in Endings
      BY <3>1 DEF Endings
    <3>. QED
      BY <3>2, <3>3
  <2>2. loc' \in [Conn -> Locs] /\ \A d \in Conn \ {c} : loc'[d] = loc[d]
    BY <1>0, <2>1, LocGoes
  <2>. QED
    BY <1>0, <1>z, <1>y, <1>10, <2>2 DEF SyncDatabase, ConnTypes
<1>11. CASE DeleteSuper(c)
  BY <1>0, <1>z, <1>y, <1>11 DEF DeleteSuper, ConnTypes
<1>12. CASE SyncDirectory(c)
  BY <1>0, <1>z, <1>y, <1>12 DEF SyncDirectory, ConnTypes
<1>13. CASE PhaseTwo(c)
  <2>1. loc' \in [Conn -> Locs] /\ \A d \in Conn \ {c} : loc'[d] = loc[d]
    BY <1>0, <1>13, LocPicks DEF PhaseTwo
  <2>. QED
    BY <1>0, <1>z, <1>y, <1>13, <2>1 DEF PhaseTwo, ConnTypes
<1>14. CASE Fail(c)
  <2>1. PICK W \in SUBSET File : W = Written(c)
    BY DEF Written
  <2>. HIDE DEF Written
  <2>r. "rollback" \in Endings
    BY DEF Endings
  <2>2. loc' = [loc EXCEPT ![c].todo = W, ![c].ending = "rollback"]
    BY <1>14, <2>1 DEF Fail
  <2>3. loc' \in [Conn -> Locs] /\ \A d \in Conn \ {c} : loc'[d] = loc[d]
    BY <1>0, <2>1, <2>r, <2>2, LocGoes
  <2>. QED
    BY <1>0, <1>z, <1>y, <1>14, <2>3 DEF Fail, ConnTypes
<1>15. CASE RollbackFile(c)
  <2>1. loc' \in [Conn -> Locs] /\ \A d \in Conn \ {c} : loc'[d] = loc[d]
    BY <1>0, <1>15, LocPicks DEF RollbackFile
  <2>. QED
    BY <1>0, <1>z, <1>y, <1>15, <2>1 DEF RollbackFile, ConnTypes
<1>16. CASE CheckSuper(c)
  <2>0. PICK p \in BOOLEAN : p = SuperExists(jr[loc[c].cur])
    BY DEF SuperExists
  <2>2. loc' = [loc EXCEPT ![c].play = p]
    BY <1>16, <2>0 DEF CheckSuper
  <2>1. loc' \in [Conn -> Locs] /\ \A d \in Conn \ {c} : loc'[d] = loc[d]
    BY <1>0, <2>0, <2>2, LocPlays
  <2>. QED
    BY <1>0, <1>z, <1>y, <1>16, <2>1 DEF CheckSuper, ConnTypes
<1>17. CASE PlayBack(c)
  BY <1>0, <1>z, <1>y, <1>17 DEF PlayBack, ConnTypes
<1>18. CASE SyncPlayed(c)
  BY <1>0, <1>z, <1>y, <1>18 DEF SyncPlayed, ConnTypes
<1>19. CASE Finalize(c)
  <2>. DEFINE j == jr[loc[c].cur]
              kids == IF loc[c].ending # "commit" /\ loc[c].play
                         /\ j.super \in DOMAIN super
                      THEN super[j.super] ELSE {}
              tx == IF loc[c].ending # "commit" THEN j.super ELSE loc[c].tx
  <2>1. j \in Journals /\ j # NoFile
    BY <1>19, CurHere, Types DEF Finalize, EndPcs
  <2>2. kids \subseteq File /\ tx \in 0..MaxTx
    BY <1>0, <2>1, JournalFields, Constants DEF TypeInv, SuperTypes, Locs, Tx, NoSuper
  <2>3. PICK K \in SUBSET File, x \in 0..MaxTx :
          loc' = [loc EXCEPT ![c].kids = K, ![c].tx = x]
    BY <1>0, <1>19, <2>2 DEF Finalize
  <2>4. loc' \in [Conn -> Locs] /\ \A d \in Conn \ {c} : loc'[d] = loc[d]
    BY <1>0, <2>3, LocEnds
  <2>. QED
    BY <1>0, <1>z, <1>y, <1>19, <2>4 DEF Finalize, ConnTypes
<1>20. CASE EndSync(c)
  <2>1. loc[c].cur \in File
    BY <1>20, CurHere DEF EndSync, EndPcs
  <2>2. db[loc[c].cur] \in Images
    BY <2>1, Types
  <2>3. view' \in [Conn -> [File -> Images]] /\ \A d \in Conn \ {c} : view'[d] = view[d]
    BY <1>0, <1>20, <2>1, <2>2 DEF EndSync
  <2>. QED
    BY <1>0, <1>z, <1>y, <1>x, <1>20, <2>1, <2>3 DEF EndSync, ConnTypes
<1>21. CASE CheckChild(c)
  <2>1. PICK g \in loc[c].kids :
          \/ loc' = [loc EXCEPT ![c].kids = {}]
          \/ loc' = [loc EXCEPT ![c].kids = @ \ {g}]
    BY <1>21 DEF CheckChild
  <2>2. loc' \in [Conn -> Locs] /\ \A d \in Conn \ {c} : loc'[d] = loc[d]
    <3>1. PICK K \in SUBSET File : loc' = [loc EXCEPT ![c].kids = K]
      <4>1. loc[c].kids \ {g} \in SUBSET File
        BY <1>0 DEF Locs
      <4>2. CASE loc' = [loc EXCEPT ![c].kids = {}]
        BY <4>2
      <4>3. CASE loc' = [loc EXCEPT ![c].kids = @ \ {g}]
        BY <1>0, <4>1, <4>3
      <4>. QED
        BY <2>1, <4>2, <4>3
    <3>. QED
      BY <1>0, <3>1, LocKids
  <2>3. NextFile(c) \in Pcs
    BY <1>z DEF NextFile
  <2>. QED
    BY <1>0, <1>z, <1>y, <1>21, <2>2, <2>3 DEF CheckChild, ConnTypes
<1>22. CASE NoChildren(c)
  <2>1. NextFile(c) \in Pcs
    BY <1>z DEF NextFile
  <2>. QED
    BY <1>0, <1>z, <1>y, <1>22, <2>1 DEF NoChildren, ConnTypes
<1>23. CASE EndTransaction(c)
  BY <1>0, <1>z, <1>y, <1>w, <1>v, <1>u, <1>23 DEF EndTransaction, ConnTypes
<1>24. CASE Die(c)
  BY <1>0, <1>z, <1>y, <1>w, <1>v, <1>u, <1>24 DEF Die, ConnTypes
<1>25. ASSUME NEW f \in File, BeginRead(c, f) PROVE ConnTypes' /\ OtherSame(c)
  <2>1. db[f] \in Images
    BY Types
  <2>2. view' \in [Conn -> [File -> Images]] /\ \A d \in Conn \ {c} : view'[d] = view[d]
    BY <1>0, <1>25, <2>1 DEF BeginRead
  <2>. QED
    BY <1>0, <1>z, <1>x, <1>25, <2>2 DEF BeginRead, ConnTypes
<1>26. ASSUME NEW f \in File, BeginRecovery(c, f) PROVE ConnTypes' /\ OtherSame(c)
  <2>1. [Idle EXCEPT !.cur = f, !.ending = "hot"] \in Locs
    <3>1. Idle \in Locs
      BY <1>u
    <3>. QED
      BY <3>1 DEF Locs, Endings
  <2>. QED
    BY <1>0, <1>z, <1>x, <1>y, <1>v, <1>26, <2>1 DEF BeginRecovery, ConnTypes
<1>27. ASSUME NEW f \in File, BeginWrite(c, f) PROVE ConnTypes' /\ OtherSame(c)
  <2>1. loc' \in [Conn -> Locs] /\ \A d \in Conn \ {c} : loc'[d] = loc[d]
    <3>1. CASE Written(c) # {}
      BY <1>0, <1>27, <3>1 DEF BeginWrite
    <3>2. CASE Written(c) = {}
      <4>1. nTx + 1 \in 0..MaxTx /\ loc' = [loc EXCEPT ![c].tx = nTx + 1]
        BY <1>27, <3>2, Constants DEF BeginWrite, TypeInv, HistTypes
      <4>2. PICK x \in 0..MaxTx : x = nTx + 1
        BY <4>1
      <4>. QED
        BY <1>0, <4>1, <4>2, LocStarts
    <3>. QED
      BY <3>1, <3>2
  <2>. QED
    BY <1>0, <1>z, <1>x, <1>27, <2>1 DEF BeginWrite, ConnTypes
<1>28. ASSUME NEW f \in File, ExclusiveLock(c, f) PROVE ConnTypes' /\ OtherSame(c)
  BY <1>0, <1>z, <1>x, <1>28 DEF ExclusiveLock, ConnTypes
<1>29. ASSUME NEW f \in File, Spill(c, f) PROVE ConnTypes' /\ OtherSame(c)
  BY <1>0, <1>29 DEF Spill, ConnTypes
<1>. QED
  BY <1>1, <1>2, <1>3, <1>4, <1>5, <1>6, <1>7, <1>8, <1>9, <1>10, <1>11, <1>12,
     <1>13, <1>14, <1>15, <1>16, <1>17, <1>18, <1>19, <1>20, <1>21, <1>22, <1>23,
     <1>24, <1>25, <1>26, <1>27, <1>28, <1>29 DEF Step
-----------------------------------------------------------------------------
(* The steps that write files, in the terms of the invariant *)

\* The parts of the invariant, for connection c.
LEMMA Sure ==
  ASSUME IInv, NEW c \in Conn
  PROVE  /\ TypeInv /\ FileTypes /\ SuperTypes /\ ConnTypes /\ HistTypes
         /\ LockInv /\ FileInv /\ NameInv /\ PairInv /\ PendInv /\ DiskInv
         /\ ConnInv(c) /\ LevelInv(c) /\ WorkInv(c) /\ FinishInv(c)
         /\ CurInv(c) /\ RollInv(c) /\ KidsInv(c)
BY DEF IInv, TypeInv, ConnInv

\* A journal like i, but for the mark that counts it and the name in its tail.
Alike(j, i) == j \in Journals /\ j # NoFile /\ j.orig = i.orig

\* The journals that the pager makes out of another one.
LEMMA Variants ==
  ASSUME NEW i \in Journals, i # NoFile, NEW t \in Tx \cup {NoSuper}
  PROVE  /\ Alike([i EXCEPT !.hot = TRUE], i) /\ Alike([i EXCEPT !.hot = FALSE], i)
         /\ Alike([i EXCEPT !.super = t], i)
         /\ Alike([i EXCEPT !.hot = FALSE, !.super = NoSuper], i)
         /\ [i EXCEPT !.hot = TRUE].hot /\ [i EXCEPT !.hot = TRUE].super = i.super
         /\ ~[i EXCEPT !.hot = FALSE].hot
         /\ [i EXCEPT !.hot = FALSE].super = i.super
         /\ [i EXCEPT !.super = t].super = t /\ [i EXCEPT !.super = t].hot = i.hot
         /\ ~[i EXCEPT !.hot = FALSE, !.super = NoSuper].hot
         /\ [i EXCEPT !.hot = FALSE, !.super = NoSuper].super = NoSuper
<1>1. i.hot \in BOOLEAN /\ i.super \in Tx \cup {NoSuper} /\ i.orig \in 0..MaxTx
      /\ NoSuper \in Tx \cup {NoSuper} /\ TRUE \in BOOLEAN /\ FALSE \in BOOLEAN
  BY JournalFields
<1>2. Alike([i EXCEPT !.hot = TRUE], i)
      /\ [i EXCEPT !.hot = TRUE].hot /\ [i EXCEPT !.hot = TRUE].super = i.super
  <2>1. [i EXCEPT !.hot = TRUE] = [hot |-> TRUE, super |-> i.super, orig |-> i.orig]
    BY <1>1, ChangeJournal
  <2>2. /\ [hot |-> TRUE, super |-> i.super, orig |-> i.orig] \in Journals
        /\ [hot |-> TRUE, super |-> i.super, orig |-> i.orig] # NoFile
    BY <1>1, MakeJournal
  <2>. QED
    BY <2>1, <2>2 DEF Alike
<1>3. Alike([i EXCEPT !.hot = FALSE], i)
      /\ ~[i EXCEPT !.hot = FALSE].hot /\ [i EXCEPT !.hot = FALSE].super = i.super
  <2>1. [i EXCEPT !.hot = FALSE] = [hot |-> FALSE, super |-> i.super, orig |-> i.orig]
    BY <1>1, ChangeJournal
  <2>2. /\ [hot |-> FALSE, super |-> i.super, orig |-> i.orig] \in Journals
        /\ [hot |-> FALSE, super |-> i.super, orig |-> i.orig] # NoFile
    BY <1>1, MakeJournal
  <2>. QED
    BY <2>1, <2>2 DEF Alike
<1>4. Alike([i EXCEPT !.super = t], i)
      /\ [i EXCEPT !.super = t].super = t /\ [i EXCEPT !.super = t].hot = i.hot
  <2>1. [i EXCEPT !.super = t] = [hot |-> i.hot, super |-> t, orig |-> i.orig]
    BY <1>1, ChangeJournal
  <2>2. /\ [hot |-> i.hot, super |-> t, orig |-> i.orig] \in Journals
        /\ [hot |-> i.hot, super |-> t, orig |-> i.orig] # NoFile
    BY <1>1, MakeJournal
  <2>. QED
    BY <2>1, <2>2 DEF Alike
<1>5. Alike([i EXCEPT !.hot = FALSE, !.super = NoSuper], i)
      /\ ~[i EXCEPT !.hot = FALSE, !.super = NoSuper].hot
      /\ [i EXCEPT !.hot = FALSE, !.super = NoSuper].super = NoSuper
  <2>1. [i EXCEPT !.hot = FALSE, !.super = NoSuper]
        = [hot |-> FALSE, super |-> NoSuper, orig |-> i.orig]
    BY <1>1, ChangeJournal
  <2>2. /\ [hot |-> FALSE, super |-> NoSuper, orig |-> i.orig] \in Journals
        /\ [hot |-> FALSE, super |-> NoSuper, orig |-> i.orig] # NoFile
    BY <1>1, MakeJournal
  <2>. QED
    BY <2>1, <2>2 DEF Alike
<1>. QED
  BY <1>2, <1>3, <1>4, <1>5

\* The new journal does not count yet, names nothing, and restores what is
\* committed: the writer has read it under SHARED.
LEMMA BeginWriteDoes ==
  ASSUME IInv, Sound, NEW c \in Conn, NEW f \in File, BeginWrite(c, f)
  PROVE  /\ lock[c][f] = SHARED_LOCK
         /\ \A d \in Conn \ {c} : lock[d][f] < RESERVED_LOCK
         /\ JrPut(f, jr'[f]) /\ JrSeen(f)' \subseteq JrSeen(f) \cup {jr'[f]}
         /\ jr'[f] \in Journals /\ jr'[f] # NoFile /\ ~jr'[f].hot
         /\ jr'[f].super = NoSuper /\ jr'[f].orig = committed[f]
         /\ UNCHANGED dbVars
<1>1. lock[c][f] = SHARED_LOCK /\ UNCHANGED dbVars
      /\ \A d \in Conn \ {c} : lock[d][f] < RESERVED_LOCK
  BY DEF BeginWrite, Others
<1>2. view[c][f] = committed[f]
  BY <1>1, Sure DEF LevelInv
<1>. DEFINE j == [hot |-> FALSE, super |-> NoSuper, orig |-> view[c][f]]
<1>3. JrWrite(f, j)
  BY DEF BeginWrite, Sound
<1>4. j \in Journals /\ j # NoFile /\ ~j.hot /\ j.super = NoSuper
      /\ j.orig = committed[f]
  <2>1. committed[f] \in 0..MaxTx
    BY Sure, Types
  <2>2. j \in Journals /\ j # NoFile
    BY <2>1, <1>2, MakeJournal
  <2>. QED
    BY <2>2, <1>2
<1>. HIDE DEF j
<1>5. JrPut(f, j) /\ JrSeen(f)' \subseteq JrSeen(f) \cup {j}
  BY <1>3, <1>4, JrWriteDoes, Sure
<1>6. jr'[f] = j
  BY <1>5 DEF JrPut
<1>. QED
  BY <1>1, <1>4, <1>5, <1>6

\* A spill finds a journal that restores what is committed, and syncs it first.
LEMMA SpillDoes ==
  ASSUME IInv, NEW c \in Conn, NEW f \in File, Spill(c, f)
  PROVE  /\ pc[c] = "idle" /\ lock[c][f] = EXCLUSIVE_LOCK /\ f \in Written(c)
         /\ Works(c)
         /\ JrPut(f, jr'[f]) /\ JrSeen(f)' \subseteq {jr'[f]}
         /\ jr'[f] \in Journals /\ jr'[f] # NoFile /\ jr'[f].hot
         /\ jr'[f].super = NoSuper /\ jr'[f].orig = committed[f]
         /\ db' \in [File -> Images] /\ dbDisk' \in [File -> SUBSET Images]
         /\ \A g \in File : g # f => DbSame(g)
<1>1. pc[c] = "idle" /\ lock[c][f] = EXCLUSIVE_LOCK /\ f \in Written(c)
  BY DEF Spill, Written
<1>2. Works(c)
  BY <1>1 DEF Works
<1>3. jr[f] \in Journals /\ jr[f] # NoFile /\ jr[f].orig = committed[f]
      /\ jr[f].super = NoSuper
  <2>1. jr[f] \in Journals
    BY Sure, Types
  <2>2. OwnInv(c) /\ ProgressInv(c)
    BY <1>2, Sure DEF WorkInv
  <2>. QED
    BY <1>1, <2>1, <2>2 DEF OwnInv, ProgressInv, NotNamed
<1>. DEFINE j == [jr[f] EXCEPT !.hot = TRUE]
<1>4. Alike(j, jr[f]) /\ j.hot /\ j.super = NoSuper
  BY <1>3, Variants
<1>5. jr' = [jr EXCEPT ![f] = j] /\ jrDisk' = [jrDisk EXCEPT ![f] = Kept({j})]
  BY DEF Spill
<1>. HIDE DEF j
<1>6. JrPut(f, j) /\ JrSeen(f)' \subseteq {j}
  BY <1>4, <1>5, JrReplaceDoes, Sure DEF Alike
<1>7. jr'[f] = j
  BY <1>6 DEF JrPut
<1>8. DbWrite(f, Half) /\ Half \in Images
  BY DEF Spill, Images
<1>9. /\ db' \in [File -> Images] /\ dbDisk' \in [File -> SUBSET Images]
      /\ \A g \in File : g # f => DbSame(g)
  BY <1>8, DbWriteDoes, Sure
<1>. QED
  BY <1>1, <1>2, <1>3, <1>4, <1>6, <1>7, <1>9 DEF Alike

\* What a connection in the first phase of its commit knows.
LEMMA AtPhaseOne ==
  ASSUME IInv, NEW c \in Conn, pc[c] \in OnePcs
  PROVE  /\ Works(c) /\ OwnInv(c) /\ StepInv(c) /\ ProgressInv(c)
         /\ loc[c].files = Written(c) /\ loc[c].tx \in 1..nTx /\ loc[c].tx \in Tx
         /\ pc[c] \in CurPcs => /\ loc[c].cur \in File /\ loc[c].cur \in Written(c)
                                /\ loc[c].cur \in loc[c].files
                                /\ lock[c][loc[c].cur] = EXCLUSIVE_LOCK
                                /\ jr[loc[c].cur] \in Journals
                                /\ jr[loc[c].cur] # NoFile
                                /\ jr[loc[c].cur].orig = committed[loc[c].cur]
                                /\ jr[loc[c].cur].super \in Tx \cup {NoSuper}
<1>1. Works(c)
  BY DEF Works
<1>2. OwnInv(c) /\ StepInv(c) /\ ProgressInv(c)
  BY <1>1, Sure DEF WorkInv
<1>3. loc[c].files = Written(c) /\ loc[c].tx \in 1..nTx
  BY <1>2 DEF OwnInv, OnePcs, PhaseOnePcs
<1>4. loc[c].tx \in Tx
  BY <1>3, Sure, Constants DEF HistTypes, Tx
<1>5. ASSUME pc[c] \in CurPcs
      PROVE  /\ loc[c].cur \in File /\ loc[c].cur \in Written(c)
             /\ loc[c].cur \in loc[c].files
             /\ lock[c][loc[c].cur] = EXCLUSIVE_LOCK
             /\ jr[loc[c].cur] \in Journals
             /\ jr[loc[c].cur] # NoFile
             /\ jr[loc[c].cur].orig = committed[loc[c].cur]
             /\ jr[loc[c].cur].super \in Tx \cup {NoSuper}
  <2>1. loc[c].cur \in loc[c].files
    BY <1>2, <1>5 DEF StepInv
  <2>2. pc[c] \notin {"idle", "excl"}
    BY <1>5 DEF CurPcs
  <2>3. lock[c][loc[c].cur] = EXCLUSIVE_LOCK
    BY <1>2, <2>1, <2>2 DEF StepInv
  <2>4. loc[c].cur \in Written(c) /\ loc[c].cur \in File
    BY <1>3, <2>1 DEF Written
  <2>5. jr[loc[c].cur] # NoFile /\ jr[loc[c].cur].orig = committed[loc[c].cur]
    BY <1>2, <2>4 DEF OwnInv
  <2>6. jr[loc[c].cur] \in Journals
    BY <2>4, Sure, Types
  <2>7. jr[loc[c].cur].super \in Tx \cup {NoSuper}
    BY <2>5, <2>6, JournalFields
  <2>. QED
    BY <2>1, <2>3, <2>4, <2>5, <2>6, <2>7
<1>. QED
  BY <1>1, <1>2, <1>3, <1>4, <1>5

\* The name of the super-journal is added to the journal and changes nothing
\* else in it.
LEMMA WriteSuperJournalDoes ==
  ASSUME IInv, NEW c \in Conn, WriteSuperJournal(c), NEW f, f = loc[c].cur
  PROVE  /\ JrPut(f, jr'[f]) /\ JrSeen(f)' \subseteq JrSeen(f) \cup {jr'[f]}
         /\ jr'[f] \in Journals /\ jr'[f] # NoFile /\ jr'[f].hot = jr[f].hot
         /\ jr'[f].super = loc[c].tx /\ jr'[f].orig = committed[f]
         /\ UNCHANGED dbVars
<1>1. pc[c] = "name" /\ UNCHANGED dbVars /\ pc[c] \in OnePcs /\ pc[c] \in CurPcs
  BY DEF WriteSuperJournal, OnePcs, PhaseOnePcs, CurPcs
<1>2. /\ f \in File /\ jr[f] \in Journals /\ jr[f] # NoFile
      /\ jr[f].orig = committed[f] /\ loc[c].tx \in Tx
  BY <1>1, AtPhaseOne
<1>. DEFINE j == [jr[f] EXCEPT !.super = loc[c].tx]
<1>4. Alike(j, jr[f]) /\ j.hot = jr[f].hot /\ j.super = loc[c].tx
  BY <1>2, Variants
<1>5. JrWrite(f, j)
  BY DEF WriteSuperJournal, NamedIn
<1>. HIDE DEF j
<1>6. JrPut(f, j) /\ JrSeen(f)' \subseteq JrSeen(f) \cup {j}
  BY <1>2, <1>4, <1>5, JrWriteDoes, Sure DEF Alike
<1>7. jr'[f] = j
  BY <1>6 DEF JrPut
<1>. QED
  BY <1>1, <1>2, <1>4, <1>6, <1>7 DEF Alike

\* The sync of the journal makes it count.
LEMMA SyncJournalDoes ==
  ASSUME IInv, NEW c \in Conn, SyncJournal(c), NEW f, f = loc[c].cur
  PROVE  /\ JrPut(f, jr'[f]) /\ JrSeen(f)' \subseteq {jr'[f]}
         /\ jr'[f] \in Journals /\ jr'[f] # NoFile /\ jr'[f].hot
         /\ jr'[f].super = jr[f].super /\ jr'[f].orig = committed[f]
         /\ UNCHANGED dbVars
<1>1. pc[c] = "jsync" /\ UNCHANGED dbVars /\ pc[c] \in OnePcs /\ pc[c] \in CurPcs
  BY DEF SyncJournal, OnePcs, PhaseOnePcs, CurPcs
<1>2. /\ f \in File /\ jr[f] \in Journals /\ jr[f] # NoFile
      /\ jr[f].orig = committed[f]
  BY <1>1, AtPhaseOne
<1>. DEFINE j == [jr[f] EXCEPT !.hot = TRUE]
<1>3. jr[f].super \in Tx \cup {NoSuper} /\ NoSuper \in Tx \cup {NoSuper}
  BY <1>2, JournalFields
<1>4. Alike(j, jr[f]) /\ j.hot /\ j.super = jr[f].super
  BY <1>2, <1>3, Variants
<1>5. jr' = [jr EXCEPT ![f] = j] /\ jrDisk' = [jrDisk EXCEPT ![f] = Kept({j})]
  BY DEF SyncJournal
<1>. HIDE DEF j
<1>6. JrPut(f, j) /\ JrSeen(f)' \subseteq {j}
  BY <1>2, <1>4, <1>5, JrReplaceDoes, Sure DEF Alike
<1>7. jr'[f] = j
  BY <1>6 DEF JrPut
<1>. QED
  BY <1>1, <1>2, <1>4, <1>6, <1>7 DEF Alike

\* The pages are written to a file under EXCLUSIVE.
LEMMA WritePagesDoes ==
  ASSUME IInv, NEW c \in Conn, WritePages(c), NEW f, f = loc[c].cur
  PROVE  /\ f \in File /\ lock[c][f] = EXCLUSIVE_LOCK /\ f \in Written(c)
         /\ UNCHANGED jrVars
         /\ db' \in [File -> Images] /\ dbDisk' \in [File -> SUBSET Images]
         /\ \A g \in File : g # f => DbSame(g)
         /\ pc' = [pc EXCEPT ![c] = pc'[c]] /\ pc'[c] \in {"write", "dbsync"}
         /\ pc'[c] = "dbsync" => db'[f] = loc[c].tx
<1>1. pc[c] = "write" /\ UNCHANGED jrVars /\ pc[c] \in OnePcs /\ pc[c] \in CurPcs
  BY DEF WritePages, OnePcs, PhaseOnePcs, CurPcs
<1>2. f \in File /\ lock[c][f] = EXCLUSIVE_LOCK /\ loc[c].tx \in Tx
      /\ f \in Written(c)
  BY <1>1, AtPhaseOne
<1>3. PICK image \in {Half, loc[c].tx} :
        /\ DbWrite(f, image)
        /\ Goto(c, IF image = Half THEN "write" ELSE "dbsync")
  BY DEF WritePages
<1>4. image \in Images
  BY <1>2, Constants DEF Images, Tx
<1>5. /\ db' \in [File -> Images] /\ dbDisk' \in [File -> SUBSET Images]
      /\ \A g \in File : g # f => DbSame(g)
      /\ db'[f] = image
  BY <1>2, <1>3, <1>4, DbWriteDoes, Sure
<1>6. pc'[c] = (IF image = Half THEN "write" ELSE "dbsync")
      /\ pc' = [pc EXCEPT ![c] = pc'[c]]
  BY <1>3, Sure DEF Goto, ConnTypes
<1>. QED
  BY <1>1, <1>2, <1>3, <1>5, <1>6

\* The sync leaves the image of the transaction alone on disk.
LEMMA SyncDatabaseDoes ==
  ASSUME IInv, NEW c \in Conn, SyncDatabase(c), NEW f, f = loc[c].cur
  PROVE  /\ f \in File /\ lock[c][f] = EXCLUSIVE_LOCK /\ f \in Written(c)
         /\ UNCHANGED jrVars
         /\ db' \in [File -> Images] /\ dbDisk' \in [File -> SUBSET Images]
         /\ db' = db /\ DbSeen(f)' \subseteq {db[f]} /\ db[f] = loc[c].tx
         /\ \A g \in File : g # f => DbSame(g)
<1>1. pc[c] = "dbsync" /\ UNCHANGED jrVars /\ pc[c] \in OnePcs /\ pc[c] \in CurPcs
  BY DEF SyncDatabase, OnePcs, PhaseOnePcs, CurPcs
<1>2. f \in File /\ lock[c][f] = EXCLUSIVE_LOCK /\ f \in Written(c)
  BY <1>1, AtPhaseOne
<1>3. DbSync(f)
  BY DEF SyncDatabase
<1>4. db[f] = loc[c].tx
  BY <1>1, AtPhaseOne DEF ProgressInv
<1>. QED
  BY <1>1, <1>2, <1>3, <1>4, DbSyncDoes, Sure

\* What a connection that ends a transaction in one of its files knows.
LEMMA AtEnd ==
  ASSUME IInv, NEW c \in Conn, pc[c] \in EndPcs, NEW f, f = loc[c].cur
  PROVE  /\ f \in File /\ lock[c][f] \in {RESERVED_LOCK, EXCLUSIVE_LOCK}
         /\ f \in Written(c) /\ jr[f] \in Journals
         /\ pc[c] # "endSync" => jr[f] # NoFile /\ jr[f].super \in Tx \cup {NoSuper}
                                  /\ jr[f].hot \in BOOLEAN
         /\ lock[c][f] = RESERVED_LOCK => ~HotJournal(f) /\ Clean(f)
         /\ \A d \in Conn \ {c} : lock[d][f] < RESERVED_LOCK
<1>1. f \in File /\ lock[c][f] >= RESERVED_LOCK /\ (pc[c] # "endSync" => jr[f] # NoFile)
  BY Sure DEF CurInv
<1>2. lock[c][f] \in {RESERVED_LOCK, EXCLUSIVE_LOCK} /\ f \in Written(c)
      /\ jr[f] \in Journals
  BY <1>1, Sure, Types DEF Written
<1>3. lock[c][f] = RESERVED_LOCK => ~HotJournal(f) /\ Clean(f)
  BY <1>1, Sure DEF LevelInv
<1>4. \A d \in Conn \ {c} : lock[d][f] < RESERVED_LOCK
  BY <1>1, Sure DEF LockInv
<1>5. pc[c] # "endSync" => jr[f].super \in Tx \cup {NoSuper} /\ jr[f].hot \in BOOLEAN
  BY <1>1, <1>2, JournalFields
<1>. QED
  BY <1>1, <1>2, <1>3, <1>4, <1>5

\* A file is as committed unless a journal that counts will make it so.
LEMMA CleanUnless ==
  ASSUME IInv, NEW f \in File,
         jr[f] = NoFile \/ ~jr[f].hot \/ ~SuperExists(jr[f])
  PROVE  Clean(f) /\ db[f] = committed[f]
<1>1. Guarded(f)
  BY Sure DEF IInv, FileInv
<1>2. jr[f] \in JrSeen(f)
  BY DEF JrSeen
<1>3. Clean(f)
  BY <1>1, <1>2 DEF Guarded, Restores, Stands, SuperExists
<1>. QED
  BY <1>3 DEF Clean, DbSeen

\* A journal that is played back restores what is committed, and one that is not
\* finds it.
LEMMA PlayedBack ==
  ASSUME IInv, NEW c \in Conn, pc[c] = "play", NEW f, f = loc[c].cur
  PROVE  /\ ~loc[c].play \/ ~jr[f].hot \/ db[f] = jr[f].orig => db[f] = committed[f]
         /\ loc[c].play /\ jr[f].hot => /\ jr[f].orig = committed[f]
                                        /\ lock[c][f] = EXCLUSIVE_LOCK
<1>1. /\ f \in File /\ jr[f] # NoFile /\ jr[f].hot \in BOOLEAN
      /\ lock[c][f] \in {RESERVED_LOCK, EXCLUSIVE_LOCK}
      /\ lock[c][f] = RESERVED_LOCK => ~HotJournal(f)
  BY AtEnd DEF EndPcs
<1>2. loc[c].play = SuperExists(jr[f])
  <2>1. loc[c].ending # "commit"
    BY Sure DEF CurInv, EndPcs
  <2>. QED
    BY <2>1, Sure DEF CurInv, EndPcs
<1>3. ~loc[c].play \/ ~jr[f].hot => db[f] = committed[f]
  BY <1>1, <1>2, CleanUnless
<1>4. loc[c].play /\ jr[f].hot => jr[f].orig = committed[f]
  <2>1. Exact(f)
    BY <1>1, Sure DEF FileInv
  <2>. QED
    BY <1>1, <1>2, <2>1 DEF Exact, Played, SuperExists
<1>5. loc[c].play /\ jr[f].hot => lock[c][f] = EXCLUSIVE_LOCK
  BY <1>1 DEF HotJournal
<1>. QED
  BY <1>1, <1>3, <1>4, <1>5

\* Playing back writes a file only if it is not as committed.
LEMMA PlayBackDoes ==
  ASSUME IInv, NEW c \in Conn, PlayBack(c), NEW f, f = loc[c].cur
  PROVE  /\ f \in File /\ UNCHANGED jrVars
         /\ db' \in [File -> Images] /\ dbDisk' \in [File -> SUBSET Images]
         /\ \A g \in File : g # f => DbSame(g)
         /\ \/ DbSame(f) /\ pc'[c] = "sync"
            \/ /\ lock[c][f] = EXCLUSIVE_LOCK /\ ~Clean(f)
               /\ pc'[c] \in {"play", "sync"}
         /\ pc'[c] = "sync" => db'[f] = committed[f]
<1>1. pc[c] = "play" /\ pc[c] \in EndPcs /\ UNCHANGED jrVars
  BY DEF PlayBack, EndPcs
<1>2. f \in File
  BY <1>1, AtEnd
<1>3. \A l \in Pcs : Goto(c, l) => pc'[c] = l
  BY GotoDoes, Sure
<1>4. "play" \in Pcs /\ "sync" \in Pcs
  BY DEF Pcs
<1>5. CASE ~loc[c].play \/ ~jr[f].hot \/ db[f] = jr[f].orig
  <2>1. Goto(c, "sync") /\ UNCHANGED dbVars
    BY <1>5 DEF PlayBack
  <2>2. db' \in [File -> Images] /\ dbDisk' \in [File -> SUBSET Images]
    BY <2>1, Sure DEF FileTypes, dbVars
  <2>3. \A g \in File : DbSame(g)
    BY <2>1 DEF DbSame, dbVars
  <2>4. db[f] = committed[f]
    BY <1>1, <1>5, PlayedBack
  <2>. QED
    BY <1>1, <1>2, <1>3, <1>4, <2>1, <2>2, <2>3, <2>4 DEF DbSame
<1>6. CASE ~(~loc[c].play \/ ~jr[f].hot \/ db[f] = jr[f].orig)
  <2>1. PICK image \in {Half, jr[f].orig} :
          DbWrite(f, image) /\ Goto(c, IF image = Half THEN "play" ELSE "sync")
    BY <1>6 DEF PlayBack
  <2>2. jr[f].orig = committed[f] /\ lock[c][f] = EXCLUSIVE_LOCK
    BY <1>1, <1>6, PlayedBack
  <2>3. ~Clean(f)
    BY <1>6, <2>2 DEF Clean, DbSeen
  <2>4. image \in Images /\ committed[f] # Half
    BY <1>2, <2>2, Sure, Types, Constants DEF Images, Half
  <2>5. /\ db' \in [File -> Images] /\ dbDisk' \in [File -> SUBSET Images]
        /\ \A g \in File : g # f => DbSame(g)
        /\ db'[f] = image
    BY <1>2, <2>1, <2>4, DbWriteDoes, Sure
  <2>6. pc'[c] = (IF image = Half THEN "play" ELSE "sync")
    BY <1>3, <1>4, <2>1
  <2>. QED
    BY <1>1, <1>2, <2>1, <2>2, <2>3, <2>5, <2>6
<1>. QED
  BY <1>5, <1>6

\* After the sync of a file that has been played back it is as committed.
LEMMA SyncPlayedDoes ==
  ASSUME IInv, NEW c \in Conn, SyncPlayed(c), NEW f, f = loc[c].cur
  PROVE  /\ f \in File /\ UNCHANGED jrVars /\ db[f] = committed[f]
         /\ db' \in [File -> Images] /\ dbDisk' \in [File -> SUBSET Images]
         /\ db' = db /\ DbSeen(f)' \subseteq {db[f]}
         /\ \A g \in File : g # f => DbSame(g)
<1>1. pc[c] = "sync" /\ pc[c] \in EndPcs /\ UNCHANGED jrVars /\ DbSync(f)
  BY DEF SyncPlayed, EndPcs
<1>2. f \in File
  BY <1>1, AtEnd
<1>3. db[f] = committed[f]
  BY <1>1, Sure DEF CurInv
<1>. QED
  BY <1>1, <1>2, <1>3, DbSyncDoes, Sure

\* Finalize deletes the journal or makes it count no longer, unless it leaves
\* alone a journal whose super-journal is gone.
LEMMA FinalizeDoes ==
  ASSUME IInv, NEW c \in Conn, Finalize(c), NEW f, f = loc[c].cur
  PROVE  /\ f \in File /\ UNCHANGED dbVars
         /\ JrPut(f, jr'[f]) /\ JrSeen(f)' \subseteq JrSeen(f) \cup {jr'[f]}
         /\ \/ jr'[f] = NoFile
            \/ /\ jr'[f] \in Journals /\ jr'[f] # NoFile
               /\ jr'[f].orig = jr[f].orig
               /\ \/ ~jr'[f].hot /\ jr'[f].super = NoSuper
                  \/ ~jr'[f].hot /\ jr'[f].super = jr[f].super /\ Single(c)
                  \/ jr'[f] = jr[f] /\ loc[c].ending = "hot" /\ ~loc[c].play
<1>1. pc[c] = "finalize" /\ pc[c] \in EndPcs /\ UNCHANGED dbVars
  BY DEF Finalize, EndPcs
<1>2. f \in File /\ jr[f] \in Journals /\ jr[f] # NoFile
  BY <1>1, AtEnd
<1>. DEFINE j == EndedJournal(c, jr[f])
<1>3. NoFile \in Journals /\ NoSuper \in Tx \cup {NoSuper}
  BY DEF Journals
<1>4. /\ j \in Journals
      /\ \/ j = NoFile
         \/ /\ j # NoFile /\ j.orig = jr[f].orig
            /\ \/ ~j.hot /\ j.super = NoSuper
               \/ ~j.hot /\ j.super = jr[f].super /\ Single(c)
               \/ j = jr[f] /\ loc[c].ending = "hot" /\ ~loc[c].play
  <2>1. CASE journalMode[c] = "DELETE"
    BY <1>3, <2>1 DEF EndedJournal
  <2>2. CASE journalMode[c] # "DELETE" /\ Single(c)
    <3>1. j = [jr[f] EXCEPT !.hot = FALSE]
      BY <2>2 DEF EndedJournal
    <3>2. /\ Alike([jr[f] EXCEPT !.hot = FALSE], jr[f])
          /\ ~[jr[f] EXCEPT !.hot = FALSE].hot
          /\ [jr[f] EXCEPT !.hot = FALSE].super = jr[f].super
      BY <1>2, <1>3, Variants
    <3>. QED
      BY <2>2, <3>1, <3>2 DEF Alike
  <2>3. CASE /\ journalMode[c] # "DELETE"
             /\ ~Single(c) /\ loc[c].ending = "hot" /\ ~loc[c].play
    BY <1>2, <2>3 DEF EndedJournal
  <2>4. CASE /\ journalMode[c] # "DELETE" /\ ~Single(c)
             /\ ~(loc[c].ending = "hot" /\ ~loc[c].play)
    <3>1. j = [jr[f] EXCEPT !.hot = FALSE, !.super = NoSuper]
      BY <2>4 DEF EndedJournal
    <3>2. /\ Alike([jr[f] EXCEPT !.hot = FALSE, !.super = NoSuper], jr[f])
          /\ ~[jr[f] EXCEPT !.hot = FALSE, !.super = NoSuper].hot
          /\ [jr[f] EXCEPT !.hot = FALSE, !.super = NoSuper].super = NoSuper
      BY <1>2, <1>3, Variants
    <3>. QED
      BY <2>4, <3>1, <3>2 DEF Alike
  <2>. QED
    BY <2>1, <2>2, <2>3, <2>4
<1>5. JrWrite(f, j)
  BY DEF Finalize
<1>. HIDE DEF j
<1>6. JrPut(f, j) /\ JrSeen(f)' \subseteq JrSeen(f) \cup {j}
  BY <1>2, <1>4, <1>5, JrWriteDoes, Sure
<1>7. jr'[f] = j
  BY <1>6 DEF JrPut
<1>. QED
  BY <1>1, <1>2, <1>4, <1>6, <1>7

\* The deletion or truncation of a journal may be synced.
LEMMA EndSyncDoes ==
  ASSUME IInv, NEW c \in Conn, EndSync(c), NEW f, f = loc[c].cur
  PROVE  /\ f \in File /\ UNCHANGED dbVars
         /\ JrPut(f, jr[f]) /\ jr' = jr /\ JrSeen(f)' \subseteq JrSeen(f)
         /\ extraSync \/ journalMode[c] = "PERSIST" => JrSeen(f)' \subseteq {jr[f]}
<1>1. pc[c] = "endSync" /\ pc[c] \in EndPcs /\ UNCHANGED dbVars
  BY DEF EndSync, EndPcs
<1>2. f \in File /\ jr[f] \in Journals
  BY <1>1, AtEnd
<1>3. CASE extraSync \/ journalMode[c] = "PERSIST"
  <2>1. JrSync(f)
    BY <1>3 DEF EndSync
  <2>2. JrPut(f, jr[f]) /\ JrSeen(f)' \subseteq {jr[f]} /\ jr' = jr
    BY <1>2, <2>1, JrSyncDoes, Sure DEF JrSync
  <2>. QED
    BY <1>1, <1>2, <2>2 DEF JrSeen
<1>4. CASE ~(extraSync \/ journalMode[c] = "PERSIST")
  <2>1. UNCHANGED jrVars
    BY <1>4 DEF EndSync
  <2>. QED
    BY <1>1, <1>2, <1>4, <2>1, Sure DEF JrPut, JrSame, JrSeen, jrVars, FileTypes
<1>. QED
  BY <1>3, <1>4
-----------------------------------------------------------------------------
(* Which steps change the files, the super-journals and the history *)

FileStep(c) ==
  \/ WriteSuperJournal(c) \/ SyncJournal(c) \/ WritePages(c) \/ SyncDatabase(c)
  \/ PlayBack(c) \/ SyncPlayed(c) \/ Finalize(c) \/ EndSync(c)
  \/ \E f \in File : BeginWrite(c, f) \/ Spill(c, f)
SuperStep(c) ==
  \/ CreateSuper(c) \/ SyncSuper(c) \/ DeleteSuper(c) \/ SyncDirectory(c)
  \/ Fail(c) \/ CheckChild(c)
HistStep(c) ==
  \/ DeleteSuper(c) \/ SyncDirectory(c) \/ Finalize(c) \/ EndSync(c)
  \/ \E f \in File : BeginWrite(c, f)

\* Every other action leaves them alone.
LEMMA Kinds ==
  ASSUME NEW c \in Conn, Step(c)
  PROVE  /\ FileStep(c) \/ (UNCHANGED dbVars /\ UNCHANGED jrVars)
         /\ SuperStep(c) \/ UNCHANGED superVars
         /\ HistStep(c) \/ UNCHANGED histVars
         /\ UNCHANGED nLosses
<1>. USE DEF FileStep, SuperStep, HistStep, connVars, histVars, faultVars
<1>1. CASE EndRead(c)
  BY <1>1 DEF EndRead
<1>2. CASE Commit(c)
  BY <1>2 DEF Commit
<1>3. CASE Locked(c)
  BY <1>3 DEF Locked
<1>4. CASE CreateSuper(c)
  BY <1>4 DEF CreateSuper
<1>5. CASE SyncSuper(c)
  BY <1>5 DEF SyncSuper
<1>6. CASE PhaseOne(c)
  BY <1>6 DEF PhaseOne
<1>7. CASE WriteSuperJournal(c)
  BY <1>7 DEF WriteSuperJournal
<1>8. CASE SyncJournal(c)
  BY <1>8 DEF SyncJournal
<1>9. CASE WritePages(c)
  BY <1>9 DEF WritePages
<1>10. CASE SyncDatabase(c)
  BY <1>10 DEF SyncDatabase
<1>11. CASE DeleteSuper(c)
  BY <1>11 DEF DeleteSuper
<1>12. CASE SyncDirectory(c)
  BY <1>12 DEF SyncDirectory
<1>13. CASE PhaseTwo(c)
  BY <1>13 DEF PhaseTwo
<1>14. CASE Fail(c)
  BY <1>14 DEF Fail
<1>15. CASE RollbackFile(c)
  BY <1>15 DEF RollbackFile
<1>16. CASE CheckSuper(c)
  BY <1>16 DEF CheckSuper
<1>17. CASE PlayBack(c)
  BY <1>17 DEF PlayBack
<1>18. CASE SyncPlayed(c)
  BY <1>18 DEF SyncPlayed
<1>19. CASE Finalize(c)
  BY <1>19 DEF Finalize
<1>20. CASE EndSync(c)
  BY <1>20 DEF EndSync
<1>21. CASE CheckChild(c)
  BY <1>21 DEF CheckChild
<1>22. CASE NoChildren(c)
  BY <1>22 DEF NoChildren
<1>23. CASE EndTransaction(c)
  BY <1>23 DEF EndTransaction
<1>24. CASE Die(c)
  BY <1>24 DEF Die
<1>25. ASSUME NEW f \in File, BeginRead(c, f) \/ BeginRecovery(c, f)
                              \/ ExclusiveLock(c, f)
       PROVE  UNCHANGED <<dbVars, jrVars, superVars, histVars, faultVars>>
  BY <1>25 DEF BeginRead, BeginRecovery, ExclusiveLock
<1>26. ASSUME NEW f \in File, BeginWrite(c, f)
       PROVE  UNCHANGED <<superVars, faultVars>>
  BY <1>26 DEF BeginWrite
<1>27. ASSUME NEW f \in File, Spill(c, f)
       PROVE  UNCHANGED <<superVars, histVars, faultVars>>
  BY <1>27 DEF Spill
<1>. QED
  BY <1>1, <1>2, <1>3, <1>4, <1>5, <1>6, <1>7, <1>8, <1>9, <1>10, <1>11, <1>12,
     <1>13, <1>14, <1>15, <1>16, <1>17, <1>18, <1>19, <1>20, <1>21, <1>22, <1>23,
     <1>24, <1>25, <1>26, <1>27 DEF Step

\* Nobody writes what another connection has locked against writers, and what
\* a reader sees of the database stays as it is.
FilesKept(c) ==
  /\ FileTypes'
  /\ \A f \in File : FileSame(f) \/ \A d \in Conn \ {c} : lock[d][f] < RESERVED_LOCK
  /\ \A f \in File : DbSeen(f)' \subseteq DbSeen(f) \/ lock[c][f] = EXCLUSIVE_LOCK

\* It is enough to look at the one file that is written.
LEMMA OneFile ==
  ASSUME IInv, NEW c \in Conn, NEW f \in File,
         \A d \in Conn \ {c} : lock[d][f] < RESERVED_LOCK,
         lock[c][f] = EXCLUSIVE_LOCK \/ DbSeen(f)' \subseteq DbSeen(f),
         \A g \in File : g # f => DbSame(g),
         \A g \in File : g # f => JrSame(g),
         FileTypes'
  PROVE  FilesKept(c)
<1>1. \A g \in File : DbSame(g) => DbSeen(g)' = DbSeen(g)
  BY FilesStay
<1>. QED
  BY <1>1 DEF FilesKept, FileSame

\* A step that leaves the journals alone.
LEMMA DbOnly ==
  ASSUME IInv, UNCHANGED jrVars, db' \in [File -> Images],
         dbDisk' \in [File -> SUBSET Images]
  PROVE  FileTypes' /\ \A g \in File : JrSame(g)
BY DEF IInv, TypeInv, FileTypes, jrVars, JrSame

\* A step that leaves the database files alone.
LEMMA JrOnly ==
  ASSUME IInv, UNCHANGED dbVars, NEW f \in File, JrPut(f, jr'[f])
  PROVE  FileTypes' /\ (\A g \in File : DbSame(g))
         /\ (\A g \in File : DbSeen(g)' \subseteq DbSeen(g))
         /\ (\A g \in File : g # f => JrSame(g))
BY DEF IInv, TypeInv, FileTypes, dbVars, DbSame, DbSeen, JrPut

\* Every step writes at most one file, which nobody else may write; what may be
\* seen of a database file grows under EXCLUSIVE alone.
LEMMA FilesStep ==
  ASSUME IInv, Sound, NEW c \in Conn, Step(c)
  PROVE  FilesKept(c)
<1>0. FileTypes /\ LockInv
  BY Sure
<1>1. CASE UNCHANGED dbVars /\ UNCHANGED jrVars
  BY <1>0, <1>1, FilesStay DEF FilesKept, FileTypes, FileSame, dbVars, jrVars
<1>f. PICK f : f = loc[c].cur
  OBVIOUS
<1>x. ASSUME NEW g \in File, lock[c][g] = EXCLUSIVE_LOCK
      PROVE  \A d \in Conn \ {c} : lock[d][g] < RESERVED_LOCK
  BY <1>0, <1>x DEF LockInv
<1>p. pc[c] \in CurPcs => f \in File /\ lock[c][f] = EXCLUSIVE_LOCK
  BY <1>f, AtPhaseOne DEF CurPcs, OnePcs, PhaseOnePcs
<1>e. pc[c] \in EndPcs => f \in File /\ \A d \in Conn \ {c} : lock[d][f] < RESERVED_LOCK
  BY <1>f, AtEnd
<1>2. CASE WriteSuperJournal(c)
  <2>1. pc[c] \in CurPcs
    BY <1>2 DEF WriteSuperJournal, CurPcs
  <2>2. UNCHANGED dbVars /\ JrPut(f, jr'[f])
    BY <1>f, <1>2, WriteSuperJournalDoes
  <2>. QED
    BY <1>p, <1>x, <2>1, <2>2, JrOnly, OneFile
<1>3. CASE SyncJournal(c)
  <2>1. pc[c] \in CurPcs
    BY <1>3 DEF SyncJournal, CurPcs
  <2>2. UNCHANGED dbVars /\ JrPut(f, jr'[f])
    BY <1>f, <1>3, SyncJournalDoes
  <2>. QED
    BY <1>p, <1>x, <2>1, <2>2, JrOnly, OneFile
<1>4. CASE WritePages(c)
  <2>1. /\ f \in File /\ lock[c][f] = EXCLUSIVE_LOCK /\ UNCHANGED jrVars
        /\ db' \in [File -> Images] /\ dbDisk' \in [File -> SUBSET Images]
        /\ \A g \in File : g # f => DbSame(g)
    BY <1>f, <1>4, WritePagesDoes
  <2>. QED
    BY <1>x, <2>1, DbOnly, OneFile
<1>5. CASE SyncDatabase(c)
  <2>1. /\ f \in File /\ lock[c][f] = EXCLUSIVE_LOCK /\ UNCHANGED jrVars
        /\ db' \in [File -> Images] /\ dbDisk' \in [File -> SUBSET Images]
        /\ \A g \in File : g # f => DbSame(g)
    BY <1>f, <1>5, SyncDatabaseDoes
  <2>. QED
    BY <1>x, <2>1, DbOnly, OneFile
<1>6. CASE PlayBack(c)
  <2>1. /\ f \in File /\ UNCHANGED jrVars
        /\ db' \in [File -> Images] /\ dbDisk' \in [File -> SUBSET Images]
        /\ \A g \in File : g # f => DbSame(g)
        /\ DbSame(f) \/ lock[c][f] = EXCLUSIVE_LOCK
    BY <1>f, <1>6, PlayBackDoes
  <2>2. DbSame(f) => DbSeen(f)' \subseteq DbSeen(f)
    BY <2>1, FilesStay
  <2>3. pc[c] \in EndPcs
    BY <1>6 DEF PlayBack, EndPcs
  <2>. QED
    BY <1>e, <2>1, <2>2, <2>3, DbOnly, OneFile
<1>7. CASE SyncPlayed(c)
  <2>1. /\ f \in File /\ UNCHANGED jrVars
        /\ db' \in [File -> Images] /\ dbDisk' \in [File -> SUBSET Images]
        /\ \A g \in File : g # f => DbSame(g)
        /\ DbSeen(f)' \subseteq {db[f]}
    BY <1>f, <1>7, SyncPlayedDoes
  <2>2. DbSeen(f)' \subseteq DbSeen(f)
    BY <2>1 DEF DbSeen
  <2>3. pc[c] \in EndPcs
    BY <1>7 DEF SyncPlayed, EndPcs
  <2>. QED
    BY <1>e, <2>1, <2>2, <2>3, DbOnly, OneFile
<1>8. CASE Finalize(c)
  <2>1. f \in File /\ UNCHANGED dbVars /\ JrPut(f, jr'[f])
    BY <1>f, <1>8, FinalizeDoes
  <2>2. pc[c] \in EndPcs
    BY <1>8 DEF Finalize, EndPcs
  <2>. QED
    BY <1>e, <2>1, <2>2, JrOnly, OneFile
<1>9. CASE EndSync(c)
  <2>1. f \in File /\ UNCHANGED dbVars /\ JrPut(f, jr'[f])
    BY <1>f, <1>9, EndSyncDoes
  <2>2. pc[c] \in EndPcs
    BY <1>9 DEF EndSync, EndPcs
  <2>. QED
    BY <1>e, <2>1, <2>2, JrOnly, OneFile
<1>10. ASSUME NEW g \in File, BeginWrite(c, g) PROVE FilesKept(c)
  <2>1. /\ UNCHANGED dbVars /\ JrPut(g, jr'[g])
        /\ \A d \in Conn \ {c} : lock[d][g] < RESERVED_LOCK
    BY <1>10, BeginWriteDoes
  <2>. QED
    BY <2>1, JrOnly, OneFile
<1>11. ASSUME NEW g \in File, Spill(c, g) PROVE FilesKept(c)
  <2>1. /\ lock[c][g] = EXCLUSIVE_LOCK /\ JrPut(g, jr'[g])
        /\ db' \in [File -> Images] /\ dbDisk' \in [File -> SUBSET Images]
        /\ \A h \in File : h # g => DbSame(h)
    BY <1>11, SpillDoes
  <2>2. FileTypes' /\ \A h \in File : h # g => JrSame(h)
    BY <2>1 DEF FileTypes, JrPut
  <2>. QED
    BY <1>x, <2>1, <2>2, OneFile
<1>. QED
  BY <1>1, <1>2, <1>3, <1>4, <1>5, <1>6, <1>7, <1>8, <1>9, <1>10, <1>11, Kinds
  DEF FileStep

\* A super-journal changes by the hand of its own transaction, or of who has
\* looked at all of its children.
SuperSame(t) == /\ t \in DOMAIN super' <=> t \in DOMAIN super
                /\ t \in DOMAIN super => super'[t] = super[t]
                /\ superDisk'[t] = superDisk[t]
SupersKept(c) ==
  /\ SuperTypes'
  /\ \A t \in Tx : SuperSame(t) \/ (t = loc[c].tx /\ Busy(c))
  /\ \A f \in File : jr[f] # NoFile /\ f \notin Written(c) =>
       (jr[f].super \in DOMAIN super' <=> jr[f].super \in DOMAIN super)

\* A change of one super-journal leaves the others alone.
LEMMA SuperAt ==
  ASSUME IInv, NEW t \in Tx, NEW on \in SUBSET BOOLEAN,
         superDisk' = [superDisk EXCEPT ![t] = on],
         \/ super' = super
         \/ super' = Without(t)
         \/ \E S \in SUBSET File :
              super' = [u \in DOMAIN super \cup {t} |->
                          IF u = t THEN S ELSE super[u]]
  PROVE  /\ SuperTypes' /\ \A u \in Tx \ {t} : SuperSame(u)
         /\ superDisk'[t] = on
<1>1. SuperTypes
  BY Sure DEF IInv, TypeInv
<1>2. superDisk' \in [Tx -> SUBSET BOOLEAN] /\ superDisk'[t] = on
      /\ \A u \in Tx \ {t} : superDisk'[u] = superDisk[u]
  BY <1>1 DEF SuperTypes
<1>3. CASE super' = super
  BY <1>1, <1>2, <1>3 DEF SuperTypes, SuperSame
<1>4. CASE super' = Without(t)
  <2>1. DOMAIN super' = DOMAIN super \ {t}
        /\ \A u \in DOMAIN super' : super'[u] = super[u]
    BY <1>4 DEF Without
  <2>. QED
    BY <1>1, <1>2, <2>1 DEF SuperTypes, SuperSame
<1>5. ASSUME NEW S \in SUBSET File,
             super' = [u \in DOMAIN super \cup {t} |-> IF u = t THEN S ELSE super[u]]
      PROVE  SuperTypes' /\ \A u \in Tx \ {t} : SuperSame(u)
  <2>1. DOMAIN super' = DOMAIN super \cup {t} /\ super'[t] = S
        /\ \A u \in DOMAIN super' : u # t => super'[u] = super[u]
    BY <1>5
  <2>. QED
    BY <1>1, <1>2, <2>1 DEF SuperTypes, SuperSame
<1>. QED
  BY <1>2, <1>3, <1>4, <1>5

\* No journal names the super-journal that pager_delsuper deletes.
LEMMA CheckChildDoes ==
  ASSUME IInv, NEW c \in Conn, CheckChild(c)
  PROVE  /\ KidsLeft(c) /\ loc[c].tx \in Tx
         /\ \/ UNCHANGED superVars
            \/ /\ super' = Without(loc[c].tx)
               /\ superDisk' = [superDisk EXCEPT ![loc[c].tx] = @ \cup {FALSE}]
               /\ \A g \in File : ~Names(g, loc[c].tx)
<1>1. KidsLeft(c)
  BY DEF CheckChild, KidsLeft
<1>2. loc[c].tx \in Tx
  BY <1>1, Sure, Constants DEF KidsInv, HistTypes, Tx
<1>3. PICK g \in loc[c].kids :
        \/ UNCHANGED superVars
        \/ /\ ~Names(g, loc[c].tx) /\ loc[c].kids = {g}
           /\ super' = Without(loc[c].tx)
           /\ superDisk' = [superDisk EXCEPT ![loc[c].tx] = @ \cup {FALSE}]
  BY DEF CheckChild, superVars
<1>4. loc[c].kids = {g} /\ ~Names(g, loc[c].tx) =>
        \A h \in File : ~Names(h, loc[c].tx)
  BY <1>1, Sure DEF KidsInv
<1>. QED
  BY <1>1, <1>2, <1>3, <1>4

\* Every step keeps to that.
LEMMA SupersStep ==
  ASSUME IInv, NEW c \in Conn, Step(c)
  PROVE  SupersKept(c)
<1>0. SuperTypes /\ NoSuper \notin DOMAIN super
  BY Sure, Constants DEF SuperTypes, Tx, NoSuper
<1>1. CASE UNCHANGED superVars
  BY <1>0, <1>1 DEF SupersKept, SuperTypes, SuperSame, superVars
<1>t. PICK t : t = loc[c].tx
  OBVIOUS
<1>o. pc[c] \in OnePcs => Works(c) /\ Busy(c) /\ OwnInv(c) /\ t \in Tx
                          /\ loc[c].files \in SUBSET File
  BY <1>t, AtPhaseOne, Sure, Types DEF Busy, Written
<1>n. pc[c] \in {"super", "superSync"} =>
        \A f \in File : jr[f] # NoFile => jr[f].super # t
  <2>1. pc[c] \in {"super", "superSync"} => pc[c] \in OnePcs
    BY DEF OnePcs, PhaseOnePcs
  <2>2. \A f \in File : jr[f] \in JrSeen(f)
    BY DEF JrSeen
  <2>. QED
    BY <1>o, <1>t, <2>1, <2>2 DEF OwnInv
<1>k. ASSUME t \in Tx, Busy(c), SuperTypes', \A u \in Tx \ {t} : SuperSame(u),
             \/ DOMAIN super' = DOMAIN super
             \/ \A f \in File : jr[f] # NoFile /\ f \notin Written(c) =>
                  jr[f].super # t
      PROVE  SupersKept(c)
  <2>1. \A f \in File : jr[f] # NoFile => jr[f].super \in Tx \cup {NoSuper}
    BY JournalFields, Sure DEF FileTypes
  <2>2. NoSuper \notin DOMAIN super'
    BY <1>k, Constants DEF SuperTypes, Tx, NoSuper
  <2>. QED
    BY <1>0, <1>t, <1>k, <2>1, <2>2 DEF SupersKept, SuperSame
<1>2. CASE CreateSuper(c)
  <2>1. pc[c] = "super" /\ pc[c] \in OnePcs
    BY <1>2 DEF CreateSuper, OnePcs, PhaseOnePcs
  <2>2. /\ super' = [u \in DOMAIN super \cup {t} |->
                       IF u = t THEN loc[c].files ELSE super[u]]
        /\ superDisk' = [superDisk EXCEPT ![t] = {FALSE, TRUE}]
    BY <1>2, <1>t DEF CreateSuper
  <2>. QED
    BY <1>o, <1>n, <1>k, <2>1, <2>2, SuperAt
<1>3. CASE SyncSuper(c)
  <2>1. pc[c] = "superSync" /\ pc[c] \in OnePcs
    BY <1>3 DEF SyncSuper, OnePcs, PhaseOnePcs
  <2>2. super' = super /\ superDisk' = [superDisk EXCEPT ![t] = {TRUE}]
    BY <1>3, <1>t DEF SyncSuper
  <2>. QED
    BY <1>o, <1>n, <1>k, <2>1, <2>2, SuperAt
<1>4. CASE DeleteSuper(c)
  <2>1. pc[c] = "del" /\ pc[c] \in OnePcs
    BY <1>4 DEF DeleteSuper, OnePcs, PhaseOnePcs
  <2>2. super' = Without(t) /\ superDisk' = [superDisk EXCEPT ![t] = {FALSE, TRUE}]
    BY <1>4, <1>t DEF DeleteSuper
  <2>3. \A f \in File : jr[f] # NoFile /\ f \notin Written(c) => jr[f].super # t
    BY <1>o, <1>t, <2>1 DEF OwnInv, JrSeen
  <2>. QED
    BY <1>o, <1>k, <2>1, <2>2, <2>3, SuperAt
<1>5. CASE SyncDirectory(c)
  <2>1. pc[c] = "delSync" /\ Busy(c)
    BY <1>5 DEF SyncDirectory, Busy
  <2>2. super' = super /\ superDisk' = [superDisk EXCEPT ![loc[c].tx] = {FALSE}]
    BY <1>5 DEF SyncDirectory
  <2>3. CASE t \in Tx
    BY <1>k, <1>t, <2>1, <2>2, <2>3, SuperAt
  <2>4. CASE t \notin Tx
    <3>1. superDisk' = superDisk
      BY <1>0, <1>t, <2>2, <2>4 DEF SuperTypes
    <3>. QED
      BY <1>1, <2>2, <3>1 DEF superVars
  <2>. QED
    BY <2>3, <2>4
<1>6. CASE Fail(c)
  <2>1. CASE pc[c] = "superSync"
    <3>1. pc[c] \in OnePcs
      BY <2>1 DEF OnePcs, PhaseOnePcs
    <3>2. super' = Without(t) /\ superDisk' = [superDisk EXCEPT ![t] = @ \cup {FALSE}]
      BY <1>6, <1>t, <2>1 DEF Fail
    <3>3. superDisk[t] \cup {FALSE} \in SUBSET BOOLEAN
      BY <1>0, <1>o, <3>1 DEF SuperTypes
    <3>4. SuperTypes' /\ \A u \in Tx \ {t} : SuperSame(u)
      BY <1>o, <3>1, <3>2, <3>3, SuperAt
    <3>. QED
      BY <1>o, <1>n, <1>k, <2>1, <3>1, <3>4
  <2>2. CASE pc[c] # "superSync"
    BY <1>1, <1>6, <2>2 DEF Fail
  <2>. QED
    BY <2>1, <2>2
<1>7. CASE CheckChild(c)
  <2>1. Busy(c) /\ t \in Tx
    BY <1>7, <1>t, CheckChildDoes DEF Busy
  <2>2. CASE ~UNCHANGED superVars
    <3>1. /\ super' = Without(t) /\ superDisk' = [superDisk EXCEPT ![t] = @ \cup {FALSE}]
          /\ \A g \in File : ~Names(g, t)
      BY <1>7, <1>t, <2>2, CheckChildDoes
    <3>2. superDisk[t] \cup {FALSE} \in SUBSET BOOLEAN
      BY <1>0, <2>1 DEF SuperTypes
    <3>3. SuperTypes' /\ \A u \in Tx \ {t} : SuperSame(u)
      BY <2>1, <3>1, <3>2, SuperAt
    <3>. QED
      BY <1>k, <2>1, <3>1, <3>3 DEF Names
  <2>. QED
    BY <1>1, <2>2
<1>. QED
  BY <1>1, <1>2, <1>3, <1>4, <1>5, <1>6, <1>7, Kinds DEF SuperStep

\* The transaction of a connection that still acts for it.
LEMMA BusyTx ==
  ASSUME IInv, NEW c \in Conn, Busy(c)
  PROVE  loc[c].tx \in 1..nTx /\ loc[c].tx \in Tx
<1>1. loc[c].tx \in 1..nTx => loc[c].tx \in Tx
  BY Sure, Constants DEF HistTypes, Tx
<1>2. CASE Works(c)
  BY <1>1, <1>2, Sure DEF WorkInv, OwnInv
<1>3. CASE KidsLeft(c)
  BY <1>1, <1>3, Sure DEF KidsInv
<1>4. CASE pc[c] = "delSync"
  BY <1>1, <1>4, Sure DEF FinishInv
<1>. QED
  BY <1>2, <1>3, <1>4 DEF Busy

\* A super-journal is created by CreateSuper, and never changed.
LEMMA NewSuper ==
  ASSUME IInv, NEW c \in Conn, Step(c), NEW t \in DOMAIN super'
  PROVE  \/ t \in DOMAIN super /\ super'[t] = super[t]
         \/ pc[c] = "super" /\ t = loc[c].tx
<1>1. ASSUME super' = super \/ super' = Without(loc[c].tx)
      PROVE  t \in DOMAIN super /\ super'[t] = super[t]
  BY <1>1 DEF Without
<1>2. CASE CreateSuper(c)
  BY <1>2 DEF CreateSuper
<1>3. CASE SyncSuper(c) \/ DeleteSuper(c) \/ SyncDirectory(c) \/ Fail(c)
  BY <1>1, <1>3 DEF SyncSuper, DeleteSuper, SyncDirectory, Fail, superVars
<1>4. CASE CheckChild(c)
  BY <1>1, <1>4, CheckChildDoes DEF superVars
<1>5. CASE UNCHANGED superVars
  BY <1>1, <1>5 DEF superVars
<1>. QED
  BY <1>2, <1>3, <1>4, <1>5, Kinds DEF SuperStep

\* A journal takes the name of a super-journal in WriteSuperJournal alone.
Naming(c, f) == pc[c] = "name" /\ f = loc[c].cur
NamesKept(c) ==
  \A f \in File :
    /\ \A j \in JrSeen(f)' : j # NoFile =>
         \/ j \in JrSeen(f) \/ j.super = NoSuper
         \/ jr[f] # NoFile /\ j.super = jr[f].super
         \/ Naming(c, f) /\ j.super = loc[c].tx
    /\ jr'[f] # NoFile =>
         \/ jr'[f].super = NoSuper
         \/ jr[f] # NoFile /\ jr'[f].super = jr[f].super
         \/ Naming(c, f) /\ jr'[f].super = loc[c].tx

\* It is enough to look at the one journal that is written.
LEMMA NamesOne ==
  ASSUME IInv, NEW c \in Conn, NEW f \in File, JrPut(f, jr'[f]),
         JrSeen(f)' \subseteq JrSeen(f) \cup {jr'[f]},
         jr'[f] # NoFile =>
           \/ jr'[f].super = NoSuper
           \/ jr[f] # NoFile /\ jr'[f].super = jr[f].super
           \/ Naming(c, f) /\ jr'[f].super = loc[c].tx
  PROVE  NamesKept(c)
<1>1. \A g \in File : g # f => jr'[g] = jr[g] /\ JrSeen(g)' = JrSeen(g)
  BY FilesStay DEF JrPut, JrSame
<1>. QED
  BY <1>1 DEF NamesKept

\* Every step keeps to that.
LEMMA NamesStep ==
  ASSUME IInv, Sound, NEW c \in Conn, Step(c)
  PROVE  NamesKept(c)
<1>1. ASSUME UNCHANGED jrVars PROVE NamesKept(c)
  BY <1>1, FilesStay DEF NamesKept, jrVars
<1>f. PICK f : f = loc[c].cur
  OBVIOUS
<1>2. CASE WriteSuperJournal(c)
  <2>1. pc[c] = "name" /\ pc[c] \in OnePcs /\ pc[c] \in CurPcs
    BY <1>2 DEF WriteSuperJournal, OnePcs, PhaseOnePcs, CurPcs
  <2>2. f \in File
    BY <1>f, <2>1, AtPhaseOne
  <2>3. JrPut(f, jr'[f]) /\ JrSeen(f)' \subseteq JrSeen(f) \cup {jr'[f]}
        /\ jr'[f].super = loc[c].tx
    BY <1>f, <1>2, WriteSuperJournalDoes
  <2>. QED
    BY <1>f, <2>1, <2>2, <2>3, NamesOne DEF Naming
<1>3. CASE SyncJournal(c)
  <2>1. pc[c] \in OnePcs /\ pc[c] \in CurPcs
    BY <1>3 DEF SyncJournal, OnePcs, PhaseOnePcs, CurPcs
  <2>2. f \in File /\ jr[f] # NoFile
    BY <1>f, <2>1, AtPhaseOne
  <2>3. JrPut(f, jr'[f]) /\ JrSeen(f)' \subseteq {jr'[f]} /\ jr'[f].super = jr[f].super
    BY <1>f, <1>3, SyncJournalDoes
  <2>. QED
    BY <2>2, <2>3, NamesOne
<1>4. CASE WritePages(c) \/ SyncDatabase(c) \/ PlayBack(c) \/ SyncPlayed(c)
  BY <1>1, <1>4 DEF WritePages, SyncDatabase, PlayBack, SyncPlayed
<1>5. CASE Finalize(c)
  <2>1. pc[c] = "finalize" /\ pc[c] \in EndPcs
    BY <1>5 DEF Finalize, EndPcs
  <2>2. f \in File /\ jr[f] # NoFile
    BY <1>f, <2>1, AtEnd
  <2>3. JrPut(f, jr'[f]) /\ JrSeen(f)' \subseteq JrSeen(f) \cup {jr'[f]}
        /\ (jr'[f] # NoFile => jr'[f].super \in {NoSuper, jr[f].super})
    BY <1>f, <1>5, FinalizeDoes
  <2>. QED
    BY <2>2, <2>3, NamesOne
<1>6. CASE EndSync(c)
  <2>1. f \in File /\ JrPut(f, jr[f]) /\ jr' = jr /\ JrSeen(f)' \subseteq JrSeen(f)
    BY <1>f, <1>6, EndSyncDoes
  <2>. QED
    BY <2>1, NamesOne
<1>7. ASSUME NEW g \in File, BeginWrite(c, g) PROVE NamesKept(c)
  <2>1. JrPut(g, jr'[g]) /\ JrSeen(g)' \subseteq JrSeen(g) \cup {jr'[g]}
        /\ jr'[g].super = NoSuper
    BY <1>7, BeginWriteDoes
  <2>. QED
    BY <2>1, NamesOne
<1>8. ASSUME NEW g \in File, Spill(c, g) PROVE NamesKept(c)
  <2>1. JrPut(g, jr'[g]) /\ JrSeen(g)' \subseteq {jr'[g]} /\ jr'[g].super = NoSuper
    BY <1>8, SpillDoes
  <2>. QED
    BY <2>1, NamesOne
<1>. QED
  BY <1>1, <1>2, <1>3, <1>4, <1>5, <1>6, <1>7, <1>8, Kinds DEF FileStep

\* Only a commit changes what is committed, in files that it has locked.
HistKept(c) ==
  /\ HistTypes' /\ nTx' >= nTx
  /\ \A m \in maybe' : m \in maybe \/
       (Works(c) /\ \A f \in File : m[f] \in {committed[f], loc[c].tx})
  /\ \A f \in File : committed'[f] = committed[f] \/
       (Works(c) /\ lock[c][f] = EXCLUSIVE_LOCK)

\* The commit adds its image to those that may be left.
LEMMA CommitDoes ==
  ASSUME IInv, NEW c \in Conn, Works(c), loc[c].tx \in 1..nTx,
         committed' = Image(c), maybe' = maybe \cup {Image(c)}
  PROVE  /\ committed' \in [File -> 0..MaxTx]
         /\ maybe' \subseteq [File -> 0..MaxTx] /\ IsFiniteSet(maybe')
         /\ \A f \in File : committed'[f] = IF f \in loc[c].files THEN loc[c].tx
                                            ELSE committed[f]
         /\ \A m \in maybe' : m \in maybe \/
              \A f \in File : m[f] \in {committed[f], loc[c].tx}
         /\ Image(c) \in maybe'
<1>1. /\ committed \in [File -> 0..MaxTx] /\ maybe \subseteq [File -> 0..MaxTx]
      /\ IsFiniteSet(maybe) /\ nTx \in 0..MaxTx
  BY Sure DEF HistTypes
<1>2. loc[c].tx \in 0..MaxTx
  BY <1>1, Constants
<1>3. Image(c) \in [File -> 0..MaxTx]
      /\ \A f \in File : Image(c)[f] = IF f \in loc[c].files THEN loc[c].tx
                                       ELSE committed[f]
  BY <1>1, <1>2 DEF Image
<1>. HIDE DEF Image
<1>4. IsFiniteSet(maybe')
  BY <1>1, FS_AddElement
<1>. QED
  BY <1>1, <1>3, <1>4

\* The sync of a commit makes it certain, if it is the only one that is not.
LEMMA SettleDoes ==
  ASSUME IInv, maybe' = Settled
  PROVE  /\ maybe' \subseteq maybe /\ IsFiniteSet(maybe')
         /\ Cardinality(maybe) = 2 => maybe' = {committed}
         /\ Cardinality(maybe) # 2 => maybe' = maybe
<1>1. committed \in maybe /\ IsFiniteSet(maybe)
  BY DEF IInv, PendInv, TypeInv, HistTypes
<1>2. IsFiniteSet({committed})
  BY FS_Singleton
<1>. QED
  BY <1>1, <1>2 DEF Settled

\* The commit of a single file, just before it.
LEMMA WorksFinalize ==
  ASSUME IInv, NEW c \in Conn, pc[c] = "finalize", Single(c)
  PROVE  /\ Works(c) /\ OwnInv(c) /\ StepInv(c) /\ ProgressInv(c)
         /\ loc[c].files = {loc[c].cur} /\ loc[c].cur \in File
         /\ lock[c][loc[c].cur] = EXCLUSIVE_LOCK
         /\ loc[c].files = Written(c) /\ loc[c].tx \in 1..nTx
<1>1. Works(c)
  BY DEF Works, Waits
<1>2. OwnInv(c) /\ StepInv(c) /\ ProgressInv(c)
  BY <1>1, Sure DEF WorkInv
<1>. QED
  BY <1>1, <1>2, AtEnd DEF OwnInv, StepInv, EndPcs

\* Every step keeps to that.
LEMMA HistStepKept ==
  ASSUME IInv, NEW c \in Conn, Step(c)
  PROVE  HistKept(c)
<1>0. HistTypes /\ committed \in maybe /\ nTx \in Nat /\ nLosses \in Nat
  BY Sure, Constants DEF HistTypes, PendInv, IInv
<1>n. UNCHANGED nLosses
  BY Kinds
<1>1. CASE UNCHANGED histVars
  BY <1>0, <1>1, <1>n DEF HistKept, HistTypes, histVars
<1>h. ASSUME Works(c), loc[c].tx \in 1..nTx, nTx' = nTx, committed' = Image(c),
             maybe' = maybe \cup {Image(c)},
             \A f \in loc[c].files : lock[c][f] = EXCLUSIVE_LOCK
      PROVE  HistKept(c)
  <2>1. /\ committed' \in [File -> 0..MaxTx]
        /\ maybe' \subseteq [File -> 0..MaxTx] /\ IsFiniteSet(maybe')
        /\ \A f \in File : committed'[f] = IF f \in loc[c].files THEN loc[c].tx
                                           ELSE committed[f]
        /\ \A m \in maybe' : m \in maybe \/
             \A f \in File : m[f] \in {committed[f], loc[c].tx}
    BY <1>h, CommitDoes
  <2>2. HistTypes'
    BY <1>0, <1>n, <1>h, <2>1 DEF HistTypes
  <2>3. nTx' >= nTx
    BY <1>0, <1>h
  <2>. QED
    BY <1>h, <2>1, <2>2, <2>3 DEF HistKept
<1>2. CASE DeleteSuper(c)
  <2>1. /\ pc[c] = "del" /\ pc[c] \in OnePcs /\ nTx' = nTx
        /\ committed' = Image(c) /\ maybe' = maybe \cup {Image(c)}
    BY <1>2 DEF DeleteSuper, OnePcs, PhaseOnePcs
  <2>2. Works(c) /\ loc[c].tx \in 1..nTx
        /\ \A f \in loc[c].files : lock[c][f] = EXCLUSIVE_LOCK
    BY <2>1, AtPhaseOne DEF StepInv
  <2>. QED
    BY <1>h, <2>1, <2>2
<1>3. CASE SyncDirectory(c)
  <2>1. maybe' = Settled /\ UNCHANGED <<committed, nTx>>
    BY <1>3 DEF SyncDirectory
  <2>. QED
    BY <1>0, <1>n, <2>1, SettleDoes DEF HistKept, HistTypes
<1>4. CASE Finalize(c)
  <2>1. pc[c] = "finalize" /\ nTx' = nTx
    BY <1>4 DEF Finalize
  <2>2. CASE Single(c)
    <3>1. committed' = Image(c) /\ maybe' = maybe \cup {Image(c)}
      BY <1>4, <2>2 DEF Finalize
    <3>2. Works(c) /\ loc[c].tx \in 1..nTx
          /\ \A f \in loc[c].files : lock[c][f] = EXCLUSIVE_LOCK
      BY <2>1, <2>2, WorksFinalize
    <3>. QED
      BY <1>h, <2>1, <3>1, <3>2
  <2>3. CASE ~Single(c)
    BY <1>0, <1>1, <1>4, <2>1, <2>3 DEF Finalize, histVars
  <2>. QED
    BY <2>2, <2>3
<1>5. CASE EndSync(c)
  <2>1. UNCHANGED <<committed, nTx>> /\ (maybe' = Settled \/ maybe' = maybe)
    BY <1>5 DEF EndSync
  <2>. QED
    BY <1>0, <1>n, <2>1, SettleDoes DEF HistKept, HistTypes
<1>6. ASSUME NEW f \in File, BeginWrite(c, f) PROVE HistKept(c)
  <2>1. /\ UNCHANGED <<committed, maybe>>
        /\ nTx' = nTx \/ (nTx' = nTx + 1 /\ nTx + 1 <= MaxTx)
    BY <1>6 DEF BeginWrite
  <2>. QED
    BY <1>0, <1>n, <2>1, Constants DEF HistKept, HistTypes
<1>. QED
  BY <1>1, <1>2, <1>3, <1>4, <1>5, <1>6, Kinds DEF HistStep
-----------------------------------------------------------------------------
(* What a step of c leaves to another connection *)

Undisturbed(d) ==
  /\ pc'[d] = pc[d] /\ loc'[d] = loc[d] /\ lock'[d] = lock[d] /\ view'[d] = view[d]
  /\ Written(d)' = Written(d)
  /\ \A f \in Written(d) : /\ f \in File /\ db'[f] = db[f] /\ jr'[f] = jr[f]
                           /\ DbSeen(f)' = DbSeen(f) /\ JrSeen(f)' = JrSeen(f)
  /\ \A f \in File : lock[d][f] # NO_LOCK =>
       committed'[f] = committed[f] /\ DbSeen(f)' \subseteq DbSeen(f)

\* The locks of a connection protect what it works on.
LEMMA Untouched ==
  ASSUME IInv, Sound, NEW c \in Conn, Step(c), NEW d \in Conn, d # c
  PROVE  Undisturbed(d)
<1>1. pc'[d] = pc[d] /\ loc'[d] = loc[d] /\ lock'[d] = lock[d] /\ view'[d] = view[d]
  BY ConnStep, Sure DEF OtherSame
<1>2. FilesKept(c) /\ HistKept(c)
  BY FilesStep, HistStepKept
<1>3. \A f \in File : lock[d][f] \in {0, 1, 2, 4}
  BY Sure, Types
<1>4. ASSUME NEW f \in Written(d)
      PROVE  f \in File /\ FileSame(f)
  BY <1>2, <1>3, <1>4 DEF Written, FilesKept
<1>5. ASSUME NEW f \in Written(d)
      PROVE  /\ f \in File /\ db'[f] = db[f] /\ jr'[f] = jr[f]
             /\ DbSeen(f)' = DbSeen(f) /\ JrSeen(f)' = JrSeen(f)
  <2>1. f \in File /\ DbSame(f) /\ JrSame(f)
    BY <1>4, <1>5 DEF FileSame
  <2>. QED
    BY <2>1, FilesStay DEF DbSame, JrSame
<1>6. ASSUME NEW f \in File, lock[d][f] # NO_LOCK
      PROVE  committed'[f] = committed[f] /\ DbSeen(f)' \subseteq DbSeen(f)
  <2>2. lock[c][f] # EXCLUSIVE_LOCK
    BY <1>6, Sure DEF LockInv
  <2>1. DbSeen(f)' \subseteq DbSeen(f)
    BY <1>2, <2>2 DEF FilesKept
  <2>. QED
    BY <1>2, <2>1, <2>2 DEF HistKept
<1>7. Written(d)' = Written(d)
  BY <1>1 DEF Written
<1>. QED
  BY <1>1, <1>5, <1>6, <1>7 DEF Undisturbed

\* It is still in the same part of its work.
LEMMA WorksKept ==
  ASSUME NEW d, Undisturbed(d)
  PROVE  /\ Works(d)' <=> Works(d)
         /\ Waits(d)' <=> Waits(d)
         /\ Single(d)' <=> Single(d)
         /\ KidsLeft(d)' <=> KidsLeft(d)
         /\ Busy(d)' <=> Busy(d)
         /\ Pending(d)' <=> Pending(d)
         /\ MultiTx(d)' <=> MultiTx(d)
<1>. USE DEF Undisturbed
<1>1. Single(d)' <=> Single(d)
  BY DEF Single
<1>2. Waits(d)' <=> Waits(d)
  BY <1>1 DEF Waits
<1>3. Works(d)' <=> Works(d)
  BY <1>2 DEF Works
<1>4. KidsLeft(d)' <=> KidsLeft(d)
  BY DEF KidsLeft
<1>5. Busy(d)' <=> Busy(d)
  BY <1>3, <1>4 DEF Busy
<1>6. Pending(d)' <=> Pending(d)
  BY <1>1 DEF Pending
<1>7. MultiTx(d)' <=> MultiTx(d)
  BY DEF MultiTx
<1>. QED
  BY <1>1, <1>2, <1>3, <1>4, <1>5, <1>6, <1>7

\* A file that a connection has locked stays as it is.
LEMMA CleanKept ==
  ASSUME NEW d, Undisturbed(d), NEW f \in File, lock[d][f] # NO_LOCK, Clean(f)
  PROVE  Clean(f)'
BY DEF Undisturbed, Clean

\* Its readers go on seeing what is committed.
LEMMA OthersLevel ==
  ASSUME IInv, NEW d \in Conn, Undisturbed(d)
  PROVE  LevelInv(d)'
<1>1. LevelInv(d) /\ \A f \in File : lock[d][f] \in {0, 1, 2, 4}
  BY Sure, Types
<1>2. lock'[d] = lock[d] /\ view'[d] = view[d]
  BY DEF Undisturbed
<1>3. \A f \in File : lock[d][f] \in {SHARED_LOCK, RESERVED_LOCK} => Clean(f)'
  BY <1>1, CleanKept DEF LevelInv
<1>4. \A f \in File : lock[d][f] = SHARED_LOCK => view'[d][f] = committed'[f]
  BY <1>1, <1>2 DEF LevelInv, Undisturbed
<1>5. \A f \in File : lock[d][f] = RESERVED_LOCK => ~HotJournal(f)'
  BY <1>1 DEF LevelInv, Undisturbed, HotJournal, Written
<1>. QED
  BY <1>2, <1>3, <1>4, <1>5 DEF LevelInv

\* No two connections act for the same transaction.
LEMMA TxApart ==
  ASSUME IInv, NEW c \in Conn, NEW d \in Conn, c # d, Works(d), Busy(c)
  PROVE  loc[c].tx # loc[d].tx
BY Sure DEF PairInv

\* Its transaction stays its own.
LEMMA OthersOwn ==
  ASSUME IInv, Sound, NEW c \in Conn, Step(c), NEW d \in Conn, d # c,
         Undisturbed(d), Works(d)
  PROVE  OwnInv(d)'
<1>0. OwnInv(d) /\ pc'[d] = pc[d] /\ loc'[d] = loc[d] /\ Written(d)' = Written(d)
  BY Sure DEF WorkInv, Undisturbed
<1>1. HistKept(c) /\ NamesKept(c)
  BY HistStepKept, NamesStep
<1>2. Busy(c) => loc[c].tx # loc[d].tx
  BY TxApart
<1>3. loc[d].tx \in 1..nTx' /\ loc[d].tx # NoSuper
  BY <1>0, <1>1, Sure, Constants DEF OwnInv, HistKept, HistTypes, NoSuper
<1>4. \A m \in maybe', f \in File : m[f] # loc[d].tx
  <2>1. \A m \in maybe, f \in File : m[f] # loc[d].tx
    BY <1>0 DEF OwnInv
  <2>2. committed \in maybe
    BY Sure DEF PendInv
  <2>. QED
    BY <1>1, <1>2, <2>1, <2>2 DEF HistKept, Busy
<1>5. ASSUME NEW f \in File, NEW j \in JrSeen(f)', j # NoFile, j.super = loc[d].tx
      PROVE  f \in Written(d) /\ pc[d] \notin {"idle", "excl", "super", "superSync"}
  <2>1. jr[f] \in JrSeen(f)
    BY DEF JrSeen
  <2>2. Naming(c, f) => Busy(c)
    BY DEF Naming, Busy, Works, OnePcs, PhaseOnePcs
  <2>. QED
    BY <1>0, <1>1, <1>2, <1>3, <1>5, <2>1, <2>2 DEF NamesKept, OwnInv
<1>6. \A f \in Written(d) : /\ jr'[f] # NoFile /\ jr'[f].orig = committed'[f]
                            /\ jr'[f].super \in {NoSuper, loc[d].tx}
  <2>1. \A f \in Written(d) : f \in File /\ lock[d][f] # NO_LOCK
    BY DEF Written
  <2>. QED
    BY <1>0, <2>1 DEF OwnInv, Undisturbed
<1>. QED
  BY <1>0, <1>3, <1>4, <1>5, <1>6 DEF OwnInv

\* What its commit relies on stays: its locks and its super-journal.
LEMMA OthersStep ==
  ASSUME IInv, NEW c \in Conn, Step(c), NEW d \in Conn, d # c,
         Undisturbed(d), Works(d)
  PROVE  StepInv(d)'
<1>0. /\ StepInv(d) /\ pc'[d] = pc[d] /\ loc'[d] = loc[d] /\ lock'[d] = lock[d]
      /\ Written(d)' = Written(d) /\ (MultiTx(d)' <=> MultiTx(d))
  BY Sure, WorksKept DEF WorkInv, Undisturbed
<1>1. loc[d].tx \in Tx
  BY Sure, Constants DEF WorkInv, OwnInv, Tx, HistTypes
<1>2. SuperSame(loc[d].tx)
  BY <1>1, SupersStep, TxApart DEF SupersKept
<1>. QED
  BY <1>0, <1>2 DEF StepInv, SuperSame

\* What it has done to its files stays done.
LEMMA DoneKept ==
  ASSUME IInv, NEW d \in Conn, Undisturbed(d), NEW f \in Written(d)
  PROVE  /\ Journaled(d, f) => Journaled(d, f)'
         /\ Done(d, f) => Done(d, f)'
<1>1. /\ jr'[f] = jr[f] /\ JrSeen(f)' = JrSeen(f) /\ DbSeen(f)' = DbSeen(f)
      /\ loc'[d] = loc[d] /\ (MultiTx(d)' <=> MultiTx(d))
  BY WorksKept DEF Undisturbed
<1>2. Tail(d)' = Tail(d) /\ (HotJournal(f)' <=> HotJournal(f))
  BY <1>1 DEF Tail, HotJournal
<1>. QED
  BY <1>1, <1>2 DEF Journaled, Done

\* The progress of its commit stays.
LEMMA OthersProgress ==
  ASSUME IInv, NEW d \in Conn, Undisturbed(d), Works(d)
  PROVE  ProgressInv(d)'
<1>0. /\ ProgressInv(d) /\ OwnInv(d) /\ StepInv(d) /\ pc'[d] = pc[d]
      /\ loc'[d] = loc[d] /\ (MultiTx(d)' <=> MultiTx(d)) /\ Written(d)' = Written(d)
  BY Sure, WorksKept DEF WorkInv, Undisturbed
<1>1. pc[d] # "idle" => loc[d].files = Written(d)
  BY <1>0 DEF OwnInv
<1>2. NotDone(d)' = NotDone(d) /\ NotNamed(d)' = NotNamed(d) /\ Tail(d)' = Tail(d)
  <2>1. NotDone(d)' = NotDone(d)
    BY <1>0 DEF NotDone
  <2>. QED
    BY <1>0, <2>1 DEF NotNamed, Tail
<1>3. pc[d] \in CurPcs => loc[d].cur \in Written(d)
  BY <1>0, <1>1 DEF StepInv, CurPcs
<1>4. NotNamed(d) \subseteq Written(d)
  <2>1. pc[d] \in OnePcs => loc[d].todo \subseteq loc[d].files
    BY <1>0 DEF StepInv
  <2>2. pc[d] \in OnePcs \cup {"idle", "phaseTwo", "finalize"}
    BY DEF Works, Waits
  <2>. QED
    BY <1>1, <1>3, <2>1, <2>2 DEF NotNamed, NotDone, OnePcs, PhaseOnePcs, CurPcs
<1>5. pc[d] # "idle" => \A f \in loc[d].files \ NotDone(d) : Done(d, f)'
  BY <1>0, <1>1, DoneKept DEF ProgressInv
<1>6. \A f \in NotNamed(d) : jr'[f].super = NoSuper
  BY <1>0, <1>4 DEF ProgressInv, Undisturbed
<1>7. pc[d] \in {"write", "dbsync"} => Journaled(d, loc[d].cur)'
  <2>1. ASSUME NEW f, f = loc[d].cur, pc[d] \in {"write", "dbsync"}
        PROVE  Journaled(d, f)'
    BY <1>0, <1>3, <2>1, DoneKept DEF ProgressInv, CurPcs
  <2>2. PICK f : f = loc[d].cur
    OBVIOUS
  <2>3. f = loc[d].cur'
    BY <1>0, <2>2
  <2>. QED
    BY <2>1, <2>2, <2>3
<1>8. /\ pc[d] = "jsync" => jr'[loc[d].cur].super = Tail(d)
      /\ pc[d] = "dbsync" => db'[loc[d].cur] = loc[d].tx
  BY <1>0, <1>3 DEF ProgressInv, Undisturbed, CurPcs
<1>. QED
  BY <1>0, <1>2, <1>5, <1>6, <1>7, <1>8 DEF ProgressInv

\* The second phase of its commit finds its files as it has left them.
LEMMA OthersFinish ==
  ASSUME IInv, NEW c \in Conn, Step(c), NEW d \in Conn, d # c, Undisturbed(d)
  PROVE  FinishInv(d)'
<1>0. /\ FinishInv(d) /\ pc'[d] = pc[d] /\ loc'[d] = loc[d] /\ lock'[d] = lock[d]
      /\ (MultiTx(d)' <=> MultiTx(d)) /\ Written(d)' = Written(d)
      /\ (Single(d)' <=> Single(d)) /\ (Waits(d)' <=> Waits(d))
  BY Sure, WorksKept DEF Undisturbed
<1>1. loc[d].todo \subseteq File /\ loc[d].files \subseteq File
  BY Sure DEF ConnTypes, Locs
<1>2. ASSUME NEW f \in loc[d].todo, Clean(f), lock[d][f] = EXCLUSIVE_LOCK,
             jr[f] # NoFile
      PROVE  Clean(f)' /\ lock'[d][f] = EXCLUSIVE_LOCK /\ jr'[f] # NoFile
  <2>1. f \in File /\ f \in Written(d) /\ lock[d][f] # NO_LOCK
    BY <1>1, <1>2 DEF Written
  <2>. QED
    BY <1>0, <1>2, <2>1, CleanKept DEF Undisturbed
<1>3. pc[d] = "delSync" => \A f \in loc[d].files : JrSeen(f)' = JrSeen(f)
  BY <1>0 DEF FinishInv, Undisturbed
<1>4. pc[d] = "endSync" => jr'[loc[d].cur] = jr[loc[d].cur]
  <2>1. pc[d] = "endSync" => loc[d].cur \in Written(d)
    BY Sure, AtEnd DEF EndPcs
  <2>. QED
    BY <2>1 DEF Undisturbed
<1>5. (pc[d] \in TwoPcs /\ loc[d].ending = "commit" /\ ~Waits(d)) =>
        \A f \in loc[d].todo : Clean(f)' /\ lock'[d][f] = EXCLUSIVE_LOCK
                               /\ jr'[f] # NoFile
  BY <1>0, <1>2 DEF FinishInv
<1>6. pc[d] = "delSync" =>
        /\ loc[d].todo = Written(d) /\ loc[d].files = Written(d)
        /\ loc[d].ending = "commit" /\ MultiTx(d)
        /\ \A f \in loc[d].files : \A j \in JrSeen(f)' :
             j # NoFile /\ j.hot /\ j.super = loc[d].tx
  BY <1>0, <1>3 DEF FinishInv
<1>8. pc[d] = "delSync" => loc[d].tx \notin DOMAIN super'
  <2>1. pc[d] = "delSync" => loc[d].tx \notin DOMAIN super /\ Busy(d)
    BY <1>0 DEF FinishInv, Busy
  <2>3. pc[c] = "super" => Works(c)
    BY DEF Works, OnePcs, PhaseOnePcs
  <2>2. Busy(d) /\ loc[d].tx \in DOMAIN super' => loc[d].tx \in DOMAIN super
    BY <2>3, NewSuper, Sure DEF PairInv
  <2>. QED
    BY <2>1, <2>2
<1>9. pc[d] = "delSync" => loc[d].tx \in 1..nTx'
  BY <1>0, HistStepKept, Sure, Constants DEF FinishInv, HistKept, HistTypes
<1>7. /\ pc[d] = "phaseTwo" => loc[d].ending = "commit"
      /\ pc[d] \in {"finalize", "endSync", "kids"} /\ Single(d) => loc[d].todo = {}
      /\ pc[d] = "endSync" /\ Single(d) =>
           /\ loc[d].files = {loc[d].cur} /\ extraSync
           /\ jr'[loc[d].cur] # NoFile => ~jr'[loc[d].cur].hot
  BY <1>0, <1>4 DEF FinishInv
<1>. QED
  BY <1>0, <1>5, <1>6, <1>7, <1>8, <1>9 DEF FinishInv

\* The file that it is at stays as it is.
LEMMA OthersCur ==
  ASSUME IInv, NEW c \in Conn, Step(c), NEW d \in Conn, d # c, Undisturbed(d)
  PROVE  CurInv(d)'
<1>. SUFFICES ASSUME pc[d] \in EndPcs PROVE CurInv(d)'
  BY DEF CurInv, Undisturbed
<1>0. /\ CurInv(d) /\ pc'[d] = pc[d] /\ loc'[d] = loc[d] /\ lock'[d] = lock[d]
      /\ (Waits(d)' <=> Waits(d))
  BY Sure, WorksKept DEF Undisturbed
<1>f. PICK f : f = loc[d].cur
  OBVIOUS
<1>1. f \in Written(d) /\ f \in File /\ lock[d][f] \in {RESERVED_LOCK, EXCLUSIVE_LOCK}
  BY <1>f, AtEnd
<1>2. db'[f] = db[f] /\ jr'[f] = jr[f] /\ committed'[f] = committed[f]
  BY <1>1 DEF Undisturbed
<1>3. Clean(f) => Clean(f)'
  BY <1>1, CleanKept
<1>4. jr[f] # NoFile => (SuperExists(jr[f])' <=> SuperExists(jr[f]))
  <2>1. f \notin Written(c)
    BY <1>1, Sure, Types DEF LockInv, Written
  <2>. QED
    BY <1>1, <1>2, <2>1, SupersStep DEF SupersKept, SuperExists
<1>5. loc[d].play \in BOOLEAN
  BY Sure DEF ConnTypes, Locs
<1>6. /\ f \in File /\ lock[d][f] >= RESERVED_LOCK /\ f \notin loc[d].todo
      /\ pc[d] \in {"check", "play", "sync"} => loc[d].ending \in {"hot", "rollback"}
      /\ pc[d] # "endSync" => jr[f] # NoFile
      /\ pc[d] \in {"play", "sync", "finalize"} /\ loc[d].ending # "commit" =>
           loc[d].play = SuperExists(jr[f])
      /\ pc[d] = "sync" => db[f] = committed[f]
      /\ pc[d] \in {"finalize", "endSync"} /\ ~Waits(d) => Clean(f)
  BY <1>0, <1>f DEF CurInv
<1>7. pc[d] \in {"play", "sync", "finalize"} /\ loc[d].ending # "commit" =>
        loc[d].play = SuperExists(jr[f])'
  BY <1>2, <1>4, <1>5, <1>6 DEF SuperExists
<1>8. f = loc[d].cur'
  BY <1>0, <1>f
<1>. QED
  BY <1>0, <1>2, <1>3, <1>6, <1>7, <1>8 DEF CurInv

\* Its rollback finds its files as it has left them.
LEMMA OthersRoll ==
  ASSUME IInv, NEW d \in Conn, Undisturbed(d)
  PROVE  RollInv(d)'
<1>0. /\ RollInv(d) /\ pc'[d] = pc[d] /\ loc'[d] = loc[d] /\ lock'[d] = lock[d]
      /\ (Single(d)' <=> Single(d)) /\ Written(d)' = Written(d)
  BY Sure, WorksKept DEF Undisturbed
<1>1. loc[d].todo \subseteq File
  BY Sure DEF ConnTypes, Locs
<1>2. \A f \in loc[d].todo : lock[d][f] >= RESERVED_LOCK => jr'[f] = jr[f]
  BY <1>1 DEF Undisturbed, Written
<1>. QED
  BY <1>0, <1>2 DEF RollInv

\* The children that it has still to look at are those that matter.
LEMMA OthersKids ==
  ASSUME IInv, Sound, NEW c \in Conn, Step(c), NEW d \in Conn, d # c, Undisturbed(d)
  PROVE  KidsInv(d)'
<1>. SUFFICES ASSUME KidsLeft(d) PROVE KidsInv(d)'
  BY WorksKept DEF KidsInv
<1>0. KidsInv(d) /\ pc'[d] = pc[d] /\ loc'[d] = loc[d]
  BY Sure DEF Undisturbed
<1>1. HistKept(c) /\ NamesKept(c)
  BY HistStepKept, NamesStep
<1>2. loc[d].tx \in 1..nTx' /\ loc[d].tx # NoSuper
  BY <1>0, <1>1, Sure, Constants DEF KidsInv, HistKept, HistTypes, NoSuper
<1>3. Works(c) => loc[c].tx # loc[d].tx
  BY Sure DEF PairInv, Busy
<1>4. \A f \in File : Naming(c, f) => Works(c)
  BY DEF Naming, Works, OnePcs, PhaseOnePcs
<1>5. \A g \in File : Names(g, loc[d].tx)' => Names(g, loc[d].tx)
  BY <1>0, <1>1, <1>2, <1>3, <1>4 DEF NamesKept, Names
<1>. QED
  BY <1>0, <1>2, <1>5 DEF KidsInv, Names

\* All of its invariant is kept.
LEMMA OthersKeep ==
  ASSUME IInv, Sound, NEW c \in Conn, Step(c), NEW d \in Conn, d # c
  PROVE  ConnInv(d)' /\ Undisturbed(d)
<1>1. Undisturbed(d)
  BY Untouched
<1>2. WorkInv(d)'
  BY <1>1, OthersOwn, OthersStep, OthersProgress, WorksKept DEF WorkInv
<1>. QED
  BY <1>1, <1>2, OthersLevel, OthersFinish, OthersCur, OthersRoll, OthersKids
  DEF ConnInv
-----------------------------------------------------------------------------
(* What a step leaves to the connection that takes it *)

\* What the changes of several fields leave in the others.
LEMMA FieldsGo ==
  ASSUME loc \in [Conn -> Locs], NEW c \in Conn
  PROVE  /\ \A f \in File :
              loc' = [loc EXCEPT ![c].cur = f, ![c].todo = @ \ {f}] =>
                /\ loc'[c].cur = f /\ loc'[c].todo = loc[c].todo \ {f}
                /\ loc'[c].tx = loc[c].tx /\ loc'[c].files = loc[c].files
                /\ loc'[c].play = loc[c].play /\ loc'[c].kids = loc[c].kids
                /\ loc'[c].ending = loc[c].ending
         /\ \A S \in SUBSET File, e \in Endings :
              loc' = [loc EXCEPT ![c].todo = S, ![c].ending = e] =>
                /\ loc'[c].todo = S /\ loc'[c].ending = e
                /\ loc'[c].tx = loc[c].tx /\ loc'[c].files = loc[c].files
                /\ loc'[c].play = loc[c].play /\ loc'[c].kids = loc[c].kids
                /\ loc'[c].cur = loc[c].cur
         /\ \A S \in SUBSET File :
              loc' = [loc EXCEPT ![c].files = S, ![c].todo = S] =>
                /\ loc'[c].files = S /\ loc'[c].todo = S
                /\ loc'[c].tx = loc[c].tx /\ loc'[c].ending = loc[c].ending
<1>1. ASSUME NEW f \in File, loc' = [loc EXCEPT ![c].cur = f, ![c].todo = @ \ {f}]
      PROVE  /\ loc'[c].cur = f /\ loc'[c].todo = loc[c].todo \ {f}
             /\ loc'[c].tx = loc[c].tx /\ loc'[c].files = loc[c].files
             /\ loc'[c].play = loc[c].play /\ loc'[c].kids = loc[c].kids
             /\ loc'[c].ending = loc[c].ending
  BY <1>1 DEF Locs
<1>2. ASSUME NEW S \in SUBSET File, NEW e \in Endings,
             loc' = [loc EXCEPT ![c].todo = S, ![c].ending = e]
      PROVE  /\ loc'[c].todo = S /\ loc'[c].ending = e
             /\ loc'[c].tx = loc[c].tx /\ loc'[c].files = loc[c].files
             /\ loc'[c].play = loc[c].play /\ loc'[c].kids = loc[c].kids
             /\ loc'[c].cur = loc[c].cur
  BY <1>2 DEF Locs
<1>3. ASSUME NEW S \in SUBSET File,
             loc' = [loc EXCEPT ![c].files = S, ![c].todo = S]
      PROVE  /\ loc'[c].files = S /\ loc'[c].todo = S
             /\ loc'[c].tx = loc[c].tx /\ loc'[c].ending = loc[c].ending
  BY <1>3 DEF Locs
<1>. QED
  BY <1>1, <1>2, <1>3

\* The judgement of a journal changes one field of the locals.
LEMMA FieldPlay ==
  ASSUME loc \in [Conn -> Locs], NEW c \in Conn, NEW p \in BOOLEAN,
         loc' = [loc EXCEPT ![c].play = p]
  PROVE  /\ loc'[c].play = p /\ loc'[c].tx = loc[c].tx
         /\ loc'[c].files = loc[c].files /\ loc'[c].todo = loc[c].todo
         /\ loc'[c].cur = loc[c].cur /\ loc'[c].kids = loc[c].kids
         /\ loc'[c].ending = loc[c].ending
BY DEF Locs

\* A new list of children changes one field of the locals,
LEMMA FieldKids ==
  ASSUME loc \in [Conn -> Locs], NEW c \in Conn, NEW S,
         loc' = [loc EXCEPT ![c].kids = S]
  PROVE  /\ loc'[c].kids = S /\ loc'[c].tx = loc[c].tx
         /\ loc'[c].files = loc[c].files /\ loc'[c].todo = loc[c].todo
         /\ loc'[c].cur = loc[c].cur /\ loc'[c].play = loc[c].play
         /\ loc'[c].ending = loc[c].ending
BY DEF Locs

\* and so does the number of a transaction.
LEMMA FieldTx ==
  ASSUME loc \in [Conn -> Locs], NEW c \in Conn, NEW x,
         loc' = [loc EXCEPT ![c].tx = x]
  PROVE  /\ loc'[c].tx = x /\ loc'[c].ending = loc[c].ending
         /\ loc'[c].files = loc[c].files
BY DEF Locs

\* A journal comes to count under EXCLUSIVE alone.
LEMMA HotStep ==
  ASSUME IInv, Sound, NEW c \in Conn, Step(c), NEW f \in File, HotJournal(f)'
  PROVE  HotJournal(f) \/ lock[c][f] = EXCLUSIVE_LOCK
<1>1. ASSUME UNCHANGED jrVars PROVE HotJournal(f)
  BY <1>1 DEF HotJournal, jrVars
<1>2. ASSUME NEW g \in File, JrPut(g, jr'[g]),
             HotJournal(g) \/ lock[c][g] = EXCLUSIVE_LOCK \/ ~HotJournal(g)'
      PROVE  HotJournal(f) \/ lock[c][f] = EXCLUSIVE_LOCK
  BY <1>2 DEF JrPut, JrSame, HotJournal
<1>g. PICK g : g = loc[c].cur
  OBVIOUS
<1>3. CASE WriteSuperJournal(c) \/ SyncJournal(c)
  <2>1. pc[c] \in OnePcs /\ pc[c] \in CurPcs
    BY <1>3 DEF WriteSuperJournal, SyncJournal, OnePcs, PhaseOnePcs, CurPcs
  <2>2. g \in File /\ lock[c][g] = EXCLUSIVE_LOCK
    BY <1>g, <2>1, AtPhaseOne
  <2>3. JrPut(g, jr'[g])
    BY <1>g, <1>3, WriteSuperJournalDoes, SyncJournalDoes
  <2>. QED
    BY <1>2, <2>2, <2>3
<1>4. CASE WritePages(c) \/ SyncDatabase(c) \/ PlayBack(c) \/ SyncPlayed(c)
  BY <1>1, <1>4 DEF WritePages, SyncDatabase, PlayBack, SyncPlayed
<1>5. CASE Finalize(c)
  <2>1. g \in File /\ JrPut(g, jr'[g])
        /\ (jr'[g] = NoFile \/ ~jr'[g].hot \/ jr'[g] = jr[g])
    BY <1>g, <1>5, FinalizeDoes
  <2>. QED
    BY <1>2, <2>1 DEF HotJournal
<1>6. CASE EndSync(c)
  BY <1>6, EndSyncDoes DEF HotJournal
<1>7. ASSUME NEW h \in File, BeginWrite(c, h)
      PROVE  HotJournal(f) \/ lock[c][f] = EXCLUSIVE_LOCK
  BY <1>2, <1>7, BeginWriteDoes DEF HotJournal
<1>8. ASSUME NEW h \in File, Spill(c, h)
      PROVE  HotJournal(f) \/ lock[c][f] = EXCLUSIVE_LOCK
  BY <1>2, <1>8, SpillDoes DEF HotJournal
<1>. QED
  BY <1>1, <1>3, <1>4, <1>5, <1>6, <1>7, <1>8, Kinds DEF FileStep

LevelAt(c, f) ==
  /\ lock[c][f] \in {SHARED_LOCK, RESERVED_LOCK} => Clean(f)
  /\ lock[c][f] = SHARED_LOCK => view[c][f] = committed[f]
  /\ lock[c][f] = RESERVED_LOCK => ~HotJournal(f)

\* A connection that keeps its level of a file, or gives up reading it, sees what
\* is committed.
LEMMA LevelStays ==
  ASSUME IInv, Sound, NEW c \in Conn, Step(c), NEW f \in File,
         \/ lock'[c][f] = lock[c][f] /\ view'[c][f] = view[c][f]
         \/ lock'[c][f] \in {NO_LOCK, EXCLUSIVE_LOCK}
  PROVE  LevelAt(c, f)'
<1>1. CASE lock'[c][f] \in {NO_LOCK, EXCLUSIVE_LOCK}
  BY <1>1 DEF LevelAt
<1>2. CASE lock[c][f] = EXCLUSIVE_LOCK
  BY <1>1, <1>2
<1>3. CASE lock[c][f] # EXCLUSIVE_LOCK /\ lock'[c][f] = lock[c][f]
           /\ view'[c][f] = view[c][f]
  <2>1. committed'[f] = committed[f] /\ DbSeen(f)' \subseteq DbSeen(f)
    BY <1>3, HistStepKept, FilesStep DEF HistKept, FilesKept
  <2>2. Clean(f) => Clean(f)'
    BY <2>1 DEF Clean
  <2>3. LevelAt(c, f)
    BY Sure DEF LevelInv, LevelAt
  <2>. QED
    BY <1>3, <2>1, <2>2, <2>3, HotStep DEF LevelAt
<1>. QED
  BY <1>1, <1>2, <1>3

\* While a transaction is not at its end, all of these hold by the program
\* counter alone.
LEMMA EarlyPcs ==
  ASSUME NEW c \in Conn, pc'[c] \in OnePcs \cup {"idle"},
         loc'[c].ending = "commit" => pc'[c] = "del"
  PROVE  FinishInv(c)' /\ CurInv(c)' /\ RollInv(c)' /\ KidsInv(c)'
<1>1. pc'[c] \notin TwoPcs \cup EndPcs \cup {"rollback", "kids"}
  BY DEF TwoPcs, EndPcs, OnePcs, PhaseOnePcs
<1>2. FinishInv(c)'
  BY <1>1 DEF FinishInv, TwoPcs
<1>. QED
  BY <1>1, <1>2 DEF CurInv, RollInv, KidsInv, KidsLeft, EndPcs

\* It is enough to look at the one file whose lock changes.
LEMMA LevelOne ==
  ASSUME IInv, Sound, NEW c \in Conn, Step(c), NEW f \in File, LevelAt(c, f)',
         \A g \in File : g # f =>
           lock'[c][g] = lock[c][g] /\ view'[c][g] = view[c][g]
  PROVE  LevelInv(c)'
<1>1. \A g \in File : LevelAt(c, g)'
  BY LevelStays
<1>. QED
  BY <1>1 DEF LevelInv, LevelAt

\* No step of c makes it read anything but what is committed.
LEMMA LevelOwn ==
  ASSUME IInv, Sound, NEW c \in Conn, Step(c)
  PROVE  LevelInv(c)'
<1>0. ConnTypes /\ lock \in [Conn -> [File -> Locks]]
      /\ view \in [Conn -> [File -> Images]] /\ ConnTypes
  BY Sure DEF ConnTypes
<1>1. ASSUME lock' = lock, view' = view PROVE LevelInv(c)'
  <2>1. \A g \in File : LevelAt(c, g)'
    BY <1>1, LevelStays
  <2>. QED
    BY <2>1 DEF LevelInv, LevelAt
<1>2. ASSUME \A f \in File : lock'[c][f] = NO_LOCK PROVE LevelInv(c)'
  BY <1>2 DEF LevelInv
<1>3. CASE EndRead(c) \/ EndTransaction(c) \/ Die(c)
  BY <1>0, <1>2, <1>3, UnlockDoes DEF EndRead, EndTransaction, Die
<1>4. \A f \in File, l \in Locks : Level(c, f, l) =>
        /\ lock'[c][f] = l /\ \A g \in File : g # f => lock'[c][g] = lock[c][g]
  BY <1>0, LevelDoes
<1>5. 0 \in Locks /\ 1 \in Locks /\ 2 \in Locks /\ 4 \in Locks
  BY DEF Locks
<1>6. ASSUME NEW f \in File, BeginRead(c, f) PROVE LevelInv(c)'
  <2>1. ~HotJournal(f)
    <3>1. ASSUME NEW d \in Conn, lock[d][f] = RESERVED_LOCK PROVE ~HotJournal(f)
      BY <3>1, Sure DEF LevelInv
    <3>. QED
      BY <1>6, <3>1 DEF BeginRead, Others
  <2>2. Clean(f) /\ db[f] = committed[f]
    BY <2>1, CleanUnless DEF HotJournal
  <2>3. UNCHANGED <<dbVars, histVars>> /\ Level(c, f, SHARED_LOCK)
        /\ view' = [view EXCEPT ![c][f] = db[f]]
    BY <1>6 DEF BeginRead
  <2>4. view'[c][f] = db[f] /\ \A g \in File : g # f => view'[c][g] = view[c][g]
    BY <1>0, <2>3
  <2>5. Clean(f)' /\ committed' = committed
    BY <2>2, <2>3 DEF Clean, DbSeen, dbVars, histVars
  <2>6. LevelAt(c, f)'
    BY <1>4, <1>5, <2>2, <2>3, <2>4, <2>5 DEF LevelAt
  <2>. QED
    BY <1>4, <1>5, <2>3, <2>4, <2>6, LevelOne
<1>7. ASSUME NEW f \in File, BeginRecovery(c, f) \/ ExclusiveLock(c, f)
      PROVE  LevelInv(c)'
  <2>1. Level(c, f, EXCLUSIVE_LOCK) /\ view' = view
    BY <1>7 DEF BeginRecovery, ExclusiveLock
  <2>2. LevelAt(c, f)'
    BY <1>4, <1>5, <2>1 DEF LevelAt
  <2>. QED
    BY <1>4, <1>5, <2>1, <2>2, LevelOne
<1>8. ASSUME NEW f \in File, BeginWrite(c, f) PROVE LevelInv(c)'
  <2>1. Level(c, f, RESERVED_LOCK) /\ view' = view /\ UNCHANGED <<dbVars, committed>>
    BY <1>8 DEF BeginWrite
  <2>2. lock[c][f] = SHARED_LOCK /\ ~jr'[f].hot
    BY <1>8, BeginWriteDoes
  <2>3. Clean(f)
    BY <2>2, Sure DEF LevelInv
  <2>4. Clean(f)'
    BY <2>1, <2>3 DEF Clean, DbSeen, dbVars
  <2>5. LevelAt(c, f)'
    BY <1>4, <1>5, <2>1, <2>2, <2>4 DEF LevelAt, HotJournal
  <2>. QED
    BY <1>4, <1>5, <2>1, <2>5, LevelOne
<1>9. CASE EndSync(c)
  <2>f. PICK f : f = loc[c].cur
    OBVIOUS
  <2>1. pc[c] = "endSync" /\ f \in File /\ UNCHANGED <<dbVars, committed>>
        /\ Level(c, f, SHARED_LOCK) /\ view' = [view EXCEPT ![c][f] = db[f]]
    BY <2>f, <1>9, EndSyncDoes DEF EndSync
  <2>2. Clean(f)
    BY <2>f, <2>1, Sure DEF CurInv, EndPcs, Waits
  <2>3. Clean(f)' /\ committed' = committed /\ db[f] = committed[f]
    BY <2>1, <2>2 DEF Clean, DbSeen, dbVars
  <2>4. view'[c][f] = db[f] /\ \A g \in File : g # f => view'[c][g] = view[c][g]
    BY <1>0, <2>1
  <2>5. LevelAt(c, f)'
    BY <1>4, <1>5, <2>1, <2>3, <2>4 DEF LevelAt
  <2>. QED
    BY <1>4, <1>5, <2>1, <2>4, <2>5, LevelOne
<1>10. CASE \/ Commit(c) \/ Locked(c) \/ CreateSuper(c) \/ SyncSuper(c) \/ PhaseOne(c)
            \/ WriteSuperJournal(c) \/ SyncJournal(c) \/ WritePages(c)
            \/ SyncDatabase(c) \/ DeleteSuper(c) \/ SyncDirectory(c)
  BY <1>1, <1>10 DEF Commit, Locked, CreateSuper, SyncSuper, PhaseOne,
    WriteSuperJournal, SyncJournal, WritePages, SyncDatabase, DeleteSuper,
    SyncDirectory
<1>11. CASE \/ PhaseTwo(c) \/ Fail(c) \/ RollbackFile(c) \/ CheckSuper(c)
            \/ PlayBack(c) \/ SyncPlayed(c) \/ Finalize(c) \/ CheckChild(c)
            \/ NoChildren(c)
  BY <1>1, <1>11 DEF PhaseTwo, Fail, RollbackFile, CheckSuper, PlayBack,
    SyncPlayed, Finalize, CheckChild, NoChildren
<1>12. ASSUME NEW f \in File, Spill(c, f) PROVE LevelInv(c)'
  BY <1>1, <1>12 DEF Spill, connVars
<1>. QED
  BY <1>3, <1>6, <1>7, <1>8, <1>9, <1>10, <1>11, <1>12 DEF Step
-----------------------------------------------------------------------------
(* A transaction on its way to the commit *)

EarlyOnes == {"idle", "excl", "super", "superSync"}

\* What the transaction owns stays its own, while its journals are like before.
LEMMA OwnStays ==
  ASSUME IInv, Sound, NEW c \in Conn, Step(c), Works(c),
         UNCHANGED histVars, loc'[c].tx = loc[c].tx, Written(c)' = Written(c),
         pc'[c] \in EarlyOnes => pc[c] \in EarlyOnes,
         pc'[c] # "idle" => loc'[c].files = Written(c) /\ Written(c) # {},
         \A f \in Written(c) : JrSame(f) \/
           (/\ jr'[f] # NoFile /\ jr'[f].orig = committed[f]
            /\ jr'[f].super \in {NoSuper, loc[c].tx})
  PROVE  OwnInv(c)'
<1>0. OwnInv(c)
  BY Sure DEF WorkInv
<1>1. nTx' = nTx /\ maybe' = maybe /\ committed' = committed
  BY DEF histVars
<1>2. loc[c].tx \in 1..nTx /\ loc[c].tx # NoSuper
  BY <1>0, <1>1, Sure, Constants DEF OwnInv, HistTypes, NoSuper
<1>3. ASSUME NEW f \in File, NEW j \in JrSeen(f)', j # NoFile, j.super = loc[c].tx
      PROVE  f \in Written(c) /\ pc'[c] \notin EarlyOnes
  <2>1. jr[f] \in JrSeen(f)
    BY DEF JrSeen
  <2>2. Naming(c, f) => f \in Written(c) /\ pc[c] \notin EarlyOnes
    BY AtPhaseOne DEF Naming, OnePcs, PhaseOnePcs, CurPcs, EarlyOnes
  <2>3. ASSUME NEW i \in JrSeen(f), i # NoFile, i.super = loc[c].tx
        PROVE  f \in Written(c) /\ pc[c] \notin EarlyOnes
    BY <1>0, <2>3 DEF OwnInv, EarlyOnes
  <2>. QED
    BY <1>2, <1>3, <2>1, <2>2, <2>3, NamesStep DEF NamesKept
<1>4. \A f \in Written(c) : /\ jr'[f] # NoFile /\ jr'[f].orig = committed[f]
                            /\ jr'[f].super \in {NoSuper, loc[c].tx}
  BY <1>0 DEF OwnInv, JrSame
<1>. QED
  BY <1>0, <1>1, <1>2, <1>3, <1>4 DEF OwnInv, EarlyOnes

\* The connection is alone with its files and its locals.
WorksOn(c) == OwnInv(c) /\ StepInv(c) /\ ProgressInv(c)

\* No file has been finished before the commit.
LEMMA EndingLater ==
  ASSUME IInv, NEW c \in Conn, pc[c] \in OnePcs \cup {"idle"}
  PROVE  loc[c].ending = "commit" => pc[c] = "del"
BY Sure DEF RollInv, OnePcs, PhaseOnePcs, TwoPcs

\* A transaction of one file has one file.
LEMMA FewFiles ==
  ASSUME IInv, NEW c \in Conn, loc[c].files # {}
  PROVE  /\ IsFiniteSet(loc[c].files) /\ Cardinality(loc[c].files) \in Nat
         /\ MultiTx(c) \/ Cardinality(loc[c].files) = 1
         /\ \A f \in loc[c].files : Cardinality(loc[c].files) = 1 =>
              loc[c].files = {f}
<1>1. IsFiniteSet(loc[c].files)
  BY Constants, FS_Subset, Sure DEF ConnTypes, Locs
<1>2. Cardinality(loc[c].files) \in Nat /\ Cardinality(loc[c].files) # 0
  BY <1>1, FS_CardinalityType, FS_EmptySet
<1>3. ASSUME NEW f \in loc[c].files, Cardinality(loc[c].files) = 1
      PROVE  loc[c].files = {f}
  <2>1. PICK x : loc[c].files = {x}
    BY <1>1, <1>3, FS_Singleton
  <2>. QED
    BY <1>3, <2>1
<1>. QED
  BY <1>1, <1>2, <1>3 DEF MultiTx

\* The commit begins with the files that have been written.
LEMMA CommitOwn ==
  ASSUME IInv, Sound, NEW c \in Conn, Commit(c)
  PROVE  WorksOn(c)'
<1>0. Step(c)
  BY DEF Step
<1>1. /\ pc[c] = "idle" /\ Written(c) # {} /\ lock' = lock
      /\ UNCHANGED <<dbVars, jrVars, superVars, histVars>> /\ Goto(c, "excl")
      /\ loc' = [loc EXCEPT ![c].files = Written(c), ![c].todo = Written(c)]
  BY DEF Commit
<1>2. Works(c) /\ Written(c) \in SUBSET File
  BY <1>1 DEF Works, Written
<1>3. pc'[c] = "excl"
  BY <1>1, GotoDoes, Sure DEF Pcs
<1>4. loc'[c].files = Written(c) /\ loc'[c].todo = Written(c)
      /\ loc'[c].tx = loc[c].tx /\ Written(c)' = Written(c)
  BY <1>1, <1>2, FieldsGo, Sure DEF ConnTypes, Written
<1>5. \A f \in Written(c) : JrSame(f)
  BY <1>1 DEF JrSame, jrVars
<1>6. OwnInv(c)'
  BY <1>0, <1>1, <1>2, <1>3, <1>4, <1>5, OwnStays DEF EarlyOnes
<1>9. MultiTx(c)' \/ extraSync
  BY <1>4 DEF Commit, MultiTx
<1>7. StepInv(c)'
  BY <1>3, <1>4, <1>9 DEF StepInv, OnePcs, PhaseOnePcs, LatePcs, CurPcs
<1>8. ProgressInv(c)'
  <2>1. \A f \in Written(c) : jr[f].super = NoSuper
    BY <1>1, <1>2, Sure DEF WorkInv, ProgressInv, NotNamed
  <2>. QED
    BY <1>1, <1>3, <1>4, <2>1 DEF ProgressInv, NotDone, NotNamed, CurPcs, jrVars
<1>. QED
  BY <1>6, <1>7, <1>8 DEF WorksOn

\* A step that leaves the files and the locals alone.
LEMMA StillOwn ==
  ASSUME IInv, Sound, NEW c \in Conn, Step(c), Works(c),
         UNCHANGED <<dbVars, jrVars, histVars, loc, lock>>,
         pc[c] \in OnePcs, pc'[c] \in OnePcs,
         pc'[c] \in EarlyOnes => pc[c] \in EarlyOnes
  PROVE  OwnInv(c)'
<1>1. Written(c)' = Written(c)
  BY DEF Written
<1>2. \A f \in Written(c) : JrSame(f)
  BY DEF JrSame, jrVars
<1>3. loc[c].files = Written(c) /\ Written(c) # {}
  BY Sure DEF WorkInv, OwnInv, OnePcs, PhaseOnePcs
<1>. QED
  BY <1>1, <1>2, <1>3, OwnStays

\* All files are locked when the first phase begins.
LEMMA LockedOwn ==
  ASSUME IInv, Sound, NEW c \in Conn, Locked(c)
  PROVE  WorksOn(c)'
<1>0. Step(c)
  BY DEF Step
<1>1. /\ pc[c] = "excl" /\ pc[c] \in OnePcs /\ AllExclusive(c)
      /\ UNCHANGED <<dbVars, jrVars, superVars, histVars, loc, lock>>
      /\ Goto(c, IF Cardinality(loc[c].files) > 1 THEN "super" ELSE "phaseOne")
  BY DEF Locked, OnePcs, PhaseOnePcs
<1>2. /\ Works(c) /\ OwnInv(c) /\ StepInv(c) /\ ProgressInv(c)
      /\ loc[c].files = Written(c)
  BY <1>1, AtPhaseOne
<1>3. pc'[c] = IF MultiTx(c) THEN "super" ELSE "phaseOne"
  BY <1>1, GotoDoes, Sure DEF Pcs, MultiTx
<1>4. OwnInv(c)'
  BY <1>0, <1>1, <1>2, <1>3, StillOwn DEF EarlyOnes, OnePcs, PhaseOnePcs
<1>5. loc[c].todo = loc[c].files /\ loc[c].files # {}
  BY <1>1, <1>2 DEF StepInv, OwnInv
<1>6. MultiTx(c)' = MultiTx(c)
  BY <1>1 DEF MultiTx
<1>7. StepInv(c)'
  BY <1>1, <1>2, <1>3, <1>5, <1>6 DEF StepInv, OnePcs, PhaseOnePcs, LatePcs, CurPcs,
    AllExclusive
<1>8. \A f \in loc[c].files : jr'[f].super = NoSuper
  BY <1>1, <1>2 DEF ProgressInv, NotNamed, NotDone, CurPcs, jrVars
<1>9. NotDone(c)' = loc[c].files /\ NotNamed(c)' = loc[c].files
  BY <1>1, <1>3, <1>5 DEF NotDone, NotNamed, CurPcs
<1>10. ProgressInv(c)'
  BY <1>1, <1>3, <1>8, <1>9 DEF ProgressInv
<1>. QED
  BY <1>4, <1>7, <1>10 DEF WorksOn

\* The super-journal of a transaction lists its files.
LEMMA CreateSuperOwn ==
  ASSUME IInv, Sound, NEW c \in Conn, CreateSuper(c)
  PROVE  WorksOn(c)'
<1>0. Step(c)
  BY DEF Step
<1>t. PICK t : t = loc[c].tx
  OBVIOUS
<1>1. /\ pc[c] = "super" /\ pc[c] \in OnePcs
      /\ UNCHANGED <<dbVars, jrVars, histVars, loc, lock>>
      /\ super' = [u \in DOMAIN super \cup {t} |->
                     IF u = t THEN loc[c].files ELSE super[u]]
      /\ Goto(c, "superSync")
  BY <1>t DEF CreateSuper, OnePcs, PhaseOnePcs
<1>2. /\ Works(c) /\ OwnInv(c) /\ StepInv(c) /\ ProgressInv(c)
      /\ loc[c].files = Written(c)
  BY <1>1, AtPhaseOne
<1>3. pc'[c] = "superSync"
  BY <1>1, GotoDoes, Sure DEF Pcs
<1>4. OwnInv(c)'
  BY <1>0, <1>1, <1>2, <1>3, StillOwn DEF EarlyOnes, OnePcs, PhaseOnePcs
<1>5. t \in DOMAIN super' /\ super'[t] = loc[c].files
  BY <1>1
<1>6. MultiTx(c)' = MultiTx(c)
  BY <1>1 DEF MultiTx
<1>7. StepInv(c)'
  BY <1>t, <1>1, <1>2, <1>3, <1>5, <1>6 DEF StepInv, OnePcs, PhaseOnePcs, LatePcs,
    CurPcs
<1>8. \A f \in loc[c].files : jr'[f].super = NoSuper
  BY <1>1, <1>2 DEF ProgressInv, NotNamed, NotDone, CurPcs, jrVars
<1>9. NotDone(c)' = loc[c].files /\ NotNamed(c)' = loc[c].files
  BY <1>1, <1>3 DEF NotDone, NotNamed, CurPcs
<1>10. ProgressInv(c)'
  BY <1>1, <1>3, <1>8, <1>9 DEF ProgressInv
<1>. QED
  BY <1>4, <1>7, <1>10 DEF WorksOn

\* The super-journal is on disk before any journal names it.
LEMMA SyncSuperOwn ==
  ASSUME IInv, Sound, NEW c \in Conn, SyncSuper(c)
  PROVE  WorksOn(c)'
<1>0. Step(c)
  BY DEF Step
<1>1. /\ pc[c] = "superSync" /\ pc[c] \in OnePcs
      /\ UNCHANGED <<dbVars, jrVars, super, histVars, loc, lock>>
      /\ superDisk' = [superDisk EXCEPT ![loc[c].tx] = {TRUE}]
      /\ Goto(c, "phaseOne")
  BY DEF SyncSuper, OnePcs, PhaseOnePcs
<1>2. /\ Works(c) /\ OwnInv(c) /\ StepInv(c) /\ ProgressInv(c)
      /\ loc[c].files = Written(c) /\ loc[c].tx \in Tx
  BY <1>1, AtPhaseOne
<1>3. pc'[c] = "phaseOne"
  BY <1>1, GotoDoes, Sure DEF Pcs
<1>4. OwnInv(c)'
  BY <1>0, <1>1, <1>2, <1>3, StillOwn DEF EarlyOnes, OnePcs, PhaseOnePcs
<1>5. superDisk'[loc[c].tx] = {TRUE}
  BY <1>1, <1>2, Sure DEF SuperTypes
<1>6. MultiTx(c)' = MultiTx(c) /\ loc[c].files # {} /\ loc[c].todo = loc[c].files
  BY <1>1, <1>2 DEF MultiTx, OwnInv, StepInv
<1>7. StepInv(c)'
  BY <1>1, <1>2, <1>3, <1>5, <1>6 DEF StepInv, OnePcs, PhaseOnePcs, LatePcs, CurPcs
<1>8. \A f \in loc[c].files : jr'[f].super = NoSuper
  BY <1>1, <1>2 DEF ProgressInv, NotNamed, NotDone, CurPcs, jrVars
<1>9. NotDone(c)' = loc[c].files /\ NotNamed(c)' = loc[c].files
  BY <1>1, <1>3, <1>6 DEF NotDone, NotNamed, CurPcs
<1>10. ProgressInv(c)'
  BY <1>1, <1>3, <1>8, <1>9 DEF ProgressInv
<1>. QED
  BY <1>4, <1>7, <1>10 DEF WorksOn

\* The other parts of the invariant of c.
OwnParts(c) ==
  WorkInv(c) /\ FinishInv(c) /\ CurInv(c) /\ RollInv(c) /\ KidsInv(c)

\* The other parts hold by the program counter while the transaction is on its
\* way to the commit.
LEMMA EarlyParts ==
  ASSUME NEW c \in Conn, WorksOn(c)', pc'[c] \in OnePcs \cup {"idle"},
         loc'[c].ending = "commit" => pc'[c] = "del"
  PROVE  OwnParts(c)'
<1>1. WorkInv(c)'
  BY DEF WorkInv, WorksOn
<1>. QED
  BY <1>1, EarlyPcs DEF OwnParts

\* What has been done to a file stays done while nobody touches it.
LEMMA DoneHere ==
  ASSUME NEW c, NEW f \in File, JrSame(f), loc'[c].tx = loc[c].tx,
         loc'[c].files = loc[c].files
  PROVE  /\ Tail(c)' = Tail(c)
         /\ Journaled(c, f)' = Journaled(c, f)
         /\ DbSame(f) => Done(c, f)' = Done(c, f)
<1>1. JrSeen(f)' = JrSeen(f) /\ jr'[f] = jr[f] /\ (DbSame(f) => DbSeen(f)' = DbSeen(f))
  BY FilesStay DEF JrSame
<1>2. Tail(c)' = Tail(c)
  BY DEF Tail, MultiTx
<1>3. HotJournal(f)' = HotJournal(f)
  BY <1>1 DEF HotJournal
<1>4. Journaled(c, f)' = Journaled(c, f)
  BY <1>1, <1>2, <1>3 DEF Journaled
<1>. QED
  BY <1>1, <1>2, <1>4 DEF Done

\* A step that writes nothing leaves all files as they are.
LEMMA AllSame ==
  ASSUME UNCHANGED <<dbVars, jrVars>>
  PROVE  /\ \A f \in File : DbSame(f) /\ JrSame(f) /\ FileSame(f)
         /\ \A f : JrSame(f)
BY DEF dbVars, jrVars, DbSame, JrSame, FileSame

\* The next file is taken; those before it are done.
LEMMA PhaseOneOwn ==
  ASSUME IInv, Sound, NEW c \in Conn, PhaseOne(c)
  PROVE  OwnParts(c)'
<1>0. Step(c)
  BY DEF Step
<1>1. /\ pc[c] = "phaseOne" /\ pc[c] \in OnePcs
      /\ UNCHANGED <<dbVars, jrVars, superVars, histVars, lock>>
      /\ Goto(c, IF Cardinality(loc[c].files) > 1 THEN "name" ELSE "jsync")
  BY DEF PhaseOne, OnePcs, PhaseOnePcs
<1>2. /\ Works(c) /\ OwnInv(c) /\ StepInv(c) /\ ProgressInv(c)
      /\ loc[c].files = Written(c) /\ Written(c) \subseteq File
  BY <1>1, AtPhaseOne DEF Written
<1>3. pc'[c] = IF MultiTx(c) THEN "name" ELSE "jsync"
  BY <1>1, GotoDoes, Sure DEF Pcs, MultiTx
<1>4. PICK f \in loc[c].todo : loc' = [loc EXCEPT ![c].cur = f, ![c].todo = @ \ {f}]
  BY DEF PhaseOne
<1>5. loc[c].todo \subseteq loc[c].files /\ f \in File /\ loc[c].files # {}
  BY <1>1, <1>2, <1>4 DEF StepInv
<1>6. /\ loc'[c].cur = f /\ loc'[c].todo = loc[c].todo \ {f}
      /\ loc'[c].tx = loc[c].tx /\ loc'[c].files = loc[c].files
      /\ loc'[c].ending = loc[c].ending
  BY <1>4, <1>5, FieldsGo, Sure DEF ConnTypes
<1>7. /\ MultiTx(c)' = MultiTx(c) /\ Written(c)' = Written(c)
      /\ \A g \in File : Done(c, g)' = Done(c, g)
      /\ Tail(c)' = Tail(c) /\ jr' = jr
  BY <1>1, <1>5, <1>6, AllSame, DoneHere DEF MultiTx, Written, jrVars
<1>8. OwnInv(c)'
  BY <1>0, <1>1, <1>2, <1>3, <1>5, <1>6, <1>7, AllSame, OwnStays DEF EarlyOnes
<1>9. StepInv(c)'
  BY <1>1, <1>2, <1>3, <1>5, <1>6, <1>7 DEF StepInv, OnePcs, PhaseOnePcs, LatePcs,
    CurPcs, superVars
<1>10. NotDone(c)' = NotDone(c) /\ NotDone(c) = loc[c].todo
       /\ NotNamed(c)' \subseteq NotNamed(c) /\ f \in NotNamed(c)
  BY <1>1, <1>3, <1>6 DEF NotDone, NotNamed, CurPcs
<1>11. ~MultiTx(c) => jr[f].super = Tail(c)
  BY <1>2, <1>10 DEF ProgressInv, Tail
<1>12. ProgressInv(c)'
  BY <1>1, <1>2, <1>3, <1>5, <1>6, <1>7, <1>10, <1>11 DEF ProgressInv
<1>13. loc[c].ending # "commit"
  BY <1>1, EndingLater
<1>. QED
  BY <1>3, <1>6, <1>8, <1>9, <1>12, <1>13, EarlyParts DEF WorksOn, OnePcs, PhaseOnePcs

\* The name is in the journal; nothing of the file is certain on disk.
LEMMA NameOwn ==
  ASSUME IInv, Sound, NEW c \in Conn, WriteSuperJournal(c)
  PROVE  OwnParts(c)'
<1>0. Step(c)
  BY DEF Step
<1>f. PICK f : f = loc[c].cur
  OBVIOUS
<1>1. /\ pc[c] = "name" /\ pc[c] \in OnePcs /\ pc[c] \in CurPcs
      /\ UNCHANGED <<dbVars, superVars, histVars, loc, lock>> /\ Goto(c, "jsync")
  BY DEF WriteSuperJournal, OnePcs, PhaseOnePcs, CurPcs
<1>2. /\ Works(c) /\ OwnInv(c) /\ StepInv(c) /\ ProgressInv(c) /\ f \in File
      /\ loc[c].files = Written(c) /\ Written(c) \subseteq File /\ f \in Written(c)
  BY <1>1, <1>f, AtPhaseOne DEF Written
<1>3. pc'[c] = "jsync"
  BY <1>1, GotoDoes, Sure DEF Pcs
<1>4. /\ JrPut(f, jr'[f]) /\ jr'[f] # NoFile /\ jr'[f].super = loc[c].tx
      /\ jr'[f].orig = committed[f] /\ \A g \in File : g # f => JrSame(g)
  BY <1>f, WriteSuperJournalDoes DEF JrPut
<1>5. f \notin loc[c].todo /\ loc[c].todo \subseteq loc[c].files /\ MultiTx(c)
      /\ loc[c].files # {}
  BY <1>1, <1>f, <1>2 DEF StepInv
<1>7. /\ MultiTx(c)' = MultiTx(c) /\ Written(c)' = Written(c) /\ Tail(c)' = Tail(c)
      /\ Tail(c) = loc[c].tx
  BY <1>1, <1>5 DEF MultiTx, Written, Tail
<1>6. \A g \in File : g # f => DbSame(g) /\ (Done(c, g)' = Done(c, g))
                               /\ jr'[g].super = jr[g].super
  BY <1>1, <1>4, DoneHere, FilesStay DEF JrSame
<1>8. OwnInv(c)'
  BY <1>0, <1>1, <1>2, <1>3, <1>4, <1>5, <1>7, OwnStays DEF EarlyOnes
<1>9. StepInv(c)'
  BY <1>1, <1>2, <1>3, <1>5, <1>7 DEF StepInv, OnePcs, PhaseOnePcs, LatePcs,
    CurPcs, superVars
<1>10. NotDone(c)' = NotDone(c) /\ f \in NotDone(c) /\ NotNamed(c)' = loc[c].todo
       /\ loc[c].todo \subseteq NotNamed(c)
  BY <1>1, <1>f, <1>3 DEF NotDone, NotNamed, CurPcs
<1>12. ProgressInv(c)'
  BY <1>1, <1>f, <1>2, <1>3, <1>4, <1>5, <1>6, <1>7, <1>10 DEF ProgressInv
<1>13. loc[c].ending # "commit"
  BY <1>1, EndingLater
<1>. QED
  BY <1>1, <1>3, <1>8, <1>9, <1>12, <1>13, EarlyParts DEF WorksOn, OnePcs, PhaseOnePcs

\* The journal counts and is alone on disk.
LEMMA SyncJournalOwn ==
  ASSUME IInv, Sound, NEW c \in Conn, SyncJournal(c)
  PROVE  OwnParts(c)'
<1>0. Step(c)
  BY DEF Step
<1>f. PICK f : f = loc[c].cur
  OBVIOUS
<1>1. /\ pc[c] = "jsync" /\ pc[c] \in OnePcs /\ pc[c] \in CurPcs
      /\ UNCHANGED <<dbVars, superVars, histVars, loc, lock>> /\ Goto(c, "write")
  BY DEF SyncJournal, OnePcs, PhaseOnePcs, CurPcs
<1>2. /\ Works(c) /\ OwnInv(c) /\ StepInv(c) /\ ProgressInv(c) /\ f \in File
      /\ loc[c].files = Written(c) /\ Written(c) \subseteq File /\ f \in Written(c)
  BY <1>1, <1>f, AtPhaseOne DEF Written
<1>3. pc'[c] = "write"
  BY <1>1, GotoDoes, Sure DEF Pcs
<1>4. /\ JrPut(f, jr'[f]) /\ JrSeen(f)' \subseteq {jr'[f]} /\ jr'[f] # NoFile
      /\ jr'[f].hot /\ jr'[f].super = jr[f].super
      /\ jr'[f].orig = committed[f] /\ \A g \in File : g # f => JrSame(g)
  BY <1>f, SyncJournalDoes DEF JrPut
<1>5. f \notin loc[c].todo /\ loc[c].todo \subseteq loc[c].files
      /\ loc[c].files # {} /\ jr[f].super = Tail(c)
      /\ jr[f].super \in {NoSuper, loc[c].tx}
  BY <1>1, <1>f, <1>2 DEF StepInv, ProgressInv, OwnInv
<1>7. /\ MultiTx(c)' = MultiTx(c) /\ Written(c)' = Written(c) /\ Tail(c)' = Tail(c)
  BY <1>1, <1>5 DEF MultiTx, Written, Tail
<1>6. \A g \in File : g # f => DbSame(g) /\ (Done(c, g)' = Done(c, g))
                               /\ jr'[g].super = jr[g].super
  BY <1>1, <1>4, DoneHere, FilesStay DEF JrSame
<1>8. OwnInv(c)'
  BY <1>0, <1>1, <1>2, <1>3, <1>4, <1>5, <1>7, OwnStays DEF EarlyOnes
<1>9. StepInv(c)'
  BY <1>1, <1>2, <1>3, <1>5, <1>7 DEF StepInv, OnePcs, PhaseOnePcs, LatePcs,
    CurPcs, superVars
<1>10. NotDone(c)' = NotDone(c) /\ f \in NotDone(c) /\ NotNamed(c)' = loc[c].todo
       /\ NotNamed(c) = loc[c].todo
  BY <1>1, <1>f, <1>3 DEF NotDone, NotNamed, CurPcs
<1>11. Journaled(c, f)'
  BY <1>4, <1>5, <1>7 DEF Journaled, HotJournal
<1>14. f = loc'[c].cur
  BY <1>f, <1>1
<1>12. ProgressInv(c)'
  BY <1>14, <1>1, <1>2, <1>3, <1>4, <1>5, <1>6, <1>7, <1>10, <1>11 DEF ProgressInv
<1>13. loc[c].ending # "commit"
  BY <1>1, EndingLater
<1>. QED
  BY <1>1, <1>3, <1>8, <1>9, <1>12, <1>13, EarlyParts DEF WorksOn, OnePcs, PhaseOnePcs

\* The file has the image of the transaction in the end.
LEMMA WritePagesOwn ==
  ASSUME IInv, Sound, NEW c \in Conn, WritePages(c)
  PROVE  OwnParts(c)'
<1>0. Step(c)
  BY DEF Step
<1>f. PICK f : f = loc[c].cur
  OBVIOUS
<1>1. /\ pc[c] = "write" /\ pc[c] \in OnePcs /\ pc[c] \in CurPcs
      /\ UNCHANGED <<jrVars, superVars, histVars, loc, lock>>
  BY DEF WritePages, OnePcs, PhaseOnePcs, CurPcs
<1>2. /\ Works(c) /\ OwnInv(c) /\ StepInv(c) /\ ProgressInv(c) /\ f \in File
      /\ loc[c].files = Written(c) /\ Written(c) \subseteq File /\ f \in Written(c)
  BY <1>1, <1>f, AtPhaseOne DEF Written
<1>3. /\ pc'[c] \in {"write", "dbsync"} /\ (pc'[c] = "dbsync" => db'[f] = loc[c].tx)
      /\ \A g \in File : g # f => DbSame(g)
  BY <1>f, WritePagesDoes
<1>4. jr' = jr /\ \A g \in File : JrSame(g)
  BY <1>1, FilesStay DEF jrVars
<1>5. f \notin loc[c].todo /\ loc[c].todo \subseteq loc[c].files
      /\ loc[c].files # {}
  BY <1>1, <1>f, <1>2 DEF StepInv
<1>7. /\ MultiTx(c)' = MultiTx(c) /\ Written(c)' = Written(c) /\ Tail(c)' = Tail(c)
  BY <1>1, <1>5 DEF MultiTx, Written, Tail
<1>6. \A g \in File : /\ g # f => (Done(c, g)' = Done(c, g))
                      /\ Journaled(c, g)' = Journaled(c, g)
  BY <1>1, <1>3, <1>4, DoneHere
<1>8. OwnInv(c)'
  BY <1>0, <1>1, <1>2, <1>3, <1>4, <1>5, <1>7, OwnStays DEF EarlyOnes
<1>9. StepInv(c)'
  BY <1>1, <1>2, <1>3, <1>5, <1>7 DEF StepInv, OnePcs, PhaseOnePcs, LatePcs,
    CurPcs, superVars
<1>10. NotDone(c)' = NotDone(c) /\ f \in NotDone(c) /\ NotNamed(c)' = loc[c].todo
       /\ NotNamed(c) = loc[c].todo
  BY <1>1, <1>f, <1>3 DEF NotDone, NotNamed, CurPcs
<1>11. Journaled(c, f)'
  BY <1>f, <1>1, <1>2, <1>6 DEF ProgressInv
<1>14. f = loc'[c].cur
  BY <1>f, <1>1
<1>12. ProgressInv(c)'
  BY <1>14, <1>1, <1>2, <1>3, <1>4, <1>5, <1>6, <1>7, <1>10, <1>11 DEF ProgressInv
<1>13. loc[c].ending # "commit"
  BY <1>1, EndingLater
<1>. QED
  BY <1>1, <1>3, <1>8, <1>9, <1>12, <1>13, EarlyParts DEF WorksOn, OnePcs, PhaseOnePcs

\* The file is done; after the last one the commit itself is next.
LEMMA SyncDatabaseOwn ==
  ASSUME IInv, Sound, NEW c \in Conn, SyncDatabase(c)
  PROVE  OwnParts(c)'
<1>0. Step(c)
  BY DEF Step
<1>f. PICK f : f = loc[c].cur
  OBVIOUS
<1>1. /\ pc[c] = "dbsync" /\ pc[c] \in OnePcs /\ pc[c] \in CurPcs
      /\ UNCHANGED <<jrVars, superVars, histVars, lock>>
      /\ Goto(c, IF loc[c].todo # {} THEN "phaseOne"
                 ELSE IF Cardinality(loc[c].files) > 1 THEN "del" ELSE "phaseTwo")
      /\ loc' = [loc EXCEPT ![c].todo = IF @ = {} THEN loc[c].files ELSE @,
                            ![c].ending = IF loc[c].todo = {} THEN "commit" ELSE @]
  BY DEF SyncDatabase, OnePcs, PhaseOnePcs, CurPcs
<1>2. /\ Works(c) /\ OwnInv(c) /\ StepInv(c) /\ ProgressInv(c) /\ f \in File
      /\ loc[c].files = Written(c) /\ Written(c) \subseteq File /\ f \in Written(c)
  BY <1>1, <1>f, AtPhaseOne DEF Written
<1>3. pc'[c] = IF loc[c].todo # {} THEN "phaseOne"
               ELSE IF MultiTx(c) THEN "del" ELSE "phaseTwo"
  BY <1>1, GotoDoes, Sure DEF Pcs, MultiTx
<1>e. loc[c].ending # "commit"
  BY <1>1, EndingLater
<1>4. PICK T \in SUBSET File, e \in Endings :
        /\ loc' = [loc EXCEPT ![c].todo = T, ![c].ending = e]
        /\ T = (IF loc[c].todo = {} THEN loc[c].files ELSE loc[c].todo)
        /\ e = (IF loc[c].todo = {} THEN "commit" ELSE loc[c].ending)
  <2>1. loc[c].todo \in SUBSET File /\ loc[c].files \in SUBSET File
        /\ loc[c].ending \in Endings /\ "commit" \in Endings
    BY Sure DEF ConnTypes, Locs, Endings
  <2>. DEFINE T == IF loc[c].todo = {} THEN loc[c].files ELSE loc[c].todo
              e == IF loc[c].todo = {} THEN "commit" ELSE loc[c].ending
  <2>2. loc' = [loc EXCEPT ![c].todo = T, ![c].ending = e]
    BY <1>1
  <2>3. T \in SUBSET File /\ e \in Endings
    BY <2>1
  <2>. QED
    BY <2>2, <2>3
<1>5. f \notin loc[c].todo /\ loc[c].todo \subseteq loc[c].files
      /\ loc[c].files # {}
  BY <1>1, <1>f, <1>2 DEF StepInv
<1>6. /\ loc'[c].todo = T /\ loc'[c].ending = e /\ loc'[c].cur = loc[c].cur
      /\ loc'[c].tx = loc[c].tx /\ loc'[c].files = loc[c].files
  BY <1>4, FieldsGo, Sure DEF ConnTypes
<1>7. /\ MultiTx(c)' = MultiTx(c) /\ Written(c)' = Written(c) /\ Tail(c)' = Tail(c)
      /\ jr' = jr /\ \A g \in File : JrSame(g)
  BY <1>1, <1>6, FilesStay DEF MultiTx, Written, Tail, jrVars
<1>8. /\ DbSeen(f)' \subseteq {loc[c].tx} /\ \A g \in File : g # f => DbSame(g)
  BY <1>f, SyncDatabaseDoes
<1>9. \A g \in File : /\ g # f => (Done(c, g)' = Done(c, g))
                      /\ Journaled(c, g)' = Journaled(c, g)
  BY <1>6, <1>7, <1>8, DoneHere
<1>10. Done(c, f)'
  <2>1. Journaled(c, f)'
    BY <1>1, <1>2, <1>f, <1>9 DEF ProgressInv
  <2>. QED
    BY <2>1, <1>6, <1>8 DEF Done
<1>11. OwnInv(c)'
  BY <1>0, <1>1, <1>2, <1>3, <1>5, <1>6, <1>7, OwnStays DEF EarlyOnes
<1>12. StepInv(c)'
  BY <1>1, <1>2, <1>3, <1>4, <1>5, <1>6, <1>7 DEF StepInv, OnePcs, PhaseOnePcs, LatePcs,
    CurPcs, superVars
<1>13. NotDone(c)' = loc[c].todo /\ NotDone(c) = loc[c].todo \cup {f}
       /\ NotNamed(c)' = loc[c].todo /\ NotNamed(c) = loc[c].todo
  <2>1. NotDone(c) = loc[c].todo \cup {f} /\ NotNamed(c) = loc[c].todo
    BY <1>1, <1>f DEF NotDone, NotNamed, CurPcs
  <2>2. CASE loc[c].todo # {}
    BY <1>3, <1>4, <1>6, <2>1, <2>2 DEF NotDone, NotNamed, CurPcs
  <2>3. CASE loc[c].todo = {}
    BY <1>3, <1>6, <2>1, <2>3 DEF NotDone, NotNamed, CurPcs
  <2>. QED
    BY <2>2, <2>3
<1>14. \A g \in loc'[c].files \ NotDone(c)' : Done(c, g)'
  BY <1>1, <1>2, <1>6, <1>9, <1>10, <1>13 DEF ProgressInv
<1>15. ProgressInv(c)'
  BY <1>2, <1>3, <1>7, <1>13, <1>14 DEF ProgressInv
<1>16. WorksOn(c)'
  BY <1>11, <1>12, <1>15 DEF WorksOn
<1>17. CASE loc[c].todo # {} \/ MultiTx(c)
  BY <1>e, <1>3, <1>4, <1>6, <1>16, <1>17, EarlyParts DEF OnePcs, PhaseOnePcs
<1>18. CASE loc[c].todo = {} /\ ~MultiTx(c)
  <2>1. pc'[c] = "phaseTwo" /\ loc'[c].ending = "commit" /\ loc'[c].todo # {}
    BY <1>3, <1>4, <1>5, <1>6, <1>18
  <2>2. Waits(c)'
    BY <1>5, <1>6, <1>18, <2>1, FewFiles DEF Waits, Single
  <2>. QED
    BY <1>16, <2>1, <2>2 DEF OwnParts, WorkInv, WorksOn, FinishInv, CurInv, RollInv,
      KidsInv, KidsLeft, EndPcs, TwoPcs
<1>. QED
  BY <1>17, <1>18

\* One more file is locked.
LEMMA ExclusiveOwn ==
  ASSUME IInv, Sound, NEW c \in Conn, NEW f \in File, ExclusiveLock(c, f)
  PROVE  OwnParts(c)'
<1>0. Step(c)
  BY DEF Step
<1>1. /\ pc[c] \in {"idle", "excl"} /\ lock[c][f] = RESERVED_LOCK
      /\ UNCHANGED <<dbVars, jrVars, superVars, histVars, pc, loc>>
      /\ Level(c, f, EXCLUSIVE_LOCK)
  BY DEF ExclusiveLock
<1>2. Works(c) /\ OwnInv(c) /\ StepInv(c) /\ ProgressInv(c) /\ f \in Written(c)
  <2>1. f \in Written(c)
    BY <1>1 DEF Written
  <2>2. Works(c)
    BY <1>1, <2>1 DEF Works, OnePcs, PhaseOnePcs
  <2>. QED
    BY <2>1, <2>2, Sure DEF WorkInv
<1>3. lock'[c][f] = EXCLUSIVE_LOCK /\ \A g \in File : g # f => lock'[c][g] = lock[c][g]
  BY <1>1, LevelDoes, Sure DEF Locks
<1>4. Written(c)' = Written(c)
  BY <1>1, <1>3 DEF Written
<1>5. pc[c] # "idle" => loc[c].files = Written(c) /\ Written(c) # {}
  BY <1>2 DEF OwnInv
<1>6. OwnInv(c)'
  BY <1>0, <1>1, <1>2, <1>4, <1>5, AllSame, OwnStays
<1>7. MultiTx(c)' = MultiTx(c)
  BY <1>1 DEF MultiTx
<1>8. StepInv(c)'
  BY <1>1, <1>2, <1>7 DEF StepInv, OnePcs, PhaseOnePcs, LatePcs, CurPcs
<1>9. ProgressInv(c)'
  <2>1. NotDone(c)' = NotDone(c) /\ NotNamed(c)' = NotNamed(c)
    BY <1>1, <1>4 DEF NotDone, NotNamed, CurPcs
  <2>2. NotDone(c) = loc[c].files \/ pc[c] = "idle"
    BY <1>1 DEF NotDone, CurPcs
  <2>. QED
    BY <1>1, <1>2, <2>1, <2>2 DEF ProgressInv, jrVars
<1>10. loc[c].ending # "commit"
  BY <1>1, EndingLater DEF OnePcs, PhaseOnePcs
<1>. QED
  BY <1>1, <1>6, <1>8, <1>9, <1>10, EarlyParts DEF WorksOn, OnePcs, PhaseOnePcs

\* A spill before the commit leaves a journal that names nothing.
LEMMA SpillOwn ==
  ASSUME IInv, Sound, NEW c \in Conn, NEW f \in File, Spill(c, f)
  PROVE  OwnParts(c)'
<1>0. Step(c)
  BY DEF Step
<1>1. /\ UNCHANGED <<superVars, histVars, pc, loc, lock>>
  BY DEF Spill, connVars
<1>2. /\ pc[c] = "idle" /\ f \in Written(c) /\ Works(c)
      /\ JrPut(f, jr'[f]) /\ jr'[f] # NoFile
      /\ jr'[f].super = NoSuper /\ jr'[f].orig = committed[f]
  BY SpillDoes
<1>3. OwnInv(c) /\ ProgressInv(c)
  BY <1>2, Sure DEF WorkInv
<1>4. Written(c)' = Written(c) /\ Written(c) \subseteq File
  BY <1>1 DEF Written
<1>5. \A g \in File : g # f => JrSame(g) /\ jr'[g] = jr[g]
  BY <1>2 DEF JrPut, JrSame
<1>6. OwnInv(c)'
  BY <1>0, <1>1, <1>2, <1>4, <1>5, OwnStays
<1>7. StepInv(c)'
  BY <1>1, <1>2 DEF StepInv, OnePcs, PhaseOnePcs, LatePcs, CurPcs
<1>8. ProgressInv(c)'
  BY <1>1, <1>2, <1>3, <1>4, <1>5 DEF ProgressInv, NotNamed
<1>9. loc[c].ending # "commit"
  BY <1>2, EndingLater
<1>. QED
  BY <1>1, <1>2, <1>6, <1>7, <1>8, <1>9, EarlyParts DEF WorksOn

\* The first change of a transaction gives it a number that nothing names.
LEMMA BeginWriteOwn ==
  ASSUME IInv, Sound, NEW c \in Conn, NEW f \in File, BeginWrite(c, f)
  PROVE  /\ OwnParts(c)'
         /\ (Works(c) /\ loc'[c].tx = loc[c].tx) \/ loc'[c].tx = nTx + 1
<1>0. Step(c)
  BY DEF Step
<1>1. /\ pc[c] = "idle" /\ UNCHANGED <<dbVars, superVars, pc, committed, maybe>>
      /\ Level(c, f, RESERVED_LOCK)
      /\ IF Written(c) = {}
         THEN nTx' = nTx + 1 /\ loc' = [loc EXCEPT ![c].tx = nTx + 1]
         ELSE UNCHANGED <<nTx, loc>>
  BY DEF BeginWrite
<1>2. /\ JrPut(f, jr'[f]) /\ JrSeen(f)' \subseteq JrSeen(f) \cup {jr'[f]}
      /\ jr'[f] # NoFile /\ jr'[f].super = NoSuper /\ jr'[f].orig = committed[f]
      /\ lock[c][f] = SHARED_LOCK
  BY BeginWriteDoes
<1>3. lock'[c][f] = RESERVED_LOCK /\ \A g \in File : g # f => lock'[c][g] = lock[c][g]
  BY <1>1, LevelDoes, Sure DEF Locks
<1>4. Written(c)' = Written(c) \cup {f} /\ Written(c) \subseteq File
  BY <1>3 DEF Written
<1>5. \A g \in File : g # f => JrSame(g) /\ jr'[g] = jr[g] /\ JrSeen(g)' = JrSeen(g)
  BY <1>2, FilesStay DEF JrPut, JrSame
<1>6. nTx \in Nat /\ NameInv
  BY Sure, Constants DEF HistTypes
<1>7. /\ loc'[c].tx \in 1..nTx' /\ loc'[c].tx # NoSuper
      /\ \A m \in maybe, g \in File : m[g] # loc'[c].tx
      /\ \A g \in File : \A j \in JrSeen(g) : j # NoFile => j.super # loc'[c].tx
      /\ \A g \in Written(c) : /\ jr[g] # NoFile /\ jr[g].orig = committed[g]
                               /\ jr[g].super = NoSuper
      /\ (Works(c) /\ loc'[c].tx = loc[c].tx) \/ loc'[c].tx = nTx + 1
      /\ loc'[c].ending = loc[c].ending
  <2>1. CASE Written(c) = {}
    <3>1. loc'[c].tx = nTx + 1 /\ nTx' = nTx + 1 /\ loc'[c].ending = loc[c].ending
      BY <1>1, <2>1, FieldTx, Sure DEF ConnTypes
    <3>4. \A m \in maybe : m \in [File -> 0..MaxTx]
      BY Sure DEF HistTypes
    <3>2. \A m \in maybe, g \in File : m[g] \in Nat /\ m[g] <= nTx
      BY <1>6, <3>4, Constants DEF NameInv
    <3>3. \A g \in File : \A j \in JrSeen(g) :
             j # NoFile => j.super \in Nat /\ j.super <= nTx
      BY <1>6, Sure, Types, JournalFields DEF NameInv
    <3>. QED
      BY <1>6, <2>1, <3>1, <3>2, <3>3 DEF NoSuper
  <2>2. CASE Written(c) # {}
    <3>1. Works(c) /\ OwnInv(c) /\ ProgressInv(c)
      BY <1>1, <2>2, Sure DEF Works, WorkInv
    <3>2. loc' = loc /\ nTx' = nTx
      BY <1>1, <2>2
    <3>. QED
      BY <1>1, <1>6, <3>1, <3>2 DEF OwnInv, ProgressInv, NotNamed, NoSuper
  <2>. QED
    BY <2>1, <2>2
<1>8. \A g \in File : \A j \in JrSeen(g)' : j # NoFile => j.super # loc'[c].tx
  BY <1>2, <1>5, <1>7
<1>9. \A g \in Written(c)' : /\ jr'[g] # NoFile /\ jr'[g].orig = committed[g]
                             /\ jr'[g].super = NoSuper
  BY <1>2, <1>4, <1>5, <1>7
<1>10. OwnInv(c)'
  BY <1>1, <1>7, <1>8, <1>9 DEF OwnInv
<1>11. StepInv(c)'
  BY <1>1 DEF StepInv, OnePcs, PhaseOnePcs, LatePcs, CurPcs
<1>12. ProgressInv(c)'
  BY <1>1, <1>9 DEF ProgressInv, NotNamed
<1>13. loc[c].ending # "commit"
  BY <1>1, EndingLater
<1>. QED
  BY <1>1, <1>7, <1>10, <1>11, <1>12, <1>13, EarlyParts DEF WorksOn

\* The steps before the first file.
LEMMA StartsOwn ==
  ASSUME IInv, Sound, NEW c \in Conn,
         Commit(c) \/ Locked(c) \/ CreateSuper(c) \/ SyncSuper(c)
  PROVE  OwnParts(c)'
<1>1. WorksOn(c)'
  BY CommitOwn, LockedOwn, CreateSuperOwn, SyncSuperOwn
<1>2. pc[c] \in {"idle", "excl", "super", "superSync"} /\ pc[c] \in OnePcs \cup {"idle"}
  BY DEF Commit, Locked, CreateSuper, SyncSuper, OnePcs, PhaseOnePcs
<1>3. pc'[c] \in {"excl", "super", "phaseOne", "superSync"}
  BY GotoDoes, Sure DEF Commit, Locked, CreateSuper, SyncSuper, Pcs
<1>4. loc'[c].ending = loc[c].ending
  <2>1. CASE Commit(c)
    BY <2>1, FieldsGo, Sure DEF Commit, ConnTypes, Written
  <2>2. CASE Locked(c) \/ CreateSuper(c) \/ SyncSuper(c)
    BY <2>2 DEF Locked, CreateSuper, SyncSuper
  <2>. QED
    BY <2>1, <2>2
<1>. QED
  BY <1>1, <1>2, <1>3, <1>4, EndingLater, EarlyParts DEF OnePcs, PhaseOnePcs
-----------------------------------------------------------------------------
(* The end of a transaction *)

\* Nothing is asked of a connection that is idle and writes nothing.
LEMMA QuietOwn ==
  ASSUME NEW c \in Conn, pc'[c] = "idle", Written(c)' = {},
         loc'[c].ending # "commit"
  PROVE  OwnParts(c)'
<1>1. ~Works(c)'
  BY DEF Works, Waits, OnePcs, PhaseOnePcs
<1>. QED
  BY <1>1 DEF OwnParts, WorkInv, FinishInv, CurInv, RollInv, KidsInv, KidsLeft,
    TwoPcs, EndPcs, OnePcs, PhaseOnePcs

\* The steps that leave a connection with nothing to do.
LEMMA QuietSteps ==
  ASSUME IInv, NEW c \in Conn,
         \/ EndRead(c) \/ EndTransaction(c) \/ Die(c)
         \/ \E f \in File : BeginRead(c, f)
  PROVE  OwnParts(c)'
<1>0. ConnTypes
  BY Sure
<1>1. CASE EndRead(c)
  <2>1. pc[c] = "idle" /\ pc' = pc /\ loc' = loc /\ Written(c)' = {}
    BY <1>0, <1>1, UnlockDoes DEF EndRead, Written
  <2>. QED
    BY <2>1, EndingLater, QuietOwn
<1>2. CASE EndTransaction(c) \/ Die(c)
  <2>1. Written(c)' = {} /\ pc'[c] = "idle"
    BY <1>0, <1>2, UnlockDoes, GotoDoes DEF EndTransaction, Die, Written, Pcs
  <2>2. loc'[c] = Idle
    BY <1>0, <1>2 DEF EndTransaction, Die, ConnTypes
  <2>. QED
    BY <2>1, <2>2, QuietOwn DEF Idle
<1>3. ASSUME NEW f \in File, BeginRead(c, f) PROVE OwnParts(c)'
  <2>1. pc[c] = "idle" /\ pc' = pc /\ loc' = loc /\ Written(c) = {}
        /\ Level(c, f, SHARED_LOCK)
    BY <1>3 DEF BeginRead, Looks
  <2>2. Written(c)' = {}
    BY <1>0, <2>1, LevelDoes DEF Written, Locks
  <2>. QED
    BY <2>1, <2>2, EndingLater, QuietOwn
<1>. QED
  BY <1>1, <1>2, <1>3

\* A recovery begins alone in its file, with a journal that counts.
LEMMA BeginRecoveryOwn ==
  ASSUME IInv, NEW c \in Conn, NEW f \in File, BeginRecovery(c, f)
  PROVE  OwnParts(c)'
<1>1. /\ pc[c] = "idle" /\ Written(c) = {} /\ HotJournal(f) /\ UNCHANGED jrVars
      /\ Level(c, f, EXCLUSIVE_LOCK) /\ Goto(c, "check")
      /\ loc' = [loc EXCEPT ![c] = [Idle EXCEPT !.cur = f, !.ending = "hot"]]
  BY DEF BeginRecovery, Looks
<1>2. pc'[c] = "check"
  BY <1>1, GotoDoes, Sure DEF Pcs
<1>3. lock'[c][f] = EXCLUSIVE_LOCK /\ \A g \in File : g # f => lock'[c][g] = lock[c][g]
  BY <1>1, LevelDoes, Sure DEF Locks
<1>4. Written(c)' = {f}
  BY <1>1, <1>3 DEF Written
<1>5. loc'[c] = [Idle EXCEPT !.cur = f, !.ending = "hot"]
  BY <1>1, Sure DEF ConnTypes
<1>6. loc'[c].cur = f /\ loc'[c].ending = "hot" /\ loc'[c].todo = {}
  BY <1>5 DEF Idle
<1>7. jr'[f] # NoFile
  BY <1>1 DEF HotJournal, jrVars
<1>8. ~Works(c)'
  BY <1>2 DEF Works, Waits, OnePcs, PhaseOnePcs
<1>. QED
  BY <1>2, <1>3, <1>4, <1>6, <1>7, <1>8 DEF OwnParts, WorkInv, FinishInv, CurInv, RollInv,
    KidsInv, KidsLeft, TwoPcs, EndPcs, OnePcs, PhaseOnePcs

\* The commit of several files: each of them is what is committed from here on.
LEMMA DeleteSuperOwn ==
  ASSUME IInv, NEW c \in Conn, DeleteSuper(c)
  PROVE  /\ OwnParts(c)'
         /\ \A f \in File : f \in loc[c].files => Clean(f)'
<1>1. /\ pc[c] = "del" /\ pc[c] \in OnePcs /\ Goto(c, "delSync")
      /\ super' = Without(loc[c].tx)
      /\ committed' = Image(c) /\ maybe' = maybe \cup {Image(c)}
      /\ UNCHANGED <<dbVars, jrVars, loc, lock, nTx>>
  BY DEF DeleteSuper, OnePcs, PhaseOnePcs
<1>2. /\ Works(c) /\ OwnInv(c) /\ StepInv(c) /\ ProgressInv(c)
      /\ loc[c].files = Written(c) /\ loc[c].tx \in 1..nTx
  BY <1>1, AtPhaseOne
<1>3. pc'[c] = "delSync"
  BY <1>1, GotoDoes, Sure DEF Pcs
<1>4. /\ loc[c].todo = loc[c].files /\ MultiTx(c) /\ loc[c].ending = "commit"
      /\ \A f \in loc[c].files : lock[c][f] = EXCLUSIVE_LOCK
  BY <1>1, <1>2 DEF StepInv
<1>5. \A f \in loc[c].files : Done(c, f)
  BY <1>1, <1>2 DEF ProgressInv, NotDone, CurPcs
<1>6. \A f \in File : f \in loc[c].files => committed'[f] = loc[c].tx
  BY <1>1, <1>2, CommitDoes
<1>7. \A f \in File : /\ DbSeen(f)' = DbSeen(f) /\ JrSeen(f)' = JrSeen(f)
                      /\ jr'[f] = jr[f]
  BY <1>1, FilesStay DEF jrVars
<1>8. ASSUME NEW f \in File, f \in loc[c].files
      PROVE  /\ Clean(f)' /\ jr'[f] # NoFile
             /\ \A j \in JrSeen(f)' : j # NoFile /\ j.hot /\ j.super = loc[c].tx
  <2>1. DbSeen(f) \subseteq {loc[c].tx} /\ JrSeen(f) \subseteq {jr[f]}
        /\ jr[f] # NoFile /\ jr[f].hot /\ jr[f].super = loc[c].tx
    BY <1>4, <1>5, <1>8 DEF Done, Journaled, HotJournal, Tail
  <2>. QED
    BY <1>6, <1>7, <1>8, <2>1 DEF Clean
<1>9. Written(c)' = Written(c) /\ MultiTx(c)' = MultiTx(c) /\ Written(c) \subseteq File
  BY <1>1 DEF Written, MultiTx
<1>10. loc[c].tx \notin DOMAIN super'
  BY <1>1 DEF Without
<1>11. ~Works(c)'
  BY <1>3 DEF Works, Waits, OnePcs, PhaseOnePcs
<1>12. FinishInv(c)'
  BY <1>1, <1>2, <1>3, <1>4, <1>8, <1>9, <1>10 DEF FinishInv
<1>13. OwnParts(c)'
  BY <1>1, <1>3, <1>4, <1>11, <1>12 DEF OwnParts, WorkInv, CurInv, RollInv,
    KidsInv, KidsLeft, TwoPcs, EndPcs
<1>. QED
  BY <1>8, <1>13

\* The commit can no longer be undone.
LEMMA SyncDirectoryOwn ==
  ASSUME IInv, NEW c \in Conn, SyncDirectory(c)
  PROVE  OwnParts(c)'
<1>1. /\ pc[c] = "delSync" /\ Goto(c, "phaseTwo")
      /\ UNCHANGED <<dbVars, jrVars, committed, loc, lock>>
  BY DEF SyncDirectory
<1>2. pc'[c] = "phaseTwo"
  BY <1>1, GotoDoes, Sure DEF Pcs
<1>3. /\ loc[c].todo = Written(c) /\ loc[c].ending = "commit" /\ MultiTx(c)
      /\ ~Waits(c)
      /\ \A f \in loc[c].todo : /\ Clean(f) /\ lock[c][f] = EXCLUSIVE_LOCK
                                /\ jr[f] # NoFile
  <2>1. loc[c].todo = Written(c) /\ loc[c].ending = "commit" /\ MultiTx(c)
    BY <1>1, Sure DEF FinishInv
  <2>2. ~Waits(c) /\ pc[c] \in TwoPcs
    BY <1>1 DEF Waits, TwoPcs
  <2>. QED
    BY <2>1, <2>2, Sure DEF FinishInv
<1>4. ~Single(c) /\ ~Single(c)'
  <2>1. Cardinality(loc[c].files) # 1
    BY <1>3 DEF MultiTx
  <2>. QED
    BY <1>1, <2>1 DEF Single
<1>5. ~Works(c)'
  BY <1>2, <1>4 DEF Works, Waits, OnePcs, PhaseOnePcs
<1>6. \A f \in loc[c].todo : Clean(f)' /\ jr'[f] # NoFile
  BY <1>1, <1>3 DEF Clean, DbSeen, dbVars, jrVars
<1>7. FinishInv(c)'
  BY <1>1, <1>2, <1>3, <1>6 DEF FinishInv
<1>. QED
  BY <1>1, <1>2, <1>3, <1>5, <1>7 DEF OwnParts, WorkInv, CurInv, RollInv,
    KidsInv, KidsLeft, TwoPcs, EndPcs

\* The next file is given back.
LEMMA PhaseTwoOwn ==
  ASSUME IInv, Sound, NEW c \in Conn, PhaseTwo(c)
  PROVE  OwnParts(c)'
<1>0. Step(c)
  BY DEF Step
<1>1. /\ pc[c] = "phaseTwo" /\ loc[c].todo # {} /\ Goto(c, "finalize")
      /\ UNCHANGED <<dbVars, jrVars, superVars, histVars, lock>>
  BY DEF PhaseTwo
<1>2. pc'[c] = "finalize"
  BY <1>1, GotoDoes, Sure DEF Pcs
<1>3. PICK f \in loc[c].todo : loc' = [loc EXCEPT ![c].cur = f, ![c].todo = @ \ {f}]
  BY DEF PhaseTwo
<1>4. f \in File /\ loc[c].todo \subseteq File
  BY <1>3, Sure DEF ConnTypes, Locs
<1>5. /\ loc'[c].cur = f /\ loc'[c].todo = loc[c].todo \ {f}
      /\ loc'[c].tx = loc[c].tx /\ loc'[c].files = loc[c].files
      /\ loc'[c].ending = loc[c].ending
  BY <1>3, <1>4, FieldsGo, Sure DEF ConnTypes
<1>6. loc[c].ending = "commit" /\ pc[c] \in TwoPcs
  BY <1>1, Sure DEF FinishInv, TwoPcs
<1>7. Waits(c) <=> Single(c)
  BY <1>1 DEF Waits
<1>8. /\ Single(c)' = Single(c) /\ (Waits(c)' <=> Single(c)) /\ (Works(c)' <=> Single(c))
      /\ Written(c)' = Written(c) /\ MultiTx(c)' = MultiTx(c)
  <2>1. Single(c)' = Single(c) /\ Written(c)' = Written(c) /\ MultiTx(c)' = MultiTx(c)
    BY <1>1, <1>5 DEF Single, Written, MultiTx
  <2>. QED
    BY <1>2, <2>1 DEF Works, Waits, OnePcs, PhaseOnePcs
<1>9. jr' = jr /\ (\A g \in File : Clean(g)' = Clean(g)) /\ \A g : JrSame(g)
  BY <1>1, AllSame DEF Clean, DbSeen, dbVars, jrVars, histVars
<1>10. lock[c][f] = EXCLUSIVE_LOCK /\ jr[f] # NoFile
       /\ (Single(c) => WorksOn(c) /\ loc[c].files = {f} /\ loc'[c].todo = {})
       /\ (~Single(c) => \A g \in loc[c].todo : /\ Clean(g) /\ jr[g] # NoFile
                                                /\ lock[c][g] = EXCLUSIVE_LOCK)
  <2>1. CASE Single(c)
    <3>1. Works(c)
      BY <1>7, <2>1 DEF Works
    <3>2. WorksOn(c) /\ loc[c].todo = loc[c].files /\ loc[c].files = Written(c)
      BY <1>1, <3>1, Sure DEF WorksOn, WorkInv, OwnInv, StepInv
    <3>3. loc[c].files = {f}
      BY <2>1, <3>2, FewFiles DEF Single
    <3>4. lock[c][f] = EXCLUSIVE_LOCK /\ jr[f] # NoFile
      BY <1>1, <3>2 DEF WorksOn, OwnInv, StepInv
    <3>. QED
      BY <1>5, <2>1, <3>2, <3>3, <3>4
  <2>2. CASE ~Single(c)
    <3>1. ~Waits(c)
      BY <1>7, <2>2
    <3>. QED
      BY <1>6, <2>2, <3>1, Sure DEF FinishInv
  <2>. QED
    BY <2>1, <2>2
<1>11. WorkInv(c)'
  <2>. SUFFICES ASSUME Single(c) PROVE WorksOn(c)'
    BY <1>8 DEF WorkInv, WorksOn
  <2>1. OwnInv(c) /\ StepInv(c) /\ ProgressInv(c) /\ Works(c) /\ loc[c].files = {f}
        /\ loc'[c].todo = {}
    BY <1>7, <1>10 DEF WorksOn, Works
  <2>2. loc[c].files = Written(c) /\ Written(c) # {}
    BY <1>1, <2>1 DEF OwnInv
  <2>3. OwnInv(c)'
    BY <1>0, <1>1, <1>2, <1>5, <1>8, <1>9, <2>1, <2>2, OwnStays DEF EarlyOnes
  <2>4. StepInv(c)'
    BY <1>1, <1>2, <1>5, <1>8, <2>1 DEF StepInv, OnePcs, PhaseOnePcs, LatePcs, CurPcs
  <2>5. NotDone(c)' = {} /\ NotDone(c) = {} /\ NotNamed(c)' = {}
    BY <1>1, <1>2 DEF NotDone, NotNamed, CurPcs
  <2>6. Done(c, f)' = Done(c, f)
    BY <1>1, <1>4, <1>5, AllSame, DoneHere
  <2>7. ProgressInv(c)'
    BY <1>1, <1>2, <1>5, <2>1, <2>5, <2>6 DEF ProgressInv
  <2>. QED
    BY <2>3, <2>4, <2>7 DEF WorksOn
<1>12. FinishInv(c)'
  BY <1>1, <1>2, <1>4, <1>5, <1>8, <1>9, <1>10 DEF FinishInv
<1>14. /\ f = loc'[c].cur /\ f \notin loc'[c].todo /\ lock'[c][f] >= RESERVED_LOCK
       /\ jr'[f] # NoFile /\ (Waits(c)' \/ Clean(f)') /\ loc'[c].ending = "commit"
  <2>1. lock' = lock /\ f \in loc[c].todo
    BY <1>1, <1>3
  <2>2. f = loc'[c].cur /\ f \notin loc'[c].todo /\ loc'[c].ending = "commit"
    BY <1>5, <1>6
  <2>3. jr'[f] # NoFile /\ lock'[c][f] >= RESERVED_LOCK
    BY <1>9, <1>10, <2>1
  <2>4. Waits(c)' \/ Clean(f)'
    BY <1>4, <1>8, <1>9, <1>10, <2>1
  <2>. QED
    BY <2>2, <2>3, <2>4
<1>13. CurInv(c)'
  BY <1>2, <1>4, <1>14 DEF CurInv
<1>. QED
  BY <1>2, <1>5, <1>6, <1>11, <1>12, <1>13 DEF OwnParts, RollInv,
    KidsInv, KidsLeft, TwoPcs, EndPcs

\* The rollback begins with all files that have been written.
LEMMA FailOwn ==
  ASSUME IInv, NEW c \in Conn, Fail(c)
  PROVE  OwnParts(c)'
<1>1. /\ pc[c] \in PhaseOnePcs \cup {"idle"} /\ Goto(c, "rollback")
      /\ UNCHANGED <<jrVars, lock>>
      /\ loc' = [loc EXCEPT ![c].todo = Written(c), ![c].ending = "rollback"]
  BY DEF Fail
<1>2. pc'[c] = "rollback"
  BY <1>1, GotoDoes, Sure DEF Pcs
<1>3. loc'[c].todo = Written(c) /\ loc'[c].ending = "rollback"
  BY <1>1, FieldsGo, Sure DEF ConnTypes, Written, Endings
<1>4. \A f \in Written(c) : jr'[f] # NoFile /\ lock'[c][f] >= RESERVED_LOCK
  BY <1>1, WrittenHere, Sure DEF jrVars, Written
<1>5. ~Works(c)'
  BY <1>2 DEF Works, Waits, OnePcs, PhaseOnePcs
<1>. QED
  BY <1>2, <1>3, <1>4, <1>5 DEF OwnParts, WorkInv, FinishInv, CurInv, RollInv,
    KidsInv, KidsLeft, TwoPcs, EndPcs, OnePcs, PhaseOnePcs

\* What is known of the files that are being rolled back.
Rolling(c, f) ==
  /\ f = loc[c].cur /\ f \in File /\ lock[c][f] >= RESERVED_LOCK
  /\ f \notin loc[c].todo /\ loc[c].ending \in {"hot", "rollback"}
  /\ jr[f] # NoFile
  /\ loc[c].ending = "rollback" =>
       \A g \in loc[c].todo : lock[c][g] >= RESERVED_LOCK /\ jr[g] # NoFile
  /\ loc[c].ending = "hot" => Written(c) = {f}

PlayPcs == {"check", "play", "sync"}

\* A connection that plays back knows this of its file.
LEMMA AtPlay ==
  ASSUME IInv, NEW c \in Conn, pc[c] \in PlayPcs, NEW f, f = loc[c].cur
  PROVE  Rolling(c, f)
BY Sure DEF CurInv, RollInv, EndPcs, PlayPcs, Rolling

\* That is all that is asked while a file is played back.
LEMMA PlayOwn ==
  ASSUME NEW c \in Conn, NEW f, Rolling(c, f)', pc'[c] \in PlayPcs \cup {"finalize"},
         pc'[c] # "check" => loc'[c].play = SuperExists(jr[f])',
         pc'[c] = "sync" => db'[f] = committed'[f],
         pc'[c] = "finalize" => Clean(f)'
  PROVE  OwnParts(c)'
<1>1. loc'[c].ending # "commit" /\ loc'[c].ending # "none" /\ f = loc'[c].cur
  BY DEF Rolling
<1>2. ~Single(c)' /\ ~Waits(c)'
  BY <1>1 DEF Single, Waits
<1>3. ~Works(c)'
  BY <1>2 DEF Works, OnePcs, PhaseOnePcs, PlayPcs
<1>4. CurInv(c)'
  BY <1>1, <1>2 DEF CurInv, PlayPcs, EndPcs, Rolling, SuperExists
<1>5. RollInv(c)'
  BY <1>1 DEF RollInv, PlayPcs, EndPcs, Rolling
<1>6. FinishInv(c)' /\ KidsInv(c)'
  BY <1>1, <1>2 DEF FinishInv, KidsInv, KidsLeft, PlayPcs
<1>. QED
  BY <1>3, <1>4, <1>5, <1>6 DEF OwnParts, WorkInv

\* The next file is rolled back.
LEMMA RollbackFileOwn ==
  ASSUME IInv, NEW c \in Conn, RollbackFile(c)
  PROVE  OwnParts(c)'
<1>1. /\ pc[c] = "rollback" /\ loc[c].todo # {} /\ Goto(c, "check")
      /\ UNCHANGED <<jrVars, lock>>
  BY DEF RollbackFile
<1>2. pc'[c] = "check"
  BY <1>1, GotoDoes, Sure DEF Pcs
<1>3. PICK f \in loc[c].todo : loc' = [loc EXCEPT ![c].cur = f, ![c].todo = @ \ {f}]
  BY DEF RollbackFile
<1>4. f \in File /\ f \in loc[c].todo
  BY <1>3, Sure DEF ConnTypes, Locs
<1>5. /\ loc'[c].cur = f /\ loc'[c].todo = loc[c].todo \ {f}
      /\ loc'[c].ending = loc[c].ending
  BY <1>3, <1>4, FieldsGo, Sure DEF ConnTypes
<1>6. loc[c].ending = "rollback"
      /\ \A g \in loc[c].todo : lock[c][g] >= RESERVED_LOCK /\ jr[g] # NoFile
  BY <1>1, Sure DEF RollInv
<1>7. Rolling(c, f)'
  BY <1>1, <1>4, <1>5, <1>6 DEF Rolling, jrVars
<1>. QED
  BY <1>2, <1>7, PlayOwn DEF PlayPcs

\* The journal has been judged by the super-journal in its tail.
LEMMA CheckSuperOwn ==
  ASSUME IInv, NEW c \in Conn, CheckSuper(c)
  PROVE  OwnParts(c)'
<1>f. PICK f : f = loc[c].cur
  OBVIOUS
<1>1. /\ pc[c] = "check" /\ Goto(c, "play")
      /\ UNCHANGED <<jrVars, superVars, lock>>
  BY DEF CheckSuper
<1>2. pc'[c] = "play"
  BY <1>1, GotoDoes, Sure DEF Pcs
<1>3. PICK p \in BOOLEAN : p = SuperExists(jr[f])
  BY DEF SuperExists
<1>4. loc' = [loc EXCEPT ![c].play = p]
  BY <1>f, <1>3 DEF CheckSuper
<1>5. /\ loc'[c].cur = f /\ loc'[c].todo = loc[c].todo /\ loc'[c].play = p
      /\ loc'[c].ending = loc[c].ending
  BY <1>f, <1>4, FieldPlay, Sure DEF ConnTypes
<1>6. Rolling(c, f)
  BY <1>f, <1>1, AtPlay DEF PlayPcs
<1>7. Rolling(c, f)'
  BY <1>1, <1>5, <1>6 DEF Rolling, jrVars, Written
<1>8. SuperExists(jr[f])' = SuperExists(jr[f])
  BY <1>1 DEF SuperExists, jrVars, superVars
<1>. QED
  BY <1>2, <1>3, <1>5, <1>7, <1>8, PlayOwn DEF PlayPcs

\* The file is as committed once its journal has been played back.
LEMMA PlayBackOwn ==
  ASSUME IInv, NEW c \in Conn, PlayBack(c) \/ SyncPlayed(c)
  PROVE  OwnParts(c)'
<1>f. PICK f : f = loc[c].cur
  OBVIOUS
<1>1. /\ pc[c] \in {"play", "sync"}
      /\ UNCHANGED <<jrVars, superVars, lock, loc, histVars>>
  BY DEF PlayBack, SyncPlayed
<1>2. Rolling(c, f)
  BY <1>f, <1>1, AtPlay DEF PlayPcs
<1>3. Rolling(c, f)'
  BY <1>1, <1>2 DEF Rolling, jrVars, Written
<1>4. loc[c].play = SuperExists(jr[f])
  BY <1>f, <1>1, <1>2, Sure DEF CurInv, EndPcs, Rolling
<1>5. SuperExists(jr[f])' = SuperExists(jr[f]) /\ loc' = loc /\ committed' = committed
  BY <1>1 DEF SuperExists, jrVars, superVars, histVars
<1>6. CASE PlayBack(c)
  <2>1. pc'[c] \in {"play", "sync"} /\ (pc'[c] = "sync" => db'[f] = committed[f])
    BY <1>f, <1>6, PlayBackDoes
  <2>. QED
    BY <1>3, <1>4, <1>5, <2>1, PlayOwn DEF PlayPcs
<1>7. CASE SyncPlayed(c)
  <2>1. db' = db /\ DbSeen(f)' \subseteq {db[f]} /\ db[f] = committed[f]
    BY <1>f, <1>7, SyncPlayedDoes
  <2>2. pc'[c] = "finalize"
    BY <1>7, GotoDoes, Sure DEF Pcs, SyncPlayed
  <2>3. Clean(f)'
    BY <1>5, <2>1 DEF Clean
  <2>. QED
    BY <1>3, <1>4, <1>5, <2>2, <2>3, PlayOwn DEF PlayPcs
<1>. QED
  BY <1>6, <1>7

\* What the end of the transaction in file f leaves to the other files.
LEMMA FinalizeOwn ==
  ASSUME IInv, NEW c \in Conn, Finalize(c), NEW f, f = loc[c].cur
  PROVE  /\ OwnParts(c)' /\ Clean(f)'
         /\ loc'[c].kids # {} =>
              jr[f].super = loc'[c].tx /\ jr[f].super \in DOMAIN super
<1>1. /\ pc[c] = "finalize" /\ pc[c] \in EndPcs /\ Goto(c, "endSync")
      /\ UNCHANGED <<dbVars, superVars, lock, nTx>>
      /\ IF Single(c)
         THEN committed' = Image(c) /\ maybe' = maybe \cup {Image(c)}
         ELSE UNCHANGED <<committed, maybe>>
  BY DEF Finalize, EndPcs
<1>2. pc'[c] = "endSync"
  BY <1>1, GotoDoes, Sure DEF Pcs
<1>3. /\ f \in File /\ f \in Written(c) /\ jr[f] \in Journals /\ jr[f] # NoFile
      /\ jr[f].super \in Tx \cup {NoSuper} /\ lock[c][f] >= RESERVED_LOCK
      /\ f \notin loc[c].todo
  BY <1>1, AtEnd, Sure DEF CurInv
<1>4. PICK K, x :
        /\ K = (IF loc[c].ending # "commit" /\ loc[c].play
                   /\ jr[f].super \in DOMAIN super THEN super[jr[f].super] ELSE {})
        /\ x = (IF loc[c].ending # "commit" THEN jr[f].super ELSE loc[c].tx)
        /\ loc' = [loc EXCEPT ![c].kids = K, ![c].tx = x]
  <2>. DEFINE K == IF loc[c].ending # "commit" /\ loc[c].play
                     /\ jr[f].super \in DOMAIN super THEN super[jr[f].super] ELSE {}
              x == IF loc[c].ending # "commit" THEN jr[f].super ELSE loc[c].tx
  <2>1. loc' = [loc EXCEPT ![c].kids = K, ![c].tx = x]
    BY Sure DEF Finalize, ConnTypes
  <2>. QED
    BY <2>1
<1>5. /\ loc'[c].kids = K /\ loc'[c].tx = x /\ loc'[c].files = loc[c].files
      /\ loc'[c].todo = loc[c].todo /\ loc'[c].cur = f /\ loc'[c].play = loc[c].play
      /\ loc'[c].ending = loc[c].ending
  <2>1. loc' = [loc EXCEPT ![c].kids = K, ![c].tx = x] /\ loc \in [Conn -> Locs]
    BY <1>4, Sure DEF ConnTypes
  <2>2. /\ loc'[c].kids = K /\ loc'[c].tx = x /\ loc'[c].files = loc[c].files
        /\ loc'[c].todo = loc[c].todo /\ loc'[c].cur = loc[c].cur
        /\ loc'[c].play = loc[c].play /\ loc'[c].ending = loc[c].ending
    BY <2>1 DEF Locs
  <2>. QED
    BY <2>2
<1>6. /\ \A g \in File : g # f => jr'[g] = jr[g]
      /\ (Single(c) => jr'[f] = NoFile \/ ~jr'[f].hot)
      /\ (jr'[f] # NoFile => jr'[f].super \in {NoSuper, jr[f].super})
  <2>1. /\ JrPut(f, jr'[f])
        /\ \/ jr'[f] = NoFile
           \/ /\ jr'[f] # NoFile
              /\ \/ ~jr'[f].hot /\ jr'[f].super = NoSuper
                 \/ ~jr'[f].hot /\ jr'[f].super = jr[f].super /\ Single(c)
                 \/ jr'[f] = jr[f] /\ loc[c].ending = "hot" /\ ~loc[c].play
    BY FinalizeDoes
  <2>. QED
    BY <2>1 DEF JrPut, JrSame, Single
<1>7. \A g \in File : DbSeen(g)' = DbSeen(g)
  BY <1>1, FilesStay
<1>8. Single(c)' = Single(c) /\ ~Waits(c)' /\ ~Works(c)' /\ Written(c)' = Written(c)
  <2>1. Single(c)' = Single(c) /\ Written(c)' = Written(c)
    BY <1>1, <1>5 DEF Single, Written
  <2>. QED
    BY <1>2, <2>1 DEF Works, Waits, OnePcs, PhaseOnePcs
<1>9. Single(c) => /\ Clean(f)' /\ loc[c].todo = {} /\ loc[c].files = {f} /\ extraSync
  <2>. SUFFICES ASSUME Single(c)
                PROVE  /\ Clean(f)' /\ loc[c].todo = {} /\ loc[c].files = {f} /\ extraSync
    OBVIOUS
  <2>1. /\ Works(c) /\ OwnInv(c) /\ StepInv(c) /\ ProgressInv(c)
        /\ loc[c].files = {f} /\ loc[c].tx \in 1..nTx
    BY <1>1, WorksFinalize
  <2>2. Done(c, f)
    BY <1>1, <2>1 DEF ProgressInv, NotDone, CurPcs
  <2>3. committed'[f] = loc[c].tx
    BY <1>1, <1>3, <2>1, CommitDoes
  <2>4. Clean(f)'
    BY <1>3, <1>7, <2>2, <2>3 DEF Clean, Done
  <2>5. loc[c].todo = {}
    BY <1>1, Sure DEF FinishInv
  <2>6. extraSync
    <3>1. Cardinality(loc[c].files) = 1
      BY DEF Single
    <3>. QED
      BY <1>1, <2>1, <3>1 DEF StepInv, MultiTx
  <2>. QED
    BY <2>1, <2>4, <2>5, <2>6
<1>10. ~Single(c) => committed' = committed /\ ~Waits(c) /\ Clean(f)
  <2>1. ~Single(c) => ~Waits(c)
    BY DEF Waits
  <2>. QED
    BY <1>1, <2>1, Sure DEF CurInv
<1>11. Clean(f)'
  BY <1>3, <1>7, <1>9, <1>10 DEF Clean
<1>12. loc[c].ending = "commit" => \A g \in loc[c].todo :
         Clean(g)' /\ lock[c][g] = EXCLUSIVE_LOCK /\ jr'[g] # NoFile
  <2>1. CASE Single(c)
    BY <1>9, <2>1
  <2>2. CASE ~Single(c)
    <3>1. loc[c].ending = "commit" => \A g \in loc[c].todo :
            Clean(g) /\ lock[c][g] = EXCLUSIVE_LOCK /\ jr[g] # NoFile
      BY <1>1, <1>10, <2>2, Sure DEF FinishInv, TwoPcs
    <3>2. loc[c].todo \subseteq File
      BY Sure DEF ConnTypes, Locs
    <3>. QED
      BY <1>3, <1>6, <1>7, <1>10, <2>2, <3>1, <3>2 DEF Clean
  <2>. QED
    BY <2>1, <2>2
<1>13. FinishInv(c)'
  BY <1>1, <1>2, <1>5, <1>6, <1>8, <1>9, <1>12 DEF FinishInv
<1>15. f = loc'[c].cur /\ f \notin loc'[c].todo /\ lock' = lock
  BY <1>1, <1>3, <1>5
<1>14. CurInv(c)'
  BY <1>2, <1>3, <1>11, <1>15 DEF CurInv
<1>16. RollInv(c)'
  <2>1. loc[c].todo \subseteq File /\ RollInv(c)
    BY Sure DEF ConnTypes, Locs
  <2>2. loc[c].ending = "rollback" =>
          \A g \in loc[c].todo : lock[c][g] >= RESERVED_LOCK /\ jr'[g] # NoFile
    BY <1>1, <1>3, <1>6, <2>1 DEF RollInv
  <2>. QED
    BY <1>1, <1>2, <1>5, <1>8, <2>1, <2>2 DEF RollInv, EndPcs, TwoPcs
<1>17. loc'[c].kids # {} =>
         /\ jr[f].super = loc'[c].tx /\ jr[f].super \in DOMAIN super
         /\ loc'[c].kids = super[jr[f].super] /\ loc'[c].ending # "commit"
  BY <1>4, <1>5
<1>18. KidsInv(c)'
  <2>. SUFFICES ASSUME loc'[c].kids # {}
                PROVE  /\ x \in 1..nTx'
                       /\ \A g \in File : Names(g, x)' => g \in K
    BY <1>5, <1>17 DEF KidsInv, KidsLeft, Names
  <2>0. x = jr[f].super /\ x \in DOMAIN super /\ K = super[x]
    BY <1>5, <1>17
  <2>4. \A t \in DOMAIN super : t \in Tx /\ t <= nTx
    BY Sure DEF SuperTypes, NameInv
  <2>1. x \in Tx /\ x <= nTx /\ x # NoSuper
    BY <2>0, <2>4, Constants DEF Tx, NoSuper
  <2>2. \A g \in File : Names(g, x)' => jr[g] # NoFile /\ jr[g].super = x
    BY <1>3, <1>6, <2>0, <2>1 DEF Names
  <2>3. \A g \in File : jr[g] # NoFile /\ jr[g].super = x => g \in K
    BY <2>0, Sure DEF NameInv
  <2>. QED
    BY <1>1, <2>1, <2>2, <2>3, Sure, Constants DEF HistTypes, Tx
<1>. QED
  BY <1>8, <1>11, <1>13, <1>14, <1>16, <1>17, <1>18 DEF OwnParts, WorkInv

\* The file goes back to SHARED; those after it stay locked.
LEMMA EndSyncOwn ==
  ASSUME IInv, NEW c \in Conn, EndSync(c)
  PROVE  OwnParts(c)'
<1>f. PICK f : f = loc[c].cur
  OBVIOUS
<1>1. /\ pc[c] = "endSync" /\ pc[c] \in EndPcs /\ Goto(c, "kids")
      /\ UNCHANGED <<dbVars, superVars, loc, committed, nTx>>
      /\ Level(c, f, SHARED_LOCK)
  BY <1>f DEF EndSync, EndPcs
<1>2. pc'[c] = "kids"
  BY <1>1, GotoDoes, Sure DEF Pcs
<1>3. /\ f \in File /\ f \in Written(c) /\ f \notin loc[c].todo
  BY <1>f, <1>1, AtEnd, Sure DEF CurInv
<1>4. lock'[c][f] = SHARED_LOCK /\ \A g \in File : g # f => lock'[c][g] = lock[c][g]
  BY <1>1, <1>3, LevelDoes, Sure DEF Locks
<1>5. jr' = jr /\ \A g \in File : Clean(g)' = Clean(g)
  <2>1. jr' = jr
    BY <1>f, EndSyncDoes
  <2>2. \A g \in File : DbSeen(g)' = DbSeen(g)
    BY <1>1, FilesStay
  <2>. QED
    BY <1>1, <2>1, <2>2 DEF Clean
<1>6. Written(c)' = Written(c) \ {f}
  BY <1>3, <1>4 DEF Written
<1>7. Single(c)' = Single(c) /\ ~Waits(c)' /\ ~Works(c)' /\ ~Waits(c)
  <2>1. Single(c)' = Single(c)
    BY <1>1 DEF Single
  <2>. QED
    BY <1>1, <1>2, <2>1 DEF Works, Waits, OnePcs, PhaseOnePcs
<1>8. loc[c].todo \subseteq File /\ loc' = loc
  BY <1>1, Sure DEF ConnTypes, Locs
<1>9. \A g \in loc[c].todo : g # f /\ lock'[c][g] = lock[c][g] /\ jr'[g] = jr[g]
                             /\ Clean(g)' = Clean(g)
  BY <1>3, <1>4, <1>5, <1>8
<1>10. FinishInv(c)'
  <2>1. FinishInv(c)
    BY Sure
  <2>2. (loc[c].ending = "commit") =>
          \A g \in loc[c].todo : Clean(g) /\ lock[c][g] = EXCLUSIVE_LOCK /\ jr[g] # NoFile
    BY <1>1, <1>7, <2>1 DEF FinishInv, TwoPcs
  <2>3. Single(c) => loc[c].todo = {}
    BY <1>1, <2>1 DEF FinishInv
  <2>. QED
    BY <1>2, <1>7, <1>8, <1>9, <2>2, <2>3 DEF FinishInv
<1>11. RollInv(c)'
  <2>1. RollInv(c)
    BY Sure
  <2>2. loc[c].ending # "none"
        /\ (loc[c].ending = "hot" => Written(c) = {f})
        /\ (loc[c].ending = "rollback" =>
              \A g \in loc[c].todo : lock[c][g] >= RESERVED_LOCK /\ jr[g] # NoFile)
    BY <1>f, <1>1, <2>1 DEF RollInv
  <2>. QED
    BY <1>2, <1>6, <1>8, <1>9, <2>2 DEF RollInv, EndPcs, TwoPcs
<1>12. KidsInv(c)'
  <2>1. KidsLeft(c)' = KidsLeft(c)
    BY <1>1, <1>2 DEF KidsLeft
  <2>. QED
    BY <1>1, <1>5, <2>1, Sure DEF KidsInv, Names
<1>13. CurInv(c)'
  BY <1>2 DEF CurInv, EndPcs
<1>. QED
  BY <1>7, <1>10, <1>11, <1>12, <1>13 DEF OwnParts, WorkInv

\* The transaction has ended in a file, and no child is left to be looked at.
LEMMA NextOwn ==
  ASSUME IInv, NEW c \in Conn, pc[c] = "kids", pc'[c] = NextFile(c),
         UNCHANGED <<dbVars, jrVars, lock, committed>>,
         loc'[c].todo = loc[c].todo, loc'[c].ending = loc[c].ending,
         loc'[c].files = loc[c].files
  PROVE  OwnParts(c)'
<1>1. RollInv(c) /\ FinishInv(c) /\ loc[c].ending \in Endings
  BY Sure DEF ConnTypes, Locs
<1>2. loc[c].ending \in {"hot", "rollback", "commit"}
  BY <1>1 DEF RollInv, Endings
<1>3. jr' = jr /\ Written(c)' = Written(c) /\ (\A g \in File : Clean(g)' = Clean(g))
      /\ loc[c].todo \subseteq File /\ Single(c)' = Single(c)
  BY Sure, AllSame, FilesStay DEF jrVars, Written, Clean, ConnTypes, Locs, Single
<1>4. CASE loc[c].ending = "hot"
  <2>1. pc'[c] = "idle" /\ Written(c) = {}
    BY <1>1, <1>4 DEF NextFile, RollInv
  <2>. QED
    BY <1>3, <1>4, <2>1, QuietOwn
<1>5. CASE loc[c].ending = "rollback"
  <2>1. pc'[c] = "rollback"
    BY <1>5 DEF NextFile
  <2>2. \A f \in loc[c].todo : lock[c][f] >= RESERVED_LOCK /\ jr[f] # NoFile
    BY <1>1, <1>5 DEF RollInv
  <2>3. ~Works(c)'
    BY <2>1 DEF Works, Waits, OnePcs, PhaseOnePcs
  <2>. QED
    BY <1>3, <1>5, <2>1, <2>2, <2>3 DEF OwnParts, WorkInv, FinishInv, CurInv, RollInv,
      KidsInv, KidsLeft, TwoPcs, EndPcs
<1>6. CASE loc[c].ending = "commit"
  <2>1. pc'[c] = "phaseTwo"
    BY <1>6 DEF NextFile
  <2>2. \A f \in loc[c].todo : Clean(f) /\ lock[c][f] = EXCLUSIVE_LOCK /\ jr[f] # NoFile
    BY <1>1, <1>6 DEF FinishInv, TwoPcs, Waits
  <2>3. Single(c) => loc[c].todo = {}
    BY <1>1 DEF FinishInv
  <2>4. ~Waits(c)' /\ ~Works(c)'
    BY <1>3, <2>1, <2>3 DEF Works, Waits, OnePcs, PhaseOnePcs
  <2>. QED
    BY <1>3, <1>6, <2>1, <2>2, <2>4 DEF OwnParts, WorkInv, FinishInv, CurInv, RollInv,
      KidsInv, KidsLeft, TwoPcs, EndPcs
<1>. QED
  BY <1>2, <1>4, <1>5, <1>6

\* The super-journal goes with the last child that does not name it any more.
LEMMA KidsOwn ==
  ASSUME IInv, NEW c \in Conn, NoChildren(c) \/ CheckChild(c)
  PROVE  OwnParts(c)'
<1>1. pc[c] = "kids" /\ UNCHANGED <<dbVars, jrVars, lock, histVars>>
  BY DEF NoChildren, CheckChild
<1>2. \A l \in Pcs : Goto(c, l) => pc'[c] = l
  BY GotoDoes, Sure
<1>3. NextFile(c) \in Pcs
  BY DEF NextFile, Pcs
<1>4. CASE NoChildren(c)
  <2>1. pc'[c] = NextFile(c) /\ loc' = loc
    BY <1>2, <1>3, <1>4 DEF NoChildren
  <2>. QED
    BY <1>1, <2>1, NextOwn DEF histVars
<1>5. CASE CheckChild(c)
  <2>0. loc \in [Conn -> Locs] /\ loc[c].kids \subseteq File
    BY Sure DEF ConnTypes, Locs
  <2>1. PICK g \in loc[c].kids :
          \/ loc' = [loc EXCEPT ![c].kids = {}] /\ Goto(c, NextFile(c))
          \/ /\ ~Names(g, loc[c].tx) /\ loc' = [loc EXCEPT ![c].kids = @ \ {g}]
             /\ Goto(c, NextFile(c)) \/ pc' = pc
    BY <1>5 DEF CheckChild
  <2>2. PICK K \in SUBSET File :
          /\ loc' = [loc EXCEPT ![c].kids = K]
          /\ \/ pc'[c] = NextFile(c)
             \/ pc' = pc /\ K = loc[c].kids \ {g} /\ ~Names(g, loc[c].tx)
    <3>1. loc[c].kids \ {g} \in SUBSET File /\ {} \in SUBSET File
      BY <2>0
    <3>2. CASE loc' = [loc EXCEPT ![c].kids = {}] /\ Goto(c, NextFile(c))
      BY <1>2, <1>3, <3>1, <3>2
    <3>3. CASE /\ ~Names(g, loc[c].tx) /\ loc' = [loc EXCEPT ![c].kids = @ \ {g}]
               /\ Goto(c, NextFile(c)) \/ pc' = pc
      BY <1>2, <1>3, <2>0, <3>1, <3>3
    <3>. QED
      BY <2>1, <3>2, <3>3
  <2>3. /\ loc'[c].kids = K /\ loc'[c].tx = loc[c].tx
        /\ loc'[c].files = loc[c].files /\ loc'[c].todo = loc[c].todo
        /\ loc'[c].cur = loc[c].cur /\ loc'[c].play = loc[c].play
        /\ loc'[c].ending = loc[c].ending
    BY <2>0, <2>2 DEF Locs
  <2>4. CASE pc'[c] = NextFile(c)
    BY <1>1, <2>3, <2>4, NextOwn DEF histVars
  <2>5. CASE pc' = pc /\ K = loc[c].kids \ {g} /\ ~Names(g, loc[c].tx)
    <3>1. jr' = jr /\ Written(c)' = Written(c) /\ (\A h \in File : Clean(h)' = Clean(h))
          /\ loc[c].todo \subseteq File /\ Single(c)' = Single(c) /\ Waits(c)' = Waits(c)
          /\ nTx' = nTx
      BY <1>1, <2>3, <2>5, Sure, AllSame, FilesStay DEF jrVars, histVars, Written, Clean,
        ConnTypes, Locs, Single, Waits
    <3>2. ~Works(c)'
      BY <1>1, <2>5 DEF Works, Waits, OnePcs, PhaseOnePcs
    <3>3. FinishInv(c)'
      BY <1>1, <2>3, <2>5, <3>1, Sure DEF FinishInv
    <3>4. RollInv(c)'
      BY <1>1, <2>3, <2>5, <3>1, Sure DEF RollInv, EndPcs, TwoPcs
    <3>5. CurInv(c)'
      BY <1>1, <2>5 DEF CurInv, EndPcs
    <3>6. KidsInv(c)'
      <4>1. KidsLeft(c)
        BY <1>1, <2>1 DEF KidsLeft
      <4>2. /\ loc[c].tx \in 1..nTx /\ loc[c].ending # "commit"
            /\ \A h \in File : Names(h, loc[c].tx) => h \in loc[c].kids
        BY <4>1, Sure DEF KidsInv
      <4>3. \A h \in File : Names(h, loc[c].tx) => h \in K
        BY <2>5, <4>2
      <4>. QED
        BY <2>3, <3>1, <4>2, <4>3 DEF KidsInv, Names
    <3>. QED
      BY <3>2, <3>3, <3>4, <3>5, <3>6 DEF OwnParts, WorkInv
  <2>. QED
    BY <2>2, <2>4, <2>5
<1>. QED
  BY <1>4, <1>5

\* The invariant of the connection that takes the step.
LEMMA OwnKeep ==
  ASSUME IInv, Sound, NEW c \in Conn, Step(c)
  PROVE  ConnInv(c)'
<1>1. OwnParts(c)'
  <2>1. CASE EndRead(c) \/ EndTransaction(c) \/ Die(c) \/ \E f \in File : BeginRead(c, f)
    BY <2>1, QuietSteps
  <2>2. CASE Commit(c) \/ Locked(c) \/ CreateSuper(c) \/ SyncSuper(c)
    BY <2>2, StartsOwn
  <2>3. CASE \/ PhaseOne(c) \/ WriteSuperJournal(c) \/ SyncJournal(c)
             \/ WritePages(c) \/ SyncDatabase(c)
    BY <2>3, PhaseOneOwn, NameOwn, SyncJournalOwn, WritePagesOwn, SyncDatabaseOwn
  <2>4. CASE DeleteSuper(c) \/ SyncDirectory(c) \/ PhaseTwo(c) \/ Fail(c)
    BY <2>4, DeleteSuperOwn, SyncDirectoryOwn, PhaseTwoOwn, FailOwn
  <2>5. CASE RollbackFile(c) \/ CheckSuper(c) \/ PlayBack(c) \/ SyncPlayed(c)
    BY <2>5, RollbackFileOwn, CheckSuperOwn, PlayBackOwn
  <2>6. CASE Finalize(c) \/ EndSync(c) \/ CheckChild(c) \/ NoChildren(c)
    BY <2>6, FinalizeOwn, EndSyncOwn, KidsOwn
  <2>7. CASE \E f \in File : \/ BeginRecovery(c, f) \/ BeginWrite(c, f)
                             \/ ExclusiveLock(c, f) \/ Spill(c, f)
    BY <2>7, BeginRecoveryOwn, BeginWriteOwn, ExclusiveOwn, SpillOwn
  <2>. QED
    BY <2>1, <2>2, <2>3, <2>4, <2>5, <2>6, <2>7 DEF Step
<1>. QED
  BY <1>1, LevelOwn DEF OwnParts, ConnInv
-----------------------------------------------------------------------------
(* The invariant of the files under a step *)

\* Every step keeps the types.
LEMMA TypeStep ==
  ASSUME IInv, Sound, NEW c \in Conn, Step(c)
  PROVE  TypeInv'
BY ConnStep, FilesStep, SupersStep, HistStepKept, Sure
DEF TypeInv, FilesKept, SupersKept, HistKept

\* Connection c may have level l of file f, whatever the others have.
Fits(c, f, l) ==
  \A d \in Conn \ {c} : /\ l >= RESERVED_LOCK => lock[d][f] < RESERVED_LOCK
                        /\ l = EXCLUSIVE_LOCK => lock[d][f] = NO_LOCK
                        /\ lock[d][f] >= RESERVED_LOCK => l < RESERVED_LOCK
                        /\ lock[d][f] = EXCLUSIVE_LOCK => l = NO_LOCK

\* No step takes a lock that the others do not let it have.
LEMMA LockFits ==
  ASSUME IInv, Sound, NEW c \in Conn, Step(c), NEW f \in File
  PROVE  Fits(c, f, lock'[c][f])
<1>1. Fits(c, f, lock[c][f]) /\ Fits(c, f, NO_LOCK)
      /\ \A d \in Conn : lock[d][f] \in {0, 1, 2, 4}
  BY Sure, Types DEF LockInv, Fits
<1>2. ASSUME lock' = lock PROVE Fits(c, f, lock'[c][f])
  BY <1>1, <1>2
<1>3. ASSUME NEW g \in File, NEW l \in Locks, Level(c, g, l), Fits(c, g, l)
      PROVE  Fits(c, f, lock'[c][f])
  BY <1>1, <1>3, LevelDoes, Sure
<1>4. 1 \in Locks /\ 2 \in Locks /\ 4 \in Locks
  BY DEF Locks
<1>5. CASE EndRead(c) \/ EndTransaction(c) \/ Die(c)
  <2>1. lock'[c][f] = NO_LOCK
    BY <1>5, UnlockDoes, Sure DEF EndRead, EndTransaction, Die
  <2>. QED
    BY <1>1, <2>1
<1>6. ASSUME NEW g \in File,
             BeginRead(c, g) \/ BeginRecovery(c, g) \/ BeginWrite(c, g) \/ ExclusiveLock(c, g)
      PROVE  Fits(c, f, lock'[c][f])
  <2>1. \A d \in Conn : lock[d][g] \in {0, 1, 2, 4}
    BY Sure, Types
  <2>2. CASE BeginRead(c, g)
    <3>1. Level(c, g, 1) /\ \A d \in Conn \ {c} : lock[d][g] < EXCLUSIVE_LOCK
      BY <2>2 DEF BeginRead, Looks, Others
    <3>2. Fits(c, g, 1)
      BY <2>1, <3>1 DEF Fits
    <3>. QED
      BY <1>3, <1>4, <3>1, <3>2
  <2>3. CASE BeginRecovery(c, g) \/ ExclusiveLock(c, g)
    <3>1. Level(c, g, 4) /\ \A d \in Conn \ {c} : lock[d][g] = NO_LOCK
      BY <2>3 DEF BeginRecovery, ExclusiveLock, Others
    <3>2. Fits(c, g, 4)
      BY <2>1, <3>1 DEF Fits
    <3>. QED
      BY <1>3, <1>4, <3>1, <3>2
  <2>4. CASE BeginWrite(c, g)
    <3>1. Level(c, g, 2) /\ \A d \in Conn \ {c} : lock[d][g] < RESERVED_LOCK
      BY <2>4 DEF BeginWrite, Others
    <3>2. Fits(c, g, 2)
      BY <2>1, <3>1 DEF Fits
    <3>. QED
      BY <1>3, <1>4, <3>1, <3>2
  <2>. QED
    BY <1>6, <2>2, <2>3, <2>4
<1>7. CASE EndSync(c)
  <2>g. PICK g : g = loc[c].cur
    OBVIOUS
  <2>1. g \in File /\ Level(c, g, 1) /\ \A d \in Conn \ {c} : lock[d][g] < RESERVED_LOCK
    BY <2>g, <1>7, AtEnd DEF EndSync, EndPcs
  <2>2. \A d \in Conn : lock[d][g] \in {0, 1, 2, 4}
    BY <2>1, Sure, Types
  <2>3. Fits(c, g, 1)
    BY <2>1, <2>2 DEF Fits
  <2>. QED
    BY <1>3, <1>4, <2>1, <2>3
<1>8. CASE \/ Commit(c) \/ Locked(c) \/ CreateSuper(c) \/ SyncSuper(c) \/ PhaseOne(c)
           \/ WriteSuperJournal(c) \/ SyncJournal(c) \/ WritePages(c)
           \/ SyncDatabase(c) \/ DeleteSuper(c) \/ SyncDirectory(c)
  BY <1>2, <1>8 DEF Commit, Locked, CreateSuper, SyncSuper, PhaseOne,
    WriteSuperJournal, SyncJournal, WritePages, SyncDatabase, DeleteSuper,
    SyncDirectory
<1>9. CASE \/ PhaseTwo(c) \/ Fail(c) \/ RollbackFile(c) \/ CheckSuper(c)
           \/ PlayBack(c) \/ SyncPlayed(c) \/ Finalize(c) \/ CheckChild(c)
           \/ NoChildren(c)
  BY <1>2, <1>9 DEF PhaseTwo, Fail, RollbackFile, CheckSuper, PlayBack,
    SyncPlayed, Finalize, CheckChild, NoChildren
<1>10. ASSUME NEW g \in File, Spill(c, g) PROVE Fits(c, f, lock'[c][f])
  BY <1>2, <1>10 DEF Spill, connVars
<1>. QED
  BY <1>5, <1>6, <1>7, <1>8, <1>9, <1>10 DEF Step

\* The locks exclude each other after every step.
LEMMA LockStep ==
  ASSUME IInv, Sound, NEW c \in Conn, Step(c)
  PROVE  LockInv'
<1>1. \A d \in Conn \ {c} : lock'[d] = lock[d]
  BY ConnStep, Sure DEF OtherSame
<1>2. \A f \in File : Fits(c, f, lock'[c][f])
  BY LockFits
<1>3. LockInv
  BY Sure
<1>4. ASSUME NEW a \in Conn, NEW b \in Conn, NEW f \in File, a # b
      PROVE  /\ lock'[a][f] >= RESERVED_LOCK => lock'[b][f] < RESERVED_LOCK
             /\ lock'[a][f] = EXCLUSIVE_LOCK => lock'[b][f] = NO_LOCK
  <2>1. CASE a # c /\ b # c
    BY <1>1, <1>3, <1>4, <2>1 DEF LockInv
  <2>2. CASE a = c
    BY <1>1, <1>2, <1>4, <2>2 DEF Fits
  <2>3. CASE b = c
    BY <1>1, <1>2, <1>4, <2>3 DEF Fits
  <2>. QED
    BY <2>1, <2>2, <2>3
<1>. QED
  BY <1>4 DEF LockInv

\* Every step keeps what is known of the names: they are of transactions that
\* have begun, and a super-journal lists the journals that name it.
LEMMA NameStep ==
  ASSUME IInv, Sound, NEW c \in Conn, Step(c)
  PROVE  NameInv'
<1>0. /\ NameInv /\ HistTypes /\ SuperTypes' /\ NamesKept(c) /\ SupersKept(c) /\ HistKept(c)
      /\ nTx \in Nat /\ nTx' \in Nat /\ nTx' >= nTx
  BY Sure, NamesStep, SupersStep, HistStepKept, Constants
  DEF SupersKept, HistKept, HistTypes
<1>1. Busy(c) => loc[c].tx \in 1..nTx
  BY BusyTx
<1>n. \A f \in File : Naming(c, f) =>
        /\ Busy(c) /\ Works(c) /\ loc[c].tx \in DOMAIN super
        /\ f \in super[loc[c].tx] /\ pc[c] = "name"
  <2>1. ASSUME NEW f \in File, Naming(c, f)
        PROVE  /\ Busy(c) /\ Works(c) /\ loc[c].tx \in DOMAIN super
               /\ f \in super[loc[c].tx] /\ pc[c] = "name"
    <3>1. pc[c] = "name" /\ f = loc[c].cur /\ pc[c] \in OnePcs /\ pc[c] \in CurPcs
          /\ pc[c] \in LatePcs
      BY <2>1 DEF Naming, OnePcs, PhaseOnePcs, CurPcs, LatePcs
    <3>2. Works(c) /\ StepInv(c) /\ f \in loc[c].files
      BY <3>1, AtPhaseOne
    <3>. QED
      BY <3>1, <3>2 DEF StepInv, Busy
  <2>. QED
    BY <2>1
<1>2. ASSUME NEW f \in File, NEW j \in JrSeen(f)', j # NoFile PROVE j.super <= nTx'
  <2>1. \A i \in JrSeen(f) : i # NoFile => i.super \in Nat /\ i.super <= nTx
    BY <1>0, Sure, Types, JournalFields DEF NameInv
  <2>2. jr[f] \in JrSeen(f)
    BY DEF JrSeen
  <2>. QED
    BY <1>0, <1>1, <1>2, <1>n, <2>1, <2>2 DEF NamesKept, NoSuper
<1>3. ASSUME NEW f \in File, jr'[f] # NoFile, jr'[f].super \in DOMAIN super'
      PROVE  f \in super'[jr'[f].super]
  <2>1. jr'[f].super # NoSuper
    BY <1>0, <1>3, Constants DEF SuperTypes, Tx, NoSuper
  <2>2. PICK t : t = jr'[f].super
    OBVIOUS
  <2>3. (t \in DOMAIN super /\ super'[t] = super[t]) \/ (pc[c] = "super" /\ t = loc[c].tx)
    BY <1>3, <2>2, NewSuper
  <2>4. CASE jr[f] # NoFile /\ t = jr[f].super
    <3>1. ~(pc[c] = "super" /\ t = loc[c].tx)
      <4>1. ASSUME pc[c] = "super" PROVE t # loc[c].tx
        <5>1. OwnInv(c)
          BY <4>1, AtPhaseOne DEF OnePcs, PhaseOnePcs
        <5>2. jr[f] \in JrSeen(f)
          BY DEF JrSeen
        <5>. QED
          BY <2>4, <4>1, <5>1, <5>2 DEF OwnInv
      <4>. QED
        BY <4>1
    <3>. QED
      BY <1>0, <2>2, <2>3, <2>4, <3>1 DEF NameInv
  <2>5. CASE Naming(c, f) /\ t = loc[c].tx
    BY <1>n, <2>2, <2>3, <2>5
  <2>. QED
    BY <1>0, <1>3, <2>1, <2>2, <2>4, <2>5 DEF NamesKept
<1>4. ASSUME NEW t \in DOMAIN super' PROVE t <= nTx'
  <2>1. CASE t \in DOMAIN super
    BY <1>0, <2>1, Sure, Constants DEF NameInv, SuperTypes, Tx
  <2>2. CASE pc[c] = "super" /\ t = loc[c].tx
    BY <1>0, <1>1, <2>2 DEF Busy, Works, OnePcs, PhaseOnePcs
  <2>. QED
    BY <2>1, <2>2, NewSuper
<1>5. ASSUME NEW t \in Tx, t > nTx' PROVE superDisk'[t] \subseteq {FALSE}
  <2>1. t > nTx
    BY <1>0, <1>5, Constants DEF Tx
  <2>2. ~(t = loc[c].tx /\ Busy(c))
    BY <1>0, <1>1, <2>1
  <2>. QED
    BY <1>0, <2>1, <2>2 DEF SupersKept, SuperSame, NameInv
<1>6. ASSUME NEW m \in maybe', NEW f \in File PROVE m[f] <= nTx'
  <2>1. \A i \in maybe : i[f] \in Nat /\ i[f] <= nTx
    <3>1. \A i \in maybe : i \in [File -> 0..MaxTx]
      BY <1>0 DEF HistTypes
    <3>. QED
      BY <1>0, <3>1, Constants DEF NameInv
  <2>2. committed \in maybe
    BY Sure DEF PendInv
  <2>3. m \in maybe \/ (Works(c) /\ m[f] \in {committed[f], loc[c].tx})
    BY <1>0 DEF HistKept
  <2>. QED
    BY <1>0, <1>1, <2>1, <2>2, <2>3 DEF Busy
<1>. QED
  BY <1>2, <1>3, <1>4, <1>5, <1>6 DEF NameInv

\* What is committed changes in two steps, and what may be left in four.
LEMMA HistOnly ==
  ASSUME NEW c \in Conn, Step(c)
  PROVE  \/ DeleteSuper(c) \/ (Finalize(c) /\ Single(c))
         \/ /\ SyncDirectory(c) \/ (EndSync(c) /\ Single(c))
            /\ committed' = committed /\ maybe' = Settled
         \/ committed' = committed /\ maybe' = maybe
<1>1. CASE SyncDirectory(c)
  BY <1>1 DEF SyncDirectory
<1>2. CASE EndSync(c)
  BY <1>2 DEF EndSync
<1>3. CASE Finalize(c)
  BY <1>3 DEF Finalize
<1>4. ASSUME NEW f \in File, BeginWrite(c, f)
      PROVE  committed' = committed /\ maybe' = maybe
  BY <1>4 DEF BeginWrite
<1>. QED
  BY <1>1, <1>2, <1>3, <1>4, Kinds DEF HistStep, histVars

\* The name in the tail of a journal means what it has meant, unless it is the
\* commit that takes the super-journal away.
TailKept(c, f) ==
  \/ jr[f].super = NoSuper
  \/ SuperSame(jr[f].super)
  \/ jr[f].super \notin DOMAIN super /\ jr[f].super \notin DOMAIN super'
  \/ /\ DeleteSuper(c) /\ f \in loc[c].files
     /\ jr[f].super = loc[c].tx /\ jr[f].super \notin DOMAIN super'

\* Every step keeps to that.
LEMMA Tails ==
  ASSUME IInv, NEW c \in Conn, Step(c), NEW f \in File, jr[f] # NoFile
  PROVE  TailKept(c, f)
<1>0. jr[f].super \in Tx \cup {NoSuper} /\ jr[f] \in JrSeen(f)
  BY JournalFields, Sure DEF FileTypes, JrSeen
<1>1. SupersKept(c)
  BY SupersStep
<1>2. CASE jr[f].super # NoSuper /\ jr[f].super # loc[c].tx
  BY <1>0, <1>1, <1>2 DEF SupersKept, TailKept
<1>3. CASE jr[f].super # NoSuper /\ jr[f].super = loc[c].tx
  <2>1. CASE UNCHANGED superVars
    BY <2>1 DEF superVars, SuperSame, TailKept
  <2>2. CASE CreateSuper(c) \/ SyncSuper(c) \/ (Fail(c) /\ pc[c] = "superSync")
    <3>1. pc[c] \in OnePcs /\ pc[c] \in {"super", "superSync"}
      BY <2>2 DEF CreateSuper, SyncSuper, OnePcs, PhaseOnePcs
    <3>2. OwnInv(c)
      BY <3>1, AtPhaseOne
    <3>. QED
      BY <1>0, <1>3, <3>1, <3>2 DEF OwnInv
  <2>3. CASE Fail(c) /\ pc[c] # "superSync"
    BY <2>1, <2>3 DEF Fail
  <2>4. CASE CheckChild(c)
    <3>1. ~UNCHANGED superVars => ~Names(f, loc[c].tx)
      BY <2>4, CheckChildDoes
    <3>. QED
      BY <1>3, <2>1, <3>1 DEF Names
  <2>5. CASE SyncDirectory(c)
    <3>1. loc[c].tx \notin DOMAIN super /\ super' = super
      BY <2>5, Sure DEF SyncDirectory, FinishInv
    <3>. QED
      BY <1>3, <3>1 DEF TailKept
  <2>6. CASE DeleteSuper(c)
    <3>1. pc[c] = "del" /\ pc[c] \in OnePcs
      BY <2>6 DEF DeleteSuper, OnePcs, PhaseOnePcs
    <3>2. OwnInv(c) /\ loc[c].files = Written(c)
      BY <3>1, AtPhaseOne
    <3>3. f \in Written(c)
      BY <1>0, <1>3, <3>2 DEF OwnInv
    <3>4. loc[c].tx \notin DOMAIN super'
      BY <2>6 DEF DeleteSuper, Without
    <3>. QED
      BY <1>3, <2>6, <3>2, <3>3, <3>4 DEF TailKept
  <2>. QED
    BY <2>1, <2>2, <2>3, <2>4, <2>5, <2>6, Kinds DEF SuperStep
<1>. QED
  BY <1>2, <1>3 DEF TailKept

\* A file is as good as before when nothing is added to what may be seen of it.
LEMMA FileStays ==
  ASSUME IInv, NEW c \in Conn, Step(c), NEW f \in File,
         ~(DeleteSuper(c) /\ f \in loc[c].files),
         jr'[f] = jr[f], JrSeen(f)' \subseteq JrSeen(f),
         Clean(f) => Clean(f)', committed'[f] = committed[f]
  PROVE  Guarded(f)' /\ Exact(f)'
<1>1. Guarded(f) /\ Exact(f) /\ jr[f] \in JrSeen(f)
  BY Sure DEF FileInv, JrSeen
<1>2. jr[f] # NoFile => TailKept(c, f)
  BY Tails
<1>3. Guarded(f)'
  <2>1. SUFFICES ASSUME ~Clean(f)'
                 PROVE  /\ \A j \in JrSeen(f)' : Restores(j, f)'
                        /\ Stands(jr[f].super)'
    BY DEF Guarded
  <2>2. /\ \A j \in JrSeen(f) : Restores(j, f)
        /\ Stands(jr[f].super)
    BY <1>1, <2>1 DEF Guarded
  <2>3. \A j \in JrSeen(f)' : Restores(j, f)'
    BY <2>2 DEF Restores
  <2>4. jr[f] # NoFile
    BY <1>1, <2>2 DEF Restores
  <2>5. Stands(jr[f].super)'
    BY <1>2, <2>2, <2>4 DEF Stands, TailKept, SuperSame
  <2>. QED
    BY <2>3, <2>5
<1>4. Exact(f)'
  <2>1. Played(jr'[f], DOMAIN super') => Played(jr[f], DOMAIN super)
    BY <1>2 DEF Played, TailKept, SuperSame
  <2>. QED
    BY <1>1, <2>1 DEF Exact
<1>. QED
  BY <1>3, <1>4

\* A file is guarded by a journal that is alone on disk and counts.
LEMMA FileGuards ==
  ASSUME NEW f \in File, JrSeen(f)' \subseteq {jr'[f]}, jr'[f] # NoFile,
         jr'[f].hot, jr'[f].orig = committed'[f], Stands(jr[f].super)'
  PROVE  Guarded(f)' /\ Exact(f)'
BY DEF Guarded, Exact, Restores

\* A file that is as committed needs no journal, and one that would be played
\* back harms it.
LEMMA FileCleans ==
  ASSUME NEW f \in File, Clean(f)', ~Played(jr[f], DOMAIN super)'
  PROVE  Guarded(f)' /\ Exact(f)'
BY DEF Guarded, Exact

\* The super-journal of a commit that names it stands until DeleteSuper.
LEMMA TailStands ==
  ASSUME IInv, NEW c \in Conn, pc[c] \in LatePcs
  PROVE  Stands(Tail(c))
<1>1. pc[c] \in OnePcs
  BY DEF LatePcs, CurPcs, OnePcs, PhaseOnePcs
<1>2. StepInv(c)
  BY <1>1, AtPhaseOne
<1>. QED
  BY <1>2 DEF StepInv, Stands, Tail

\* The files that a step leaves alone.
LEMMA FileRests ==
  ASSUME IInv, Sound, NEW c \in Conn, Step(c), NEW f \in File, FileSame(f),
         ~(DeleteSuper(c) \/ (Finalize(c) /\ Single(c))) \/ f \notin loc[c].files
  PROVE  Guarded(f)' /\ Exact(f)'
<1>1. /\ jr'[f] = jr[f] /\ JrSeen(f)' = JrSeen(f) /\ DbSeen(f)' = DbSeen(f)
  BY FilesStay DEF FileSame, JrSame
<1>2. committed'[f] = committed[f]
  <2>1. CASE committed' = committed
    BY <2>1
  <2>2. CASE DeleteSuper(c) \/ (Finalize(c) /\ Single(c))
    BY <2>2 DEF DeleteSuper, Finalize, Image
  <2>. QED
    BY <2>1, <2>2, HistOnly
<1>3. Clean(f) => Clean(f)'
  BY <1>1, <1>2 DEF Clean
<1>. QED
  BY <1>1, <1>2, <1>3, FileStays

\* A new journal does not count, and its file is as committed.
LEMMA BeginWriteFile ==
  ASSUME IInv, Sound, NEW c \in Conn, NEW f \in File, BeginWrite(c, f)
  PROVE  Guarded(f)' /\ Exact(f)'
<1>1. /\ lock[c][f] = SHARED_LOCK /\ UNCHANGED dbVars
      /\ ~jr'[f].hot
  BY BeginWriteDoes
<1>2. committed' = committed
  BY DEF BeginWrite
<1>3. Clean(f)
  BY <1>1, Sure DEF LevelInv
<1>4. Clean(f)'
  BY <1>1, <1>2, <1>3, FilesStay DEF Clean
<1>5. ~Played(jr[f], DOMAIN super)'
  BY <1>1 DEF Played
<1>. QED
  BY <1>4, <1>5, FileCleans

\* A spill writes under a journal that is synced.
LEMMA SpillFile ==
  ASSUME IInv, Sound, NEW c \in Conn, NEW f \in File, Spill(c, f)
  PROVE  Guarded(f)' /\ Exact(f)'
<1>1. /\ JrSeen(f)' \subseteq {jr'[f]} /\ jr'[f] # NoFile /\ jr'[f].hot
      /\ jr'[f].super = NoSuper /\ jr'[f].orig = committed[f]
  BY SpillDoes
<1>2. committed' = committed
  BY DEF Spill, histVars
<1>3. Stands(jr[f].super)'
  BY <1>1 DEF Stands
<1>. QED
  BY <1>1, <1>2, <1>3, FileGuards

\* Both the journal with the name and the one without it restore the file.
LEMMA NameFile ==
  ASSUME IInv, Sound, NEW c \in Conn, WriteSuperJournal(c), NEW f \in File,
         f = loc[c].cur
  PROVE  Guarded(f)' /\ Exact(f)'
<1>1. /\ JrSeen(f)' \subseteq JrSeen(f) \cup {jr'[f]}
      /\ jr'[f] # NoFile /\ jr'[f].hot = jr[f].hot
      /\ jr'[f].super = loc[c].tx /\ jr'[f].orig = committed[f]
      /\ UNCHANGED dbVars
  BY WriteSuperJournalDoes
<1>2. committed' = committed /\ UNCHANGED superVars /\ pc[c] = "name"
  BY DEF WriteSuperJournal, histVars
<1>3. pc[c] \in OnePcs /\ pc[c] \in LatePcs /\ pc[c] \in CurPcs
  BY <1>2 DEF OnePcs, PhaseOnePcs, LatePcs, CurPcs
<1>4. StepInv(c) /\ ProgressInv(c)
  BY <1>3, AtPhaseOne
<1>5. jr[f].super = NoSuper
  BY <1>2, <1>3, <1>4 DEF ProgressInv, NotNamed, NotDone
<1>6. Stands(loc[c].tx)
  BY <1>2, <1>3, <1>4, TailStands DEF StepInv, Tail
<1>7. Stands(jr[f].super)'
  BY <1>1, <1>2, <1>6 DEF Stands, superVars
<1>8. Exact(f)'
  BY <1>1, <1>2 DEF Exact
<1>9. ASSUME ~Clean(f)' PROVE \A j \in JrSeen(f)' : Restores(j, f)'
  <2>1. ~Clean(f)
    BY <1>1, <1>2, <1>9, FilesStay DEF Clean
  <2>2. Guarded(f) /\ jr[f] \in JrSeen(f)
    BY Sure DEF FileInv, JrSeen
  <2>3. \A j \in JrSeen(f) : Restores(j, f)
    BY <2>1, <2>2 DEF Guarded
  <2>4. \A j : j = jr'[f] => Restores(j, f)'
    BY <1>1, <1>2, <2>2, <2>3 DEF Restores
  <2>5. \A j \in JrSeen(f) : Restores(j, f)'
    BY <1>2, <1>5, <2>3 DEF Restores
  <2>. QED
    BY <1>1, <2>4, <2>5
<1>. QED
  BY <1>7, <1>8, <1>9 DEF Guarded

\* The journal of the file that the commit is at has reached the disk.
LEMMA SyncedFile ==
  ASSUME IInv, Sound, NEW c \in Conn, NEW f \in File, f = loc[c].cur,
         SyncJournal(c) \/ WritePages(c) \/ SyncDatabase(c)
  PROVE  Guarded(f)' /\ Exact(f)'
<1>0. pc[c] \in {"jsync", "write", "dbsync"}
  BY DEF SyncJournal, WritePages, SyncDatabase
<1>1. pc[c] \in OnePcs /\ pc[c] \in LatePcs /\ pc[c] \in CurPcs
  BY <1>0 DEF OnePcs, PhaseOnePcs, LatePcs, CurPcs
<1>2. /\ ProgressInv(c) /\ Stands(Tail(c))
      /\ jr[f] # NoFile /\ jr[f].orig = committed[f]
  BY <1>1, AtPhaseOne, TailStands
<1>3. committed' = committed /\ UNCHANGED superVars
  BY DEF SyncJournal, WritePages, SyncDatabase, histVars
<1>4. JrSeen(f)' \subseteq {jr'[f]} /\ jr'[f] # NoFile /\ jr'[f].hot
      /\ jr'[f].orig = committed[f] /\ jr'[f].super = Tail(c)
  <2>1. CASE SyncJournal(c)
    <3>1. jr[f].super = Tail(c)
      BY <1>2, <2>1 DEF ProgressInv, SyncJournal
    <3>. QED
      BY <2>1, <3>1, SyncJournalDoes
  <2>2. CASE WritePages(c) \/ SyncDatabase(c)
    <3>1. Journaled(c, f)
      BY <1>2, <2>2 DEF ProgressInv, WritePages, SyncDatabase
    <3>2. JrSeen(f)' = JrSeen(f) /\ jr' = jr
      BY <2>2, FilesStay DEF WritePages, SyncDatabase, jrVars
    <3>. QED
      BY <1>2, <3>1, <3>2 DEF Journaled, HotJournal
  <2>. QED
    BY <2>1, <2>2
<1>5. Stands(jr[f].super)'
  BY <1>2, <1>3, <1>4 DEF Stands, superVars
<1>. QED
  BY <1>3, <1>4, <1>5, FileGuards

\* The end of a transaction in a file, which is as committed by then.
LEMMA EndedFile ==
  ASSUME IInv, Sound, NEW c \in Conn, Step(c), NEW f \in File, f = loc[c].cur,
         PlayBack(c) \/ SyncPlayed(c) \/ Finalize(c) \/ EndSync(c)
  PROVE  Guarded(f)' /\ Exact(f)'
<1>0. ~DeleteSuper(c)
  BY DEF DeleteSuper, PlayBack, SyncPlayed, Finalize, EndSync
<1>1. CASE PlayBack(c) \/ SyncPlayed(c)
  <2>1. committed' = committed /\ UNCHANGED jrVars
    BY <1>1 DEF PlayBack, SyncPlayed, histVars
  <2>2. Clean(f) => Clean(f)'
    <3>1. CASE PlayBack(c)
      <4>1. DbSame(f) \/ ~Clean(f)
        BY <3>1, PlayBackDoes
      <4>. QED
        BY <2>1, <4>1, FilesStay DEF Clean
    <3>2. CASE SyncPlayed(c)
      BY <2>1, <3>2, SyncPlayedDoes DEF Clean
    <3>. QED
      BY <1>1, <3>1, <3>2
  <2>3. jr'[f] = jr[f] /\ JrSeen(f)' = JrSeen(f)
    BY <2>1, FilesStay DEF JrSame
  <2>. QED
    BY <1>0, <2>1, <2>2, <2>3, FileStays
<1>2. CASE Finalize(c)
  <2>1. Clean(f)'
    BY <1>2, FinalizeOwn
  <2>2. ~Played(jr[f], DOMAIN super)'
    <3>1. \/ jr'[f] = NoFile \/ ~jr'[f].hot
          \/ jr'[f] = jr[f] /\ loc[c].ending = "hot" /\ ~loc[c].play
      BY <1>2, FinalizeDoes
    <3>2. loc[c].ending = "hot" => loc[c].play = SuperExists(jr[f])
      BY <1>2, Sure DEF Finalize, CurInv, EndPcs
    <3>3. super' = super
      BY <1>2 DEF Finalize, superVars
    <3>. QED
      BY <3>1, <3>2, <3>3 DEF Played, SuperExists
  <2>. QED
    BY <2>1, <2>2, FileCleans
<1>3. CASE EndSync(c)
  <2>1. jr' = jr /\ JrSeen(f)' \subseteq JrSeen(f) /\ UNCHANGED dbVars
    BY <1>3, EndSyncDoes
  <2>2. committed' = committed
    BY <1>3 DEF EndSync
  <2>3. Clean(f) => Clean(f)'
    BY <2>1, <2>2, FilesStay DEF Clean
  <2>. QED
    BY <1>0, <2>1, <2>2, <2>3, FileStays
<1>. QED
  BY <1>1, <1>2, <1>3

\* The commit takes away what the journals of its files name.
LEMMA CommitFile ==
  ASSUME IInv, Sound, NEW c \in Conn, DeleteSuper(c), NEW f \in loc[c].files
  PROVE  Guarded(f)' /\ Exact(f)'
<1>0. pc[c] \in OnePcs /\ pc[c] = "del"
  BY DEF DeleteSuper, OnePcs, PhaseOnePcs
<1>1. ProgressInv(c) /\ StepInv(c) /\ loc[c].tx \in Tx /\ f \in File
  BY <1>0, AtPhaseOne DEF Written
<1>2. Clean(f)'
  BY <1>1, DeleteSuperOwn
<1>3. Journaled(c, f) /\ MultiTx(c)
  BY <1>0, <1>1 DEF ProgressInv, NotDone, Done, StepInv, CurPcs
<1>4. jr[f].super = loc[c].tx /\ loc[c].tx # NoSuper
  BY <1>1, <1>3, Constants DEF Journaled, Tail, Tx, NoSuper
<1>5. jr' = jr /\ loc[c].tx \notin DOMAIN super'
  BY DEF DeleteSuper, Without, jrVars
<1>6. ~Played(jr[f], DOMAIN super)'
  BY <1>4, <1>5 DEF Played
<1>. QED
  BY <1>1, <1>2, <1>6, FileCleans

\* Which files a step touches.
LEMMA Touches ==
  ASSUME IInv, Sound, NEW c \in Conn, Step(c), NEW f \in File, ~FileSame(f)
  PROVE  \/ BeginWrite(c, f) \/ Spill(c, f)
         \/ /\ f = loc[c].cur
            /\ \/ WriteSuperJournal(c) \/ SyncJournal(c) \/ WritePages(c)
               \/ SyncDatabase(c) \/ PlayBack(c) \/ SyncPlayed(c) \/ Finalize(c)
               \/ EndSync(c)
<1>1. UNCHANGED dbVars /\ UNCHANGED jrVars => FileSame(f)
  BY FilesStay DEF FileSame
<1>2. /\ UNCHANGED dbVars => DbSame(f)
      /\ UNCHANGED jrVars => JrSame(f)
  BY FilesStay
<1>c. PICK g : g = loc[c].cur
  OBVIOUS
<1>3. CASE \/ WritePages(c) \/ SyncDatabase(c) \/ PlayBack(c) \/ SyncPlayed(c)
  <2>1. UNCHANGED jrVars /\ \A h \in File : h # g => DbSame(h)
    BY <1>c, <1>3, WritePagesDoes, SyncDatabaseDoes, PlayBackDoes, SyncPlayedDoes
  <2>. QED
    BY <1>2, <1>3, <1>c, <2>1 DEF FileSame
<1>4. CASE WriteSuperJournal(c) \/ SyncJournal(c) \/ Finalize(c) \/ EndSync(c)
  <2>1. UNCHANGED dbVars /\ (JrPut(g, jr'[g]) \/ JrPut(g, jr[g]))
    BY <1>c, <1>4, WriteSuperJournalDoes, SyncJournalDoes, FinalizeDoes, EndSyncDoes
  <2>. QED
    BY <1>2, <1>4, <1>c, <2>1 DEF FileSame, JrPut
<1>5. ASSUME NEW h \in File, BeginWrite(c, h) \/ Spill(c, h), h # f PROVE FileSame(f)
  <2>1. JrPut(h, jr'[h])
    BY <1>5, BeginWriteDoes, SpillDoes
  <2>2. JrSame(f)
    BY <1>5, <2>1 DEF JrPut
  <2>3. CASE BeginWrite(c, h)
    BY <1>2, <2>2, <2>3, BeginWriteDoes DEF FileSame
  <2>4. CASE Spill(c, h)
    BY <1>5, <2>2, <2>4, SpillDoes DEF FileSame
  <2>. QED
    BY <1>5, <2>3, <2>4
<1>. QED
  BY <1>1, <1>3, <1>4, <1>5, Kinds DEF FileStep

\* Every step leaves every file as committed or under journals that make it so.
LEMMA FileInvStep ==
  ASSUME IInv, Sound, NEW c \in Conn, Step(c)
  PROVE  FileInv'
<1>1. SUFFICES ASSUME NEW f \in File PROVE Guarded(f)' /\ Exact(f)'
  BY DEF FileInv
<1>2. CASE ~FileSame(f)
  BY <1>2, Touches, BeginWriteFile, SpillFile, NameFile, SyncedFile, EndedFile
<1>3. CASE FileSame(f) /\ f \in loc[c].files /\ (Finalize(c) /\ Single(c))
  <2>1. f = loc[c].cur
    BY <1>3, WorksFinalize DEF Finalize
  <2>. QED
    BY <1>3, <2>1, EndedFile
<1>4. CASE f \in loc[c].files /\ DeleteSuper(c)
  BY <1>4, CommitFile
<1>. QED
  BY <1>2, <1>3, <1>4, FileRests
-----------------------------------------------------------------------------
(* No two connections act for one transaction *)

\* These steps go on with the transaction that has been begun.
LEMMA TxSame ==
  ASSUME IInv, NEW c \in Conn,
         \/ Commit(c) \/ Locked(c) \/ CreateSuper(c) \/ SyncSuper(c) \/ PhaseOne(c)
         \/ WriteSuperJournal(c) \/ SyncJournal(c) \/ WritePages(c)
         \/ SyncDatabase(c) \/ DeleteSuper(c) \/ PhaseTwo(c) \/ EndSync(c)
         \/ CheckChild(c)
  PROVE  loc'[c].tx = loc[c].tx
<1>0. loc \in [Conn -> Locs]
  BY Sure DEF ConnTypes
<1>1. CASE \/ Locked(c) \/ CreateSuper(c) \/ SyncSuper(c)
           \/ WriteSuperJournal(c) \/ SyncJournal(c) \/ WritePages(c)
           \/ DeleteSuper(c) \/ EndSync(c)
  BY <1>1 DEF Locked, CreateSuper, SyncSuper, WriteSuperJournal, SyncJournal,
    WritePages, DeleteSuper, EndSync
<1>2. CASE PhaseOne(c) \/ PhaseTwo(c)
  <2>1. PICK f \in loc[c].todo : loc' = [loc EXCEPT ![c].cur = f, ![c].todo = @ \ {f}]
    BY <1>2 DEF PhaseOne, PhaseTwo
  <2>2. f \in File
    BY <1>0 DEF Locs
  <2>. QED
    BY <1>0, <2>1, <2>2, FieldsGo
<1>3. CASE Commit(c)
  <2>1. PICK S \in SUBSET File : S = Written(c)
    BY DEF Written
  <2>2. loc' = [loc EXCEPT ![c].files = S, ![c].todo = S]
    BY <1>3, <2>1 DEF Commit
  <2>. QED
    BY <1>0, <2>2, FieldsGo
<1>4. CASE SyncDatabase(c)
  <2>. DEFINE T == IF loc[c].todo = {} THEN loc[c].files ELSE loc[c].todo
              e == IF loc[c].todo = {} THEN "commit" ELSE loc[c].ending
  <2>1. loc' = [loc EXCEPT ![c].todo = T, ![c].ending = e]
    BY <1>0, <1>4 DEF SyncDatabase
  <2>2. T \in SUBSET File /\ e \in Endings
    BY <1>0 DEF Locs, Endings
  <2>. HIDE DEF T, e
  <2>. QED
    BY <1>0, <2>1, <2>2, FieldsGo
<1>5. CASE CheckChild(c)
  <2>1. PICK S : loc' = [loc EXCEPT ![c].kids = S]
    BY <1>5, <1>0 DEF CheckChild
  <2>. QED
    BY <1>0, <2>1, FieldKids
<1>. QED
  BY <1>1, <1>2, <1>3, <1>4, <1>5

\* The places in which a connection does not act for a transaction.
LEMMA NotBusy ==
  ASSUME NEW c \in Conn,
         \/ pc'[c] \in {"rollback", "check", "play", "sync"}
         \/ pc'[c] = "idle" /\ Written(c)' = {}
         \/ pc'[c] \in {"phaseTwo", "finalize"} /\ ~Single(c)'
         \/ pc'[c] = "phaseTwo" /\ loc'[c].todo = {}
  PROVE  ~Busy(c)'
<1>1. ~Waits(c)'
  BY DEF Waits
<1>2. ~KidsLeft(c)'
  BY DEF KidsLeft
<1>. QED
  BY <1>1, <1>2 DEF Busy, Works, OnePcs, PhaseOnePcs

\* A connection comes to act for a transaction when it begins one, or when it
\* ends one whose super-journal may have to go.
Grown(c) ==
  \/ Busy(c) /\ loc'[c].tx = loc[c].tx /\ (Works(c)' => Works(c))
  \/ loc'[c].tx = nTx + 1
  \/ /\ ~Works(c)'
     /\ \E f \in Written(c) : jr[f] # NoFile /\ jr[f].super = loc'[c].tx

\* Every step keeps to that.
LEMMA BusyGrows ==
  ASSUME IInv, Sound, NEW c \in Conn, Step(c), Busy(c)'
  PROVE  Grown(c)
<1>0. ConnTypes /\ loc \in [Conn -> Locs] /\ \A f \in File : lock[c][f] \in {0, 1, 2, 4}
  BY Sure, Types DEF ConnTypes
<1>w. Works(c) => Busy(c)
  BY DEF Busy
<1>1. CASE EndRead(c) \/ EndTransaction(c) \/ Die(c)
  <2>1. /\ \A f \in File : lock'[c][f] = NO_LOCK
        /\ EndTransaction(c) \/ Die(c) => pc'[c] = "idle"
        /\ EndRead(c) => pc'[c] = "idle"
    BY <1>0, <1>1, UnlockDoes, GotoDoes DEF EndRead, EndTransaction, Die, Pcs
  <2>2. Written(c)' = {}
    BY <2>1 DEF Written
  <2>. QED
    BY <1>1, <2>1, <2>2, NotBusy
<1>2. ASSUME NEW f \in File, BeginRead(c, f) PROVE Grown(c)
  <2>1. pc'[c] = "idle" /\ Written(c) = {} /\ Level(c, f, SHARED_LOCK)
    BY <1>2 DEF BeginRead, Looks
  <2>2. lock'[c][f] = 1 /\ \A g \in File : g # f => lock'[c][g] = lock[c][g]
    BY <1>0, <2>1, LevelDoes DEF Locks
  <2>3. Written(c)' = {}
    BY <2>1, <2>2 DEF Written
  <2>. QED
    BY <2>1, <2>3, NotBusy
<1>3. ASSUME NEW f \in File, BeginRecovery(c, f) PROVE Grown(c)
  <2>1. pc'[c] = "check"
    BY <1>0, <1>3, GotoDoes DEF BeginRecovery, Pcs
  <2>. QED
    BY <2>1, NotBusy
<1>4. ASSUME NEW f \in File, BeginWrite(c, f) PROVE Grown(c)
  BY <1>w, <1>4, BeginWriteOwn DEF Grown
<1>5. ASSUME NEW f \in File, ExclusiveLock(c, f) \/ Spill(c, f) PROVE Grown(c)
  <2>1. loc' = loc /\ f \in Written(c) /\ pc[c] \in {"idle", "excl"}
    BY <1>5 DEF ExclusiveLock, Spill, Written, connVars
  <2>2. Works(c)
    BY <2>1 DEF Works, OnePcs, PhaseOnePcs
  <2>. QED
    BY <1>w, <2>1, <2>2 DEF Grown
<1>6. CASE \/ Commit(c) \/ Locked(c) \/ CreateSuper(c) \/ SyncSuper(c) \/ PhaseOne(c)
           \/ WriteSuperJournal(c) \/ SyncJournal(c) \/ WritePages(c)
           \/ SyncDatabase(c) \/ DeleteSuper(c)
  <2>1. (pc[c] = "idle" /\ Written(c) # {}) \/ pc[c] \in OnePcs
    BY <1>6 DEF Commit, Locked, CreateSuper, SyncSuper, PhaseOne, WriteSuperJournal,
      SyncJournal, WritePages, SyncDatabase, DeleteSuper, OnePcs, PhaseOnePcs
  <2>2. Works(c)
    BY <2>1 DEF Works
  <2>. QED
    BY <1>w, <1>6, <2>2, TxSame DEF Grown
<1>7. CASE SyncDirectory(c)
  <2>1. pc[c] = "delSync" /\ pc'[c] = "phaseTwo" /\ loc' = loc
    BY <1>0, <1>7, GotoDoes DEF SyncDirectory, Pcs
  <2>2. MultiTx(c)
    BY <2>1, Sure DEF FinishInv
  <2>3. Cardinality(loc[c].files) # 1
    BY <2>2 DEF MultiTx
  <2>4. ~Single(c)'
    BY <2>1, <2>3 DEF Single
  <2>. QED
    BY <2>1, <2>4, NotBusy
<1>8. CASE PhaseTwo(c)
  <2>1. pc[c] = "phaseTwo" /\ loc[c].todo # {} /\ pc'[c] = "finalize"
    BY <1>0, <1>8, GotoDoes DEF PhaseTwo, Pcs
  <2>2. loc'[c].files = loc[c].files /\ loc'[c].ending = loc[c].ending
    <3>1. PICK f \in loc[c].todo :
            loc' = [loc EXCEPT ![c].cur = f, ![c].todo = @ \ {f}]
      BY <1>8 DEF PhaseTwo
    <3>2. f \in File
      BY <1>0 DEF Locs
    <3>. QED
      BY <1>0, <3>1, <3>2, FieldsGo
  <2>3. Single(c)
    BY <2>1, <2>2, NotBusy DEF Single
  <2>4. Works(c)
    BY <2>1, <2>3 DEF Works, Waits
  <2>. QED
    BY <1>w, <1>8, <2>4, TxSame DEF Grown
<1>9. CASE Fail(c) \/ RollbackFile(c) \/ CheckSuper(c) \/ PlayBack(c)
  <2>1. pc'[c] \in {"rollback", "check", "play", "sync"}
    BY <1>0, <1>9, GotoDoes DEF Fail, RollbackFile, CheckSuper, PlayBack, Pcs
  <2>. QED
    BY <2>1, NotBusy
<1>10. CASE SyncPlayed(c)
  <2>1. pc[c] = "sync" /\ pc'[c] = "finalize" /\ loc' = loc
    BY <1>0, <1>10, GotoDoes DEF SyncPlayed, Pcs
  <2>2. loc[c].ending # "commit"
    BY <2>1, Sure DEF CurInv, EndPcs
  <2>3. ~Single(c)'
    BY <2>1, <2>2 DEF Single
  <2>. QED
    BY <2>1, <2>3, NotBusy
<1>11. CASE Finalize(c)
  <2>1. pc[c] = "finalize" /\ pc'[c] = "endSync" /\ pc[c] \in EndPcs
    BY <1>0, <1>11, GotoDoes DEF Finalize, Pcs, EndPcs
  <2>2. ~Works(c)'
    BY <2>1 DEF Works, Waits, OnePcs, PhaseOnePcs
  <2>3. loc'[c].kids # {}
    BY <2>1, <2>2 DEF Busy, KidsLeft
  <2>4. PICK f : f = loc[c].cur
    OBVIOUS
  <2>5. f \in Written(c) /\ jr[f] # NoFile
    BY <2>1, <2>4, AtEnd
  <2>6. jr[f].super = loc'[c].tx
    BY <1>11, <2>3, <2>4, FinalizeOwn
  <2>. QED
    BY <2>2, <2>5, <2>6 DEF Grown
<1>12. CASE EndSync(c)
  <2>1. pc[c] = "endSync" /\ pc'[c] = "kids" /\ loc' = loc
    BY <1>0, <1>12, GotoDoes DEF EndSync, Pcs
  <2>2. ~Works(c)'
    BY <2>1 DEF Works, Waits, OnePcs, PhaseOnePcs
  <2>3. KidsLeft(c)
    BY <2>1, <2>2 DEF Busy, KidsLeft
  <2>. QED
    BY <2>1, <2>2, <2>3 DEF Grown, Busy
<1>13. CASE CheckChild(c)
  <2>1. KidsLeft(c) /\ loc[c].ending # "commit"
    BY <1>13, CheckChildDoes, Sure DEF KidsInv
  <2>2. pc[c] = "kids" /\ pc'[c] \in {"kids", "idle", "rollback"} /\ lock' = lock
        /\ (pc'[c] = "idle" => loc[c].ending = "hot")
    BY <1>0, <1>13, <2>1, GotoDoes DEF CheckChild, NextFile, Pcs
  <2>3. pc'[c] = "idle" => Written(c)' = {}
    <3>1. loc[c].ending = "hot" => Written(c) = {}
      BY <2>2, Sure DEF RollInv
    <3>. QED
      BY <2>2, <3>1 DEF Written
  <2>4. ~Works(c)'
    BY <2>2, <2>3 DEF Works, Waits, OnePcs, PhaseOnePcs
  <2>. QED
    BY <1>13, <2>1, <2>4, TxSame DEF Grown, Busy
<1>14. CASE NoChildren(c)
  <2>1. pc[c] = "kids" /\ loc' = loc /\ lock' = lock
    BY <1>14 DEF NoChildren
  <2>2. pc'[c] = NextFile(c)
    BY <1>0, <1>14, GotoDoes DEF NoChildren, NextFile, Pcs
  <2>3. CASE loc[c].ending = "hot"
    <3>1. Written(c) = {} /\ pc'[c] = "idle"
      BY <2>1, <2>2, <2>3, Sure DEF RollInv, NextFile
    <3>2. Written(c)' = {}
      BY <2>1, <3>1 DEF Written
    <3>. QED
      BY <3>1, <3>2, NotBusy
  <2>4. CASE loc[c].ending = "commit"
    <3>1. pc'[c] = "phaseTwo"
      BY <2>2, <2>4 DEF NextFile
    <3>2. CASE Single(c)
      <4>1. loc'[c].todo = {}
        BY <2>1, <3>2, Sure DEF FinishInv
      <4>. QED
        BY <3>1, <4>1, NotBusy
    <3>3. CASE ~Single(c)
      <4>1. ~Single(c)'
        BY <2>1, <3>3 DEF Single
      <4>. QED
        BY <3>1, <4>1, NotBusy
    <3>. QED
      BY <3>2, <3>3
  <2>5. CASE loc[c].ending \notin {"hot", "commit"}
    <3>1. pc'[c] = "rollback"
      BY <2>2, <2>5 DEF NextFile
    <3>. QED
      BY <3>1, NotBusy
  <2>. QED
    BY <2>3, <2>4, <2>5
<1>. QED
  BY <1>1, <1>2, <1>3, <1>4, <1>5, <1>6, <1>7, <1>8, <1>9, <1>10, <1>11, <1>12,
     <1>13, <1>14 DEF Step

\* After every step the transactions are kept apart.
LEMMA PairStep ==
  ASSUME IInv, Sound, NEW c \in Conn, Step(c)
  PROVE  PairInv'
<1>1. SUFFICES ASSUME NEW a \in Conn, NEW b \in Conn, a # b, Works(a)', Busy(b)'
               PROVE  loc'[a].tx # loc'[b].tx
  BY DEF PairInv
<1>2. \A d \in Conn \ {c} : /\ Undisturbed(d) /\ loc'[d] = loc[d]
                            /\ (Works(d)' <=> Works(d)) /\ (Busy(d)' <=> Busy(d))
  BY OthersKeep, WorksKept DEF Undisturbed
<1>3. \A d \in Conn : Busy(d) => loc[d].tx \in 1..nTx
  BY BusyTx
<1>4. nTx \in Nat /\ \A d \in Conn : Works(d) => Busy(d)
  BY Sure, Constants DEF HistTypes, Busy
<1>5. CASE a # c /\ b # c
  BY <1>1, <1>2, <1>5, Sure DEF PairInv
<1>6. CASE a = c
  <2>1. Works(b) \/ Busy(b)
    BY <1>1, <1>2, <1>6
  <2>2. Busy(c)' /\ Grown(c)
    <3>1. Busy(c)'
      BY <1>1, <1>6 DEF Busy
    <3>. QED
      BY <3>1, BusyGrows
  <2>. QED
    BY <1>1, <1>2, <1>3, <1>4, <1>6, <2>2, Sure DEF Grown, PairInv
<1>7. CASE b = c
  <2>1. Works(a) /\ Grown(c) /\ loc'[a] = loc[a]
    BY <1>1, <1>2, <1>7, BusyGrows
  <2>2. OwnInv(a)
    BY <2>1, Sure DEF WorkInv
  <2>3. ASSUME NEW f \in Written(c), jr[f] # NoFile, jr[f].super = loc'[c].tx
        PROVE  loc[a].tx # loc'[c].tx
    <3>1. f \in File /\ jr[f] \in JrSeen(f) /\ lock[c][f] >= RESERVED_LOCK
      BY DEF Written, JrSeen
    <3>2. lock[a][f] < RESERVED_LOCK /\ lock[a][f] \in {0, 1, 2, 4}
      BY <1>1, <1>7, <3>1, Sure, Types DEF LockInv
    <3>3. f \notin Written(a)
      BY <3>2 DEF Written
    <3>. QED
      BY <2>2, <2>3, <3>1, <3>3 DEF OwnInv
  <2>. QED
    BY <1>1, <1>3, <1>4, <1>7, <2>1, <2>3, Sure DEF Grown, PairInv
<1>. QED
  BY <1>5, <1>6, <1>7
-----------------------------------------------------------------------------
(* What a power loss may leave, under a step *)

\* A connection comes to wait for the sync of a deletion only by a deletion.
LEMMA PcStep ==
  ASSUME IInv, NEW c \in Conn, Step(c), pc'[c] \in {"delSync", "endSync"}
  PROVE  DeleteSuper(c) \/ Finalize(c)
<1>0. ConnTypes
  BY Sure
<1>1. CASE EndRead(c) \/ Commit(c) \/ Locked(c) \/ CreateSuper(c) \/ SyncSuper(c)
           \/ PhaseOne(c) \/ WriteSuperJournal(c) \/ SyncJournal(c)
  BY <1>0, <1>1, GotoDoes DEF EndRead, Commit, Locked, CreateSuper, SyncSuper,
    PhaseOne, WriteSuperJournal, SyncJournal, Pcs
<1>2. CASE WritePages(c) \/ SyncDatabase(c) \/ SyncDirectory(c) \/ PhaseTwo(c)
           \/ Fail(c) \/ RollbackFile(c) \/ CheckSuper(c)
  BY <1>0, <1>2, GotoDoes DEF WritePages, SyncDatabase, SyncDirectory, PhaseTwo,
    Fail, RollbackFile, CheckSuper, Pcs
<1>3. CASE PlayBack(c) \/ SyncPlayed(c) \/ EndSync(c) \/ EndTransaction(c) \/ Die(c)
  BY <1>0, <1>3, GotoDoes DEF PlayBack, SyncPlayed, EndSync, EndTransaction, Die,
    Pcs
<1>4. CASE CheckChild(c) \/ NoChildren(c)
  BY <1>0, <1>4, GotoDoes DEF CheckChild, NoChildren, NextFile, Pcs
<1>5. ASSUME NEW f \in File,
             \/ BeginRead(c, f) \/ BeginRecovery(c, f) \/ BeginWrite(c, f)
             \/ ExclusiveLock(c, f) \/ Spill(c, f)
      PROVE  FALSE
  BY <1>0, <1>5, GotoDoes DEF BeginRead, Looks, BeginRecovery, BeginWrite,
    ExclusiveLock, Spill, connVars, Pcs
<1>. QED
  BY <1>1, <1>2, <1>3, <1>4, <1>5 DEF Step

\* What the commit does to the images that may be left.
Commits(c) == DeleteSuper(c) \/ (Finalize(c) /\ Single(c))

\* Finalize keeps the files and what the connection is about.
LEMMA FinalizeFields ==
  ASSUME IInv, NEW c \in Conn, Finalize(c)
  PROVE  /\ pc'[c] = "endSync" /\ loc'[c].files = loc[c].files
         /\ loc'[c].ending = loc[c].ending /\ Single(c)' = Single(c)
<1>0. loc \in [Conn -> Locs] /\ ConnTypes
  BY Sure DEF ConnTypes
<1>1. pc'[c] = "endSync"
  BY <1>0, GotoDoes DEF Finalize, Pcs
<1>2. PICK K, x : loc' = [loc EXCEPT ![c].kids = K, ![c].tx = x]
  BY <1>0 DEF Finalize
<1>3. loc'[c].files = loc[c].files /\ loc'[c].ending = loc[c].ending
  BY <1>0, <1>2 DEF Locs
<1>. QED
  BY <1>1, <1>3 DEF Single

\* The two steps that commit find everything written and synced.
LEMMA Committing ==
  ASSUME IInv, NEW c \in Conn, Commits(c)
  PROVE  /\ Works(c) /\ OwnInv(c) /\ ProgressInv(c) /\ StepInv(c)
         /\ loc[c].tx \in 1..nTx /\ loc[c].tx \in Tx
         /\ loc[c].files = Written(c) /\ loc[c].files # {}
         /\ committed' = Image(c) /\ maybe' = maybe \cup {Image(c)}
         /\ loc'[c].files = loc[c].files
<1>1. CASE DeleteSuper(c)
  <2>1. pc[c] = "del" /\ pc[c] \in OnePcs
    BY <1>1 DEF DeleteSuper, OnePcs, PhaseOnePcs
  <2>2. OwnInv(c) /\ StepInv(c) /\ ProgressInv(c) /\ Works(c)
        /\ loc[c].files = Written(c) /\ loc[c].tx \in 1..nTx /\ loc[c].tx \in Tx
    BY <2>1, AtPhaseOne
  <2>3. loc[c].files # {}
    BY <2>1, <2>2 DEF OwnInv
  <2>. QED
    BY <1>1, <2>2, <2>3 DEF DeleteSuper
<1>2. CASE Finalize(c) /\ Single(c)
  <2>1. pc[c] = "finalize" /\ committed' = Image(c) /\ maybe' = maybe \cup {Image(c)}
    BY <1>2 DEF Finalize
  <2>2. OwnInv(c) /\ StepInv(c) /\ ProgressInv(c) /\ Works(c)
        /\ loc[c].files = Written(c) /\ loc[c].tx \in 1..nTx
        /\ loc[c].files # {}
    BY <1>2, <2>1, WorksFinalize
  <2>3. loc[c].tx \in Tx
    BY <2>2, BusyTx DEF Busy
  <2>4. loc'[c].files = loc[c].files
    BY <1>2, FinalizeFields
  <2>. QED
    BY <2>1, <2>2, <2>3, <2>4
<1>. QED
  BY <1>1, <1>2 DEF Commits

\* The image of a commit is a new one.
LEMMA OneMore ==
  ASSUME IInv, NEW c \in Conn, Commits(c)
  PROVE  /\ Image(c) \notin maybe
         /\ Cardinality(maybe') \in Nat /\ Cardinality(maybe') >= 2
         /\ Cardinality(maybe') = 2 =>
              maybe = {committed} /\ \A d \in Conn : ~Pending(d)
<1>1. /\ OwnInv(c) /\ loc[c].files = Written(c) /\ loc[c].files # {}
      /\ maybe' = maybe \cup {Image(c)}
  BY Committing
<1>2. PICK f \in Written(c) : TRUE
  BY <1>1
<1>3. f \in File /\ f \in loc[c].files
  BY <1>1 DEF Written
<1>4. Image(c)[f] = loc[c].tx
  BY <1>3 DEF Image
<1>5. Image(c) \notin maybe
  BY <1>1, <1>3, <1>4 DEF OwnInv
<1>6. IsFiniteSet(maybe) /\ committed \in maybe
  BY Sure DEF HistTypes, PendInv
<1>7. Cardinality(maybe) \in Nat /\ Cardinality(maybe) # 0
  BY <1>6, FS_CardinalityType, FS_EmptySet
<1>8. Cardinality(maybe') = Cardinality(maybe) + 1
  BY <1>1, <1>5, <1>6, FS_AddElement
<1>9. Cardinality(maybe) = 1 => maybe = {committed}
  BY <1>6, FS_Singleton
<1>10. Cardinality(maybe) = 1 => \A d \in Conn : ~Pending(d)
  BY <1>7, Sure DEF PendInv
<1>. QED
  BY <1>5, <1>7, <1>8, <1>9, <1>10

\* Nobody but who commits comes to wait for the sync of a commit.
LEMMA PendingSame ==
  ASSUME IInv, Sound, NEW c \in Conn, Step(c), NEW d \in Conn, Pending(d)'
  PROVE  /\ d # c => Pending(d) /\ loc'[d] = loc[d]
         /\ d = c => Commits(c)
<1>1. CASE d # c
  BY <1>1, OthersKeep, WorksKept DEF Undisturbed
<1>2. CASE d = c
  <2>1. pc'[c] \in {"delSync", "endSync"}
    BY <1>2 DEF Pending
  <2>2. DeleteSuper(c) \/ Finalize(c)
    BY <2>1, PcStep
  <2>3. Finalize(c) => Single(c)
    BY <1>2, FinalizeFields DEF Pending
  <2>. QED
    BY <1>2, <2>2, <2>3 DEF Commits
<1>. QED
  BY <1>1, <1>2

Settles(c) == SyncDirectory(c) \/ (EndSync(c) /\ Single(c))

\* The sync that settles a commit is made by the connection that waits for it.
LEMMA Settling ==
  ASSUME IInv, NEW c \in Conn, Settles(c)
  PROVE  /\ Pending(c) /\ ~Commits(c) /\ committed' = committed
         /\ maybe' = Settled /\ ~Works(c)
<1>1. pc[c] \in {"delSync", "endSync"} /\ Pending(c)
  BY DEF Settles, SyncDirectory, EndSync, Pending
<1>2. ~Commits(c) /\ ~Works(c)
  BY <1>1 DEF Commits, DeleteSuper, Finalize, Works, Waits, OnePcs, PhaseOnePcs
<1>. QED
  BY <1>1, <1>2 DEF Settles, SyncDirectory, EndSync

\* After every step at most the commit that waits for its sync is uncertain, and
\* the images differ in its files alone.
LEMMA PendStep ==
  ASSUME IInv, Sound, NEW c \in Conn, Step(c)
  PROVE  PendInv'
<1>0. PendInv
  BY Sure
<1>1. CASE Commits(c)
  <2>1. /\ committed' = Image(c) /\ maybe' = maybe \cup {Image(c)}
        /\ loc'[c].files = loc[c].files
    BY <1>1, Committing
  <2>2. /\ Cardinality(maybe') >= 2
        /\ Cardinality(maybe') = 2 =>
             maybe = {committed} /\ \A d \in Conn : ~Pending(d)
    BY <1>1, OneMore
  <2>3. Cardinality(maybe') = 2 => \A d \in Conn : Pending(d)' => d = c
    BY <2>2, PendingSame
  <2>4. Cardinality(maybe') = 2 =>
          \A m \in maybe' : \A f \in File \ loc[c].files : m[f] = committed'[f]
    BY <2>1, <2>2 DEF Image
  <2>. QED
    BY <2>1, <2>2, <2>3, <2>4 DEF PendInv
<1>2. CASE Settles(c)
  <2>1. Pending(c) /\ ~Commits(c) /\ committed' = committed /\ maybe' = Settled
    BY <1>2, Settling
  <2>2. \A d \in Conn : Pending(d)' => d # c /\ Pending(d)
    BY <2>1, PendingSame
  <2>3. CASE Cardinality(maybe) = 2
    <3>1. maybe' = {committed}
      BY <2>1, <2>3, SettleDoes
    <3>2. Cardinality(maybe') = 1
      BY <3>1, FS_Singleton
    <3>3. \A d \in Conn : ~Pending(d)'
      BY <1>0, <2>1, <2>2, <2>3 DEF PendInv
    <3>. QED
      BY <2>1, <3>1, <3>2, <3>3 DEF PendInv
  <2>4. CASE Cardinality(maybe) # 2
    <3>1. maybe' = maybe
      BY <2>1, <2>4, SettleDoes
    <3>. QED
      BY <1>0, <2>1, <2>2, <2>4, <3>1 DEF PendInv
  <2>. QED
    BY <2>3, <2>4
<1>3. CASE ~Commits(c) /\ committed' = committed /\ maybe' = maybe
  <2>1. \A d \in Conn : Pending(d)' => Pending(d) /\ loc'[d] = loc[d]
    BY <1>3, PendingSame
  <2>. QED
    BY <1>0, <1>3, <2>1 DEF PendInv
<1>. QED
  BY <1>1, <1>2, <1>3, HistOnly DEF Commits, Settles

\* Where a journal comes from that a power loss may leave to be played back.
Source(c, f, j) ==
  \/ \E i \in JrSeen(f) : MayPlay(i) /\ i.orig = j.orig
  \/ Works(c) /\ f \in Written(c) /\ j.orig = committed[f]

\* Only the creation and the deletion of a super-journal may bring it to disk.
LEMMA NewSupers ==
  ASSUME IInv, NEW c \in Conn, Step(c), NEW t \in Tx, TRUE \in superDisk'[t]
  PROVE  \/ TRUE \in superDisk[t]
         \/ DeleteSuper(c) /\ t = loc[c].tx
         \/ pc[c] \in {"super", "superSync"} /\ t = loc[c].tx
<1>0. superDisk \in [Tx -> SUBSET BOOLEAN] /\ SupersKept(c)
  BY Sure, SupersStep DEF SuperTypes
<1>1. CASE t # loc[c].tx
  BY <1>0, <1>1 DEF SupersKept, SuperSame
<1>2. CASE UNCHANGED superVars
  BY <1>2 DEF superVars
<1>3. CASE CreateSuper(c) \/ SyncSuper(c)
  BY <1>1, <1>3 DEF CreateSuper, SyncSuper
<1>4. CASE DeleteSuper(c)
  BY <1>1, <1>4
<1>5. CASE SyncDirectory(c)
  <2>1. superDisk' = [superDisk EXCEPT ![loc[c].tx] = {FALSE}]
    BY <1>5 DEF SyncDirectory
  <2>. QED
    BY <1>0, <1>1, <2>1
<1>6. CASE Fail(c)
  BY <1>0, <1>1, <1>2, <1>6 DEF Fail
<1>7. CASE CheckChild(c)
  <2>1. ~UNCHANGED superVars =>
          superDisk' = [superDisk EXCEPT ![loc[c].tx] = @ \cup {FALSE}]
    BY <1>7, CheckChildDoes
  <2>. QED
    BY <1>0, <1>1, <1>2, <2>1
<1>. QED
  BY <1>2, <1>3, <1>4, <1>5, <1>6, <1>7, Kinds DEF SuperStep

\* Every journal that a step leaves to be played back comes from there.
LEMMA NewJournals ==
  ASSUME IInv, Sound, NEW c \in Conn, Step(c), NEW f \in File,
         NEW j \in JrSeen(f)', j # NoFile, j.hot,
         j.super # NoSuper => TRUE \in superDisk'[j.super],
         ~(DeleteSuper(c) /\ j.super = loc[c].tx)
  PROVE  Source(c, f, j)
<1>0. FileTypes' /\ FileTypes /\ SuperTypes
  BY TypeStep, Sure DEF TypeInv
<1>1. j.super \in Tx \cup {NoSuper}
  BY <1>0, JournalFields DEF FileTypes, JrSeen
<1>2. CASE j \in JrSeen(f)
  <2>1. CASE j.super = NoSuper
    BY <1>2, <2>1 DEF Source, MayPlay
  <2>2. CASE j.super # NoSuper
    <3>1. ~(pc[c] \in {"super", "superSync"} /\ j.super = loc[c].tx)
      <4>1. ASSUME pc[c] \in {"super", "superSync"} PROVE j.super # loc[c].tx
        <5>1. OwnInv(c)
          BY <4>1, AtPhaseOne DEF OnePcs, PhaseOnePcs
        <5>. QED
          BY <1>2, <4>1, <5>1 DEF OwnInv
      <4>. QED
        BY <4>1
    <3>2. TRUE \in superDisk[j.super]
      BY <1>1, <2>2, <3>1, NewSupers
    <3>. QED
      BY <1>2, <3>2 DEF Source, MayPlay
  <2>. QED
    BY <2>1, <2>2
<1>3. CASE j \notin JrSeen(f)
  <2>1. ~FileSame(f) /\ ~JrSame(f)
    BY <1>3, FilesStay DEF FileSame
  <2>2. ASSUME UNCHANGED jrVars PROVE FALSE
    BY <2>1, <2>2, FilesStay
  <2>3. ~(WritePages(c) \/ SyncDatabase(c) \/ PlayBack(c) \/ SyncPlayed(c))
    BY <2>2 DEF WritePages, SyncDatabase, PlayBack, SyncPlayed
  <2>4. CASE BeginWrite(c, f)
    BY <1>3, <2>4, BeginWriteDoes
  <2>5. CASE Spill(c, f)
    BY <1>3, <2>5, SpillDoes DEF Source
  <2>6. CASE f = loc[c].cur /\ (WriteSuperJournal(c) \/ SyncJournal(c))
    <3>1. pc[c] \in OnePcs /\ pc[c] \in CurPcs
      BY <2>6 DEF WriteSuperJournal, SyncJournal, OnePcs, PhaseOnePcs, CurPcs
    <3>2. Works(c) /\ f \in Written(c)
      BY <2>6, <3>1, AtPhaseOne
    <3>3. j.orig = committed[f]
      BY <1>3, <2>6, WriteSuperJournalDoes, SyncJournalDoes
    <3>. QED
      BY <3>2, <3>3 DEF Source
  <2>7. CASE f = loc[c].cur /\ Finalize(c)
    <3>1. jr[f] \in JrSeen(f)
      BY DEF JrSeen
    <3>. QED
      BY <1>3, <2>7, <3>1, FinalizeDoes
  <2>8. CASE f = loc[c].cur /\ EndSync(c)
    BY <1>3, <2>8, EndSyncDoes
  <2>. QED
    BY <2>1, <2>3, <2>4, <2>5, <2>6, <2>7, <2>8, Touches
<1>. QED
  BY <1>2, <1>3

\* The files of a commit that waits for its sync are locked.
LEMMA PendingFiles ==
  ASSUME IInv, NEW d \in Conn, Pending(d)
  PROVE  loc[d].files \subseteq Written(d) /\ ~Works(d)
<1>1. pc[d] \in {"delSync", "endSync"}
  BY DEF Pending
<1>2. ~Works(d)
  BY <1>1 DEF Works, Waits, OnePcs, PhaseOnePcs
<1>3. CASE pc[d] = "delSync"
  BY <1>2, <1>3, Sure DEF FinishInv
<1>4. CASE pc[d] = "endSync" /\ Single(d)
  <2>1. loc[d].files = {loc[d].cur}
    BY <1>4, Sure DEF FinishInv
  <2>2. loc[d].cur \in Written(d)
    BY <1>4, AtEnd DEF EndPcs
  <2>. QED
    BY <1>2, <2>1, <2>2
<1>. QED
  BY <1>3, <1>4 DEF Pending

\* Before a step: the journals that it leaves to be played back restore m.
LEMMA UndoesStep ==
  ASSUME IInv, Sound, NEW c \in Conn, Step(c), ~DeleteSuper(c), NEW m, Undoes(m),
         \A f \in Written(c) : Works(c) => m[f] = committed[f]
  PROVE  Undoes(m)'
<1>1. SUFFICES ASSUME NEW f \in File, NEW j \in JrSeen(f)', MayPlay(j)'
               PROVE  j.orig = m[f]
  BY DEF Undoes
<1>2. j # NoFile /\ j.hot /\ (j.super # NoSuper => TRUE \in superDisk'[j.super])
  BY <1>1 DEF MayPlay
<1>3. Source(c, f, j)
  BY <1>2, NewJournals
<1>. QED
  BY <1>3 DEF Source, Undoes

\* The images that are not certain differ in the files of a pending commit.
LEMMA AgreeElsewhere ==
  ASSUME IInv, NEW m \in maybe, m # committed \/ maybe = {m}, Trusted,
         NEW c \in Conn, Works(c), NEW f \in Written(c)
  PROVE  m[f] = committed[f]
<1>0. PendInv /\ committed \in maybe
  BY Sure DEF PendInv
<1>1. CASE m = committed
  BY <1>1
<1>2. CASE m # committed
  <2>1. Cardinality(maybe) # 1
    <3>1. ASSUME Cardinality(maybe) = 1 PROVE FALSE
      <4>1. IsFiniteSet(maybe)
        BY Sure DEF HistTypes
      <4>2. PICK x : maybe = {x}
        BY <3>1, <4>1, FS_Singleton
      <4>. QED
        BY <1>0, <1>2, <4>2
    <3>. QED
      BY <3>1
  <2>2. PICK d \in Conn : Pending(d)
    BY <2>1 DEF Trusted
  <2>3. loc[d].files \subseteq Written(d) /\ c # d
    BY <2>2, PendingFiles
  <2>4. f \in File /\ lock[c][f] >= RESERVED_LOCK
    BY DEF Written
  <2>5. lock[d][f] < RESERVED_LOCK /\ lock[d][f] \in {0, 1, 2, 4}
    BY <2>3, <2>4, Sure, Types DEF LockInv
  <2>6. f \in File \ loc[d].files
    BY <2>3, <2>4, <2>5 DEF Written
  <2>7. Cardinality(maybe) = 2
    BY <2>1 DEF Trusted
  <2>. QED
    BY <1>0, <2>2, <2>6, <2>7 DEF PendInv
<1>. QED
  BY <1>1, <1>2

\* The commit itself: a power loss may undo it and nothing else.
LEMMA DiskCommit ==
  ASSUME IInv, Sound, NEW c \in Conn, Step(c), Commits(c), Trusted'
  PROVE  \A m \in maybe' : m # committed' \/ maybe' = {m} => Undoes(m)'
<1>1. /\ Works(c) /\ OwnInv(c) /\ ProgressInv(c) /\ StepInv(c)
      /\ loc[c].tx \in Tx /\ loc[c].files = Written(c)
      /\ committed' = Image(c) /\ maybe' = maybe \cup {Image(c)}
  BY Committing
<1>2. Image(c) \notin maybe /\ maybe = {committed}
  BY OneMore DEF Trusted
<1>3. Trusted
  BY <1>2, FS_Singleton DEF Trusted
<1>4. Undoes(committed)
  BY <1>2, <1>3, Sure DEF DiskInv
<1>5. ASSUME NEW m, m = committed PROVE Undoes(m)'
  <2>1. CASE ~DeleteSuper(c)
    BY <1>4, <1>5, <2>1, UndoesStep
  <2>2. CASE DeleteSuper(c)
    <3>1. SUFFICES ASSUME NEW f \in File, NEW j \in JrSeen(f)', MayPlay(j)'
                   PROVE  j.orig = committed[f]
      BY <1>5 DEF Undoes
    <3>2. j # NoFile /\ j.hot /\ (j.super # NoSuper => TRUE \in superDisk'[j.super])
      BY <3>1 DEF MayPlay
    <3>3. j \in JrSeen(f)
      BY <2>2, FilesStay DEF DeleteSuper
    <3>4. CASE j.super # loc[c].tx
      <4>1. Source(c, f, j)
        BY <3>1, <3>2, <3>4, NewJournals
      <4>. QED
        BY <1>4, <4>1 DEF Source, Undoes
    <3>5. CASE j.super = loc[c].tx
      <4>1. f \in Written(c)
        BY <1>1, <3>2, <3>3, <3>5 DEF OwnInv
      <4>2. Done(c, f)
        BY <1>1, <2>2, <4>1 DEF ProgressInv, NotDone, CurPcs, DeleteSuper
      <4>3. j = jr[f]
        BY <3>3, <4>2 DEF Done, Journaled
      <4>. QED
        BY <1>1, <4>1, <4>3 DEF OwnInv
    <3>. QED
      BY <3>4, <3>5
  <2>. QED
    BY <2>1, <2>2
<1>. QED
  BY <1>1, <1>2, <1>5

\* Its sync: what is on disk can no longer undo it.
LEMMA DiskSettle ==
  ASSUME IInv, Sound, NEW c \in Conn, Step(c), Settles(c), Trusted'
  PROVE  \A m \in maybe' : Undoes(m)'
<1>1. /\ Pending(c) /\ ~Commits(c) /\ committed' = committed
      /\ maybe' = Settled /\ ~Works(c)
  BY Settling
<1>2. PendInv /\ IsFiniteSet(maybe) /\ committed \in maybe
  BY Sure DEF PendInv, HistTypes
<1>3. Cardinality(maybe) = 2
  <2>1. ASSUME Cardinality(maybe) # 2 PROVE FALSE
    <3>1. maybe' = maybe
      BY <1>1, <2>1, SettleDoes
    <3>2. Cardinality(maybe) = 1
      BY <2>1, <3>1 DEF Trusted
    <3>. QED
      BY <1>1, <1>2, <3>2 DEF PendInv
  <2>. QED
    BY <2>1
<1>4. maybe' = {committed}
  BY <1>1, <1>3, SettleDoes
<1>5. PICK n \in maybe : n # committed
  <2>1. maybe # {committed}
    <3>1. Cardinality({committed}) = 1
      BY FS_Singleton
    <3>. QED
      BY <1>3, <3>1
  <2>. QED
    BY <1>2, <2>1
<1>6. Trusted
  BY <1>1, <1>3 DEF Trusted
<1>7. Undoes(n)
  BY <1>5, <1>6, Sure DEF DiskInv
<1>8. \A f \in File \ loc[c].files : n[f] = committed[f]
  BY <1>1, <1>2, <1>3, <1>5 DEF PendInv
<1>9. ASSUME NEW f \in File, NEW j \in JrSeen(f)', MayPlay(j)'
      PROVE  j.orig = committed[f]
  <2>1. j # NoFile /\ j.hot /\ (j.super # NoSuper => TRUE \in superDisk'[j.super])
    BY <1>9 DEF MayPlay
  <2>2. ~DeleteSuper(c)
    BY <1>1 DEF Commits
  <2>3. Source(c, f, j)
    BY <2>1, <2>2, NewJournals
  <2>4. j.orig = n[f]
    BY <1>1, <1>7, <2>3 DEF Source, Undoes
  <2>5. f \notin loc[c].files
    <3>1. CASE SyncDirectory(c)
      <4>1. /\ pc[c] = "delSync" /\ UNCHANGED jrVars
            /\ superDisk' = [superDisk EXCEPT ![loc[c].tx] = {FALSE}]
        BY <3>1 DEF SyncDirectory
      <4>2. j \in JrSeen(f)
        BY <4>1, FilesStay
      <4>3. loc[c].tx \in Tx /\ loc[c].tx # NoSuper
        BY <4>1, BusyTx, Constants DEF Busy, Tx, NoSuper
      <4>4. superDisk'[loc[c].tx] = {FALSE}
        BY <4>1, <4>3, Sure DEF SuperTypes
      <4>5. f \in loc[c].files => j.super = loc[c].tx
        BY <4>1, <4>2, Sure DEF FinishInv
      <4>. QED
        BY <2>1, <4>3, <4>4, <4>5
    <3>2. CASE EndSync(c) /\ Single(c)
      <4>1. /\ loc[c].files = {loc[c].cur} /\ extraSync
            /\ jr[loc[c].cur] # NoFile => ~jr[loc[c].cur].hot
        BY <3>2, Sure DEF FinishInv, EndSync
      <4>2. f = loc[c].cur => JrSeen(f)' \subseteq {jr[f]}
        BY <3>2, <4>1, EndSyncDoes
      <4>. QED
        BY <2>1, <4>1, <4>2
    <3>. QED
      BY <3>1, <3>2 DEF Settles
  <2>. QED
    BY <1>8, <2>4, <2>5
<1>. QED
  BY <1>4, <1>9 DEF Undoes

\* After every step a power loss leaves a journal only if it restores the images
\* before the one commit that is uncertain.
LEMMA DiskStep ==
  ASSUME IInv, Sound, NEW c \in Conn, Step(c)
  PROVE  DiskInv'
<1>1. SUFFICES ASSUME Trusted'
               PROVE  \A m \in maybe' : m # committed' \/ maybe' = {m} => Undoes(m)'
  BY DEF DiskInv
<1>2. CASE Commits(c)
  BY <1>1, <1>2, DiskCommit
<1>3. CASE Settles(c)
  BY <1>1, <1>3, DiskSettle
<1>4. CASE ~Commits(c) /\ committed' = committed /\ maybe' = maybe
  <2>1. Trusted
    BY <1>1, <1>4, PendingSame DEF Trusted
  <2>2. SUFFICES ASSUME NEW m \in maybe, m # committed \/ maybe = {m}
                 PROVE  Undoes(m)'
    BY <1>4
  <2>3. Undoes(m)
    BY <2>1, <2>2, Sure DEF DiskInv
  <2>4. \A f \in Written(c) : Works(c) => m[f] = committed[f]
    BY <2>1, <2>2, AgreeElsewhere
  <2>. QED
    BY <1>4, <2>3, <2>4, UndoesStep DEF Commits
<1>. QED
  BY <1>2, <1>3, <1>4, HistOnly DEF Commits, Settles

\* Every step of a connection keeps the invariant.
LEMMA StepKeeps ==
  ASSUME IInv, Sound, NEW c \in Conn, Step(c)
  PROVE  IInv'
<1>1. \A d \in Conn : ConnInv(d)'
  BY OwnKeep, OthersKeep
<1>. QED
  BY <1>1, TypeStep, LockStep, FileInvStep, NameStep, PairStep, PendStep, DiskStep
  DEF IInv
-----------------------------------------------------------------------------
(* A power loss *)

\* The parts of the invariant that no connection is named in.
LEMMA Whole ==
  ASSUME IInv
  PROVE  /\ TypeInv /\ FileTypes /\ SuperTypes /\ ConnTypes /\ HistTypes
         /\ FileInv /\ NameInv /\ PendInv /\ DiskInv
BY DEF IInv, TypeInv

\* The power is lost only while the invariant says what the disk may hold.
LEMMA TrustedLoss ==
  ASSUME IInv, Sound, PowerLoss
  PROVE  Trusted
<1>1. IsFiniteSet(maybe) /\ committed \in maybe
  BY Whole DEF HistTypes, PendInv
<1>2. Cardinality(maybe) \in Nat /\ Cardinality(maybe) # 0
  BY <1>1, FS_CardinalityType, FS_EmptySet
<1>3. Uncertain => Finalizing /\ Cardinality(maybe) = 2
  BY DEF PowerLoss, Sound
<1>4. CASE Uncertain
  BY <1>3, <1>4 DEF Finalizing, Pending, Trusted
<1>5. CASE ~Uncertain
  BY <1>2, <1>5 DEF Uncertain, Trusted
<1>. QED
  BY <1>4, <1>5

\* What a power loss leaves: the images d, the journals j, the super-journals s.
Leaves(d, j, s) ==
  /\ d \in [File -> Images] /\ j \in [File -> Journals]
  /\ \A f \in File : d[f] \in DbSeen(f) /\ j[f] \in JrSeen(f)
  /\ s \subseteq Tx
  /\ \A t \in s : TRUE \in superDisk[t]
  /\ \A t \in Tx \ s : FALSE \in superDisk[t]

\* PowerLoss chooses such a disk.
LEMMA LossLeaves ==
  ASSUME IInv, PowerLoss
  PROVE  /\ Leaves(db', jr', DOMAIN super')
         /\ committed' = Recovered(db', jr', DOMAIN super')
         /\ \A t \in DOMAIN super' : super'[t] = File
<1>0. FileTypes
  BY Whole
<1>1. PICK d \in [File -> UNION {dbDisk[f] : f \in File}],
           j \in [File -> UNION {jrDisk[f] : f \in File}],
           s \in SUBSET {t \in Tx : TRUE \in superDisk[t]} :
        /\ \A f \in File : d[f] \in dbDisk[f] /\ j[f] \in jrDisk[f]
        /\ \A t \in Tx \ s : FALSE \in superDisk[t]
        /\ db' = d /\ jr' = j
        /\ super' = [t \in s |-> File]
        /\ committed' = Recovered(d, j, s)
  BY DEF PowerLoss
<1>2. d \in [File -> Images]
  <2>1. \A f \in File : dbDisk[f] \subseteq Images
    BY <1>0 DEF FileTypes
  <2>2. \A f \in File : d[f] \in Images
    BY <1>1, <2>1
  <2>. QED
    BY <1>1, <2>2
<1>3. j \in [File -> Journals]
  <2>1. \A f \in File : jrDisk[f] \subseteq Journals
    BY <1>0 DEF FileTypes
  <2>2. \A f \in File : j[f] \in Journals
    BY <1>1, <2>1
  <2>. QED
    BY <1>1, <2>2
<1>4. DOMAIN super' = s
  BY <1>1
<1>. QED
  BY <1>1, <1>2, <1>3, <1>4 DEF Leaves, DbSeen, JrSeen

\* One file after it: as committed, unless its journal is played back, and then
\* as in all the images that a power loss may leave.
LEMMA FileLoss ==
  ASSUME IInv, NEW d, NEW j, NEW s, Leaves(d, j, s), NEW f \in File
  PROVE  /\ Played(j[f], s) => MayPlay(j[f])
         /\ ~Played(j[f], s) => Recovered(d, j, s)[f] = committed[f]
         /\ Played(j[f], s) => Recovered(d, j, s)[f] = j[f].orig
<1>1. /\ d[f] \in DbSeen(f) /\ j[f] \in JrSeen(f) /\ s \subseteq Tx
      /\ \A t \in s : TRUE \in superDisk[t]
      /\ \A t \in Tx \ s : FALSE \in superDisk[t]
  BY DEF Leaves
<1>2. Recovered(d, j, s)[f] = IF Played(j[f], s) THEN j[f].orig ELSE d[f]
  BY DEF Recovered
<1>3. Played(j[f], s) => MayPlay(j[f])
  BY <1>1 DEF Played, MayPlay
<1>4. ASSUME ~Clean(f) PROVE Played(j[f], s)
  <2>1. Guarded(f) /\ SuperTypes
    BY Whole DEF FileInv
  <2>2. Restores(j[f], f) /\ Stands(jr[f].super)
    BY <1>1, <1>4, <2>1 DEF Guarded
  <2>3. jr[f].super # NoSuper => jr[f].super \in s
    BY <1>1, <2>1, <2>2 DEF Stands, SuperTypes
  <2>. QED
    BY <2>2, <2>3 DEF Restores, Played
<1>5. Clean(f) => d[f] = committed[f]
  BY <1>1 DEF Clean
<1>. QED
  BY <1>2, <1>3, <1>4, <1>5

\* Images are equal when they are so file by file.
LEMMA SameImages ==
  ASSUME NEW d, NEW j, NEW s, NEW m \in [File -> 0..MaxTx],
         \A f \in File : Recovered(d, j, s)[f] = m[f]
  PROVE  Recovered(d, j, s) = m
BY DEF Recovered

\* All of a transaction or none of it.
LEMMA LossAtomic ==
  ASSUME IInv, Trusted, NEW d, NEW j, NEW s, Leaves(d, j, s)
  PROVE  Recovered(d, j, s) \in maybe
<1>0. /\ IsFiniteSet(maybe) /\ committed \in maybe /\ PendInv
      /\ maybe \subseteq [File -> 0..MaxTx]
  BY Whole DEF HistTypes, PendInv
<1>1. CASE Cardinality(maybe) = 1
  <2>1. maybe = {committed}
    BY <1>0, <1>1, FS_Singleton
  <2>2. Undoes(committed)
    BY <2>1, Whole DEF DiskInv
  <2>3. ASSUME NEW f \in File PROVE Recovered(d, j, s)[f] = committed[f]
    <3>1. j[f] \in JrSeen(f)
      BY DEF Leaves
    <3>. QED
      BY <2>2, <3>1, FileLoss DEF Undoes
  <2>. QED
    BY <1>0, <2>3, SameImages
<1>2. CASE Cardinality(maybe) = 2
  <2>1. PICK n \in maybe : n # committed
    <3>1. Cardinality({committed}) = 1
      BY FS_Singleton
    <3>. QED
      BY <1>0, <1>2, <3>1
  <2>2. Undoes(n)
    BY <2>1, Whole DEF DiskInv
  <2>3. PICK c \in Conn : Pending(c)
    BY <1>2 DEF Trusted
  <2>4. \A f \in File \ loc[c].files : n[f] = committed[f]
    BY <1>0, <1>2, <2>1, <2>3 DEF PendInv
  <2>5. \A f \in File : Played(j[f], s) => Recovered(d, j, s)[f] = n[f]
    <3>1. \A f \in File : j[f] \in JrSeen(f)
      BY DEF Leaves
    <3>. QED
      BY <2>2, <3>1, FileLoss DEF Undoes
  <2>6. \A f \in File : ~Played(j[f], s) => Recovered(d, j, s)[f] = committed[f]
    BY FileLoss
  <2>7. CASE \A f \in loc[c].files \cap File : Played(j[f], s)
    <3>1. \A f \in File : Recovered(d, j, s)[f] = n[f]
      BY <2>4, <2>5, <2>6, <2>7
    <3>. QED
      BY <1>0, <2>1, <3>1, SameImages
  <2>8. CASE \A f \in loc[c].files \cap File : ~Played(j[f], s)
    <3>1. \A f \in File : Recovered(d, j, s)[f] = committed[f]
      BY <2>4, <2>5, <2>6, <2>8
    <3>. QED
      BY <1>0, <3>1, SameImages
  <2>9. CASE pc[c] = "delSync"
    <3>1. /\ loc[c].tx \in 1..nTx
          /\ \A f \in loc[c].files : \A i \in JrSeen(f) :
               i # NoFile /\ i.hot /\ i.super = loc[c].tx
      BY <2>9, Sure DEF FinishInv
    <3>2. loc[c].tx # NoSuper
      BY <3>1, Whole, Constants DEF HistTypes, NoSuper
    <3>3. \A f \in loc[c].files \cap File : Played(j[f], s) <=> loc[c].tx \in s
      BY <3>1, <3>2 DEF Leaves, Played
    <3>. QED
      BY <2>7, <2>8, <3>3
  <2>10. CASE pc[c] = "endSync" /\ Single(c)
    <3>1. loc[c].files = {loc[c].cur}
      BY <2>10, Sure DEF FinishInv
    <3>. QED
      BY <2>7, <2>8, <3>1
  <2>. QED
    BY <2>3, <2>9, <2>10 DEF Pending
<1>. QED
  BY <1>1, <1>2 DEF Trusted

\* After the power loss nobody is connected, and the disk is what is seen.
LEMMA LossDoes ==
  ASSUME IInv, Sound, PowerLoss
  PROVE  /\ \A c \in Conn : pc'[c] = "idle" /\ loc'[c] = Idle
         /\ \A c \in Conn, f \in File : lock'[c][f] = NO_LOCK
         /\ \A f \in File : DbSeen(f)' \subseteq {db'[f]} /\ JrSeen(f)' \subseteq {jr'[f]}
         /\ \A t \in Tx : superDisk'[t] = {t \in DOMAIN super'}
         /\ committed' \in maybe /\ maybe' = {committed'}
         /\ nTx' = nTx /\ nLosses' = nLosses + 1
<1>1. /\ pc' = [c \in Conn |-> "idle"] /\ loc' = [c \in Conn |-> Idle]
      /\ lock' = [c \in Conn |-> [f \in File |-> NO_LOCK]]
      /\ dbDisk' = [f \in File |-> KeptAfter(nLosses', {db'[f]})]
      /\ jrDisk' = [f \in File |-> KeptAfter(nLosses', {jr'[f]})]
      /\ superDisk' = [t \in Tx |-> {t \in DOMAIN super'}]
      /\ maybe' = maybe \cap {committed'}
      /\ nTx' = nTx /\ nLosses' = nLosses + 1
  BY DEF PowerLoss
<1>2. \A f \in File : dbDisk'[f] \subseteq {db'[f]} /\ jrDisk'[f] \subseteq {jr'[f]}
  BY <1>1 DEF KeptAfter
<1>3. \A f \in File : DbSeen(f)' \subseteq {db'[f]} /\ JrSeen(f)' \subseteq {jr'[f]}
  BY <1>2 DEF DbSeen, JrSeen
<1>4. committed' \in maybe
  BY TrustedLoss, LossLeaves, LossAtomic
<1>. QED
  BY <1>1, <1>3, <1>4

\* A power loss keeps the types.
LEMMA LossTypes ==
  ASSUME IInv, Sound, PowerLoss
  PROVE  TypeInv'
<1>0. Leaves(db', jr', DOMAIN super') /\ \A t \in DOMAIN super' : super'[t] = File
  BY LossLeaves
<1>1. FileTypes'
  <2>1. /\ dbDisk' = [f \in File |-> KeptAfter(nLosses', {db'[f]})]
        /\ jrDisk' = [f \in File |-> KeptAfter(nLosses', {jr'[f]})]
    BY DEF PowerLoss
  <2>2. db' \in [File -> Images] /\ jr' \in [File -> Journals]
    BY <1>0 DEF Leaves
  <2>3. \A f \in File : /\ KeptAfter(nLosses', {db'[f]}) \in SUBSET Images
                        /\ KeptAfter(nLosses', {jr'[f]}) \in SUBSET Journals
    BY <2>2 DEF KeptAfter
  <2>4. dbDisk' \in [File -> SUBSET Images] /\ jrDisk' \in [File -> SUBSET Journals]
    BY <2>1, <2>3
  <2>. QED
    BY <2>2, <2>4 DEF FileTypes
<1>2. SuperTypes'
  <2>1. superDisk' = [t \in Tx |-> {t \in DOMAIN super'}]
    BY DEF PowerLoss
  <2>2. \A t \in Tx : {t \in DOMAIN super'} \in SUBSET BOOLEAN
    OBVIOUS
  <2>3. superDisk' \in [Tx -> SUBSET BOOLEAN]
    BY <2>1, <2>2
  <2>. QED
    BY <1>0, <2>3 DEF SuperTypes, Leaves
<1>3. ConnTypes'
  <2>1. "idle" \in Pcs /\ Idle \in Locs /\ NO_LOCK \in Locks /\ Half \in Images
    BY IdleLocs DEF Pcs, Locks, Images
  <2>2. /\ pc' = [c \in Conn |-> "idle"] /\ loc' = [c \in Conn |-> Idle]
        /\ lock' = [c \in Conn |-> [f \in File |-> NO_LOCK]]
        /\ view' = [c \in Conn |-> [f \in File |-> Half]]
    BY DEF PowerLoss
  <2>. QED
    BY <2>1, <2>2 DEF ConnTypes
<1>4. HistTypes'
  <2>1. /\ maybe \subseteq [File -> 0..MaxTx] /\ nTx \in 0..MaxTx /\ nLosses \in Nat
    BY Whole DEF HistTypes
  <2>2. IsFiniteSet({committed'})
    BY FS_Singleton
  <2>3. /\ committed' \in maybe /\ maybe' = {committed'}
        /\ nTx' = nTx /\ nLosses' = nLosses + 1
    BY LossDoes
  <2>4. committed' \in [File -> 0..MaxTx]
    BY <2>1, <2>3
  <2>5. maybe' \subseteq [File -> 0..MaxTx] /\ IsFiniteSet(maybe')
    BY <2>2, <2>3, <2>4
  <2>6. nTx' \in 0..MaxTx /\ nLosses' \in Nat
    BY <2>1, <2>3
  <2>. QED
    BY <2>4, <2>5, <2>6 DEF HistTypes
<1>. QED
  BY <1>1, <1>2, <1>3, <1>4 DEF TypeInv

\* The disk holds what is seen, so its files are guarded by their own journals.
LEMMA LossFiles ==
  ASSUME IInv, Sound, PowerLoss
  PROVE  FileInv' /\ DiskInv'
<1>0. /\ SuperTypes' /\ jr' \in [File -> Journals]
      /\ committed' = Recovered(db', jr', DOMAIN super')
  BY LossTypes, LossLeaves DEF TypeInv, FileTypes
<1>1. \A f \in File : committed'[f] = IF Played(jr'[f], DOMAIN super')
                                      THEN jr'[f].orig ELSE db'[f]
  BY <1>0 DEF Recovered
<1>2. \A f \in File : DbSeen(f)' \subseteq {db'[f]} /\ JrSeen(f)' \subseteq {jr'[f]}
  BY LossDoes
<1>3. \A t \in Tx : superDisk'[t] = {t \in DOMAIN super'}
  BY LossDoes
<1>4. ASSUME NEW f \in File PROVE Guarded(f)' /\ Exact(f)'
  <2>1. Exact(f)'
    BY <1>1 DEF Exact
  <2>2. CASE ~Played(jr'[f], DOMAIN super')
    <3>1. Clean(f)'
      BY <1>1, <1>2, <2>2 DEF Clean
    <3>. QED
      BY <2>1, <3>1 DEF Guarded
  <2>3. CASE Played(jr'[f], DOMAIN super')
    <3>1. jr'[f] # NoFile /\ jr'[f].hot /\ jr'[f].orig = committed'[f]
          /\ (jr'[f].super = NoSuper \/ jr'[f].super \in DOMAIN super')
      BY <1>1, <2>3 DEF Played
    <3>2. Stands(jr[f].super)'
      BY <1>0, <1>3, <3>1 DEF Stands, SuperTypes
    <3>. QED
      BY <1>2, <3>1, <3>2, FileGuards
  <2>. QED
    BY <2>2, <2>3
<1>5. DiskInv'
  <2>1. SUFFICES ASSUME NEW m, m = committed' PROVE Undoes(m)'
    BY LossDoes DEF DiskInv
  <2>2. SUFFICES ASSUME NEW f \in File, NEW i \in JrSeen(f)', MayPlay(i)'
                 PROVE  i.orig = committed'[f]
    BY <2>1 DEF Undoes
  <2>3. i = jr'[f] /\ i # NoFile /\ i.hot /\ i \in Journals
    BY <1>0, <1>2, <2>2 DEF MayPlay
  <2>4. i.super \in Tx \cup {NoSuper}
    BY <2>3, JournalFields
  <2>5. i.super = NoSuper \/ TRUE \in superDisk'[i.super]
    BY <2>2 DEF MayPlay
  <2>6. Played(i, DOMAIN super')
    BY <1>3, <2>3, <2>4, <2>5 DEF Played
  <2>. QED
    BY <1>1, <2>3, <2>6
<1>. QED
  BY <1>4, <1>5 DEF FileInv

\* What the journals on disk name has been on disk.
LEMMA LossNames ==
  ASSUME IInv, Sound, PowerLoss
  PROVE  NameInv'
<1>0. /\ Leaves(db', jr', DOMAIN super') /\ \A t \in DOMAIN super' : super'[t] = File
      /\ nTx' = nTx /\ committed' \in maybe /\ maybe' = {committed'}
      /\ \A f \in File : JrSeen(f)' \subseteq {jr'[f]}
      /\ \A t \in Tx : superDisk'[t] = {t \in DOMAIN super'}
  BY LossLeaves, LossDoes
<1>1. NameInv /\ nTx \in Nat /\ \A t \in Tx : t \in Nat
  BY Whole, Constants DEF HistTypes, Tx
<1>2. ASSUME NEW t \in DOMAIN super' PROVE t \in Tx /\ t <= nTx
  <2>1. t \in Tx /\ TRUE \in superDisk[t]
    BY <1>0 DEF Leaves
  <2>2. ~(t > nTx)
    <3>1. t > nTx => superDisk[t] \subseteq {FALSE}
      BY <1>1, <2>1 DEF NameInv
    <3>2. TRUE \notin {FALSE}
      OBVIOUS
    <3>. QED
      BY <2>1, <3>1, <3>2
  <2>. QED
    BY <1>1, <2>1, <2>2
<1>3. \A t \in Tx : t > nTx => superDisk'[t] \subseteq {FALSE}
  BY <1>0, <1>1, <1>2
<1>4. \A f \in File : \A j \in JrSeen(f)' : j # NoFile => j.super <= nTx
  BY <1>0, <1>1 DEF Leaves, NameInv
<1>. QED
  BY <1>0, <1>1, <1>2, <1>3, <1>4 DEF NameInv

\* A power loss keeps the invariant.
LEMMA LossKeeps ==
  ASSUME IInv, Sound, PowerLoss
  PROVE  IInv'
<1>0. /\ \A c \in Conn : pc'[c] = "idle" /\ loc'[c] = Idle
      /\ \A c \in Conn, f \in File : lock'[c][f] = NO_LOCK
      /\ maybe' = {committed'}
  BY LossDoes
<1>1. LockInv'
  BY <1>0 DEF LockInv
<1>2. \A c \in Conn : Written(c)' = {}
  BY <1>0 DEF Written
<1>3. \A c \in Conn : ~Works(c)' /\ ~Pending(c)'
  BY <1>0, <1>2 DEF Works, Waits, OnePcs, PhaseOnePcs, Pending
<1>4. PairInv'
  BY <1>3 DEF PairInv
<1>5. PendInv'
  <2>1. Cardinality(maybe') = 1
    BY <1>0, FS_Singleton
  <2>. QED
    BY <1>0, <1>3, <2>1 DEF PendInv
<1>6. ASSUME NEW c \in Conn PROVE ConnInv(c)'
  <2>1. LevelInv(c)'
    BY <1>0 DEF LevelInv
  <2>2. loc'[c].ending # "commit"
    BY <1>0 DEF Idle
  <2>3. OwnParts(c)'
    BY <1>0, <1>2, <2>2, QuietOwn
  <2>. QED
    BY <2>1, <2>3 DEF ConnInv, OwnParts
<1>. QED
  BY <1>1, <1>4, <1>5, <1>6, LossTypes, LossFiles, LossNames DEF IInv
-----------------------------------------------------------------------------
(* The theorems *)

\* The types hold when nothing has happened.
LEMMA InitTypes ==
  ASSUME Init
  PROVE  TypeInv
<1>0. 0 \in 0..MaxTx /\ 0 \in Images /\ NoFile \in Journals /\ Half \in Images
  BY Constants DEF Images, Journals
<1>1. FileTypes
  <2>1. /\ db = [f \in File |-> 0] /\ dbDisk = [f \in File |-> {0}]
        /\ jr = [f \in File |-> NoFile] /\ jrDisk = [f \in File |-> {NoFile}]
    BY DEF Init
  <2>2. {0} \in SUBSET Images /\ {NoFile} \in SUBSET Journals
    BY <1>0
  <2>. QED
    BY <1>0, <2>1, <2>2 DEF FileTypes
<1>2. SuperTypes
  BY DEF Init, SuperTypes
<1>3. ConnTypes
  <2>1. "idle" \in Pcs /\ Idle \in Locs /\ NO_LOCK \in Locks
    BY IdleLocs DEF Pcs, Locks
  <2>2. /\ pc = [c \in Conn |-> "idle"] /\ loc = [c \in Conn |-> Idle]
        /\ lock = [c \in Conn |-> [f \in File |-> NO_LOCK]]
        /\ view = [c \in Conn |-> [f \in File |-> Half]]
    BY DEF Init
  <2>. QED
    BY <1>0, <2>1, <2>2 DEF ConnTypes
<1>4. HistTypes
  <2>1. db \in [File -> 0..MaxTx] /\ committed = db /\ maybe = {db} /\ nTx = 0
        /\ nLosses = 0
    BY <1>0 DEF Init
  <2>2. IsFiniteSet({db})
    BY FS_Singleton
  <2>3. maybe \subseteq [File -> 0..MaxTx] /\ IsFiniteSet(maybe)
    BY <2>1, <2>2
  <2>. QED
    BY <1>0, <2>1, <2>3 DEF HistTypes
<1>. QED
  BY <1>1, <1>2, <1>3, <1>4 DEF TypeInv

\* The invariant holds when nothing has happened.
LEMMA Begins ==
  ASSUME Init
  PROVE  IInv
<1>1. /\ \A f \in File : db[f] = 0 /\ dbDisk[f] = {0} /\ jr[f] = NoFile
                         /\ jrDisk[f] = {NoFile} /\ committed[f] = 0
      /\ DOMAIN super = {} /\ \A t \in Tx : superDisk[t] = {FALSE}
      /\ \A c \in Conn : pc[c] = "idle" /\ loc[c] = Idle
      /\ \A c \in Conn, f \in File : lock[c][f] = NO_LOCK
      /\ maybe = {committed} /\ nTx = 0
  BY DEF Init
<1>2. \A f \in File : /\ DbSeen(f) = {0} /\ JrSeen(f) = {NoFile} /\ Clean(f)
                      /\ jr[f] = NoFile
  BY <1>1 DEF DbSeen, JrSeen, Clean
<1>3. FileInv
  BY <1>2 DEF FileInv, Guarded, Exact, Played
<1>4. NameInv
  <2>1. \A m \in maybe, f \in File : m[f] <= nTx
    BY <1>1
  <2>2. \A f \in File : \A j \in JrSeen(f) : j = NoFile
    BY <1>2
  <2>. QED
    BY <1>1, <1>2, <2>1, <2>2 DEF NameInv
<1>5. LockInv
  BY <1>1 DEF LockInv
<1>6. \A c \in Conn : Written(c) = {}
  BY <1>1 DEF Written
<1>7. \A c \in Conn : ~Works(c) /\ ~Pending(c)
  BY <1>1, <1>6 DEF Works, Waits, OnePcs, PhaseOnePcs, Pending
<1>8. PairInv
  BY <1>7 DEF PairInv
<1>9. PendInv
  <2>1. Cardinality(maybe) = 1
    BY <1>1, FS_Singleton
  <2>. QED
    BY <1>1, <1>7, <2>1 DEF PendInv
<1>10. DiskInv
  BY <1>2 DEF DiskInv, Undoes, MayPlay
<1>11. ASSUME NEW c \in Conn PROVE ConnInv(c)
  <2>1. pc[c] = "idle" /\ loc[c].ending = "none"
    BY <1>1 DEF Idle
  <2>2. LevelInv(c)
    BY <1>1 DEF LevelInv
  <2>. QED
    BY <1>7, <2>1, <2>2 DEF ConnInv, WorkInv, FinishInv, CurInv, RollInv, KidsInv,
      KidsLeft, TwoPcs, EndPcs
<1>. QED
  BY <1>3, <1>4, <1>5, <1>8, <1>9, <1>10, <1>11, InitTypes DEF IInv

\* A step that changes nothing keeps the invariant.
LEMMA Stutters ==
  ASSUME IInv, UNCHANGED vars
  PROVE  IInv'
<1>1. UNCHANGED <<db, dbDisk, jr, jrDisk, super, superDisk, lock, pc, loc, view,
                  committed, maybe, nTx, nLosses>>
  BY DEF vars, dbVars, jrVars, superVars, connVars, histVars, faultVars
<1>2. TypeInv'
  BY <1>1, Whole DEF TypeInv, FileTypes, SuperTypes, ConnTypes, HistTypes
<1>3. /\ \A f \in File : /\ DbSeen(f)' = DbSeen(f) /\ JrSeen(f)' = JrSeen(f)
                         /\ Clean(f)' = Clean(f)
  BY <1>1 DEF DbSeen, JrSeen, Clean
<1>4. FileInv'
  BY <1>1, <1>3, Whole DEF FileInv, Guarded, Exact, Restores, Stands
<1>5. NameInv'
  BY <1>1, <1>3, Whole DEF NameInv
<1>6. \A c \in Conn : Pending(c)' = Pending(c) /\ Works(c)' = Works(c) /\ Busy(c)' = Busy(c)
  BY <1>1 DEF Pending, Single, Works, Waits, Busy, KidsLeft, Written
<1>7. PendInv' /\ PairInv'
  BY <1>1, <1>6, Whole DEF PendInv, PairInv, IInv
<1>8. DiskInv'
  <2>1. Trusted' <=> Trusted
    BY <1>1, <1>6 DEF Trusted
  <2>2. \A m : Undoes(m) => Undoes(m)'
    BY <1>1, <1>3 DEF Undoes, MayPlay
  <2>. QED
    BY <1>1, <2>1, <2>2, Whole DEF DiskInv
<1>9. LockInv'
  BY <1>1 DEF LockInv, IInv
<1>10. ASSUME NEW c \in Conn PROVE ConnInv(c)'
  <2>1. Undisturbed(c)
    BY <1>1, <1>3 DEF Undisturbed, Written
  <2>2. LevelInv(c)' /\ RollInv(c)'
    BY <2>1, OthersLevel, OthersRoll
  <2>3. WorkInv(c)'
    <3>1. SUFFICES ASSUME Works(c) PROVE OwnInv(c)' /\ StepInv(c)' /\ ProgressInv(c)'
      BY <1>6 DEF WorkInv
    <3>2. OwnInv(c) /\ StepInv(c)
      BY <3>1, Sure DEF WorkInv
    <3>3. Written(c)' = Written(c) /\ Tail(c)' = Tail(c) /\ MultiTx(c)' = MultiTx(c)
      BY <1>1 DEF Written, Tail, MultiTx
    <3>4. OwnInv(c)'
      BY <1>1, <1>3, <3>2, <3>3 DEF OwnInv
    <3>5. StepInv(c)'
      BY <1>1, <3>2, <3>3 DEF StepInv
    <3>. QED
      BY <2>1, <3>1, <3>4, <3>5, OthersProgress
  <2>4. FinishInv(c) /\ CurInv(c) /\ KidsInv(c)
    BY Sure
  <2>5. /\ Single(c)' = Single(c) /\ Waits(c)' = Waits(c) /\ Written(c)' = Written(c)
        /\ MultiTx(c)' = MultiTx(c) /\ KidsLeft(c)' = KidsLeft(c)
    BY <1>1 DEF Single, Waits, Written, MultiTx, KidsLeft
  <2>6. \A g : Clean(g)' = Clean(g) /\ JrSeen(g)' = JrSeen(g)
    BY <1>1 DEF Clean, DbSeen, JrSeen
  <2>7. FinishInv(c)'
    BY <1>1, <2>4, <2>5, <2>6 DEF FinishInv
  <2>8. CurInv(c)'
    BY <1>1, <2>4, <2>5, <2>6 DEF CurInv, SuperExists
  <2>9. KidsInv(c)'
    BY <1>1, <2>4, <2>5 DEF KidsInv, Names
  <2>. QED
    BY <2>2, <2>3, <2>7, <2>8, <2>9 DEF ConnInv
<1>. QED
  BY <1>2, <1>4, <1>5, <1>7, <1>8, <1>9, <1>10 DEF IInv

\* IInv is an inductive invariant of the commits, rollbacks, recoveries, deaths
\* and power losses of any number of connections on any number of files.
THEOREM Invariance == Sound => (Spec => []IInv)
<1>1. Init => IInv
  BY Begins
<1>2. Sound /\ IInv /\ [Next]_vars => IInv'
  <2>1. ASSUME Sound, IInv, Next PROVE IInv'
    BY <2>1, StepKeeps, LossKeeps DEF Next
  <2>. QED
    BY <2>1, Stutters
<1>3. CASE Sound
  <2>1. IInv /\ [Next]_vars => IInv'
    BY <1>2, <1>3
  <2>. QED
    BY <1>1, <2>1, PTL DEF Spec
<1>. QED
  BY <1>3

\* While a connection writes the journals and the files of its commit it has
\* EXCLUSIVE on all of them.
LEMMA CommitLocks ==
  ASSUME IInv, NEW c \in Conn, pc[c] \in PhaseOnePcs \ {"excl"}
  PROVE  \A f \in loc[c].files : lock[c][f] = EXCLUSIVE_LOCK
<1>1. CASE pc[c] = "delSync"
  <2>1. loc[c].files = loc[c].todo /\ loc[c].ending = "commit"
    BY <1>1, Sure DEF FinishInv
  <2>2. ~Waits(c) /\ pc[c] \in TwoPcs
    BY <1>1 DEF Waits, TwoPcs
  <2>. QED
    BY <2>1, <2>2, Sure DEF FinishInv
<1>2. CASE pc[c] # "delSync"
  <2>1. pc[c] \in OnePcs /\ pc[c] \notin {"idle", "excl"}
    BY <1>2 DEF OnePcs, PhaseOnePcs
  <2>. QED
    BY <2>1, AtPhaseOne DEF StepInv
<1>. QED
  BY <1>1, <1>2

\* Every variable keeps its type, and from the creation of the super-journal to
\* the sync of its deletion vdbeCommit has EXCLUSIVE on all files it commits.
THEOREM TypeCorrect == Sound => (Spec => []TypeOK)
<1>1. ASSUME IInv PROVE TypeOK
  <2>1. TypeInv /\ FileTypes /\ SuperTypes /\ ConnTypes /\ HistTypes
    BY <1>1, Whole
  <2>2. \A c \in Conn : pc[c] \in PhaseOnePcs \ {"excl"} =>
          \A f \in loc[c].files : lock[c][f] = EXCLUSIVE_LOCK
    BY <1>1, CommitLocks
  <2>3. Locks \subseteq NO_LOCK..EXCLUSIVE_LOCK
    BY DEF Locks
  <2>4. lock \in [Conn -> [File -> NO_LOCK..EXCLUSIVE_LOCK]]
    BY <2>1, <2>3 DEF ConnTypes
  <2>. QED
    BY <2>1, <2>2, <2>4 DEF TypeOK, FileTypes, SuperTypes, ConnTypes, HistTypes,
      Images
<1>. QED
  BY <1>1, Invariance, PTL

\* What everybody would recover is what is committed, file by file.
LEMMA Exactly ==
  ASSUME IInv
  PROVE  RecoveryIsExact
<1>1. ASSUME NEW f \in File
      PROVE  Recovered(db, jr, DOMAIN super)[f] = committed[f]
  <2>1. Recovered(db, jr, DOMAIN super)[f] =
          IF Played(jr[f], DOMAIN super) THEN jr[f].orig ELSE db[f]
    BY DEF Recovered
  <2>2. CASE Played(jr[f], DOMAIN super)
    BY <2>1, <2>2, Whole DEF FileInv, Exact
  <2>3. CASE ~Played(jr[f], DOMAIN super)
    BY <2>1, <2>3, CleanUnless DEF Played, SuperExists
  <2>. QED
    BY <2>2, <2>3
<1>. QED
  BY <1>1, SameImages, Whole DEF RecoveryIsExact, HistTypes

\* Whoever is left recovers all files of the last committed transaction or none:
\* pager_playback goes by the super-journal, and pager_delsuper deletes none that
\* a journal still needs.
THEOREM ExactRecovery == Sound => (Spec => []RecoveryIsExact)
BY Exactly, Invariance, PTL

\* A power loss during vdbeCommit leaves all files of the transaction as before it
\* or all as after it.
THEOREM AtomicPowerLoss == Sound => (Spec => []PowerLossIsAtomic)
<1>1. IInv => PowerLossIsAtomic
  BY Whole DEF PendInv, PowerLossIsAtomic
<1>. QED
  BY <1>1, Invariance, PTL

\* A reader of several files sees a committed transaction in all of them, while
\* the second phase gives them back one by one.
THEOREM ReadersSee == Sound => (Spec => []ReaderSeesCommitted)
<1>1. IInv => ReaderSeesCommitted
  BY Sure DEF LevelInv, ReaderSeesCommitted
<1>. QED
  BY <1>1, Invariance, PTL

\* A super-journal that appears or goes without a commit changes nothing of what
\* recovery finds: only its deletion in vdbeCommit commits.
THEOREM OnlyCommits == Sound => (Spec => OnlyCommitCommits)
<1>1. IInv => RecoveryIsExact
  BY Exactly
<1>2. IInv' => RecoveryIsExact'
  BY <1>1, PTL
<1>3. IInv /\ IInv' => [super' # super /\ committed' = committed =>
        Recovered(db', jr', DOMAIN super') = Recovered(db, jr, DOMAIN super)]_vars
  BY <1>1, <1>2 DEF RecoveryIsExact
<1>. QED
  BY <1>3, Invariance, PTL DEF OnlyCommitCommits
=============================================================================
