-------------------------------- MODULE Wal --------------------------------
(***************************************************************************)
(* The write-ahead log of wal.c as its connections share it: read          *)
(* transactions, one writer, checkpoints and the recovery of the           *)
(* wal-index, interleaved at the steps where one can see the other.        *)
(*                                                                         *)
(* The content of a page is the number of the transaction that wrote it.   *)
(* A wal-index header is what its fields identify: the last valid frame,   *)
(* the salt of the log, and the transaction it makes current (iChange and  *)
(* aFrameCksum).  A checksum chain is the transaction of the frame before. *)
(* Taking a lock is merged with the step after it and releasing one with   *)
(* the step before it; who holds a READ lock exclusively follows from pc.  *)
(* A failure of the operating system is a death of the process.            *)
(***************************************************************************)
EXTENDS Integers, FiniteSets, FiniteSetsExt

CONSTANTS
  Conn, Page, NoConn,
  Readers, Writers, Checkpointers,   \* the connections that read, write,
                                     \* checkpoint; a writer reads first
  NReader,        \* WAL_NREADER - 1: the read-marks in use are 1..NReader
  MaxFrame,       \* bound: frames in the log
  MaxTx,          \* bound: transactions that write a frame
  MaxSalt,        \* bound: salts drawn
  Modes,          \* the checkpoint modes used
  StaleCheckpoints,  \* FALSE: see RestartHdr0
  DeathPcs        \* the steps before which a process may die

ASSUME WalAssumption ==
  /\ IsFiniteSet(Conn) /\ IsFiniteSet(Page) /\ Page \subseteq Nat
  /\ NoConn \notin Conn
  /\ Readers \subseteq Conn /\ Writers \subseteq Readers
  /\ Checkpointers \subseteq Conn
  /\ {NReader, MaxFrame, MaxTx, MaxSalt} \subseteq Nat \ {0}
  /\ Modes \subseteq {"PASSIVE", "FULL", "TRUNCATE"}
  /\ StaleCheckpoints \in BOOLEAN

VARIABLES
  \* shared memory
  aHdr,          \* the two copies of the header
  nBackfill,     \* frames copied into the database file
  aReadMark,
  writeLock, ckptLock,
  \* files
  wal,           \* the frames of the log
  walSalt,       \* the salt in the header of the log file, 0 if it is empty
  db,            \* the database file
  \* each connection
  hdr, minFrame, readLock,
  pick,          \* mxI and mxReadMark of walTryBeginRead
  cached,        \* the transaction whose image the page cache holds
  pc,
  \* the writer and the checkpointer, one at a time
  spilled,       \* pages the open transaction has in the log already
  ckpt,          \* locals of walCheckpoint
  \* bookkeeping
  image,         \* the database image of each transaction that reached a commit
  latest,        \* the last committed transaction
  nTx, nSalt

shmVars  == <<aHdr, nBackfill, aReadMark>>
lockVars == <<writeLock, ckptLock>>
fileVars == <<wal, walSalt, db>>
readVars == <<minFrame, readLock, pick>>
txVars   == <<spilled, image, latest, nTx, nSalt>>
vars == <<shmVars, lockVars, fileVars, readVars, hdr, cached, pc, ckpt,
          txVars>>

Marks    == 1..NReader
NotUsed  == MaxFrame + 1            \* READMARK_NOT_USED
ZeroHdr  == [mx |-> 0, salt |-> 0, tx |-> 0]
Hdr      == [mx : 0..MaxFrame, salt : 0..MaxSalt, tx : 0..MaxTx]
NoFrame  == [pg |-> 0, tx |-> 0, commit |-> FALSE, salt |-> 0, prev |-> 0]
NoPick   == [i |-> 0, m |-> 0]
NoCkpt   == [mode |-> "none", mxSafe |-> 0, i |-> 0,
             iter |-> [p \in Page |-> 0], changed |-> FALSE]

ReadPcs    == {"read", "write", "publish1", "publish0"}
RestartPcs == {"restart0", "restartInfo", "restartMarks"}
RecoverPcs == {"recover0", "recoverInfo"}
CkptPcs    == {"ckHdr", "ckTest", "ckScan", "ckCopy", "ckTail"}
Pcs == {"idle", "choose", "lock0", "mark", "lockMark", "loadBackfill",
         "checkMark"}
         \cup ReadPcs \cup RestartPcs \cup RecoverPcs \cup CkptPcs

TypeOK ==
  /\ aHdr \in [0..1 -> Hdr]
  /\ nBackfill \in 0..MaxFrame
  /\ aReadMark \in [Marks -> 0..NotUsed]
  /\ writeLock \in Conn \cup {NoConn} /\ ckptLock \in Conn \cup {NoConn}
  /\ wal \in [1..MaxFrame -> [pg : Page \cup {0}, tx : 0..MaxTx,
                              commit : BOOLEAN, salt : 0..MaxSalt,
                              prev : 0..MaxTx]]
  /\ walSalt \in 0..MaxSalt
  /\ db \in [Page -> 1..MaxTx]
  /\ hdr \in [Conn -> Hdr]
  /\ minFrame \in [Conn -> 0..MaxFrame + 1]
  /\ readLock \in [Conn -> -1..NReader]
  /\ pick \in [Conn -> [i : 0..NReader, m : 0..NotUsed]]
  /\ cached \in [Conn -> 0..MaxTx]
  /\ pc \in [Conn -> Pcs]
  /\ spilled \subseteq Page
  /\ ckpt \in [mode : Modes \cup {"none", "PASSIVE"}, mxSafe : 0..MaxFrame,
               i : 0..NReader + 1, iter : [Page -> 0..MaxFrame],
               changed : BOOLEAN]
  /\ latest \in 1..MaxTx /\ nTx \in 1..MaxTx /\ nSalt \in 0..MaxSalt

\* A new database: an empty log and a wal-index nobody has initialised.
Init ==
  /\ aHdr = [i \in 0..1 |-> ZeroHdr]
  /\ nBackfill = 0
  /\ aReadMark = [i \in Marks |-> 0]
  /\ writeLock = NoConn /\ ckptLock = NoConn
  /\ wal = [f \in 1..MaxFrame |-> NoFrame]
  /\ walSalt = 0
  /\ db = [p \in Page |-> 1]
  /\ hdr = [c \in Conn |-> ZeroHdr]
  /\ minFrame = [c \in Conn |-> 0]
  /\ readLock = [c \in Conn |-> -1]
  /\ pick = [c \in Conn |-> NoPick]
  /\ cached = [c \in Conn |-> 0]
  /\ pc = [c \in Conn |-> "idle"]
  /\ spilled = {}
  /\ ckpt = NoCkpt
  /\ image = [t \in 1..MaxTx |-> [p \in Page |-> 1]]
  /\ latest = 1 /\ nTx = 1 /\ nSalt = 0

Goto(c, label) == pc' = [pc EXCEPT ![c] = label]
-----------------------------------------------------------------------------
(* Locks and lookups *)

Shared(i) == {c \in Conn : readLock[c] = i}

\* READ(0) is held exclusively while pages are copied, READ(1..NReader) while
\* the log is being restarted.
Read0Exclusive == \E c \in Conn : pc[c] = "ckCopy"
MarksExclusive == \E c \in Conn : pc[c] \in RestartPcs

MarkFree(i)    == Shared(i) = {} /\ ~MarksExclusive
AllMarksFree   == \A i \in Marks : MarkFree(i)

HeaderGood == aHdr[0] = aHdr[1] /\ aHdr[0] # ZeroHdr
MayWrite(c)   == writeLock \in {c, NoConn}
MayRecover(c) == MayWrite(c) /\ ckptLock \in {c, NoConn}

\* The wal-index entry of frame f: the first frame of a restarted log clears
\* the hash table of the frames before.
FramesOf(p, lo, hi) ==
  {f \in (lo..hi) \ {0} : wal[f].pg = p /\ wal[f].salt = walSalt}

\* walFindFrame, then the log or the database file.
ReadPage(c, p) ==
  LET found == FramesOf(p, minFrame[c], hdr[c].mx)
  IN IF readLock[c] = 0 \/ found = {} THEN db[p] ELSE wal[Max(found)].tx

\* The longest prefix of the log whose salts and checksums are valid.
ValidFrames ==
  {f \in 1..MaxFrame :
     \A g \in 1..f : /\ wal[g].salt = walSalt /\ walSalt # 0
                     /\ wal[g].prev = IF g = 1 THEN 0 ELSE wal[g - 1].tx}

\* Mutant: the last valid frame counts even without a commit mark.
MutRecoveredHdr ==
  IF ValidFrames = {} THEN [mx |-> 0, salt |-> walSalt, tx |-> latest]
  ELSE [mx |-> Max(ValidFrames), salt |-> walSalt,
        tx |-> wal[Max(ValidFrames)].tx]

\* The header walIndexRecover builds from the log file.
RecoveredHdr ==
  LET commits == {f \in ValidFrames : wal[f].commit}
  IN IF commits = {}
     THEN [mx |-> 0, salt |-> walSalt, tx |-> latest]
     ELSE [mx |-> Max(commits), salt |-> walSalt,
           tx |-> wal[Max(commits)].tx]
-----------------------------------------------------------------------------
(* Read transactions: sqlite3WalBeginReadTransaction and walTryBeginRead *)

\* walIndexReadHdr: both copies agree.  While they do not, the WRITE lock is
\* busy, which is a retry, or free, which is a recovery.
BeginRead(c) ==
  /\ pc[c] = "idle" /\ c \in Readers /\ HeaderGood
  /\ hdr' = [hdr EXCEPT ![c] = aHdr[0]]
  /\ cached' = [cached EXCEPT ![c] = IF aHdr[0] = hdr[c] THEN @ ELSE 0]
  /\ Goto(c, "choose")
  /\ UNCHANGED <<shmVars, lockVars, fileVars, readVars, ckpt, txVars>>

\* The log is backfilled whole: ignore it.  Otherwise find a read-mark.
ChooseLog(c) ==
  /\ pc[c] = "choose"
  /\ Goto(c, IF nBackfill = hdr[c].mx THEN "lock0" ELSE "mark")
  /\ UNCHANGED <<shmVars, lockVars, fileVars, readVars, hdr, cached, ckpt,
                 txVars>>

\* The transaction is open: the cache now fills with the image of hdr.
Opened(c) ==
  /\ Goto(c, IF writeLock = c THEN "write" ELSE "read")
  /\ cached' = [cached EXCEPT ![c] = IF @ = 0 THEN hdr[c].tx ELSE @]

\* WAL_RETRY: from the top, or from the read-marks if called by walRestartLog.
Retry(c) ==
  /\ Goto(c, IF writeLock = c THEN "mark" ELSE "idle")
  /\ UNCHANGED cached

LockRead0(c) ==
  /\ pc[c] = "lock0"
  /\ \/ Read0Exclusive /\ Goto(c, "mark") /\ UNCHANGED <<readLock, cached>>
     \/ /\ ~Read0Exclusive /\ aHdr[0] = hdr[c]
        /\ readLock' = [readLock EXCEPT ![c] = 0]
        /\ Opened(c)
     \/ /\ ~Read0Exclusive /\ aHdr[0] # hdr[c]
        /\ Retry(c) /\ UNCHANGED readLock
  /\ UNCHANGED <<shmVars, lockVars, fileVars, minFrame, pick, hdr, ckpt,
                 txVars>>

\* The largest read-mark not beyond hdr.mxFrame; if it falls short of it, the
\* first read-mark that is free is set to hdr.mxFrame.
PickMark(c) ==
  LET mx     == hdr[c].mx
      usable == {i \in Marks : aReadMark[i] <= mx}
      best   == CHOOSE i \in usable : \A j \in usable :
                   \/ aReadMark[j] < aReadMark[i]
                   \/ aReadMark[j] = aReadMark[i] /\ j <= i
      exact  == usable # {} /\ aReadMark[best] = mx
      free   == {i \in Marks : MarkFree(i)}
      Take(i, m) == /\ pick' = [pick EXCEPT ![c] = [i |-> i, m |-> m]]
                    /\ Goto(c, "lockMark")
                    /\ UNCHANGED cached
  IN
  /\ pc[c] = "mark"
  /\ \/ /\ ~exact /\ free # {}
        /\ aReadMark' = [aReadMark EXCEPT ![Min(free)] = mx]
        /\ Take(Min(free), mx)
     \/ /\ exact \/ free = {}
        /\ usable # {}
        /\ Take(best, aReadMark[best])
        /\ UNCHANGED aReadMark
     \/ /\ free = {} /\ usable = {}
        /\ Retry(c)
        /\ UNCHANGED <<aReadMark, pick>>
  /\ UNCHANGED <<aHdr, nBackfill, lockVars, fileVars, minFrame, readLock, hdr,
                 ckpt, txVars>>

LockMark(c) ==
  /\ pc[c] = "lockMark"
  /\ IF MarksExclusive
     THEN Retry(c) /\ UNCHANGED readLock
     ELSE /\ readLock' = [readLock EXCEPT ![c] = pick[c].i]
          /\ Goto(c, "loadBackfill")
          /\ UNCHANGED cached
  /\ UNCHANGED <<shmVars, lockVars, fileVars, minFrame, pick, hdr, ckpt,
                 txVars>>

\* Mutant: minFrame is one frame too high.
MutLoadBackfill(c) ==
  /\ pc[c] = "loadBackfill"
  /\ minFrame' = [minFrame EXCEPT ![c] = nBackfill + 2]
  /\ Goto(c, "checkMark")
  /\ UNCHANGED <<shmVars, lockVars, fileVars, readLock, pick, hdr, cached, ckpt,
                 txVars>>

\* The frames up to nBackfill will be read from the database file.
LoadBackfill(c) ==
  /\ pc[c] = "loadBackfill"
  /\ minFrame' = [minFrame EXCEPT ![c] = nBackfill + 1]
  /\ Goto(c, "checkMark")
  /\ UNCHANGED <<shmVars, lockVars, fileVars, readLock, pick, hdr, cached, ckpt,
                 txVars>>

\* Neither the read-mark nor the header may have changed meanwhile.
CheckMark(c) ==
  /\ pc[c] = "checkMark"
  /\ IF aReadMark[pick[c].i] = pick[c].m /\ aHdr[0] = hdr[c]
     THEN Opened(c) /\ UNCHANGED <<readLock, minFrame>>
     ELSE /\ readLock' = [readLock EXCEPT ![c] = -1]
          /\ minFrame' = [minFrame EXCEPT ![c] = 0]
          /\ Retry(c)
  /\ pick' = [pick EXCEPT ![c] = NoPick]
  /\ UNCHANGED <<shmVars, lockVars, fileVars, hdr, ckpt, txVars>>

\* minFrame is not used outside a transaction.
EndRead(c) ==
  /\ pc[c] = "read"
  /\ Goto(c, "idle")
  /\ readLock' = [readLock EXCEPT ![c] = -1]
  /\ minFrame' = [minFrame EXCEPT ![c] = 0]
  /\ UNCHANGED <<shmVars, lockVars, fileVars, pick, hdr, cached, ckpt, txVars>>
-----------------------------------------------------------------------------
(* Recovery: walIndexRecover, with the WRITE and the CKPT lock *)

Checkpointing(c) == ckpt.mode # "none" /\ ckptLock = c

RecoverScan(c) ==
  /\ \/ pc[c] = "idle" /\ c \in Readers
     \/ pc[c] = "ckHdr"
  /\ ~HeaderGood /\ MayRecover(c)
  /\ writeLock' = c /\ ckptLock' = c
  /\ hdr' = [hdr EXCEPT ![c] = RecoveredHdr]
  /\ IF pc[c] = "idle"
     THEN cached' = [cached EXCEPT ![c] = 0] /\ UNCHANGED ckpt
     ELSE ckpt' = [ckpt EXCEPT !.changed = TRUE] /\ UNCHANGED cached
  /\ aHdr' = [aHdr EXCEPT ![1] = RecoveredHdr]
  /\ Goto(c, "recover0")
  /\ UNCHANGED <<nBackfill, aReadMark, fileVars, readVars, txVars>>

RecoverHdr0(c) ==
  /\ pc[c] = "recover0"
  /\ aHdr' = [aHdr EXCEPT ![0] = hdr[c]]
  /\ latest' = hdr[c].tx
  /\ Goto(c, "recoverInfo")
  /\ UNCHANGED <<nBackfill, aReadMark, lockVars, fileVars, readVars, hdr,
                 cached, ckpt, spilled, image, nTx, nSalt>>

\* Reset what readers and checkpoints have noted, but for the read-marks in use.
RecoverInfo(c) ==
  /\ pc[c] = "recoverInfo"
  /\ nBackfill' = 0
  /\ aReadMark' = [i \in Marks |->
                     IF ~MarkFree(i) THEN aReadMark[i]
                     ELSE IF i = 1 /\ hdr[c].mx > 0 THEN hdr[c].mx ELSE NotUsed]
  /\ IF Checkpointing(c)
     THEN /\ writeLock' = IF ckpt.mode = "PASSIVE" THEN NoConn ELSE c
          /\ UNCHANGED ckptLock
          /\ Goto(c, "ckTest")
     ELSE /\ writeLock' = NoConn /\ ckptLock' = NoConn
          /\ Goto(c, "choose")
  /\ UNCHANGED <<aHdr, fileVars, readVars, hdr, cached, ckpt, txVars>>
-----------------------------------------------------------------------------
(* Write transactions *)

\* Mutant: the snapshot is not compared with the live header.
MutBeginWrite(c) ==
  /\ pc[c] = "read" /\ c \in Writers
  /\ writeLock = NoConn /\ nTx < MaxTx
  /\ writeLock' = c
  /\ Goto(c, "write")
  /\ UNCHANGED <<shmVars, ckptLock, fileVars, readVars, hdr, cached, ckpt,
                 txVars>>

\* A snapshot that is not the newest cannot be written to.
BeginWrite(c) ==
  /\ pc[c] = "read" /\ c \in Writers
  /\ writeLock = NoConn /\ nTx < MaxTx
  /\ hdr[c] = aHdr[0]
  /\ writeLock' = c
  /\ Goto(c, "write")
  /\ UNCHANGED <<shmVars, ckptLock, fileVars, readVars, hdr, cached, ckpt,
                 txVars>>

\* walRestartHdr, up to the first copy of the header.
RestartHeader(c) ==
  LET h == [hdr[c] EXCEPT !.mx = 0, !.salt = nSalt + 1] IN
  /\ AllMarksFree /\ nSalt < MaxSalt
  /\ nSalt' = nSalt + 1
  /\ hdr' = [hdr EXCEPT ![c] = h]
  /\ aHdr' = [aHdr EXCEPT ![1] = h]
  /\ Goto(c, "restart0")

\* walRestartLog, first thing in walFrames: the log is restarted if it is
\* backfilled whole and nobody reads from it.
RestartLog(c) ==
  /\ pc[c] = "write" /\ readLock[c] = 0 /\ nBackfill > 0
  /\ RestartHeader(c)
  /\ UNCHANGED <<nBackfill, aReadMark, lockVars, fileVars, readVars, cached,
                 ckpt, spilled, image, latest, nTx>>

\* Otherwise the writer only needs a read-mark in place of READ(0).
KeepLog(c) ==
  /\ pc[c] = "write" /\ readLock[c] = 0
  /\ nBackfill = 0 \/ ~AllMarksFree
  /\ readLock' = [readLock EXCEPT ![c] = -1]
  /\ Goto(c, "mark")
  /\ UNCHANGED <<shmVars, lockVars, fileVars, minFrame, pick, hdr, cached, ckpt,
                 txVars>>

\* The code does not keep a checkpoint from being between its read of the
\* header and its lock on READ(0); the runs and the theorems that exclude the
\* consequences of such a stale header hold the restart back until then.
RestartHdr0(c) ==
  /\ pc[c] = "restart0"
  /\ (\E d \in Conn : pc[d] \in {"ckTest", "ckScan"}) => StaleCheckpoints
  /\ aHdr' = [aHdr EXCEPT ![0] = hdr[c]]
  /\ Goto(c, "restartInfo")
  /\ UNCHANGED <<nBackfill, aReadMark, lockVars, fileVars, readVars, hdr,
                 cached, ckpt, txVars>>

\* Mutant: nBackfill is not reset.
MutRestartBackfill(c) ==
  /\ pc[c] = "restartInfo"
  /\ Goto(c, "restartMarks")
  /\ UNCHANGED <<shmVars, lockVars, fileVars, readVars, hdr, cached, ckpt,
                 txVars>>

RestartBackfill(c) ==
  /\ pc[c] = "restartInfo"
  /\ nBackfill' = 0
  /\ Goto(c, "restartMarks")
  /\ UNCHANGED <<aHdr, aReadMark, lockVars, fileVars, readVars, hdr, cached,
                 ckpt, txVars>>

FreshMarks == [i \in Marks |-> IF i = 1 THEN 0 ELSE NotUsed]

\* The writer goes on to a read-mark of the new log.
RestartMarks(c) ==
  /\ pc[c] = "restartMarks" /\ ~Checkpointing(c)
  /\ aReadMark' = FreshMarks
  /\ readLock' = [readLock EXCEPT ![c] = -1]
  /\ Goto(c, "mark")
  /\ UNCHANGED <<aHdr, nBackfill, lockVars, fileVars, minFrame, pick, hdr,
                 cached, ckpt, txVars>>

\* The first frame of the log takes the salt of the restart, or a new one if
\* this connection has neither restarted nor recovered a log (its nCkpt is 0).
SaltChoice(c) ==
  IF hdr[c].mx > 0 THEN {hdr[c].salt}
  ELSE ({hdr[c].salt} \ {0}) \cup ({nSalt + 1} \cap (1..MaxSalt))

\* walFrames: the pages of W go to the log, in page order.  A page already
\* there is overwritten in place, unless it is the one with the commit mark.
WalFrames(c, W, isCommit, salt) ==
  LET mx     == hdr[c].mx
      append == IF isCommit THEN (W \ spilled) \cup {Max(W)} ELSE W \ spilled
      last   == mx + Cardinality(append)
      tx     == IF spilled = {} THEN nTx + 1 ELSE nTx
      Nth(n) == CHOOSE p \in append :
                  Cardinality({q \in append : q <= p}) = n
      Frame(f) == [pg |-> Nth(f - mx), tx |-> tx, salt |-> salt,
                   commit |-> isCommit /\ f = last,
                   prev |-> IF f = 1 THEN 0
                            ELSE IF f = mx + 1 THEN wal[mx].tx ELSE tx]
  IN
  /\ pc[c] = "write" /\ readLock[c] > 0
  /\ append # {} /\ last <= MaxFrame
  /\ salt \in SaltChoice(c)
  /\ wal' = [f \in 1..MaxFrame |-> IF f \in (mx + 1)..last THEN Frame(f)
                                   ELSE wal[f]]
  /\ walSalt' = salt
  /\ nSalt' = Max({nSalt, salt})
  /\ nTx' = tx
  /\ IF isCommit
     THEN /\ hdr' = [hdr EXCEPT ![c] = [mx |-> last, salt |-> salt, tx |-> tx]]
          /\ image' = [image EXCEPT ![tx] =
                         [p \in Page |-> IF p \in W \cup spilled THEN tx
                                         ELSE image[hdr[c].tx][p]]]
          /\ cached' = [cached EXCEPT ![c] = tx]
          /\ spilled' = {}
          /\ Goto(c, "publish1")
     ELSE /\ hdr' = [hdr EXCEPT ![c].mx = last, ![c].salt = salt]
          /\ spilled' = spilled \cup W
          /\ UNCHANGED <<image, cached, pc>>
  /\ UNCHANGED <<shmVars, lockVars, db, readVars, ckpt, latest>>

\* The cache spills a page, or the transaction commits.
SpillPage(c) ==
  \E p \in Page, salt \in 1..MaxSalt : WalFrames(c, {p}, FALSE, salt)
CommitFrames(c) ==
  \E W \in (SUBSET Page) \ {{}}, salt \in 1..MaxSalt :
    WalFrames(c, W, TRUE, salt)

\* walIndexWriteHdr writes copy 1, then copy 0.
Publish1(c) ==
  /\ pc[c] = "publish1"
  /\ aHdr' = [aHdr EXCEPT ![1] = hdr[c]]
  /\ Goto(c, "publish0")
  /\ UNCHANGED <<nBackfill, aReadMark, lockVars, fileVars, readVars, hdr,
                 cached, ckpt, txVars>>

Publish0(c) ==
  /\ pc[c] = "publish0"
  /\ aHdr' = [aHdr EXCEPT ![0] = hdr[c]]
  /\ latest' = hdr[c].tx
  /\ writeLock' = NoConn
  /\ Goto(c, "read")
  /\ UNCHANGED <<nBackfill, aReadMark, ckptLock, fileVars, readVars, hdr,
                 cached, ckpt, spilled, image, nTx, nSalt>>

\* sqlite3WalUndo and sqlite3WalEndWriteTransaction; the pager drops the pages
\* the transaction changed from its cache.
Rollback(c) ==
  /\ pc[c] = "write"
  /\ hdr' = [hdr EXCEPT ![c] = aHdr[0]]
  /\ spilled' = {}
  /\ writeLock' = NoConn
  /\ Goto(c, "read")
  /\ UNCHANGED <<shmVars, ckptLock, fileVars, readVars, cached, ckpt, image,
                 latest, nTx, nSalt>>
-----------------------------------------------------------------------------
(* Checkpoints: sqlite3WalCheckpoint and walCheckpoint *)

\* All modes but PASSIVE want the WRITE lock and do without if it is busy.
\* RESTART changes no more than FULL does: it waits for the readers.
CkptBegin(c, m) ==
  /\ pc[c] = "idle" /\ c \in Checkpointers
  /\ ckptLock = NoConn
  /\ m = "TRUNCATE" => nSalt < MaxSalt
  /\ ckptLock' = c
  /\ IF m = "PASSIVE" \/ writeLock # NoConn
     THEN ckpt' = [NoCkpt EXCEPT !.mode = "PASSIVE"] /\ UNCHANGED writeLock
     ELSE ckpt' = [NoCkpt EXCEPT !.mode = m] /\ writeLock' = c
  /\ Goto(c, "ckHdr")
  /\ UNCHANGED <<shmVars, fileVars, readVars, hdr, cached, txVars>>

\* Mutant: the connection keeps the header the checkpoint has read.
MutCkptEnd(c) ==
  /\ ckptLock' = NoConn
  /\ writeLock' = IF ckpt.mode = "PASSIVE" THEN writeLock ELSE NoConn
  /\ ckpt' = NoCkpt
  /\ Goto(c, "idle")
  /\ UNCHANGED <<hdr, cached>>

\* A header the pager has not seen is forgotten: its cache is stale.
CkptEnd(c) ==
  /\ ckptLock' = NoConn
  /\ writeLock' = IF ckpt.mode = "PASSIVE" THEN writeLock ELSE NoConn
  /\ hdr' = [hdr EXCEPT ![c] = IF ckpt.changed THEN ZeroHdr ELSE @]
  /\ ckpt' = NoCkpt
  /\ Goto(c, "idle")
  /\ UNCHANGED cached

CkptReadHdr(c) ==
  /\ pc[c] = "ckHdr"
  /\ \/ /\ HeaderGood
        /\ hdr' = [hdr EXCEPT ![c] = aHdr[0]]
        /\ ckpt' = [ckpt EXCEPT !.changed = hdr[c] # aHdr[0]]
        /\ Goto(c, "ckTest")
        /\ UNCHANGED <<lockVars, cached>>
     \/ ~HeaderGood /\ ~MayRecover(c) /\ CkptEnd(c)
  /\ UNCHANGED <<shmVars, fileVars, readVars, txVars>>

\* Is there anything to copy?
CkptTest(c) ==
  /\ pc[c] = "ckTest"
  /\ IF nBackfill < hdr[c].mx
     THEN /\ ckpt' = [ckpt EXCEPT !.mxSafe = hdr[c].mx, !.i = 1]
          /\ Goto(c, "ckScan")
     ELSE Goto(c, "ckTail") /\ UNCHANGED ckpt
  /\ UNCHANGED <<shmVars, lockVars, fileVars, readVars, hdr, cached, txVars>>

\* A read-mark below mxSafeFrame is lifted if nobody uses it, else respected.
CkptScan(c) ==
  LET i == ckpt.i
      y == aReadMark[i]
      lift == ckpt.mxSafe > y /\ MarkFree(i)
  IN
  /\ pc[c] = "ckScan" /\ i <= NReader
  /\ aReadMark' = [aReadMark EXCEPT ![i] =
                     IF ~lift THEN @
                     ELSE IF i = 1 THEN ckpt.mxSafe ELSE NotUsed]
  /\ ckpt' = [ckpt EXCEPT !.i = i + 1,
                          !.mxSafe = IF lift THEN @ ELSE Min({@, y})]
  /\ UNCHANGED <<aHdr, nBackfill, lockVars, fileVars, readVars, hdr, cached, pc,
                 txVars>>

\* The last frame of each page in the log, 0 if there is none.
Iterator(c) ==
  [p \in Page |-> LET found == FramesOf(p, 1, hdr[c].mx)
                  IN IF found = {} THEN 0 ELSE Max(found)]

\* The iterator offers each page once, with its last frame; what is backfilled
\* or beyond mxSafeFrame is passed over.  READ(0) keeps the readers of the
\* database file out.
CkptStart(c) ==
  /\ pc[c] = "ckScan" /\ ckpt.i > NReader
  /\ IF nBackfill < ckpt.mxSafe /\ Shared(0) = {}
     THEN /\ ckpt' = [ckpt EXCEPT !.iter = [p \in Page |->
                        IF Iterator(c)[p] \in (nBackfill + 1)..ckpt.mxSafe
                        THEN Iterator(c)[p] ELSE 0]]
          /\ Goto(c, "ckCopy")
     ELSE Goto(c, "ckTail") /\ UNCHANGED ckpt
  /\ UNCHANGED <<shmVars, lockVars, fileVars, readVars, hdr, cached, txVars>>

CkptPending == {p \in Page : ckpt.iter[p] # 0}

CkptCopy(c) ==
  /\ pc[c] = "ckCopy" /\ CkptPending # {}
  /\ LET p == Min(CkptPending) IN
       /\ db' = [db EXCEPT ![p] = wal[ckpt.iter[p]].tx]
       /\ ckpt' = [ckpt EXCEPT !.iter[p] = 0]
  /\ UNCHANGED <<shmVars, lockVars, wal, walSalt, readVars, hdr, cached, pc,
                 txVars>>

CkptFinish(c) ==
  /\ pc[c] = "ckCopy" /\ CkptPending = {}
  /\ nBackfill' = ckpt.mxSafe
  /\ Goto(c, "ckTail")
  /\ UNCHANGED <<aHdr, aReadMark, lockVars, fileVars, readVars, hdr, cached,
                 ckpt, txVars>>

\* sqlite3_interrupt
CkptInterrupt(c) ==
  /\ pc[c] = "ckCopy" /\ CkptPending # {}
  /\ CkptEnd(c)
  /\ UNCHANGED <<shmVars, fileVars, readVars, txVars>>

CkptRestart(c) ==
  /\ pc[c] = "ckTail" /\ ckpt.mode = "TRUNCATE" /\ nBackfill >= hdr[c].mx
  /\ RestartHeader(c)
  /\ UNCHANGED <<nBackfill, aReadMark, lockVars, fileVars, readVars, cached,
                 ckpt, spilled, image, latest, nTx>>

CkptTruncate(c) ==
  /\ pc[c] = "restartMarks" /\ Checkpointing(c)
  /\ aReadMark' = FreshMarks
  /\ wal' = [f \in 1..MaxFrame |-> NoFrame]
  /\ walSalt' = 0
  /\ CkptEnd(c)
  /\ UNCHANGED <<aHdr, nBackfill, db, readVars, txVars>>

CkptReturn(c) ==
  /\ pc[c] = "ckTail"
  /\ ckpt.mode = "TRUNCATE" => nBackfill < hdr[c].mx \/ ~AllMarksFree
  /\ CkptEnd(c)
  /\ UNCHANGED <<shmVars, fileVars, readVars, txVars>>
-----------------------------------------------------------------------------
(* Deaths *)

\* The process of c dies: its locks go, shared memory and files stay.
Die(c) ==
  /\ pc[c] \in DeathPcs
  /\ hdr' = [hdr EXCEPT ![c] = ZeroHdr]
  /\ minFrame' = [minFrame EXCEPT ![c] = 0]
  /\ readLock' = [readLock EXCEPT ![c] = -1]
  /\ pick' = [pick EXCEPT ![c] = NoPick]
  /\ cached' = [cached EXCEPT ![c] = 0]
  /\ Goto(c, "idle")
  /\ writeLock' = IF writeLock = c THEN NoConn ELSE writeLock
  /\ ckptLock' = IF ckptLock = c THEN NoConn ELSE ckptLock
  /\ spilled' = IF writeLock = c THEN {} ELSE spilled
  /\ ckpt' = IF ckptLock = c THEN NoCkpt ELSE ckpt
  /\ UNCHANGED <<shmVars, fileVars, image, latest, nTx, nSalt>>

\* All processes are gone: the next one to open the wal-index zeroes it.
ShmLost ==
  /\ DeathPcs # {} /\ \A c \in Conn : pc[c] = "idle"
  /\ aHdr' = [i \in 0..1 |-> ZeroHdr]
  /\ nBackfill' = 0
  /\ aReadMark' = [i \in Marks |-> 0]
  /\ hdr' = [c \in Conn |-> ZeroHdr]
  /\ cached' = [c \in Conn |-> 0]
  /\ UNCHANGED <<lockVars, fileVars, readVars, pc, ckpt, txVars>>

Reader(c) == \/ BeginRead(c) \/ ChooseLog(c) \/ LockRead0(c) \/ PickMark(c)
             \/ LockMark(c) \/ LoadBackfill(c) \/ CheckMark(c) \/ EndRead(c)
Recovery(c) == RecoverScan(c) \/ RecoverHdr0(c) \/ RecoverInfo(c)
Writer(c) == \/ BeginWrite(c) \/ RestartLog(c) \/ KeepLog(c) \/ RestartHdr0(c)
             \/ RestartBackfill(c) \/ RestartMarks(c) \/ SpillPage(c)
             \/ CommitFrames(c) \/ Publish1(c) \/ Publish0(c) \/ Rollback(c)
Checkpointer(c) == \/ \E m \in Modes : CkptBegin(c, m)
                   \/ CkptReadHdr(c) \/ CkptTest(c) \/ CkptScan(c)
                   \/ CkptStart(c) \/ CkptCopy(c) \/ CkptFinish(c)
                   \/ CkptInterrupt(c) \/ CkptRestart(c) \/ CkptTruncate(c)
                   \/ CkptReturn(c)

Next ==
  \/ \E c \in Conn : Reader(c) \/ Recovery(c) \/ Writer(c) \/ Checkpointer(c)
                     \/ Die(c)
  \/ ShmLost

Spec == Init /\ [][Next]_vars
-----------------------------------------------------------------------------
(* Properties *)

\* A transaction sees one committed image, whatever checkpoints copy and later
\* writers append or restart; the writer sees it with its own changes.
SnapshotRead ==
  \A c \in Conn, p \in Page : pc[c] \in ReadPcs =>
     ReadPage(c, p) = IF writeLock = c /\ p \in spilled THEN nTx
                      ELSE image[hdr[c].tx][p]

\* If every process died now, recovery would find the last committed image, or
\* the one of a commit that was complete in the log but not published.
CommittedSurvives ==
  LET h == RecoveredHdr
      Recovered(p) == LET fs == FramesOf(p, 1, h.mx)
                      IN IF fs = {} THEN db[p] ELSE wal[Max(fs)].tx
  IN /\ h.tx >= latest
     /\ \A p \in Page : Recovered(p) = image[h.tx][p]

\* The page cache of a connection in a transaction holds pages of the snapshot
\* it reads, not of one it read before.
CacheFresh == \A c \in Conn : pc[c] \in ReadPcs => cached[c] = hdr[c].tx

\* The comment on WalCkptInfo: "The nBackfill number is never greater than
\* WalIndexHdr.mxFrame", but for the instant in which the log is restarted.
BackfillWithinLog ==
  (\A c \in Conn : pc[c] \notin RestartPcs \cup RecoverPcs)
    => nBackfill <= aHdr[0].mx

\* In a transaction the writer is on its way from one read lock to another.
InTransaction(c) ==
  \/ pc[c] \in ReadPcs
  \/ /\ writeLock = c /\ ckptLock # c
     /\ pc[c] \in RestartPcs
                  \cup {"mark", "lockMark", "loadBackfill", "checkMark"}

SS == INSTANCE SnapshotStore WITH
        db <- image[latest],
        view <- [c \in Conn |->
                   IF ~InTransaction(c) THEN [p \in Page |-> 0]
                   ELSE IF pc[c] \in ReadPcs
                        THEN [p \in Page |-> ReadPage(c, p)]
                   ELSE image[hdr[c].tx]],
        writer <- IF writeLock # NoConn /\ InTransaction(writeLock)
                  THEN writeLock ELSE NoConn

\* Seen from the pagers, the log is a store of snapshots with one writer.
ImplementsSnapshotStore == SS!SSSpec
=============================================================================
