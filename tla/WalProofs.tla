------------------------------ MODULE WalProofs -----------------------------
(***************************************************************************)
(* What the log, the database file and the wal-index say of the commits.   *)
(* LogInv is the inductive invariant behind snapshot isolation and the     *)
(* survival of commits: which frames are valid, which image the frames up  *)
(* to a commit make up with the database file, what the published header   *)
(* says, what each header a connection has read says, and what a           *)
(* checkpoint may copy. The proof of each action has one step per part of  *)
(* LogInv that the action can disturb. Then the properties of the runs of  *)
(* Wal that LogInv implies, and the refinement of SnapshotStore: what the  *)
(* connections read and commit through the log, the wal-index, the read-   *)
(* marks and the database file is what they would read and commit in a     *)
(* store that knows only snapshots.                                        *)
(***************************************************************************)
EXTENDS WalControlProofs

-----------------------------------------------------------------------------
(* What the log and the database file hold *)

ScanPcs == {"ckScan", "ckCopy"}

\* The database file is at least as new as the image of t, and no newer.
LB(t) == \A p \in Page : db[p] >= image[t][p]
UB(t) == \A p \in Page : db[p] <= image[t][p]

\* The transaction of h is the one that ends at frame h.mx of the log.
InLog(h) ==
  /\ h.mx \in ValidFrames /\ wal[h.mx].commit /\ wal[h.mx].tx = h.tx
  /\ h.salt = walSalt
Whole(h) == IF h.mx > 0 THEN InLog(h) ELSE LB(h.tx)

\* Frame l is the last one of page p among 1..n.
LastAt(p, l, n) ==
  /\ l \in 1..n /\ wal[l].pg = p
  /\ \A g \in 1..n : g > l => wal[g].pg # p
Absent(p, n) == \A g \in 1..n : wal[g].pg # p

\* The frames 1..m are in the database file, or a frame up to n replaces them.
Filled(m, n) ==
  \A f \in 1..m : \/ \E g \in 1..n : g > m /\ wal[g].pg = wal[f].pg
                  \/ db[wal[f].pg] >= wal[f].tx

LogTypes ==
  /\ image \in [1..MaxTx -> [Page -> 1..MaxTx]]
  /\ db \in [Page -> 1..MaxTx] /\ latest \in 1..nTx

\* Transactions follow each other in the log.
ChainInv ==
  /\ \A f \in ValidFrames : wal[f].pg \in Page /\ wal[f].tx >= 1
  /\ \A f, g \in ValidFrames : f < g =>
       /\ wal[f].tx <= wal[g].tx
       /\ wal[f].commit => wal[f].tx < wal[g].tx
  /\ \A f \in 1..MaxFrame : wal[f].tx <= nTx /\ wal[f].prev <= nTx

\* The frames up to a commit make up its image, with the database file for the
\* pages that have none.
ImageOf(f) ==
  LET t == wal[f].tx IN
  \A p \in Page :
    /\ \A l \in 1..f : LastAt(p, l, f) => wal[l].tx = image[t][p]
    /\ Absent(p, f) => db[p] >= image[t][p]
    /\ t >= latest => image[t][p] >= image[latest][p]

ImageInv ==
  /\ \A f \in ValidFrames : wal[f].commit => ImageOf(f)
  /\ \A t \in 1..MaxTx, p \in Page : image[t][p] <= t
  /\ UB(latest)

RecoverableInv ==
  \/ \E f \in ValidFrames : wal[f].commit /\ wal[f].tx >= latest
  \/ LB(latest) /\ \A f \in ValidFrames : ~wal[f].commit

\* The header in shared memory is that of the last commit, unless the
\* wal-index waits for a recovery.
PublishedInv ==
  /\ IF aHdr[0] = ZeroHdr
     THEN /\ nBackfill = 0
          /\ \A c \in Conn : pc[c] \in {"idle", "recover0", "ckHdr"}
     ELSE aHdr[0].tx = latest /\ Whole(aHdr[0])
  /\ \/ nBackfill <= aHdr[0].mx /\ Filled(nBackfill, aHdr[0].mx)
     \/ \E c \in Conn : pc[c] = "restartInfo"

\* The frames an open transaction has spilled.
SpillOf(w) ==
  /\ nTx > latest /\ hdr[w].salt = walSalt
  /\ hdr[w].mx > aHdr[0].mx /\ hdr[w].mx \in ValidFrames
  /\ \A f \in 1..hdr[w].mx : f > aHdr[0].mx =>
       wal[f].tx = nTx /\ ~wal[f].commit /\ wal[f].pg \in spilled
  /\ \A p \in spilled : \E f \in 1..hdr[w].mx : f > aHdr[0].mx /\ wal[f].pg = p
  /\ \A f \in 1..MaxFrame : f > hdr[w].mx => wal[f].prev < nTx

SpillInv == spilled # {} => SpillOf(writeLock)

\* What the header a connection holds says at each step.
HeaderOf(c) ==
  /\ pc[c] \notin {"recover0", "publish1", "publish0"} => hdr[c].tx <= latest
  /\ pc[c] \notin {"idle", "ckHdr"} => hdr[c].tx >= 1
  /\ pc[c] = "choose" /\ hdr[c].tx = latest => hdr[c] = aHdr[0] \/ LB(latest)
  /\ pc[c] = "lock0" /\ hdr[c].tx = latest => LB(latest)
  /\ pc[c] \in {"lockMark", "loadBackfill", "checkMark"}
       => pick[c].m <= hdr[c].mx
  /\ pc[c] = "write" => hdr[c].tx = latest /\ (spilled = {} => hdr[c] = aHdr[0])
  /\ pc[c] \in TransitPcs /\ writeLock = c => hdr[c] = aHdr[0]
  /\ pc[c] \in PublishPcs =>
       /\ hdr[c].tx = nTx /\ nTx > latest
       /\ InLog(hdr[c]) /\ hdr[c].mx > aHdr[0].mx
  /\ pc[c] = "recover0" => hdr[c] = RecoveredHdr
  /\ pc[c] = "recoverInfo" => hdr[c] = aHdr[0]
  /\ pc[c] \in RestartPcs => hdr[c].mx = 0 /\ hdr[c].tx = latest /\ LB(latest)
  /\ pc[c] \in {"restartInfo", "restartMarks"} => hdr[c] = aHdr[0]
  /\ pc[c] = "restartMarks" => nBackfill = 0

\* The snapshot a connection reads: what its own spilled frames come on top of.
Base(c) == IF pc[c] = "read" THEN hdr[c] ELSE aHdr[0]

ReaderOf(c) ==
  /\ pc[c] = "checkMark" => /\ minFrame[c] \in 1..(aHdr[0].mx + 1)
                            /\ Filled(minFrame[c] - 1, aHdr[0].mx)
  /\ pc[c] \in ReadPcs => UB(Base(c).tx)
  /\ pc[c] \in ReadPcs /\ readLock[c] = 0 => LB(Base(c).tx)
  /\ pc[c] \in ReadPcs /\ readLock[c] > 0 =>
       /\ Whole(Base(c)) /\ Base(c).mx <= aHdr[0].mx
       /\ minFrame[c] \in 1..(Base(c).mx + 1)
       /\ Filled(minFrame[c] - 1, Base(c).mx)
       /\ aReadMark[readLock[c]] <= Base(c).mx

\* A checkpoint copies nothing beyond the snapshot of a reader whose mark it
\* has passed.
MarksRespected ==
  \A c, d \in Conn :
    /\ pc[c] \in ReadPcs /\ readLock[c] > 0
    /\ pc[d] \in ScanPcs /\ ckpt.i > readLock[c]
    => ckpt.mxSafe <= Base(c).mx

\* The page is still to be copied, or is there, or is not to be copied.
IterOf(c, p) ==
  /\ \A l \in 1..hdr[c].mx : LastAt(p, l, hdr[c].mx) =>
       IF l > nBackfill /\ l <= ckpt.mxSafe
       THEN ckpt.iter[p] = l \/ (ckpt.iter[p] = 0 /\ db[p] >= wal[l].tx)
       ELSE ckpt.iter[p] = 0
  /\ Absent(p, hdr[c].mx) => ckpt.iter[p] = 0

CkptOf(c) ==
  /\ pc[c] \in {"ckTest", "ckScan", "ckCopy"} =>
       /\ hdr[c].mx = 0 \/ (InLog(hdr[c]) /\ hdr[c].mx <= aHdr[0].mx)
       /\ UB(hdr[c].tx)
  /\ pc[c] \in {"ckTest", "ckScan", "ckCopy", "ckTail"} /\ ckpt.mode # "PASSIVE"
       => hdr[c] = aHdr[0]
  /\ pc[c] \in ScanPcs => 0 < hdr[c].mx /\ ckpt.mxSafe <= hdr[c].mx
  /\ pc[c] = "ckCopy" => /\ nBackfill < ckpt.mxSafe /\ ckpt.i > NReader
                         /\ \A p \in Page : IterOf(c, p)

LogInv ==
  /\ LogTypes /\ ChainInv /\ ImageInv /\ RecoverableInv /\ PublishedInv
  /\ SpillInv /\ MarksRespected
  /\ \A c \in Conn : HeaderOf(c) /\ ReaderOf(c) /\ CkptOf(c)

-----------------------------------------------------------------------------
USE DEF Marks, NotUsed, ReadPcs, RestartPcs, RecoverPcs, CkptPcs, WriterPcs,
        TransitPcs, PublishPcs, ScanPcs, Goto, shmVars, lockVars, fileVars,
        readVars, txVars

(* Frames *)

\* The valid frames are a prefix of the log, all with its salt.
LEMMA ValidPrefix ==
  /\ ValidFrames \in SUBSET (1..MaxFrame)
  /\ \A f \in ValidFrames : /\ \A g \in 1..f : g \in ValidFrames
                            /\ wal[f].salt = walSalt /\ walSalt # 0
<1>1. ValidFrames \in SUBSET (1..MaxFrame)
  BY DEF ValidFrames
<1>2. ASSUME NEW f \in ValidFrames, NEW g \in 1..f
      PROVE  g \in ValidFrames
  <2>1. f \in 1..MaxFrame /\ g \in 1..MaxFrame
    BY <1>1, Bounds
  <2>2. \A k \in 1..g : k \in 1..f
    BY <2>1
  <2>. QED
    BY <2>1, <2>2 DEF ValidFrames
<1>3. ASSUME NEW f \in ValidFrames
      PROVE  wal[f].salt = walSalt /\ walSalt # 0
  <2>1. f \in 1..f
    BY <1>1
  <2>. QED
    BY <2>1 DEF ValidFrames
<1>. QED
  BY <1>1, <1>2, <1>3

\* The fields of a frame.
LEMMA FrameFields ==
  ASSUME TypeBase, NEW f \in 1..MaxFrame
  PROVE  /\ wal[f] \in FrameType /\ wal[f].tx \in 0..MaxTx
         /\ wal[f].prev \in 0..MaxTx /\ wal[f].commit \in BOOLEAN
BY DEF TypeBase, TypeShared, FrameType

\* The fields of the headers.
LEMMA HdrFields ==
  ASSUME TypeBase
  PROVE  /\ aHdr[0] \in Hdr /\ aHdr[0].mx \in 0..MaxFrame
         /\ aHdr[0].tx \in 0..MaxTx /\ aHdr[0].salt \in 0..MaxSalt
         /\ \A c \in Conn : /\ hdr[c] \in Hdr /\ hdr[c].mx \in 0..MaxFrame
                            /\ hdr[c].tx \in 0..MaxTx
                            /\ hdr[c].salt \in 0..MaxSalt
<1>1. aHdr[0] \in Hdr /\ \A c \in Conn : hdr[c] \in Hdr
  BY DEF TypeBase, TypeShared
<1>2. \A h \in Hdr : /\ h.mx \in 0..MaxFrame /\ h.tx \in 0..MaxTx
                     /\ h.salt \in 0..MaxSalt
  BY DEF Hdr
<1>. QED
  BY <1>1, <1>2

\* Two headers with the same fields are the same.
LEMMA SameHdr ==
  ASSUME NEW h \in Hdr, NEW g \in Hdr,
         h.mx = g.mx, h.salt = g.salt, h.tx = g.tx
  PROVE  h = g
BY DEF Hdr

\* A page that has a frame among 1..n has a last one.
LEMMA LastExists ==
  ASSUME NEW n \in 0..MaxFrame, NEW p
  PROVE  Absent(p, n) \/ \E l \in 1..n : LastAt(p, l, n)
<1>. DEFINE S == {f \in 1..n : wal[f].pg = p}
<1>1. CASE S = {}
  BY <1>1 DEF Absent
<1>2. CASE S # {}
  <2>1. IsFiniteSet(S) /\ S \subseteq Int
    <3>1. IsFiniteSet(1..n)
      BY FS_Interval
    <3>2. S \in SUBSET (1..n)
      OBVIOUS
    <3>3. IsFiniteSet(S)
      BY <3>1, <3>2, FS_Subset
    <3>. QED
      BY <3>2, <3>3
  <2>2. Max(S) \in S /\ \A y \in S : y <= Max(S)
    <3>. HIDE DEF S
    <3>. QED
      BY <1>2, <2>1, MaxIn
  <2>3. Max(S) \in 1..n /\ wal[Max(S)].pg = p
    BY <2>2
  <2>4. ASSUME NEW g \in 1..n, g > Max(S) PROVE wal[g].pg # p
    <3>1. g \in S => g <= Max(S)
      BY <2>2
    <3>2. Max(S) \in Int /\ g \in Int
      BY <2>3
    <3>. HIDE DEF S
    <3>3. g \notin S
      BY <2>4, <3>1, <3>2
    <3>. QED
      BY <3>3 DEF S
  <2>5. LastAt(p, Max(S), n)
    BY <2>3, <2>4 DEF LastAt
  <2>. QED
    BY <2>3, <2>5
<1>. QED
  BY <1>1, <1>2

\* The last frame of a page is not older than another one.
LEMMA LastNewest ==
  ASSUME TypeBase, ChainInv, NEW n \in ValidFrames, NEW p,
         NEW l \in 1..n, LastAt(p, l, n), NEW f \in 1..n, wal[f].pg = p
  PROVE  f <= l /\ wal[f].tx <= wal[l].tx
<1>1. n \in 1..MaxFrame /\ f \in ValidFrames /\ l \in ValidFrames
  BY ValidPrefix
<1>2. f <= l
  BY <1>1 DEF LastAt
<1>3. f \in 1..MaxFrame /\ l \in 1..MaxFrame
  BY <1>1, ValidPrefix
<1>4. f < l => wal[f].tx <= wal[l].tx
  BY <1>1 DEF ChainInv
<1>5. wal[l].tx \in Int
  BY <1>3, FrameFields
<1>. QED
  BY <1>2, <1>3, <1>4, <1>5

\* With all its frames in the database file, so is the image of a commit.
LEMMA FilledWhole ==
  ASSUME TypeBase, LogTypes, ImageInv, NEW h, h.mx \in 1..MaxFrame, InLog(h),
         Filled(h.mx, h.mx), h.tx \in 1..MaxTx
  PROVE  LB(h.tx)
<1>1. ImageOf(h.mx) /\ wal[h.mx].tx = h.tx
  BY DEF InLog, ImageInv
<1>2. SUFFICES ASSUME NEW p \in Page PROVE db[p] >= image[h.tx][p]
  BY DEF LB
<1>3. CASE Absent(p, h.mx)
  BY <1>1, <1>3 DEF ImageOf
<1>4. ASSUME NEW l \in 1..h.mx, LastAt(p, l, h.mx)
      PROVE  db[p] >= image[h.tx][p]
  <2>1. wal[l].tx = image[h.tx][p]
    BY <1>1, <1>4 DEF ImageOf
  <2>2. wal[l].pg = p
    BY <1>4 DEF LastAt
  <2>3. ~\E g \in 1..h.mx : g > h.mx
    OBVIOUS
  <2>4. db[wal[l].pg] >= wal[l].tx
    BY <2>3 DEF Filled
  <2>. QED
    BY <2>1, <2>2, <2>4
<1>. QED
  BY <1>3, <1>4, LastExists

\* What a reader finds: the last frame that is not in the database file yet, or
\* the page there.
LEMMA SnapshotValue ==
  ASSUME TypeBase, LogTypes, ImageInv, ChainInv,
         NEW h, h.mx \in 1..MaxFrame, h.tx \in 1..MaxTx, InLog(h), UB(h.tx),
         NEW m \in 0..h.mx, Filled(m, h.mx), NEW p \in Page
  PROVE  /\ \A l \in 1..h.mx : LastAt(p, l, h.mx) =>
              wal[l].tx = image[h.tx][p]
         /\ (\A g \in 1..h.mx : g > m => wal[g].pg # p) =>
              db[p] = image[h.tx][p]
<1>1. ImageOf(h.mx) /\ wal[h.mx].tx = h.tx /\ h.mx \in ValidFrames
  BY DEF InLog, ImageInv
<1>2. \A l \in 1..h.mx : LastAt(p, l, h.mx) => wal[l].tx = image[h.tx][p]
  BY <1>1 DEF ImageOf
<1>3. ASSUME \A g \in 1..h.mx : g > m => wal[g].pg # p
      PROVE  db[p] = image[h.tx][p]
  <2>1. db[p] <= image[h.tx][p]
    BY DEF UB
  <2>2. db[p] \in Int /\ image[h.tx][p] \in Int
    BY DEF LogTypes
  <2>3. db[p] >= image[h.tx][p]
    <3>1. CASE Absent(p, h.mx)
      BY <1>1, <3>1 DEF ImageOf
    <3>2. ASSUME NEW l \in 1..h.mx, LastAt(p, l, h.mx)
          PROVE  db[p] >= image[h.tx][p]
      <4>1. wal[l].pg = p
        BY <3>2 DEF LastAt
      <4>2. l \in 1..m
        BY <1>3, <4>1
      <4>3. ~\E g \in 1..h.mx : g > m /\ wal[g].pg = wal[l].pg
        BY <1>3, <4>1
      <4>4. db[wal[l].pg] >= wal[l].tx
        BY <4>2, <4>3 DEF Filled
      <4>. QED
        BY <1>2, <3>2, <4>1, <4>4
    <3>. QED
      BY <3>1, <3>2, LastExists
  <2>. QED
    BY <2>1, <2>2, <2>3
<1>. QED
  BY <1>2, <1>3

-----------------------------------------------------------------------------
(* What another connection knows, after a step of c *)

\* The log keeps what the published header covers, the database file only gets
\* newer, and so does the published header.
Advance ==
  /\ \A f \in 1..aHdr[0].mx :
       wal'[f] = wal[f] /\ (f \in ValidFrames => f \in ValidFrames')
  /\ aHdr[0].mx > 0 => walSalt' = walSalt
  /\ \A t \in 1..latest : image'[t] = image[t]
  /\ \A p \in Page : db'[p] >= db[p]
  /\ latest' >= latest /\ aHdr'[0].mx >= aHdr[0].mx
  /\ latest' = latest =>
       aHdr'[0] = aHdr[0] \/ LB(latest) \/ aHdr[0] = ZeroHdr

\* What a lock of d protects stays.
Excluded(d) ==
  /\ writeLock = d => /\ aHdr'[0] = aHdr[0] /\ latest' = latest /\ nTx' = nTx
                      /\ spilled' = spilled /\ wal' = wal /\ walSalt' = walSalt
  /\ ckptLock = d => ckpt' = ckpt /\ db' = db
  /\ pc[d] \in RestartPcs \cup {"ckCopy"} => nBackfill' = nBackfill
  /\ readLock[d] \in Marks => aReadMark'[readLock[d]] = aReadMark[readLock[d]]
  /\ pc[d] \in ReadPcs => \A p \in Page : db'[p] <= image[Base(d).tx][p]

\* The last commit is a transaction that has been begun.
LEMMA LatestType ==
  ASSUME TypeBase, LogTypes
  PROVE  latest \in 1..MaxTx /\ nTx \in 1..MaxTx /\ latest <= nTx
BY Bounds DEF TypeBase, TypeShared, LogTypes

\* A header of the log is still one of the log.
LEMMA InLogKept ==
  ASSUME TypeBase, Advance, NEW h, h.mx \in 1..aHdr[0].mx, InLog(h)
  PROVE  InLog(h)'
<1>1. h.mx \in ValidFrames' /\ wal'[h.mx] = wal[h.mx]
  BY DEF Advance, InLog
<1>2. walSalt' = walSalt
  <2>1. aHdr[0].mx > 0
    BY HdrFields
  <2>. QED
    BY <2>1 DEF Advance
<1>. QED
  BY <1>1, <1>2 DEF InLog

\* The database file has no fewer pages of an image.
LEMMA LBKept ==
  ASSUME TypeBase, LogTypes, LogTypes', Advance, NEW t \in 1..latest, LB(t)
  PROVE  LB(t)'
<1>1. SUFFICES ASSUME NEW p \in Page PROVE db'[p] >= image'[t][p]
  BY DEF LB
<1>2. db'[p] >= db[p] /\ image'[t] = image[t] /\ db[p] >= image[t][p]
  BY DEF Advance, LB
<1>3. db[p] \in Int /\ db'[p] \in Int /\ image'[t][p] \in Int
  <2>1. t \in 1..MaxTx
    BY LatestType, Bounds
  <2>2. image' \in [1..MaxTx -> [Page -> 1..MaxTx]]
    BY DEF LogTypes
  <2>3. db \in [Page -> 1..MaxTx] /\ db' \in [Page -> 1..MaxTx]
    BY DEF LogTypes
  <2>4. image'[t] \in [Page -> 1..MaxTx]
    BY <2>1, <2>2
  <2>5. /\ image'[t][p] \in 1..MaxTx /\ db[p] \in 1..MaxTx
        /\ db'[p] \in 1..MaxTx
    BY <2>3, <2>4
  <2>. QED
    BY <2>5
<1>. QED
  BY <1>2, <1>3

\* Frames that are in the database file stay so.
LEMMA FilledKept ==
  ASSUME TypeBase, LogTypes, LogTypes', ChainInv, Advance, aHdr'[0].mx \in Int,
         NEW m \in 0..MaxFrame, NEW n \in 0..aHdr[0].mx, m <= n,
         n > 0 => n \in ValidFrames, Filled(m, n)
  PROVE  Filled(m, n)'
<1>1. SUFFICES ASSUME NEW f \in 1..m
               PROVE  \/ \E g \in 1..n : g > m /\ wal'[g].pg = wal'[f].pg
                      \/ db'[wal'[f].pg] >= wal'[f].tx
  BY DEF Filled
<1>2. aHdr[0].mx \in 0..MaxFrame
  BY HdrFields
<1>3. f \in 1..aHdr[0].mx /\ f \in 1..MaxFrame /\ n > 0
  BY <1>2, Bounds
<1>4. wal'[f] = wal[f] /\ wal[f].pg \in Page
  <2>1. f \in ValidFrames
    BY <1>3, ValidPrefix
  <2>. QED
    BY <1>3, <2>1 DEF Advance, ChainInv
<1>5. CASE \E g \in 1..n : g > m /\ wal[g].pg = wal[f].pg
  <2>1. PICK g \in 1..n : g > m /\ wal[g].pg = wal[f].pg
    BY <1>5
  <2>2. wal'[g] = wal[g]
    BY <1>2 DEF Advance
  <2>. QED
    BY <1>4, <2>1, <2>2
<1>6. CASE db[wal[f].pg] >= wal[f].tx
  <2>1. db'[wal[f].pg] >= db[wal[f].pg]
    BY <1>4 DEF Advance
  <2>3. db \in [Page -> 1..MaxTx] /\ db' \in [Page -> 1..MaxTx]
    BY DEF LogTypes
  <2>2. /\ db[wal[f].pg] \in Int /\ db'[wal[f].pg] \in Int
        /\ wal[f].tx \in Int
    BY <1>3, <1>4, <2>3, FrameFields
  <2>. QED
    BY <1>4, <1>6, <2>1, <2>2
<1>. QED
  BY <1>5, <1>6 DEF Filled

\* More frames can only fill more.
LEMMA FilledMore ==
  ASSUME NEW m \in Nat, NEW n \in Nat, NEW k \in Nat, n <= k, Filled(m, n)
  PROVE  Filled(m, k)
<1>1. \A g \in 1..n : g \in 1..k
  OBVIOUS
<1>. QED
  BY <1>1 DEF Filled

\* Nothing needs no copy.
LEMMA FilledNothing == \A n : Filled(0, n)
BY DEF Filled

\* A step of c leaves what the header of another connection says.
LEMMA HeaderKept ==
  ASSUME Control, LogInv, LogTypes', NEW c \in Conn, OnlyAt(c), Advance,
         TypeBase', OnlyLocksOf(c), NEW d \in Conn, d # c, Excluded(d)
  PROVE  HeaderOf(d)'
<1>1. /\ HeaderOf(d) /\ LockInvOf(d) /\ TypeBase /\ LogTypes /\ PublishedInv
  BY Local DEF LogInv
<1>2. /\ pc'[d] = pc[d] /\ hdr'[d] = hdr[d] /\ pick'[d] = pick[d]
  BY <1>1, OthersSame
<1>3. writeLock' = d => writeLock = d
  BY ConnFacts DEF OnlyLocksOf
<1>4. hdr[d].tx \in Int /\ hdr[d].mx \in Int /\ aHdr[0].mx \in Int
  BY <1>1, HdrFields
<1>5. latest \in Int /\ latest' \in Int /\ latest >= 1 /\ latest' >= latest
      /\ (LB(latest) => LB(latest)' \/ latest' # latest)
  <2>1. latest \in Int /\ latest' \in Int /\ latest >= 1 /\ latest' >= latest
    <3>1. nTx \in Int /\ nTx' \in Int
      BY <1>1 DEF TypeBase, TypeShared
    <3>. QED
      BY <1>1, <3>1 DEF LogTypes, Advance
  <2>2. LB(latest) /\ latest' = latest => LB(latest)'
    <3>1. ASSUME NEW t \in 1..latest, LB(t) PROVE LB(t)'
      BY <1>1, <3>1, LBKept
    <3>2. ASSUME LB(latest), latest' = latest
          PROVE  \A p \in Page : db'[p] >= image'[latest'][p]
      <4>1. latest \in 1..latest
        BY <2>1
      <4>2. \A p \in Page : db'[p] >= image'[latest][p]
        BY <3>1, <3>2, <4>1 DEF LB
      <4>. QED
        BY <3>2, <4>2
    <3>. QED
      BY <3>2 DEF LB
  <2>. QED
    BY <2>1, <2>2
<1>6. pc[d] \notin {"recover0", "publish1", "publish0"} => hdr[d].tx <= latest'
  BY <1>1, <1>4, <1>5 DEF HeaderOf
<1>7. pc[d] = "choose" /\ hdr[d].tx = latest'
        => hdr[d] = aHdr'[0] \/ LB(latest)'
  <2>. SUFFICES ASSUME pc[d] = "choose", hdr[d].tx = latest'
                PROVE  hdr[d] = aHdr'[0] \/ LB(latest)'
    OBVIOUS
  <2>1. latest' = latest
    BY <1>1, <1>4, <1>5 DEF HeaderOf
  <2>2. hdr[d] = aHdr[0] \/ LB(latest)
    BY <1>1, <2>1 DEF HeaderOf
  <2>3. aHdr[0] # ZeroHdr
    BY <1>1 DEF PublishedInv
  <2>. QED
    BY <1>5, <2>1, <2>2, <2>3 DEF Advance
<1>8. pc[d] = "lock0" /\ hdr[d].tx = latest' => LB(latest)'
  BY <1>1, <1>4, <1>5 DEF HeaderOf
<1>9. pc[d] \in {"write", "recover0", "recoverInfo", "publish1", "publish0"}
        \cup RestartPcs => writeLock = d
  BY <1>1 DEF LockInvOf
<1>10. writeLock = d => /\ aHdr'[0] = aHdr[0] /\ latest' = latest /\ nTx' = nTx
                        /\ spilled' = spilled /\ wal' = wal
                        /\ walSalt' = walSalt
  BY DEF Excluded
<1>11. writeLock = d
         => RecoveredHdr' = RecoveredHdr /\ ValidFrames' = ValidFrames
  BY <1>10 DEF RecoveredHdr, ValidFrames
<1>12. pc[d] \in PublishPcs =>
         /\ hdr[d].tx = nTx' /\ nTx' > latest'
         /\ InLog(hdr[d])' /\ hdr[d].mx > aHdr'[0].mx
  BY <1>1, <1>2, <1>9, <1>10, <1>11 DEF HeaderOf, InLog
<1>13. pc[d] \in RestartPcs =>
         hdr[d].mx = 0 /\ hdr[d].tx = latest' /\ LB(latest)'
  BY <1>1, <1>5, <1>9, <1>10 DEF HeaderOf
<1>14. pc[d] = "restartMarks" => nBackfill' = 0
  BY <1>1 DEF HeaderOf, Excluded
<1>15. /\ pc[d] \notin {"idle", "ckHdr"} => hdr[d].tx >= 1
       /\ pc[d] \in {"lockMark", "loadBackfill", "checkMark"}
            => pick[d].m <= hdr[d].mx
       /\ pc[d] = "write" =>
            hdr[d].tx = latest' /\ (spilled' = {} => hdr[d] = aHdr'[0])
       /\ pc[d] \in TransitPcs /\ writeLock' = d => hdr[d] = aHdr'[0]
       /\ pc[d] = "recover0" => hdr[d] = RecoveredHdr'
       /\ pc[d] = "recoverInfo" => hdr[d] = aHdr'[0]
       /\ pc[d] \in {"restartInfo", "restartMarks"} => hdr[d] = aHdr'[0]
  BY <1>1, <1>3, <1>9, <1>10, <1>11 DEF HeaderOf
<1>. QED
  BY <1>2, <1>6, <1>7, <1>8, <1>12, <1>13, <1>14, <1>15 DEF HeaderOf

\* The header a transaction reads from, when d is in one.
LEMMA BaseFields ==
  ASSUME Control, LogInv, NEW d \in Conn, pc[d] \in ReadPcs
  PROVE  /\ Base(d) \in Hdr /\ Base(d).mx \in 0..MaxFrame
         /\ Base(d).tx \in 1..latest
         /\ pc[d] # "read" => Base(d) = aHdr[0] /\ writeLock = d
<1>1. /\ HeaderOf(d) /\ LockInvOf(d) /\ TypeBase /\ LogTypes /\ PublishedInv
  BY Local DEF LogInv
<1>2. /\ aHdr[0] # ZeroHdr /\ aHdr[0].tx = latest
  BY <1>1 DEF PublishedInv
<1>3. /\ aHdr[0] \in Hdr /\ hdr[d] \in Hdr /\ aHdr[0].mx \in 0..MaxFrame
      /\ hdr[d].mx \in 0..MaxFrame /\ hdr[d].tx \in Int
  BY <1>1, HdrFields
<1>4. latest \in 1..latest
  BY <1>1, LatestType
<1>5. pc[d] = "read" => hdr[d].tx \in 1..latest
  BY <1>1, <1>3, <1>4 DEF HeaderOf
<1>6. pc[d] # "read" => writeLock = d
  BY <1>1 DEF LockInvOf
<1>. QED
  BY <1>2, <1>3, <1>4, <1>5, <1>6 DEF Base

\* A whole snapshot stays whole.
LEMMA WholeKept ==
  ASSUME TypeBase, LogTypes, LogTypes', Advance, NEW h \in Hdr,
         h.mx \in 0..aHdr[0].mx, h.tx \in 1..latest, Whole(h)
  PROVE  Whole(h)'
<1>1. CASE h.mx > 0
  <2>1. h.mx \in 1..aHdr[0].mx /\ InLog(h)
    BY <1>1 DEF Whole
  <2>2. InLog(h)'
    BY <2>1, InLogKept
  <2>. QED
    BY <1>1, <2>2 DEF Whole
<1>2. CASE ~(h.mx > 0)
  <2>1. LB(h.tx)
    BY <1>2 DEF Whole
  <2>2. ASSUME NEW t \in 1..latest, LB(t) PROVE LB(t)'
    BY <2>2, LBKept
  <2>3. LB(h.tx)'
    BY <2>1, <2>2
  <2>. QED
    BY <1>2, <2>3 DEF Whole
<1>. QED
  BY <1>1, <1>2

\* A step of c leaves the snapshot another connection reads.
LEMMA ReaderKept ==
  ASSUME Control, LogInv, LogTypes', NEW c \in Conn, OnlyAt(c), Advance,
         TypeBase', OnlyLocksOf(c), NEW d \in Conn, d # c, Excluded(d)
  PROVE  ReaderOf(d)'
<1>1. /\ ReaderOf(d) /\ LockInvOf(d) /\ TypeBase /\ LogTypes /\ PublishedInv
      /\ ChainInv /\ TypeConn(d)
  BY Local DEF LogInv
<1>2. /\ pc'[d] = pc[d] /\ hdr'[d] = hdr[d] /\ minFrame'[d] = minFrame[d]
      /\ readLock'[d] = readLock[d] /\ pick'[d] = pick[d]
  BY <1>1, OthersSame
<1>3. /\ aHdr[0].mx \in 0..MaxFrame /\ aHdr'[0].mx \in 0..MaxFrame
      /\ aHdr'[0].mx >= aHdr[0].mx
  BY <1>1, HdrFields DEF Advance, TypeBase, TypeShared, Hdr
<1>4. minFrame[d] \in Int
  BY <1>1 DEF TypeConn
<1>5. aHdr[0] # ZeroHdr /\ aHdr[0].mx > 0 => aHdr[0].mx \in ValidFrames
  BY <1>1 DEF PublishedInv, Whole, InLog
<1>6. pc[d] = "checkMark" =>
        /\ minFrame[d] \in 1..(aHdr'[0].mx + 1)
        /\ Filled(minFrame[d] - 1, aHdr[0].mx)'
  <2>. SUFFICES ASSUME pc[d] = "checkMark"
                PROVE  /\ minFrame[d] \in 1..(aHdr'[0].mx + 1)
                       /\ Filled(minFrame[d] - 1, aHdr[0].mx)'
    OBVIOUS
  <2>1. /\ minFrame[d] \in 1..(aHdr[0].mx + 1)
        /\ Filled(minFrame[d] - 1, aHdr[0].mx)
    BY <1>1 DEF ReaderOf
  <2>2. aHdr[0].mx > 0 => aHdr[0].mx \in ValidFrames
    BY <1>1, <1>5 DEF PublishedInv
  <2>3. ASSUME NEW m \in 0..MaxFrame, m <= aHdr[0].mx, Filled(m, aHdr[0].mx)
        PROVE  Filled(m, aHdr[0].mx)'
    <3>1. ASSUME NEW n \in 0..aHdr[0].mx, m <= n, n > 0 => n \in ValidFrames,
                 Filled(m, n)
          PROVE  Filled(m, n)'
      BY <1>1, <1>3, <3>1, FilledKept
    <3>2. PICK n \in 0..aHdr[0].mx : n = aHdr[0].mx
      BY <1>3
    <3>3. PICK k \in Nat : k = aHdr'[0].mx
      BY <1>3
    <3>4. Filled(m, n)'
      BY <2>2, <2>3, <3>1, <3>2
    <3>5. n <= k /\ n \in Nat /\ m \in Nat
      BY <1>3, <3>2, <3>3
    <3>6. \A g \in 1..n : g \in 1..k
      BY <3>5
    <3>7. Filled(m, k)'
      BY <3>4, <3>6 DEF Filled
    <3>. QED
      BY <3>3, <3>7
  <2>4. minFrame[d] - 1 \in 0..MaxFrame /\ minFrame[d] - 1 <= aHdr[0].mx
    BY <1>3, <1>4, <2>1, Bounds
  <2>5. PICK m \in 0..MaxFrame : m = minFrame[d] - 1
    BY <2>4
  <2>6. Filled(m, aHdr[0].mx)'
    BY <2>1, <2>3, <2>4, <2>5
  <2>7. m = minFrame'[d] - 1
    BY <1>2, <2>5
  <2>. QED
    BY <1>3, <1>4, <2>1, <2>6, <2>7
<1>7. ASSUME pc[d] \in ReadPcs
      PROVE  /\ Base(d)' = Base(d) /\ Base(d) \in Hdr
             /\ Base(d).mx \in 0..MaxFrame /\ Base(d).tx \in 1..latest
  <2>1. /\ Base(d) \in Hdr /\ Base(d).mx \in 0..MaxFrame
        /\ Base(d).tx \in 1..latest
        /\ pc[d] # "read" => Base(d) = aHdr[0] /\ writeLock = d
    BY <1>7, BaseFields
  <2>2. pc[d] # "read" => aHdr'[0] = aHdr[0]
    BY <2>1 DEF Excluded
  <2>. QED
    BY <1>2, <2>1, <2>2 DEF Base
<1>8. pc[d] \in ReadPcs => UB(Base(d).tx)'
  <2>. SUFFICES ASSUME pc[d] \in ReadPcs, NEW p \in Page
                PROVE  db'[p] <= image'[Base(d)'.tx][p]
    BY DEF UB
  <2>1. db'[p] <= image[Base(d).tx][p]
    BY DEF Excluded
  <2>2. image'[Base(d).tx] = image[Base(d).tx]
    BY <1>7 DEF Advance
  <2>. QED
    BY <1>7, <2>1, <2>2
<1>9. pc[d] \in ReadPcs /\ readLock[d] = 0 => LB(Base(d).tx)'
  <2>. SUFFICES ASSUME pc[d] \in ReadPcs, readLock[d] = 0
                PROVE  LB(Base(d).tx)'
    OBVIOUS
  <2>1. LB(Base(d).tx)
    BY <1>1 DEF ReaderOf
  <2>2. ASSUME NEW t \in 1..latest, LB(t) PROVE LB(t)'
    BY <1>1, <2>2, LBKept
  <2>3. PICK t \in 1..latest : t = Base(d).tx
    BY <1>7
  <2>4. LB(t)'
    BY <2>1, <2>2, <2>3
  <2>. QED
    BY <1>7, <2>3, <2>4
<1>10. ASSUME pc[d] \in ReadPcs, readLock[d] > 0
       PROVE  /\ Whole(Base(d))' /\ Base(d).mx <= aHdr'[0].mx
              /\ minFrame[d] \in 1..(Base(d).mx + 1)
              /\ Filled(minFrame[d] - 1, Base(d).mx)'
              /\ aReadMark'[readLock[d]] <= Base(d).mx
  <2>1. /\ Whole(Base(d)) /\ Base(d).mx <= aHdr[0].mx
        /\ minFrame[d] \in 1..(Base(d).mx + 1)
        /\ Filled(minFrame[d] - 1, Base(d).mx)
        /\ aReadMark[readLock[d]] <= Base(d).mx
    BY <1>1, <1>10 DEF ReaderOf
  <2>2. PICK h \in Hdr : h = Base(d)
    BY <1>7, <1>10
  <2>3. /\ h.mx \in 0..aHdr[0].mx /\ h.mx \in 0..MaxFrame
        /\ h.tx \in 1..latest
    BY <1>3, <1>7, <1>10, <2>1, <2>2
  <2>4. Whole(h)'
    BY <1>1, <2>1, <2>2, <2>3, WholeKept
  <2>5. PICK m \in 0..MaxFrame : m = minFrame[d] - 1 /\ m <= h.mx
    <3>1. minFrame[d] \in 1..(h.mx + 1)
      BY <2>1, <2>2
    <3>2. minFrame[d] - 1 \in 0..MaxFrame /\ minFrame[d] - 1 <= h.mx
      BY <1>4, <2>3, <3>1, Bounds
    <3>. QED
      BY <3>2
  <2>6. h.mx > 0 => h.mx \in ValidFrames
    BY <2>1, <2>2 DEF Whole, InLog
  <2>7. Filled(m, h.mx)'
    <3>1. PICK n \in 0..aHdr[0].mx : n = h.mx
      BY <2>3
    <3>2. Filled(m, n)'
      <4>1. Filled(m, n)
        BY <2>1, <2>2, <2>5, <3>1
      <4>2. aHdr'[0].mx \in Int
        BY <1>3
      <4>. QED
        BY <1>1, <2>5, <2>6, <3>1, <4>1, <4>2, FilledKept
    <3>. QED
      BY <3>1, <3>2
  <2>8. readLock[d] \in Marks
    BY <1>1, <1>10, Bounds DEF TypeConn
  <2>9. aReadMark'[readLock[d]] = aReadMark[readLock[d]]
    BY <2>8 DEF Excluded
  <2>10. Base(d)' = h /\ minFrame'[d] - 1 = m
    BY <1>2, <1>7, <1>10, <2>2, <2>5
  <2>11. Base(d).mx <= aHdr'[0].mx
    BY <1>3, <2>1, <2>2, <2>3
  <2>. QED
    BY <2>1, <2>4, <2>7, <2>9, <2>10, <2>11
<1>11. pc[d] \in ReadPcs => Base(d)' = Base(d)
  BY <1>7
<1>. QED
  BY <1>2, <1>6, <1>8, <1>9, <1>10, <1>11 DEF ReaderOf

\* A step of c leaves what the checkpoint of another connection may copy.
LEMMA CkptKept ==
  ASSUME Control, LogInv, LogTypes', NEW c \in Conn, OnlyAt(c), Advance,
         TypeBase', OnlyLocksOf(c), NEW d \in Conn, d # c, Excluded(d)
  PROVE  CkptOf(d)'
<1>1. /\ CkptOf(d) /\ HeaderOf(d) /\ LockInvOf(d) /\ GlobalLocks /\ TypeBase
      /\ LogTypes /\ ChainInv
  BY Local DEF LogInv
<1>2. pc'[d] = pc[d] /\ hdr'[d] = hdr[d]
  BY <1>1, OthersSame
<1>3. /\ aHdr[0].mx \in 0..MaxFrame /\ aHdr'[0].mx \in 0..MaxFrame
      /\ aHdr'[0].mx >= aHdr[0].mx /\ hdr[d].mx \in 0..MaxFrame
      /\ hdr[d].tx \in Int
  <2>1. aHdr'[0] \in Hdr
    BY DEF TypeBase, TypeShared
  <2>2. aHdr'[0].mx \in 0..MaxFrame
    BY <2>1 DEF Hdr
  <2>3. aHdr'[0].mx >= aHdr[0].mx
    BY DEF Advance
  <2>. QED
    BY <1>1, <2>2, <2>3, HdrFields
<1>4. SUFFICES ASSUME pc[d] \in {"ckTest", "ckScan", "ckCopy", "ckTail"}
               PROVE  CkptOf(d)'
  BY <1>2 DEF CkptOf
<1>5. ckptLock = d /\ ckpt' = ckpt /\ db' = db
  BY <1>1, <1>4 DEF LockInvOf, Excluded
<1>6. ckpt.mode # "PASSIVE" => aHdr'[0] = aHdr[0]
  <2>1. ckpt.mode # "PASSIVE" => writeLock = d
    BY <1>1, <1>4, <1>5 DEF LockInvOf, GlobalLocks
  <2>. QED
    BY <2>1 DEF Excluded
<1>7. ckpt'.mode # "PASSIVE" => hdr'[d] = aHdr'[0]
  BY <1>1, <1>2, <1>4, <1>5, <1>6 DEF CkptOf
<1>8. ASSUME pc[d] \in {"ckTest", "ckScan", "ckCopy"}
      PROVE  /\ hdr[d].mx = 0 \/ (InLog(hdr[d])' /\ hdr[d].mx <= aHdr'[0].mx)
             /\ UB(hdr[d].tx)'
  <2>1. /\ hdr[d].mx = 0 \/ (InLog(hdr[d]) /\ hdr[d].mx <= aHdr[0].mx)
        /\ UB(hdr[d].tx)
    BY <1>1, <1>8 DEF CkptOf
  <2>2. ASSUME hdr[d].mx # 0
        PROVE  InLog(hdr[d])' /\ hdr[d].mx <= aHdr'[0].mx
    <3>1. PICK h : h = hdr[d]
      OBVIOUS
    <3>2. h.mx \in 1..aHdr[0].mx /\ InLog(h)
      BY <1>3, <2>1, <2>2, <3>1
    <3>3. InLog(h)'
      BY <1>1, <3>2, InLogKept
    <3>. QED
      BY <1>2, <1>3, <3>1, <3>2, <3>3
  <2>3. hdr[d].tx \in 1..latest
    BY <1>1, <1>3, <1>8, LatestType DEF HeaderOf
  <2>4. image'[hdr[d].tx] = image[hdr[d].tx]
    BY <2>3 DEF Advance
  <2>5. UB(hdr[d].tx)'
    BY <1>2, <1>5, <2>1, <2>4 DEF UB
  <2>. QED
    BY <2>2, <2>5
<1>9. ASSUME pc[d] = "ckCopy", NEW p \in Page
      PROVE  IterOf(d, p)'
  <2>1. IterOf(d, p) /\ nBackfill' = nBackfill
    BY <1>1, <1>9 DEF CkptOf, Excluded
  <2>2. hdr[d].mx <= aHdr[0].mx
    BY <1>1, <1>3, <1>9 DEF CkptOf
  <2>3. \A f \in 1..hdr[d].mx : wal'[f] = wal[f]
    BY <1>3, <2>2 DEF Advance
  <2>4. \A l \in 1..hdr[d].mx :
          LastAt(p, l, hdr[d].mx)' <=> LastAt(p, l, hdr[d].mx)
    BY <1>2, <2>3 DEF LastAt
  <2>5. Absent(p, hdr[d].mx)' <=> Absent(p, hdr[d].mx)
    BY <1>2, <2>3 DEF Absent
  <2>. QED
    BY <1>2, <1>5, <2>1, <2>3, <2>4, <2>5 DEF IterOf
<1>10. /\ pc[d] \in ScanPcs => 0 < hdr[d].mx /\ ckpt.mxSafe <= hdr[d].mx
       /\ pc[d] = "ckCopy" =>
            nBackfill' < ckpt.mxSafe /\ ckpt.i > NReader
  BY <1>1 DEF CkptOf, Excluded
<1>. QED
  BY <1>2, <1>5, <1>7, <1>8, <1>9, <1>10 DEF CkptOf

\* A reader's snapshot and the marks a checkpoint has passed, after a step of c
\* that does not move a mark in use.
LEMMA MarksKept ==
  ASSUME Control, LogInv, NEW c \in Conn, OnlyAt(c), TypeBase',
         \A d \in Conn \ {c} : Excluded(d),
         pc'[c] \in ScanPcs =>
           /\ pc[c] = "ckTest" \/ pc[c] \in ScanPcs
           /\ \A m \in Marks : (\E e \in Conn : readLock[e] = m) /\ m < ckpt'.i
                => \/ /\ pc[c] \in ScanPcs /\ m < ckpt.i
                      /\ ckpt'.mxSafe <= ckpt.mxSafe
                \/ ckpt'.mxSafe <= aReadMark[m],
         pc'[c] \in ReadPcs /\ readLock'[c] > 0 =>
           \/ /\ pc[c] \in ReadPcs /\ readLock'[c] = readLock[c]
              /\ Base(c)'.mx >= Base(c).mx
           \/ /\ Base(c)'.mx = aHdr[0].mx
              /\ \A d \in Conn \ {c} :
                   pc[d] \in ScanPcs => hdr[d].mx <= aHdr[0].mx
  PROVE  MarksRespected'
<1>1. SUFFICES ASSUME NEW a \in Conn, NEW d \in Conn,
                      pc'[a] \in ReadPcs, readLock'[a] > 0,
                      pc'[d] \in ScanPcs, ckpt'.i > readLock'[a]
               PROVE  ckpt'.mxSafe <= Base(a)'.mx
  BY DEF MarksRespected
<1>2. TypeBase /\ GlobalLocks /\ CkptOf(d) /\ LockInvOf(d) /\ MarksRespected
      /\ ReaderOf(a) /\ TypeConn(a) /\ LogTypes
  BY Local DEF LogInv
<1>3. a # d
  BY <1>1
<1>4. /\ ckpt.mxSafe \in Int /\ ckpt'.mxSafe \in Int /\ aHdr[0].mx \in Int
      /\ hdr[d].mx \in Int /\ ckpt.i \in Int /\ ckpt'.i \in Int
  <2>1. ckpt \in CkptType /\ ckpt' \in CkptType
    BY <1>2 DEF TypeBase, TypeShared
  <2>. QED
    BY <1>2, <2>1, HdrFields DEF CkptType
<1>5. a # c => /\ pc'[a] = pc[a] /\ readLock'[a] = readLock[a]
               /\ hdr'[a] = hdr[a]
  BY <1>2, OthersSame
<1>6. d # c => /\ pc'[d] = pc[d] /\ hdr'[d] = hdr[d]
  BY <1>2, OthersSame
<1>7. pc[a] \in ReadPcs => Base(a).mx \in Int
  BY BaseFields
<1>8. a # c => Base(a)' = Base(a)
  <2>1. a # c /\ pc[a] # "read" => writeLock = a
    BY <1>1, <1>5, BaseFields
  <2>2. a # c /\ pc[a] # "read" => aHdr'[0] = aHdr[0]
    BY <2>1 DEF Excluded
  <2>. QED
    BY <1>5, <2>2 DEF Base
<1>9. CASE d # c
  <2>1. ckptLock = d /\ ckpt' = ckpt
    BY <1>1, <1>2, <1>6, <1>9 DEF LockInvOf, Excluded
  <2>2. CASE a # c
    BY <1>1, <1>2, <1>5, <1>6, <1>8, <1>9, <2>1, <2>2 DEF MarksRespected
  <2>3. CASE a = c
    <3>1. CASE /\ pc[c] \in ReadPcs /\ readLock'[c] = readLock[c]
               /\ Base(c)'.mx >= Base(c).mx
      <4>1. ckpt.mxSafe <= Base(c).mx
        BY <1>1, <1>2, <1>6, <1>9, <2>1, <2>3, <3>1 DEF MarksRespected
      <4>2. Base(c).mx \in Int /\ Base(c)'.mx \in Int
        <5>1. Base(c)' \in Hdr
          BY DEF Base, TypeBase, TypeShared
        <5>. QED
          BY <1>7, <2>3, <3>1, <5>1 DEF Hdr
      <4>. QED
        BY <1>4, <2>1, <2>3, <3>1, <4>1, <4>2
    <3>2. CASE /\ Base(c)'.mx = aHdr[0].mx
               /\ \A e \in Conn \ {c} :
                    pc[e] \in ScanPcs => hdr[e].mx <= aHdr[0].mx
      <4>1. ckpt.mxSafe <= hdr[d].mx
        BY <1>1, <1>2, <1>6, <1>9 DEF CkptOf
      <4>2. hdr[d].mx <= aHdr[0].mx
        BY <1>1, <1>6, <1>9, <3>2
      <4>. QED
        BY <1>4, <2>1, <2>3, <3>2, <4>1, <4>2
    <3>. QED
      BY <1>1, <2>3, <3>1, <3>2
  <2>. QED
    BY <2>2, <2>3
<1>10. CASE d = c
  <2>1. a # c /\ pc[a] \in ReadPcs /\ readLock[a] > 0 /\ ckpt'.i > readLock[a]
    BY <1>1, <1>3, <1>5, <1>10
  <2>2. readLock[a] \in Marks
    BY <1>2, <2>1, Bounds DEF TypeConn
  <2>3. CASE /\ pc[c] \in ScanPcs /\ readLock[a] < ckpt.i
             /\ ckpt'.mxSafe <= ckpt.mxSafe
    <3>1. ckpt.mxSafe <= Base(a).mx
      BY <1>2, <1>4, <2>1, <2>3 DEF MarksRespected
    <3>. QED
      BY <1>4, <1>7, <1>8, <2>1, <2>3, <3>1
  <2>4. CASE ckpt'.mxSafe <= aReadMark[readLock[a]]
    <3>1. aReadMark[readLock[a]] <= Base(a).mx
      BY <1>2, <2>1 DEF ReaderOf
    <3>2. aReadMark[readLock[a]] \in Int
      BY <1>2, <2>2, Bounds DEF TypeBase, TypeShared
    <3>. QED
      BY <1>4, <1>7, <1>8, <2>1, <2>4, <3>1, <3>2
  <2>5. readLock[a] < ckpt'.i
    BY <1>4, <2>1, <2>2
  <2>. QED
    BY <1>1, <1>10, <2>1, <2>2, <2>3, <2>4, <2>5
<1>. QED
  BY <1>9, <1>10

-----------------------------------------------------------------------------
(* Steps that leave the log, the database file and the published header *)

LogSame ==
  /\ UNCHANGED <<wal, walSalt, db, image, latest, nTx>>
  /\ aHdr'[0] = aHdr[0]

\* With the same log, database file and published header, the same frames are
\* valid and the same images whole.
LEMMA SameOperators ==
  ASSUME LogSame
  PROVE  /\ ValidFrames' = ValidFrames /\ RecoveredHdr' = RecoveredHdr
         /\ \A f : ImageOf(f)' <=> ImageOf(f)
         /\ \A m, n : Filled(m, n)' <=> Filled(m, n)
         /\ \A t : (LB(t)' <=> LB(t)) /\ (UB(t)' <=> UB(t))
         /\ \A h : (InLog(h)' <=> InLog(h)) /\ (Whole(h)' <=> Whole(h))
<1>1. ValidFrames' = ValidFrames
  BY DEF LogSame, ValidFrames
<1>2. RecoveredHdr' = RecoveredHdr
  BY <1>1 DEF LogSame, RecoveredHdr
<1>3. \A f : ImageOf(f)' <=> ImageOf(f)
  BY DEF LogSame, ImageOf, LastAt, Absent
<1>4. \A m, n : Filled(m, n)' <=> Filled(m, n)
  BY DEF LogSame, Filled
<1>5. \A t : (LB(t)' <=> LB(t)) /\ (UB(t)' <=> UB(t))
  BY DEF LogSame, LB, UB
<1>6. \A h : (InLog(h)' <=> InLog(h))
  BY <1>1 DEF LogSame, InLog
<1>7. \A h : (Whole(h)' <=> Whole(h))
  BY <1>5, <1>6 DEF Whole
<1>. QED
  BY <1>1, <1>2, <1>3, <1>4, <1>5, <1>6, <1>7

\* Such a step keeps what the log says of the commits.
LEMMA SameLog ==
  ASSUME LogInv, LogSame
  PROVE  LogTypes' /\ ChainInv' /\ ImageInv' /\ RecoverableInv'
<1>1. LogTypes /\ ChainInv /\ ImageInv /\ RecoverableInv
  BY DEF LogInv
<1>2. LogTypes'
  BY <1>1 DEF LogSame, LogTypes
<1>3. ChainInv'
  BY <1>1, SameOperators DEF LogSame, ChainInv
<1>4. ImageInv'
  BY <1>1, SameOperators DEF LogSame, ImageInv
<1>5. RecoverableInv'
  BY <1>1, SameOperators DEF LogSame, RecoverableInv
<1>. QED
  BY <1>2, <1>3, <1>4, <1>5

\* Such a step loses nothing a header covers.
LEMMA SameAdvance ==
  ASSUME TypeBase, LogTypes, LogSame
  PROVE  Advance
<1>1. ValidFrames' = ValidFrames
  BY SameOperators
<1>2. \A p \in Page : db[p] \in Int
  BY DEF LogTypes
<1>3. latest \in Int /\ aHdr[0].mx \in Int
  BY LatestType, HdrFields
<1>. QED
  BY <1>1, <1>2, <1>3 DEF Advance, LogSame

\* The frames a checkpoint or a restart has yet to note.
BackfillKept(c) ==
  \/ nBackfill' = nBackfill /\ (pc[c] = "restartInfo" => pc'[c] = "restartInfo")
  \/ nBackfill' = 0

\* Such a step keeps what the published header says.
LEMMA SamePublished ==
  ASSUME Control, LogInv, LogSame, NEW c \in Conn, OnlyAt(c), BackfillKept(c),
         \/ pc'[c] \in {"idle", "recover0", "ckHdr"} \/ aHdr[0] # ZeroHdr
  PROVE  PublishedInv'
<1>1. PublishedInv /\ TypeBase /\ LogTypes
  BY Local DEF LogInv
<1>2. aHdr'[0] = aHdr[0] /\ latest' = latest
  BY DEF LogSame
<1>3. \A d \in Conn : pc'[d] = IF d = c THEN pc'[c] ELSE pc[d]
  BY <1>1, OthersSame
<1>4. IF aHdr'[0] = ZeroHdr
      THEN /\ nBackfill' = 0
           /\ \A d \in Conn : pc'[d] \in {"idle", "recover0", "ckHdr"}
      ELSE aHdr'[0].tx = latest' /\ Whole(aHdr[0])'
  BY <1>1, <1>2, <1>3, SameOperators DEF PublishedInv, BackfillKept
<1>5. \/ nBackfill' <= aHdr'[0].mx /\ Filled(nBackfill, aHdr[0].mx)'
      \/ \E d \in Conn : pc'[d] = "restartInfo"
  <2>1. CASE nBackfill' = 0
    <3>1. 0 <= aHdr'[0].mx
      BY <1>1, <1>2, HdrFields
    <3>2. Filled(nBackfill, aHdr[0].mx)'
      BY <2>1 DEF Filled
    <3>. QED
      BY <2>1, <3>1, <3>2
  <2>2. CASE /\ nBackfill' = nBackfill
             /\ pc[c] = "restartInfo" => pc'[c] = "restartInfo"
    <3>1. CASE nBackfill <= aHdr[0].mx /\ Filled(nBackfill, aHdr[0].mx)
      <4>1. ASSUME NEW m, NEW n, Filled(m, n)
            PROVE  Filled(m, n)'
        BY <4>1, SameOperators
      <4>2. PICK m, n : m = nBackfill /\ n = aHdr[0].mx
        OBVIOUS
      <4>3. Filled(m, n)'
        BY <3>1, <4>1, <4>2
      <4>4. m = nBackfill' /\ n = aHdr'[0].mx
        BY <1>2, <2>2, <4>2
      <4>5. Filled(nBackfill, aHdr[0].mx)'
        BY <4>3, <4>4
      <4>. QED
        BY <1>2, <2>2, <3>1, <4>5
    <3>2. CASE \E d \in Conn : pc[d] = "restartInfo"
      BY <1>3, <2>2, <3>2
    <3>. QED
      BY <1>1, <3>1, <3>2 DEF PublishedInv
  <2>. QED
    BY <2>1, <2>2 DEF BackfillKept
<1>. QED
  BY <1>4, <1>5 DEF PublishedInv

\* Such a step keeps the frames an open transaction has spilled.
LEMMA SameSpill ==
  ASSUME Control, LogInv, LogSame, NEW c \in Conn, OnlyAt(c),
         \/ spilled' = {}
         \/ /\ spilled' = spilled
            /\ spilled = {} \/ (writeLock' = writeLock /\ writeLock # c)
  PROVE  SpillInv'
<1>1. SpillInv /\ TypeBase /\ GlobalLocks
  BY Local DEF LogInv
<1>2. SUFFICES ASSUME spilled' # {} PROVE SpillOf(writeLock)'
  BY DEF SpillInv
<1>3. /\ spilled' = spilled /\ writeLock' = writeLock /\ writeLock # c
      /\ spilled # {}
  BY <1>2
<1>4. writeLock \in Conn
  BY <1>1, <1>3 DEF GlobalLocks, TypeBase, TypeShared
<1>5. hdr'[writeLock] = hdr[writeLock]
  BY <1>1, <1>3, <1>4, OthersSame
<1>6. SpillOf(writeLock)
  BY <1>1, <1>3 DEF SpillInv
<1>7. ValidFrames' = ValidFrames
  BY SameOperators
<1>. QED
  BY <1>3, <1>5, <1>6, <1>7 DEF SpillOf, LogSame

\* A step that only changes what c knows, the marks nobody uses, and the locals
\* of a checkpoint of c.
LEMMA QuietStep ==
  ASSUME Control, Control', LogInv, NEW c \in Conn, OnlyAt(c), OnlyLocksOf(c),
         LogSame, BackfillKept(c),
         \/ pc'[c] \in {"idle", "recover0", "ckHdr"} \/ aHdr[0] # ZeroHdr,
         \/ spilled' = {}
         \/ /\ spilled' = spilled
            /\ spilled = {} \/ (writeLock' = writeLock /\ writeLock # c),
         \A d \in Conn \ {c} : Excluded(d), MarksRespected',
         HeaderOf(c)', ReaderOf(c)', CkptOf(c)'
  PROVE  LogInv'
<1>1. TypeBase /\ TypeBase' /\ LogTypes
  BY DEF Control, LogInv
<1>2. LogTypes' /\ ChainInv' /\ ImageInv' /\ RecoverableInv'
  BY SameLog
<1>3. PublishedInv'
  BY SamePublished
<1>4. SpillInv'
  BY SameSpill
<1>5. Advance
  BY <1>1, SameAdvance
<1>6. ASSUME NEW d \in Conn
      PROVE  HeaderOf(d)' /\ ReaderOf(d)' /\ CkptOf(d)'
  <2>1. CASE d = c
    BY <2>1
  <2>2. CASE d # c
    <3>1. Excluded(d)
      BY <2>2
    <3>. QED
      BY <1>1, <1>2, <1>5, <2>2, <3>1, HeaderKept, ReaderKept, CkptKept
  <2>. QED
    BY <2>1, <2>2
<1>. QED
  BY <1>2, <1>3, <1>4, <1>6 DEF LogInv

\* The invariants, at c.
LEMMA LocalLog ==
  ASSUME Control, LogInv, NEW c \in Conn
  PROVE  /\ HeaderOf(c) /\ ReaderOf(c) /\ CkptOf(c) /\ PublishedInv
         /\ LogTypes /\ ChainInv /\ ImageInv
         /\ LockInvOf(c) /\ GlobalLocks /\ TypeBase /\ TypeConn(c)
BY Local DEF LogInv

\* Such a step changes nothing that a lock of another connection protects.
LEMMA QuietExcluded ==
  ASSUME Control, LogInv, NEW c \in Conn, OnlyLocksOf(c), LogSame,
         \/ nBackfill' = nBackfill
         \/ pc[c] \in {"restartInfo", "recoverInfo", "ckCopy"},
         \A i \in Marks : \/ aReadMark'[i] = aReadMark[i] \/ MarkFree(i)
                          \/ pc[c] = "restartMarks"
  PROVE  \A d \in Conn \ {c} : Excluded(d)
<1>. SUFFICES ASSUME NEW d \in Conn, d # c PROVE Excluded(d)
  OBVIOUS
<1>1. /\ LockInvOf(c) /\ LockInvOf(d) /\ ReaderOf(d) /\ TypeBase
      /\ TypeConn(d)
  BY LocalLog
<1>2. writeLock = d => /\ aHdr'[0] = aHdr[0] /\ latest' = latest /\ nTx' = nTx
                       /\ spilled' = spilled /\ wal' = wal
                       /\ walSalt' = walSalt
  BY ConnFacts DEF LogSame, OnlyLocksOf
<1>3. ckptLock = d => ckpt' = ckpt /\ db' = db
  BY ConnFacts DEF LogSame, OnlyLocksOf
<1>4. pc[d] \in RestartPcs \cup {"ckCopy"} => nBackfill' = nBackfill
  <2>1. /\ pc[c] \in RestartPcs \cup RecoverPcs => writeLock = c
        /\ pc[c] \in RecoverPcs \cup {"ckCopy"} => ckptLock = c
        /\ pc[c] \in RestartPcs => ckptLock = c \/ readLock[c] = 0
        /\ pc[d] \in RestartPcs => writeLock = d
        /\ pc[d] \in RestartPcs => ckptLock = d \/ readLock[d] = 0
        /\ pc[d] = "ckCopy" => ckptLock = d
    BY <1>1 DEF LockInvOf
  <2>2. /\ pc[d] = "ckCopy" => readLock[c] # 0
        /\ pc[c] = "ckCopy" => readLock[d] # 0
    BY DEF Control, LockInv, ReadersOut
  <2>. QED
    BY <2>1, <2>2
<1>5. readLock[d] \in Marks => aReadMark'[readLock[d]] = aReadMark[readLock[d]]
  <2>1. readLock[d] \in Marks => ~MarkFree(readLock[d])
    BY DEF MarkFree, Shared
  <2>2. pc[c] = "restartMarks" => readLock[d] \notin Marks
    BY DEF Control, LockInv, ReadersOut
  <2>. QED
    BY <2>1, <2>2
<1>6. pc[d] \in ReadPcs => \A p \in Page : db'[p] <= image[Base(d).tx][p]
  BY <1>1 DEF LogSame, ReaderOf, UB
<1>. QED
  BY <1>2, <1>3, <1>4, <1>5, <1>6 DEF Excluded

\* Most steps of a connection leave it outside a transaction and outside the
\* part of a checkpoint that goes by the read-marks.
LEMMA QuietOut ==
  ASSUME Control, Control', LogInv, NEW c \in Conn, OnlyAt(c), OnlyLocksOf(c),
         LogSame, BackfillKept(c),
         nBackfill' = nBackfill \/ pc[c] \in {"restartInfo", "recoverInfo"},
         \A i \in Marks : \/ aReadMark'[i] = aReadMark[i] \/ MarkFree(i)
                          \/ pc[c] = "restartMarks",
         \/ pc'[c] \in {"idle", "recover0", "ckHdr"} \/ aHdr[0] # ZeroHdr,
         \/ spilled' = {}
         \/ /\ spilled' = spilled
            /\ spilled = {} \/ (writeLock' = writeLock /\ writeLock # c),
         pc'[c] \notin ScanPcs \cup ReadPcs,
         HeaderOf(c)', ReaderOf(c)', CkptOf(c)'
  PROVE  LogInv'
<1>1. \A d \in Conn \ {c} : Excluded(d)
  BY QuietExcluded
<1>2. MarksRespected'
  <2>1. TypeBase'
    BY DEF Control
  <2>. QED
    BY <1>1, <2>1, MarksKept
<1>. QED
  BY <1>1, <1>2, QuietStep

\* A step into a transaction that reads the published snapshot.
LEMMA QuietIn ==
  ASSUME Control, Control', LogInv, NEW c \in Conn, OnlyAt(c), OnlyLocksOf(c),
         LogSame, nBackfill' = nBackfill, pc[c] # "restartInfo",
         aReadMark' = aReadMark, aHdr[0] # ZeroHdr,
         \/ spilled' = {}
         \/ /\ spilled' = spilled
            /\ spilled = {} \/ (writeLock' = writeLock /\ writeLock # c),
         pc'[c] \in ReadPcs, Base(c)' = aHdr[0],
         HeaderOf(c)', ReaderOf(c)', CkptOf(c)'
  PROVE  LogInv'
<1>1. \A d \in Conn \ {c} : Excluded(d)
  BY QuietExcluded
<1>2. MarksRespected'
  <2>1. TypeBase' /\ Base(c)'.mx = aHdr[0].mx /\ pc'[c] \notin ScanPcs
    BY DEF Control
  <2>2. ASSUME NEW d \in Conn, pc[d] \in ScanPcs
        PROVE  hdr[d].mx <= aHdr[0].mx
    <3>1. CkptOf(d) /\ TypeBase
      BY LocalLog
    <3>2. aHdr[0].mx \in 0..MaxFrame
      BY <3>1, HdrFields
    <3>. QED
      BY <2>2, <3>1, <3>2 DEF CkptOf
  <2>. QED
    BY <1>1, <2>1, <2>2, MarksKept
<1>3. BackfillKept(c)
  BY DEF BackfillKept
<1>. QED
  BY <1>1, <1>2, <1>3, QuietStep

\* Backfilled whole, or being restarted, the log has nothing to add to the
\* database file.
LEMMA BackfilledWhole ==
  ASSUME Control, LogInv, aHdr[0] # ZeroHdr, nBackfill >= aHdr[0].mx
  PROVE  LB(latest)
<1>1. TypeBase /\ LogTypes /\ ImageInv /\ PublishedInv
  BY DEF Control, LogInv
<1>2. /\ aHdr[0].tx = latest /\ Whole(aHdr[0]) /\ aHdr[0].mx \in 0..MaxFrame
      /\ nBackfill \in Int
  BY <1>1, HdrFields DEF PublishedInv, TypeBase, TypeShared
<1>3. CASE \E d \in Conn : pc[d] = "restartInfo"
  BY <1>3 DEF LogInv, HeaderOf
<1>4. CASE nBackfill <= aHdr[0].mx /\ Filled(nBackfill, aHdr[0].mx)
  <2>1. nBackfill = aHdr[0].mx
    BY <1>2, <1>4
  <2>2. CASE aHdr[0].mx > 0
    <3>1. PICK h : h = aHdr[0]
      OBVIOUS
    <3>2. /\ h.mx \in 1..MaxFrame /\ InLog(h) /\ Filled(h.mx, h.mx)
          /\ h.tx \in 1..MaxTx
      BY <1>1, <1>2, <1>4, <2>1, <2>2, <3>1, LatestType DEF Whole
    <3>3. LB(h.tx)
      BY <1>1, <3>2, FilledWhole
    <3>. QED
      BY <1>2, <3>1, <3>3
  <2>3. CASE ~(aHdr[0].mx > 0)
    BY <1>2, <2>3 DEF Whole
  <2>. QED
    BY <2>2, <2>3
<1>. QED
  BY <1>1, <1>3, <1>4 DEF PublishedInv

\* The header a recovery finds: the last commit in the log, if there is one.
LEMMA RecoveredFacts ==
  ASSUME TypeBase, LogTypes, ChainInv
  PROVE  /\ RecoveredHdr \in Hdr /\ RecoveredHdr.salt = walSalt
         /\ RecoveredHdr.tx >= 1 /\ RecoveredHdr.tx <= nTx
         /\ \/ /\ RecoveredHdr.mx = 0 /\ RecoveredHdr.tx = latest
               /\ \A f \in ValidFrames : ~wal[f].commit
            \/ /\ RecoveredHdr.mx > 0 /\ InLog(RecoveredHdr)
               /\ \A f \in ValidFrames : wal[f].commit => f <= RecoveredHdr.mx
<1>. DEFINE commits == {f \in ValidFrames : wal[f].commit}
<1>1. RecoveredHdr = IF commits = {}
                     THEN [mx |-> 0, salt |-> walSalt, tx |-> latest]
                     ELSE [mx |-> Max(commits), salt |-> walSalt,
                           tx |-> wal[Max(commits)].tx]
  BY DEF RecoveredHdr
<1>2. RecoveredHdr \in Hdr
  BY RecoveredHdrType
<1>3. latest >= 1 /\ latest <= nTx
  BY LatestType
<1>4. CASE commits = {}
  BY <1>1, <1>2, <1>3, <1>4
<1>5. CASE commits # {}
  <2>1. IsFiniteSet(commits) /\ commits \subseteq Int
    <3>1. IsFiniteSet(1..MaxFrame)
      BY Bounds, FS_Interval
    <3>2. commits \in SUBSET (1..MaxFrame)
      BY ValidPrefix
    <3>. HIDE DEF commits
    <3>3. IsFiniteSet(commits)
      BY <3>1, <3>2, FS_Subset
    <3>. QED
      BY <3>2, <3>3
  <2>2. Max(commits) \in commits /\ \A y \in commits : y <= Max(commits)
    <3>. HIDE DEF commits
    <3>. QED
      BY <1>5, <2>1, MaxIn
  <2>3. PICK m : m = Max(commits)
    OBVIOUS
  <2>4. /\ RecoveredHdr.mx = m /\ RecoveredHdr.salt = walSalt
        /\ RecoveredHdr.tx = wal[m].tx
    BY <1>1, <1>5, <2>3
  <2>5. m \in ValidFrames /\ wal[m].commit /\ m \in 1..MaxFrame
    BY <2>2, <2>3, ValidPrefix
  <2>6. wal[m].tx >= 1 /\ wal[m].tx <= nTx /\ m > 0
    BY <2>5, Bounds DEF ChainInv
  <2>7. \A f \in ValidFrames : wal[f].commit => f <= m
    BY <2>2, <2>3
  <2>. QED
    BY <1>2, <2>4, <2>5, <2>6, <2>7 DEF InLog
<1>. QED
  BY <1>4, <1>5

\* A read transaction that takes the header keeps what the log says of the
\* commits.
LEMMA BeginReadLog ==
  ASSUME Control, LogInv, NEW c \in Conn, BeginRead(c)
  PROVE  LogInv'
<1>1. /\ HeaderOf(c) /\ ReaderOf(c) /\ CkptOf(c) /\ PublishedInv
      /\ LogTypes /\ ChainInv /\ ImageInv
      /\ LockInvOf(c) /\ GlobalLocks /\ TypeBase /\ TypeConn(c)
  BY LocalLog
<1>2. OnlyAt(c) /\ BeginReadDone(c) /\ OnlyLocksOf(c) /\ Control'
  BY BeginReadControl
<1>3. LogSame
  BY <1>1, <1>2 DEF LogSame, BeginReadDone, TypeBase, TypeShared
<1>4. aHdr[0] # ZeroHdr /\ aHdr[0].tx = latest /\ latest \in 1..MaxTx
  BY <1>1, <1>2, LatestType DEF BeginReadDone, HeaderGood, PublishedInv
<1>5. HeaderOf(c)'
  BY <1>1, <1>2, <1>3, <1>4, SameOperators, LatestType, HdrFields
     DEF LockInvOf, HeaderOf, BeginReadDone, SameReads, LogSame
<1>6. ReaderOf(c)'
  BY <1>1, <1>2, <1>3, <1>4, SameOperators DEF LockInvOf, ReaderOf,
     BeginReadDone, SameReads
<1>7. CkptOf(c)'
  BY <1>1, <1>2, <1>3, <1>4, SameOperators DEF LockInvOf, CkptOf,
     BeginReadDone, SameReads
<1>. QED
  BY <1>1, <1>2, <1>3, <1>4, <1>5, <1>6, <1>7, QuietOut DEF BeginReadDone,
     BackfillKept, PublishedInv, LockInvOf, GlobalLocks

\* The choice between the database file and a read-mark keeps what the log says
\* of the commits.
LEMMA ChooseLogLog ==
  ASSUME Control, LogInv, NEW c \in Conn, ChooseLog(c)
  PROVE  LogInv'
<1>1. /\ HeaderOf(c) /\ ReaderOf(c) /\ CkptOf(c) /\ PublishedInv
      /\ LogTypes /\ ChainInv /\ ImageInv
      /\ LockInvOf(c) /\ GlobalLocks /\ TypeBase /\ TypeConn(c)
  BY LocalLog
<1>2. OnlyAt(c) /\ ChooseLogDone(c) /\ OnlyLocksOf(c) /\ Control'
  BY ChooseLogControl
<1>3. LogSame
  BY <1>1, <1>2 DEF LogSame, ChooseLogDone, TypeBase, TypeShared
<1>4. nBackfill = hdr[c].mx /\ hdr[c].tx = latest => LB(latest)
  <2>1. aHdr[0] # ZeroHdr
    BY <1>1, <1>2 DEF ChooseLogDone, PublishedInv
  <2>2. hdr[c].tx = latest => hdr[c] = aHdr[0] \/ LB(latest)
    BY <1>1, <1>2 DEF ChooseLogDone, HeaderOf
  <2>3. aHdr[0].mx \in Int
    BY <1>1, HdrFields
  <2>4. nBackfill = aHdr[0].mx => LB(latest)
    BY <2>1, <2>3, BackfilledWhole
  <2>. QED
    BY <2>2, <2>4
<1>5. HeaderOf(c)'
  BY <1>1, <1>2, <1>3, <1>4, SameOperators, LatestType, HdrFields
     DEF LockInvOf, HeaderOf, ChooseLogDone, SameReads, LogSame
<1>6. ReaderOf(c)'
  BY <1>1, <1>2, <1>3, <1>4, SameOperators DEF LockInvOf, ReaderOf,
     ChooseLogDone, SameReads
<1>7. CkptOf(c)'
  BY <1>1, <1>2, <1>3, <1>4, SameOperators DEF LockInvOf, CkptOf,
     ChooseLogDone, SameReads
<1>. QED
  BY <1>1, <1>2, <1>3, <1>4, <1>5, <1>6, <1>7, QuietOut DEF ChooseLogDone,
     BackfillKept, PublishedInv, LockInvOf, GlobalLocks

\* The choice of a read-mark, or a new one keeps what the log says of the
\* commits.
LEMMA PickMarkLog ==
  ASSUME Control, LogInv, NEW c \in Conn, PickMark(c)
  PROVE  LogInv'
<1>1. /\ HeaderOf(c) /\ ReaderOf(c) /\ CkptOf(c) /\ PublishedInv
      /\ LogTypes /\ ChainInv /\ ImageInv
      /\ LockInvOf(c) /\ GlobalLocks /\ TypeBase /\ TypeConn(c)
  BY LocalLog
<1>2. OnlyAt(c) /\ PickMarkDone(c) /\ OnlyLocksOf(c) /\ Control'
  BY PickMarkControl
<1>3. LogSame
  BY <1>1, <1>2 DEF LogSame, PickMarkDone, TypeBase, TypeShared
<1>5. HeaderOf(c)'
  BY <1>1, <1>2, <1>3, SameOperators, LatestType, HdrFields DEF LockInvOf,
     HeaderOf, PickMarkDone, SameReads, LogSame
<1>6. ReaderOf(c)'
  BY <1>1, <1>2, <1>3, SameOperators DEF LockInvOf, ReaderOf, PickMarkDone,
     SameReads
<1>7. CkptOf(c)'
  BY <1>1, <1>2, <1>3, SameOperators DEF LockInvOf, CkptOf, PickMarkDone,
     SameReads
<1>. QED
  BY <1>1, <1>2, <1>3, <1>5, <1>6, <1>7, QuietOut DEF PickMarkDone,
     BackfillKept, PublishedInv, LockInvOf, GlobalLocks

\* The lock on a read-mark keeps what the log says of the commits.
LEMMA LockMarkLog ==
  ASSUME Control, LogInv, NEW c \in Conn, LockMark(c)
  PROVE  LogInv'
<1>1. /\ HeaderOf(c) /\ ReaderOf(c) /\ CkptOf(c) /\ PublishedInv
      /\ LogTypes /\ ChainInv /\ ImageInv
      /\ LockInvOf(c) /\ GlobalLocks /\ TypeBase /\ TypeConn(c)
  BY LocalLog
<1>2. OnlyAt(c) /\ LockMarkDone(c) /\ OnlyLocksOf(c) /\ Control'
  BY LockMarkControl
<1>3. LogSame
  BY <1>1, <1>2 DEF LogSame, LockMarkDone, TypeBase, TypeShared
<1>5. HeaderOf(c)'
  BY <1>1, <1>2, <1>3, SameOperators, LatestType, HdrFields DEF LockInvOf,
     HeaderOf, LockMarkDone, SameReads, LogSame
<1>6. ReaderOf(c)'
  BY <1>1, <1>2, <1>3, SameOperators DEF LockInvOf, ReaderOf, LockMarkDone,
     SameReads
<1>7. CkptOf(c)'
  BY <1>1, <1>2, <1>3, SameOperators DEF LockInvOf, CkptOf, LockMarkDone,
     SameReads
<1>. QED
  BY <1>1, <1>2, <1>3, <1>5, <1>6, <1>7, QuietOut DEF LockMarkDone,
     BackfillKept, PublishedInv, LockInvOf, GlobalLocks

\* The frames left to the database file keeps what the log says of the commits.
LEMMA LoadBackfillLog ==
  ASSUME Control, LogInv, NEW c \in Conn, LoadBackfill(c)
  PROVE  LogInv'
<1>1. /\ HeaderOf(c) /\ ReaderOf(c) /\ CkptOf(c) /\ PublishedInv
      /\ LogTypes /\ ChainInv /\ ImageInv
      /\ LockInvOf(c) /\ GlobalLocks /\ TypeBase /\ TypeConn(c)
  BY LocalLog
<1>2. OnlyAt(c) /\ LoadBackfillDone(c) /\ OnlyLocksOf(c) /\ Control'
  BY LoadBackfillControl
<1>3. LogSame
  BY <1>1, <1>2 DEF LogSame, LoadBackfillDone, TypeBase, TypeShared
<1>4. /\ minFrame'[c] \in 1..(aHdr'[0].mx + 1)
      /\ Filled(minFrame[c] - 1, aHdr[0].mx)'
  <2>1. readLock[c] \in Marks
    BY <1>1, <1>2 DEF LockInvOf, LoadBackfillDone
  <2>2. \A d \in Conn : pc[d] # "restartInfo"
    BY <2>1 DEF Control, LockInv, ReadersOut
  <2>3. nBackfill <= aHdr[0].mx /\ Filled(nBackfill, aHdr[0].mx)
    BY <1>1, <2>2 DEF PublishedInv
  <2>4. nBackfill \in 0..MaxFrame /\ aHdr[0].mx \in 0..MaxFrame
    BY <1>1, HdrFields DEF TypeBase, TypeShared
  <2>5. minFrame'[c] = nBackfill + 1 /\ aHdr'[0] = aHdr[0]
    BY <1>2, <1>3 DEF LoadBackfillDone, LogSame
  <2>6. ASSUME NEW m, NEW n, Filled(m, n)
        PROVE  Filled(m, n)'
    BY <1>3, <2>6, SameOperators
  <2>7. PICK m, n : m = nBackfill /\ n = aHdr[0].mx
    OBVIOUS
  <2>8. Filled(m, n)'
    BY <2>3, <2>6, <2>7
  <2>9. m = minFrame'[c] - 1 /\ n = aHdr'[0].mx
    BY <2>4, <2>5, <2>7
  <2>. QED
    BY <2>3, <2>4, <2>5, <2>8, <2>9
<1>5. HeaderOf(c)'
  BY <1>1, <1>2, <1>3, <1>4, SameOperators, LatestType, HdrFields
     DEF LockInvOf, HeaderOf, LoadBackfillDone, SameReads, LogSame
<1>6. ReaderOf(c)'
  BY <1>1, <1>2, <1>3, <1>4, SameOperators DEF LockInvOf, ReaderOf,
     LoadBackfillDone, SameReads
<1>7. CkptOf(c)'
  BY <1>1, <1>2, <1>3, <1>4, SameOperators DEF LockInvOf, CkptOf,
     LoadBackfillDone, SameReads
<1>. QED
  BY <1>1, <1>2, <1>3, <1>4, <1>5, <1>6, <1>7, QuietOut DEF LoadBackfillDone,
     BackfillKept, PublishedInv, LockInvOf, GlobalLocks

\* The end of a read transaction keeps what the log says of the commits.
LEMMA EndReadLog ==
  ASSUME Control, LogInv, NEW c \in Conn, EndRead(c)
  PROVE  LogInv'
<1>1. /\ HeaderOf(c) /\ ReaderOf(c) /\ CkptOf(c) /\ PublishedInv
      /\ LogTypes /\ ChainInv /\ ImageInv
      /\ LockInvOf(c) /\ GlobalLocks /\ TypeBase /\ TypeConn(c)
  BY LocalLog
<1>2. OnlyAt(c) /\ EndReadDone(c) /\ OnlyLocksOf(c) /\ Control'
  BY EndReadControl
<1>3. LogSame
  BY <1>1, <1>2 DEF LogSame, EndReadDone, TypeBase, TypeShared
<1>5. HeaderOf(c)'
  BY <1>1, <1>2, <1>3, SameOperators, LatestType, HdrFields DEF LockInvOf,
     HeaderOf, EndReadDone, SameReads, LogSame
<1>6. ReaderOf(c)'
  BY <1>1, <1>2, <1>3, SameOperators DEF LockInvOf, ReaderOf, EndReadDone,
     SameReads
<1>7. CkptOf(c)'
  BY <1>1, <1>2, <1>3, SameOperators DEF LockInvOf, CkptOf, EndReadDone,
     SameReads
<1>. QED
  BY <1>1, <1>2, <1>3, <1>5, <1>6, <1>7, QuietOut DEF EndReadDone,
     BackfillKept, PublishedInv, LockInvOf, GlobalLocks

\* A recovery that scans the log and writes copy 1 keeps what the log says of
\* the commits.
LEMMA RecoverScanLog ==
  ASSUME Control, LogInv, NEW c \in Conn, RecoverScan(c)
  PROVE  LogInv'
<1>1. /\ HeaderOf(c) /\ ReaderOf(c) /\ CkptOf(c) /\ PublishedInv
      /\ LogTypes /\ ChainInv /\ ImageInv
      /\ LockInvOf(c) /\ GlobalLocks /\ TypeBase /\ TypeConn(c)
  BY LocalLog
<1>2. OnlyAt(c) /\ RecoverScanDone(c) /\ OnlyLocksOf(c) /\ Control'
  BY RecoverScanControl
<1>3. LogSame
  BY <1>1, <1>2 DEF LogSame, RecoverScanDone, TypeBase, TypeShared
<1>4. /\ RecoveredHdr.tx >= 1 /\ RecoveredHdr' = RecoveredHdr
      /\ spilled = {} /\ spilled' = spilled
  <2>1. spilled = {}
    BY <1>1, <1>2, ConnFacts
       DEF RecoverScanDone, MayRecover, MayWrite, LockInvOf, GlobalLocks
  <2>. QED
    BY <1>1, <1>2, <1>3, <2>1, RecoveredFacts, SameOperators
       DEF RecoverScanDone
<1>5. HeaderOf(c)'
  BY <1>1, <1>2, <1>3, <1>4, SameOperators, LatestType, HdrFields
     DEF LockInvOf, HeaderOf, RecoverScanDone, SameReads, LogSame
<1>6. ReaderOf(c)'
  BY <1>1, <1>2, <1>3, <1>4, SameOperators DEF LockInvOf, ReaderOf,
     RecoverScanDone, SameReads
<1>7. CkptOf(c)'
  BY <1>1, <1>2, <1>3, <1>4, SameOperators DEF LockInvOf, CkptOf,
     RecoverScanDone, SameReads
<1>. QED
  BY <1>1, <1>2, <1>3, <1>4, <1>5, <1>6, <1>7, QuietOut DEF RecoverScanDone,
     BackfillKept, PublishedInv, LockInvOf, GlobalLocks

\* A recovery that resets nBackfill and the free read-marks keeps what the log
\* says of the commits.
LEMMA RecoverInfoLog ==
  ASSUME Control, LogInv, NEW c \in Conn, RecoverInfo(c)
  PROVE  LogInv'
<1>1. /\ HeaderOf(c) /\ ReaderOf(c) /\ CkptOf(c) /\ PublishedInv
      /\ LogTypes /\ ChainInv /\ ImageInv
      /\ LockInvOf(c) /\ GlobalLocks /\ TypeBase /\ TypeConn(c)
  BY LocalLog
<1>2. OnlyAt(c) /\ RecoverInfoDone(c) /\ OnlyLocksOf(c) /\ Control'
  BY RecoverInfoControl
<1>3. LogSame
  BY <1>1, <1>2 DEF LogSame, RecoverInfoDone, TypeBase, TypeShared
<1>4. /\ aHdr[0].tx = latest /\ Whole(aHdr[0]) /\ latest \in 1..MaxTx
      /\ UB(latest) /\ aHdr[0].mx \in 0..MaxFrame /\ aHdr'[0] = aHdr[0]
      /\ hdr[c] = aHdr[0] /\ latest' = latest
  BY <1>1, <1>2, <1>3, LatestType, HdrFields
     DEF RecoverInfoDone, HeaderOf, PublishedInv, ImageInv, LogSame
<1>5. HeaderOf(c)'
  BY <1>1, <1>2, <1>3, <1>4, SameOperators, LatestType, HdrFields
     DEF LockInvOf, HeaderOf, RecoverInfoDone, SameReads, LogSame
<1>6. ReaderOf(c)'
  BY <1>1, <1>2, <1>3, <1>4, SameOperators DEF LockInvOf, ReaderOf,
     RecoverInfoDone, SameReads
<1>7. CkptOf(c)'
  BY <1>1, <1>2, <1>3, <1>4, SameOperators DEF LockInvOf, CkptOf,
     RecoverInfoDone, SameReads, Whole
<1>. QED
  BY <1>1, <1>2, <1>3, <1>4, <1>5, <1>6, <1>7, QuietOut DEF RecoverInfoDone,
     BackfillKept, PublishedInv, LockInvOf, GlobalLocks

\* A writer that starts the log again keeps what the log says of the commits.
LEMMA RestartLogLog ==
  ASSUME Control, LogInv, NEW c \in Conn, RestartLog(c)
  PROVE  LogInv'
<1>1. /\ HeaderOf(c) /\ ReaderOf(c) /\ CkptOf(c) /\ PublishedInv
      /\ LogTypes /\ ChainInv /\ ImageInv
      /\ LockInvOf(c) /\ GlobalLocks /\ TypeBase /\ TypeConn(c)
  BY LocalLog
<1>2. OnlyAt(c) /\ RestartLogDone(c) /\ OnlyLocksOf(c) /\ Control'
  BY RestartLogControl
<1>3. LogSame
  BY <1>1, <1>2 DEF LogSame, RestartLogDone, TypeBase, TypeShared
<1>4. LB(latest) /\ latest' = latest
  BY <1>1, <1>2, <1>3
     DEF RestartLogDone, ReaderOf, Base, PublishedInv, LogSame
<1>5. HeaderOf(c)'
  BY <1>1, <1>2, <1>3, <1>4, SameOperators, LatestType, HdrFields
     DEF LockInvOf, HeaderOf, RestartLogDone, SameReads, LogSame
<1>6. ReaderOf(c)'
  BY <1>1, <1>2, <1>3, <1>4, SameOperators DEF LockInvOf, ReaderOf,
     RestartLogDone, SameReads
<1>7. CkptOf(c)'
  BY <1>1, <1>2, <1>3, <1>4, SameOperators DEF LockInvOf, CkptOf,
     RestartLogDone, SameReads
<1>. QED
  BY <1>1, <1>2, <1>3, <1>4, <1>5, <1>6, <1>7, QuietOut DEF RestartLogDone,
     BackfillKept, PublishedInv, LockInvOf, GlobalLocks

\* A writer that cannot start the log again keeps what the log says of the
\* commits.
LEMMA KeepLogLog ==
  ASSUME Control, LogInv, NEW c \in Conn, KeepLog(c)
  PROVE  LogInv'
<1>1. /\ HeaderOf(c) /\ ReaderOf(c) /\ CkptOf(c) /\ PublishedInv
      /\ LogTypes /\ ChainInv /\ ImageInv
      /\ LockInvOf(c) /\ GlobalLocks /\ TypeBase /\ TypeConn(c)
  BY LocalLog
<1>2. OnlyAt(c) /\ KeepLogDone(c) /\ OnlyLocksOf(c) /\ Control'
  BY KeepLogControl
<1>3. LogSame
  BY <1>1, <1>2 DEF LogSame, KeepLogDone, TypeBase, TypeShared
<1>5. HeaderOf(c)'
  BY <1>1, <1>2, <1>3, SameOperators, LatestType, HdrFields DEF LockInvOf,
     HeaderOf, KeepLogDone, SameReads, LogSame
<1>6. ReaderOf(c)'
  BY <1>1, <1>2, <1>3, SameOperators DEF LockInvOf, ReaderOf, KeepLogDone,
     SameReads
<1>7. CkptOf(c)'
  BY <1>1, <1>2, <1>3, SameOperators DEF LockInvOf, CkptOf, KeepLogDone,
     SameReads
<1>. QED
  BY <1>1, <1>2, <1>3, <1>5, <1>6, <1>7, QuietOut DEF KeepLogDone,
     BackfillKept, PublishedInv, LockInvOf, GlobalLocks

\* nBackfill of the new log keeps what the log says of the commits.
LEMMA RestartBackfillLog ==
  ASSUME Control, LogInv, NEW c \in Conn, RestartBackfill(c)
  PROVE  LogInv'
<1>1. /\ HeaderOf(c) /\ ReaderOf(c) /\ CkptOf(c) /\ PublishedInv
      /\ LogTypes /\ ChainInv /\ ImageInv
      /\ LockInvOf(c) /\ GlobalLocks /\ TypeBase /\ TypeConn(c)
  BY LocalLog
<1>2. OnlyAt(c) /\ RestartBackfillDone(c) /\ OnlyLocksOf(c) /\ Control'
  BY RestartBackfillControl
<1>3. LogSame
  BY <1>1, <1>2 DEF LogSame, RestartBackfillDone, TypeBase, TypeShared
<1>5. HeaderOf(c)'
  BY <1>1, <1>2, <1>3, SameOperators, LatestType, HdrFields DEF LockInvOf,
     HeaderOf, RestartBackfillDone, SameReads, LogSame
<1>6. ReaderOf(c)'
  BY <1>1, <1>2, <1>3, SameOperators DEF LockInvOf, ReaderOf,
     RestartBackfillDone, SameReads
<1>7. CkptOf(c)'
  BY <1>1, <1>2, <1>3, SameOperators DEF LockInvOf, CkptOf,
     RestartBackfillDone, SameReads
<1>. QED
  BY <1>1, <1>2, <1>3, <1>5, <1>6, <1>7, QuietOut DEF RestartBackfillDone,
     BackfillKept, PublishedInv, LockInvOf, GlobalLocks

\* The read-marks of the new log keeps what the log says of the commits.
LEMMA RestartMarksLog ==
  ASSUME Control, LogInv, NEW c \in Conn, RestartMarks(c)
  PROVE  LogInv'
<1>1. /\ HeaderOf(c) /\ ReaderOf(c) /\ CkptOf(c) /\ PublishedInv
      /\ LogTypes /\ ChainInv /\ ImageInv
      /\ LockInvOf(c) /\ GlobalLocks /\ TypeBase /\ TypeConn(c)
  BY LocalLog
<1>2. OnlyAt(c) /\ RestartMarksDone(c) /\ OnlyLocksOf(c) /\ Control'
  BY RestartMarksControl
<1>3. LogSame
  BY <1>1, <1>2 DEF LogSame, RestartMarksDone, TypeBase, TypeShared
<1>5. HeaderOf(c)'
  BY <1>1, <1>2, <1>3, SameOperators, LatestType, HdrFields DEF LockInvOf,
     HeaderOf, RestartMarksDone, SameReads, LogSame
<1>6. ReaderOf(c)'
  BY <1>1, <1>2, <1>3, SameOperators DEF LockInvOf, ReaderOf,
     RestartMarksDone, SameReads
<1>7. CkptOf(c)'
  BY <1>1, <1>2, <1>3, SameOperators DEF LockInvOf, CkptOf, RestartMarksDone,
     SameReads
<1>. QED
  BY <1>1, <1>2, <1>3, <1>5, <1>6, <1>7, QuietOut DEF RestartMarksDone,
     BackfillKept, PublishedInv, LockInvOf, GlobalLocks

\* Copy 1 of the header of a commit keeps what the log says of the commits.
LEMMA Publish1Log ==
  ASSUME Control, LogInv, NEW c \in Conn, Publish1(c)
  PROVE  LogInv'
<1>1. /\ HeaderOf(c) /\ ReaderOf(c) /\ CkptOf(c) /\ PublishedInv
      /\ LogTypes /\ ChainInv /\ ImageInv
      /\ LockInvOf(c) /\ GlobalLocks /\ TypeBase /\ TypeConn(c)
  BY LocalLog
<1>2. OnlyAt(c) /\ Publish1Done(c) /\ OnlyLocksOf(c) /\ Control'
  BY Publish1Control
<1>3. LogSame
  BY <1>1, <1>2 DEF LogSame, Publish1Done, TypeBase, TypeShared
<1>4. aHdr[0] # ZeroHdr /\ Base(c)' = aHdr[0] /\ Base(c) = aHdr[0]
  BY <1>1, <1>2, <1>3 DEF Publish1Done, PublishedInv, LogSame, Base
<1>5. HeaderOf(c)'
  BY <1>1, <1>2, <1>3, <1>4, SameOperators, LatestType, HdrFields
     DEF LockInvOf, HeaderOf, Publish1Done, SameReads, LogSame
<1>6. ReaderOf(c)'
  BY <1>1, <1>2, <1>3, <1>4, SameOperators DEF LockInvOf, ReaderOf,
     Publish1Done, SameReads
<1>7. CkptOf(c)'
  BY <1>1, <1>2, <1>3, <1>4, SameOperators DEF LockInvOf, CkptOf,
     Publish1Done, SameReads
<1>. QED
  BY <1>1, <1>2, <1>3, <1>4, <1>5, <1>6, <1>7, QuietIn DEF Publish1Done,
     BackfillKept, PublishedInv, LockInvOf, GlobalLocks

\* A checkpoint that takes its locks keeps what the log says of the commits.
LEMMA CkptBeginLog ==
  ASSUME Control, LogInv, NEW c \in Conn, NEW m \in Modes, CkptBegin(c, m)
  PROVE  LogInv'
<1>1. /\ HeaderOf(c) /\ ReaderOf(c) /\ CkptOf(c) /\ PublishedInv
      /\ LogTypes /\ ChainInv /\ ImageInv
      /\ LockInvOf(c) /\ GlobalLocks /\ TypeBase /\ TypeConn(c)
  BY LocalLog
<1>2. OnlyAt(c) /\ CkptBeginDone(c, m) /\ OnlyLocksOf(c) /\ Control'
  BY CkptBeginControl
<1>3. LogSame
  BY <1>1, <1>2 DEF LogSame, CkptBeginDone, TypeBase, TypeShared
<1>5. HeaderOf(c)'
  BY <1>1, <1>2, <1>3, SameOperators, LatestType, HdrFields DEF LockInvOf,
     HeaderOf, CkptBeginDone, SameReads, LogSame
<1>6. ReaderOf(c)'
  BY <1>1, <1>2, <1>3, SameOperators DEF LockInvOf, ReaderOf, CkptBeginDone,
     SameReads
<1>7. CkptOf(c)'
  BY <1>1, <1>2, <1>3, SameOperators DEF LockInvOf, CkptOf, CkptBeginDone,
     SameReads
<1>. QED
  BY <1>1, <1>2, <1>3, <1>5, <1>6, <1>7, QuietOut DEF CkptBeginDone,
     BackfillKept, PublishedInv, LockInvOf, GlobalLocks

\* A checkpoint that reads the header keeps what the log says of the commits.
LEMMA CkptReadHdrLog ==
  ASSUME Control, LogInv, NEW c \in Conn, CkptReadHdr(c)
  PROVE  LogInv'
<1>1. /\ HeaderOf(c) /\ ReaderOf(c) /\ CkptOf(c) /\ PublishedInv
      /\ LogTypes /\ ChainInv /\ ImageInv
      /\ LockInvOf(c) /\ GlobalLocks /\ TypeBase /\ TypeConn(c)
  BY LocalLog
<1>2. OnlyAt(c) /\ CkptReadHdrDone(c) /\ OnlyLocksOf(c) /\ Control'
  BY CkptReadHdrControl
<1>3. LogSame
  BY <1>1, <1>2 DEF LogSame, CkptReadHdrDone, TypeBase, TypeShared
<1>4. /\ aHdr[0] # ZeroHdr => /\ aHdr[0].tx = latest /\ Whole(aHdr[0])
                              /\ UB(latest)
      /\ latest \in 1..MaxTx /\ aHdr[0].mx \in 0..MaxFrame
      /\ aHdr'[0] = aHdr[0] /\ latest' = latest /\ ZeroHdr.tx = 0
      /\ HeaderGood => aHdr[0] # ZeroHdr
  BY <1>1, <1>3, LatestType, HdrFields
     DEF PublishedInv, ImageInv, LogSame, ZeroHdr, HeaderGood
<1>5. HeaderOf(c)'
  BY <1>1, <1>2, <1>3, <1>4, SameOperators, LatestType, HdrFields
     DEF LockInvOf, HeaderOf, CkptReadHdrDone, SameReads, LogSame
<1>6. ReaderOf(c)'
  BY <1>1, <1>2, <1>3, <1>4, SameOperators DEF LockInvOf, ReaderOf,
     CkptReadHdrDone, SameReads
<1>7. CkptOf(c)'
  BY <1>1, <1>2, <1>3, <1>4, SameOperators DEF LockInvOf, CkptOf,
     CkptReadHdrDone, SameReads, Whole
<1>. QED
  BY <1>1, <1>2, <1>3, <1>4, <1>5, <1>6, <1>7, QuietOut DEF CkptReadHdrDone,
     BackfillKept, PublishedInv, LockInvOf, GlobalLocks

\* A checkpoint that is interrupted keeps what the log says of the commits.
LEMMA CkptInterruptLog ==
  ASSUME Control, LogInv, NEW c \in Conn, CkptInterrupt(c)
  PROVE  LogInv'
<1>1. /\ HeaderOf(c) /\ ReaderOf(c) /\ CkptOf(c) /\ PublishedInv
      /\ LogTypes /\ ChainInv /\ ImageInv
      /\ LockInvOf(c) /\ GlobalLocks /\ TypeBase /\ TypeConn(c)
  BY LocalLog
<1>2. OnlyAt(c) /\ CkptInterruptDone(c) /\ OnlyLocksOf(c) /\ Control'
  BY CkptInterruptControl
<1>3. LogSame
  BY <1>1, <1>2 DEF LogSame, CkptInterruptDone, TypeBase, TypeShared
<1>4. latest \in 1..MaxTx /\ latest' = latest /\ ZeroHdr.tx = 0
  BY <1>1, <1>3, LatestType DEF LogSame, ZeroHdr
<1>5. HeaderOf(c)'
  BY <1>1, <1>2, <1>3, <1>4, SameOperators, LatestType, HdrFields
     DEF LockInvOf, HeaderOf, CkptInterruptDone, SameReads, LogSame
<1>6. ReaderOf(c)'
  BY <1>1, <1>2, <1>3, <1>4, SameOperators DEF LockInvOf, ReaderOf,
     CkptInterruptDone, SameReads
<1>7. CkptOf(c)'
  BY <1>1, <1>2, <1>3, <1>4, SameOperators DEF LockInvOf, CkptOf,
     CkptInterruptDone, SameReads
<1>. QED
  BY <1>1, <1>2, <1>3, <1>4, <1>5, <1>6, <1>7, QuietOut DEF CkptInterruptDone,
     BackfillKept, PublishedInv, LockInvOf, GlobalLocks

\* A checkpoint that starts the log again keeps what the log says of the
\* commits.
LEMMA CkptRestartLog ==
  ASSUME Control, LogInv, NEW c \in Conn, CkptRestart(c)
  PROVE  LogInv'
<1>1. /\ HeaderOf(c) /\ ReaderOf(c) /\ CkptOf(c) /\ PublishedInv
      /\ LogTypes /\ ChainInv /\ ImageInv
      /\ LockInvOf(c) /\ GlobalLocks /\ TypeBase /\ TypeConn(c)
  BY LocalLog
<1>2. OnlyAt(c) /\ CkptRestartDone(c) /\ OnlyLocksOf(c) /\ Control'
  BY CkptRestartControl
<1>3. LogSame
  BY <1>1, <1>2 DEF LogSame, CkptRestartDone, TypeBase, TypeShared
<1>4. LB(latest) /\ latest' = latest /\ hdr[c] = aHdr[0] /\ aHdr[0].tx = latest
  <2>1. aHdr[0] # ZeroHdr /\ hdr[c] = aHdr[0] /\ aHdr[0].tx = latest
    BY <1>1, <1>2 DEF CkptRestartDone, PublishedInv, CkptOf
  <2>2. LB(latest)
    BY <1>2, <2>1, BackfilledWhole DEF CkptRestartDone
  <2>. QED
    BY <1>3, <2>1, <2>2 DEF LogSame
<1>5. HeaderOf(c)'
  BY <1>1, <1>2, <1>3, <1>4, SameOperators, LatestType, HdrFields
     DEF LockInvOf, HeaderOf, CkptRestartDone, SameReads, LogSame
<1>6. ReaderOf(c)'
  BY <1>1, <1>2, <1>3, <1>4, SameOperators DEF LockInvOf, ReaderOf,
     CkptRestartDone, SameReads
<1>7. CkptOf(c)'
  BY <1>1, <1>2, <1>3, <1>4, SameOperators DEF LockInvOf, CkptOf,
     CkptRestartDone, SameReads
<1>. QED
  BY <1>1, <1>2, <1>3, <1>4, <1>5, <1>6, <1>7, QuietOut DEF CkptRestartDone,
     BackfillKept, PublishedInv, LockInvOf, GlobalLocks

\* The end of a checkpoint keeps what the log says of the commits.
LEMMA CkptReturnLog ==
  ASSUME Control, LogInv, NEW c \in Conn, CkptReturn(c)
  PROVE  LogInv'
<1>1. /\ HeaderOf(c) /\ ReaderOf(c) /\ CkptOf(c) /\ PublishedInv
      /\ LogTypes /\ ChainInv /\ ImageInv
      /\ LockInvOf(c) /\ GlobalLocks /\ TypeBase /\ TypeConn(c)
  BY LocalLog
<1>2. OnlyAt(c) /\ CkptReturnDone(c) /\ OnlyLocksOf(c) /\ Control'
  BY CkptReturnControl
<1>3. LogSame
  BY <1>1, <1>2 DEF LogSame, CkptReturnDone, TypeBase, TypeShared
<1>4. latest \in 1..MaxTx /\ latest' = latest /\ ZeroHdr.tx = 0
  BY <1>1, <1>3, LatestType DEF LogSame, ZeroHdr
<1>5. HeaderOf(c)'
  BY <1>1, <1>2, <1>3, <1>4, SameOperators, LatestType, HdrFields
     DEF LockInvOf, HeaderOf, CkptReturnDone, SameReads, LogSame
<1>6. ReaderOf(c)'
  BY <1>1, <1>2, <1>3, <1>4, SameOperators DEF LockInvOf, ReaderOf,
     CkptReturnDone, SameReads
<1>7. CkptOf(c)'
  BY <1>1, <1>2, <1>3, <1>4, SameOperators DEF LockInvOf, CkptOf,
     CkptReturnDone, SameReads
<1>. QED
  BY <1>1, <1>2, <1>3, <1>4, <1>5, <1>6, <1>7, QuietOut DEF CkptReturnDone,
     BackfillKept, PublishedInv, LockInvOf, GlobalLocks

\* The death of a process keeps what the log says of the commits.
LEMMA DieLog ==
  ASSUME Control, LogInv, NEW c \in Conn, Die(c),
         "restartInfo" \notin DeathPcs
  PROVE  LogInv'
<1>1. /\ HeaderOf(c) /\ ReaderOf(c) /\ CkptOf(c) /\ PublishedInv
      /\ LogTypes /\ ChainInv /\ ImageInv
      /\ LockInvOf(c) /\ GlobalLocks /\ TypeBase /\ TypeConn(c)
  BY LocalLog
<1>2. OnlyAt(c) /\ DieDone(c) /\ OnlyLocksOf(c) /\ Control'
  BY DieControl
<1>3. LogSame
  BY <1>1, <1>2 DEF LogSame, DieDone, TypeBase, TypeShared
<1>4. latest \in 1..MaxTx /\ latest' = latest /\ ZeroHdr.tx = 0
  BY <1>1, <1>3, LatestType DEF LogSame, ZeroHdr
<1>5. HeaderOf(c)'
  BY <1>1, <1>2, <1>3, <1>4, SameOperators, LatestType, HdrFields
     DEF LockInvOf, HeaderOf, DieDone, SameReads, LogSame
<1>6. ReaderOf(c)'
  BY <1>1, <1>2, <1>3, <1>4, SameOperators DEF LockInvOf, ReaderOf, DieDone,
     SameReads
<1>7. CkptOf(c)'
  BY <1>1, <1>2, <1>3, <1>4, SameOperators DEF LockInvOf, CkptOf, DieDone,
     SameReads
<1>. QED
  BY <1>1, <1>2, <1>3, <1>4, <1>5, <1>6, <1>7, QuietOut DEF DieDone,
     BackfillKept, PublishedInv, LockInvOf, GlobalLocks

-----------------------------------------------------------------------------
(* Steps into a transaction, and the scan of a checkpoint *)

\* READ(0), for a reader of the database file alone keeps what the log says of
\* the commits.
LEMMA LockRead0Log ==
  ASSUME Control, LogInv, NEW c \in Conn, LockRead0(c)
  PROVE  LogInv'
<1>1. /\ HeaderOf(c) /\ ReaderOf(c) /\ CkptOf(c) /\ PublishedInv
      /\ LogTypes /\ ChainInv /\ ImageInv
      /\ LockInvOf(c) /\ GlobalLocks /\ TypeBase /\ TypeConn(c)
  BY LocalLog
<1>2. OnlyAt(c) /\ LockRead0Done(c) /\ OnlyLocksOf(c) /\ Control'
  BY LockRead0Control
<1>3. LogSame
  BY <1>1, <1>2 DEF LogSame, LockRead0Done, TypeBase, TypeShared
<1>4. aHdr[0] # ZeroHdr /\ aHdr[0].tx = latest /\ latest' = latest
  BY <1>1, <1>2, <1>3 DEF LockRead0Done, PublishedInv, LogSame
<1>5. writeLock # c
  BY <1>1, <1>2 DEF LockRead0Done, LockInvOf
<1>6. HeaderOf(c)'
  BY <1>1, <1>2, <1>3, <1>4, <1>5 DEF LockRead0Done, HeaderOf, LogSame
<1>7. CkptOf(c)'
  BY <1>2, <1>5 DEF LockRead0Done, CkptOf
<1>8. CASE pc'[c] \in {"mark", "idle"}
  <2>1. ReaderOf(c)'
    BY <1>8 DEF ReaderOf
  <2>. QED
    BY <1>1, <1>2, <1>3, <1>4, <1>5, <1>6, <1>7, <1>8, <2>1, QuietOut
       DEF LockRead0Done, BackfillKept, LockInvOf, GlobalLocks
<1>9. CASE pc'[c] \notin {"mark", "idle"}
  <2>1. /\ pc'[c] = "read" /\ hdr'[c] = aHdr[0] /\ readLock'[c] = 0
        /\ hdr[c] = aHdr[0] /\ Base(c)' = aHdr[0]
    BY <1>2, <1>5, <1>9 DEF LockRead0Done, Base
  <2>2. UB(latest) /\ LB(latest)
    BY <1>1, <1>2, <1>4, <2>1 DEF LockRead0Done, HeaderOf, ImageInv
  <2>3. ReaderOf(c)'
    BY <1>3, <1>4, <2>1, <2>2, SameOperators DEF ReaderOf
  <2>. QED
    BY <1>1, <1>2, <1>3, <1>4, <1>5, <1>6, <1>7, <2>1, <2>3, QuietIn
       DEF LockRead0Done, GlobalLocks
<1>. QED
  BY <1>8, <1>9

\* The second look at the read-mark and the header keeps what the log says of
\* the commits.
LEMMA CheckMarkLog ==
  ASSUME Control, LogInv, NEW c \in Conn, CheckMark(c)
  PROVE  LogInv'
<1>1. /\ HeaderOf(c) /\ ReaderOf(c) /\ CkptOf(c) /\ PublishedInv
      /\ LogTypes /\ ChainInv /\ ImageInv
      /\ LockInvOf(c) /\ GlobalLocks /\ TypeBase /\ TypeConn(c)
  BY LocalLog
<1>2. OnlyAt(c) /\ CheckMarkDone(c) /\ OnlyLocksOf(c) /\ Control'
  BY CheckMarkControl
<1>3. LogSame
  BY <1>1, <1>2 DEF LogSame, CheckMarkDone, TypeBase, TypeShared
<1>4. /\ aHdr[0] # ZeroHdr /\ aHdr[0].tx = latest /\ latest' = latest
      /\ Whole(aHdr[0]) /\ UB(latest) /\ aHdr'[0] = aHdr[0]
      /\ aHdr[0].mx \in 0..MaxFrame
  BY <1>1, <1>2, <1>3, HdrFields
     DEF CheckMarkDone, PublishedInv, LogSame, ImageInv
<1>5. writeLock = c => hdr[c] = aHdr[0] /\ spilled = {}
  BY <1>1, <1>2 DEF CheckMarkDone, LockInvOf, HeaderOf
<1>6. HeaderOf(c)'
  BY <1>1, <1>2, <1>3, <1>4, <1>5 DEF CheckMarkDone, HeaderOf, LogSame
<1>7. CkptOf(c)'
  BY <1>2 DEF CheckMarkDone, CkptOf
<1>8. CASE pc'[c] \in {"mark", "idle"}
  <2>1. ReaderOf(c)'
    BY <1>8 DEF ReaderOf
  <2>. QED
    BY <1>1, <1>2, <1>3, <1>4, <1>5, <1>6, <1>7, <1>8, <2>1, QuietOut
       DEF CheckMarkDone, BackfillKept
<1>9. CASE pc'[c] \notin {"mark", "idle"}
  <2>1. /\ pc'[c] \in {"read", "write"} /\ hdr'[c] = aHdr[0]
        /\ hdr[c] = aHdr[0] /\ readLock'[c] = readLock[c]
        /\ minFrame'[c] = minFrame[c] /\ aReadMark' = aReadMark
        /\ aReadMark[pick[c].i] = pick[c].m
    BY <1>2, <1>9 DEF CheckMarkDone
  <2>2. Base(c)' = aHdr[0]
    BY <1>4, <2>1 DEF Base
  <2>3. /\ readLock[c] = pick[c].i /\ readLock[c] > 0
        /\ pick[c].m <= aHdr[0].mx
    BY <1>1, <1>2, <2>1, Bounds DEF CheckMarkDone, LockInvOf, HeaderOf
  <2>4. /\ minFrame[c] \in 1..(aHdr[0].mx + 1)
        /\ Filled(minFrame[c] - 1, aHdr[0].mx)
    BY <1>1, <1>2 DEF CheckMarkDone, ReaderOf
  <2>5. ASSUME NEW m, NEW n, NEW h, NEW t, Filled(m, n), Whole(h), UB(t)
        PROVE  Filled(m, n)' /\ Whole(h)' /\ UB(t)'
    BY <1>3, <2>5, SameOperators
  <2>6. PICK m, n, h, t : /\ m = minFrame[c] - 1 /\ n = aHdr[0].mx
                          /\ h = aHdr[0] /\ t = latest
    OBVIOUS
  <2>7. Filled(m, n)' /\ Whole(h)' /\ UB(t)'
    BY <1>4, <2>4, <2>5, <2>6
  <2>8. /\ Whole(Base(c))' /\ UB(Base(c).tx)'
        /\ Filled(minFrame[c] - 1, Base(c).mx)'
    BY <1>4, <2>1, <2>2, <2>6, <2>7
  <2>9. ReaderOf(c)'
    BY <1>4, <2>1, <2>2, <2>3, <2>4, <2>8 DEF ReaderOf
  <2>. QED
    BY <1>1, <1>2, <1>3, <1>4, <1>5, <1>6, <1>7, <2>1, <2>2, <2>9, QuietIn
       DEF CheckMarkDone
<1>. QED
  BY <1>8, <1>9

\* In a transaction whose snapshot stays the same, nothing else has to be
\* shown of the reader.
LEMMA ReaderSame ==
  ASSUME NEW c, ReaderOf(c), LogSame, pc[c] \in ReadPcs, pc'[c] \in ReadPcs,
         Base(c)' = Base(c), SameReads(c), aReadMark' = aReadMark
  PROVE  ReaderOf(c)'
<1>1. ASSUME NEW m, NEW n, NEW h, NEW t
      PROVE  /\ Filled(m, n)' <=> Filled(m, n)
             /\ Whole(h)' <=> Whole(h)
             /\ (UB(t)' <=> UB(t)) /\ (LB(t)' <=> LB(t))
  BY SameOperators
<1>2. PICK m, n, h, t : /\ m = minFrame[c] - 1 /\ n = Base(c).mx
                        /\ h = Base(c) /\ t = Base(c).tx
  OBVIOUS
<1>3. m = minFrame'[c] - 1 /\ n = Base(c)'.mx /\ h = Base(c)' /\ t = Base(c)'.tx
  BY <1>2 DEF SameReads
<1>4. UB(t) /\ (readLock[c] = 0 => LB(t))
  BY <1>2 DEF ReaderOf
<1>5. readLock[c] > 0 => Whole(h) /\ Filled(m, n)
  BY <1>2 DEF ReaderOf
<1>6. UB(t)' /\ (readLock[c] = 0 => LB(t)')
  BY <1>1, <1>4
<1>7. readLock[c] > 0 => Whole(h)' /\ Filled(m, n)'
  BY <1>1, <1>5
<1>8. readLock[c] > 0 =>
        /\ Whole(Base(c))' /\ Filled(minFrame[c] - 1, Base(c).mx)'
  BY <1>3, <1>7
<1>9. UB(Base(c).tx)' /\ (readLock[c] = 0 => LB(Base(c).tx)')
  BY <1>3, <1>6
<1>10. /\ aHdr'[0] = aHdr[0] /\ readLock'[c] = readLock[c]
       /\ minFrame'[c] = minFrame[c] /\ pc'[c] # "checkMark"
  BY DEF LogSame, SameReads
<1>. QED
  BY <1>8, <1>9, <1>10 DEF ReaderOf

\* A reader that becomes the writer keeps what the log says of the commits.
LEMMA BeginWriteLog ==
  ASSUME Control, LogInv, NEW c \in Conn, BeginWrite(c)
  PROVE  LogInv'
<1>1. /\ HeaderOf(c) /\ ReaderOf(c) /\ CkptOf(c) /\ PublishedInv
      /\ LogTypes /\ ChainInv /\ ImageInv
      /\ LockInvOf(c) /\ GlobalLocks /\ TypeBase /\ TypeConn(c)
  BY LocalLog
<1>2. OnlyAt(c) /\ BeginWriteDone(c) /\ OnlyLocksOf(c) /\ Control'
  BY BeginWriteControl
<1>3. LogSame
  BY <1>1, <1>2 DEF LogSame, BeginWriteDone, TypeBase, TypeShared
<1>4. /\ aHdr[0] # ZeroHdr /\ aHdr[0].tx = latest /\ latest' = latest
      /\ aHdr'[0] = aHdr[0] /\ spilled = {}
  BY <1>1, <1>2, <1>3 DEF BeginWriteDone, PublishedInv, LogSame, GlobalLocks
<1>5. Base(c)' = aHdr[0] /\ Base(c) = aHdr[0]
  BY <1>2, <1>4 DEF BeginWriteDone, Base
<1>6. HeaderOf(c)'
  BY <1>1, <1>2, <1>3, <1>4 DEF BeginWriteDone, HeaderOf
<1>7. CkptOf(c)'
  BY <1>2 DEF BeginWriteDone, CkptOf
<1>8. ReaderOf(c)'
  BY <1>1, <1>2, <1>3, <1>5, ReaderSame DEF BeginWriteDone
<1>. QED
  BY <1>1, <1>2, <1>3, <1>4, <1>5, <1>6, <1>7, <1>8, QuietIn
     DEF BeginWriteDone

\* The end of a write transaction that does not commit keeps what the log says
\* of the commits.
LEMMA RollbackLog ==
  ASSUME Control, LogInv, NEW c \in Conn, Rollback(c)
  PROVE  LogInv'
<1>1. /\ HeaderOf(c) /\ ReaderOf(c) /\ CkptOf(c) /\ PublishedInv
      /\ LogTypes /\ ChainInv /\ ImageInv
      /\ LockInvOf(c) /\ GlobalLocks /\ TypeBase /\ TypeConn(c)
  BY LocalLog
<1>2. OnlyAt(c) /\ RollbackDone(c) /\ OnlyLocksOf(c) /\ Control'
  BY RollbackControl
<1>3. LogSame
  BY <1>1, <1>2 DEF LogSame, RollbackDone, TypeBase, TypeShared
<1>4. /\ aHdr[0] # ZeroHdr /\ aHdr[0].tx = latest /\ latest' = latest
      /\ aHdr'[0] = aHdr[0] /\ latest >= 1
  BY <1>1, <1>2, <1>3, LatestType
     DEF RollbackDone, PublishedInv, LogSame
<1>5. Base(c)' = aHdr[0] /\ Base(c) = aHdr[0]
  BY <1>2, <1>4 DEF RollbackDone, Base
<1>6. HeaderOf(c)'
  BY <1>1, <1>2, <1>3, <1>4, LatestType DEF RollbackDone, HeaderOf
<1>7. CkptOf(c)'
  BY <1>2 DEF RollbackDone, CkptOf
<1>8. ReaderOf(c)'
  BY <1>1, <1>2, <1>3, <1>5, ReaderSame DEF RollbackDone
<1>. QED
  BY <1>1, <1>2, <1>3, <1>4, <1>5, <1>6, <1>7, <1>8, QuietIn
     DEF RollbackDone

\* The frames from lo on of page p that a lookup finds, and the last one.
LEMMA Found ==
  ASSUME NEW h, h.mx \in 1..MaxFrame, InLog(h), NEW lo \in 1..(h.mx + 1), NEW p
  PROVE  /\ FramesOf(p, lo, h.mx) = {} =>
              \A g \in 1..h.mx : g >= lo => wal[g].pg # p
         /\ FramesOf(p, lo, h.mx) # {} =>
              /\ Max(FramesOf(p, lo, h.mx)) \in 1..h.mx
              /\ Max(FramesOf(p, lo, h.mx)) >= lo
              /\ LastAt(p, Max(FramesOf(p, lo, h.mx)), h.mx)
<1>. DEFINE S == FramesOf(p, lo, h.mx)
<1>1. S = {f \in 1..h.mx : f >= lo /\ wal[f].pg = p}
  <2>1. \A f \in 1..h.mx : wal[f].salt = walSalt
    BY ValidPrefix DEF InLog
  <2>2. \A f : f \in (lo..h.mx) \ {0} <=> f \in 1..h.mx /\ f >= lo
    OBVIOUS
  <2>. QED
    BY <2>1, <2>2 DEF FramesOf
<1>2. S # {} => Max(S) \in S /\ \A f \in S : f <= Max(S)
  BY LastFrame, lo \in Nat /\ h.mx \in Nat
<1>3. ASSUME S # {}
      PROVE  Max(S) \in 1..h.mx /\ Max(S) >= lo /\ LastAt(p, Max(S), h.mx)
  <2>1. PICK m : m = Max(S)
    OBVIOUS
  <2>2. m \in 1..h.mx /\ m >= lo /\ wal[m].pg = p
    BY <1>1, <1>2, <1>3, <2>1
  <2>3. ASSUME NEW g \in 1..h.mx, g > m, wal[g].pg = p
        PROVE  FALSE
    <3>1. g >= lo
      BY <2>2, <2>3
    <3>2. g \in S
      BY <1>1, <2>3, <3>1
    <3>3. g <= m
      BY <1>2, <1>3, <2>1, <3>2
    <3>. QED
      BY <2>2, <2>3, <3>3
  <2>. QED
    BY <2>1, <2>2, <2>3 DEF LastAt
<1>. QED
  BY <1>1, <1>3

\* The checkpoint goes on with the header it has.
LEMMA CkptSame ==
  ASSUME NEW c, LogSame, CkptOf(c), hdr'[c] = hdr[c],
         pc[c] \in {"ckTest", "ckScan", "ckCopy"}
  PROVE  /\ hdr'[c].mx = 0 \/ (InLog(hdr[c])' /\ hdr'[c].mx <= aHdr'[0].mx)
         /\ UB(hdr[c].tx)'
         /\ ckpt.mode # "PASSIVE" => hdr'[c] = aHdr'[0]
<1>1. PICK h, t : h = hdr[c] /\ t = hdr[c].tx
  OBVIOUS
<1>2. (InLog(h)' <=> InLog(h)) /\ (UB(t)' <=> UB(t))
  BY SameOperators
<1>3. h = hdr'[c] /\ t = hdr'[c].tx /\ aHdr'[0] = aHdr[0]
  BY <1>1 DEF LogSame
<1>4. (h.mx = 0 \/ (InLog(h) /\ h.mx <= aHdr[0].mx)) /\ UB(t)
  BY <1>1 DEF CkptOf
<1>5. (h.mx = 0 \/ (InLog(h)' /\ h.mx <= aHdr[0].mx)) /\ UB(t)'
  BY <1>2, <1>4
<1>. QED
  BY <1>1, <1>3, <1>5 DEF CkptOf

\* A checkpoint that asks whether there is anything to copy keeps what the log
\* says of the commits.
LEMMA CkptTestLog ==
  ASSUME Control, LogInv, NEW c \in Conn, CkptTest(c)
  PROVE  LogInv'
<1>1. /\ HeaderOf(c) /\ ReaderOf(c) /\ CkptOf(c) /\ PublishedInv
      /\ LogTypes /\ ChainInv /\ ImageInv
      /\ LockInvOf(c) /\ GlobalLocks /\ TypeBase /\ TypeConn(c)
  BY LocalLog
<1>2. OnlyAt(c) /\ CkptTestDone(c) /\ OnlyLocksOf(c) /\ Control'
  BY CkptTestControl
<1>3. LogSame
  BY <1>1, <1>2 DEF LogSame, CkptTestDone, TypeBase, TypeShared
<1>4. /\ \A d \in Conn \ {c} : Excluded(d)
      /\ aHdr[0] # ZeroHdr /\ ckpt \in CkptType /\ nBackfill \in Nat
      /\ hdr[c].mx \in 0..MaxFrame /\ latest' = latest
  <2>1. \A d \in Conn \ {c} : Excluded(d)
    BY <1>2, <1>3, QuietExcluded DEF CkptTestDone
  <2>2. hdr[c].mx \in 0..MaxFrame
    BY <1>1, HdrFields
  <2>3. aHdr[0] # ZeroHdr
    BY <1>1, <1>2 DEF CkptTestDone, PublishedInv
  <2>4. ckpt \in CkptType /\ nBackfill \in 0..MaxFrame
    BY <1>1 DEF TypeBase, TypeShared
  <2>. QED
    BY <1>3, <2>1, <2>2, <2>3, <2>4, Bounds DEF LogSame
<1>5. /\ hdr'[c].mx = 0 \/ (InLog(hdr[c])' /\ hdr'[c].mx <= aHdr'[0].mx)
      /\ UB(hdr[c].tx)'
      /\ ckpt.mode # "PASSIVE" => hdr'[c] = aHdr'[0]
  BY <1>1, <1>2, <1>3, CkptSame DEF CkptTestDone
<1>6. HeaderOf(c)'
  BY <1>1, <1>2, <1>4 DEF CkptTestDone, HeaderOf
<1>7. ReaderOf(c)'
  BY <1>2 DEF CkptTestDone, ReaderOf
<1>8. ckpt'.mode = ckpt.mode
  BY <1>2 DEF CkptTestDone, CkptIs
<1>9. CkptOf(c)'
  BY <1>1, <1>2, <1>4, <1>5, <1>8 DEF CkptTestDone, CkptOf, CkptIs
<1>10. MarksRespected'
  <2>1. TypeBase'
    BY <1>2 DEF Control
  <2>2. pc'[c] \in ScanPcs => pc[c] = "ckTest" /\ ckpt'.i = 1
    BY <1>2 DEF CkptTestDone, CkptIs
  <2>3. pc'[c] \notin ReadPcs
    BY <1>2 DEF CkptTestDone
  <2>4. \A m \in Marks : ~(m < 1)
    BY Bounds
  <2>. QED
    BY <1>2, <1>4, <2>1, <2>2, <2>3, <2>4, MarksKept
<1>11. BackfillKept(c)
  BY <1>2 DEF BackfillKept, CkptTestDone
<1>12. /\ spilled' = spilled
       /\ spilled = {} \/ (writeLock' = writeLock /\ writeLock # c)
  BY <1>1, <1>2 DEF CkptTestDone, LockInvOf
<1>. QED
  BY <1>2, <1>3, <1>4, <1>6, <1>7, <1>9, <1>10, <1>11, <1>12, QuietStep

\* A checkpoint at one read-mark keeps what the log says of the commits.
LEMMA CkptScanLog ==
  ASSUME Control, LogInv, NEW c \in Conn, CkptScan(c)
  PROVE  LogInv'
<1>1. /\ HeaderOf(c) /\ ReaderOf(c) /\ CkptOf(c) /\ PublishedInv
      /\ LogTypes /\ ChainInv /\ ImageInv
      /\ LockInvOf(c) /\ GlobalLocks /\ TypeBase /\ TypeConn(c)
  BY LocalLog
<1>2. OnlyAt(c) /\ CkptScanDone(c) /\ OnlyLocksOf(c) /\ Control'
  BY CkptScanControl
<1>3. LogSame
  BY <1>1, <1>2 DEF LogSame, CkptScanDone, TypeBase, TypeShared
<1>4. /\ aHdr[0] # ZeroHdr /\ ckpt \in CkptType /\ latest' = latest
      /\ \A d \in Conn \ {c} : Excluded(d)
  BY <1>1, <1>2, <1>3, QuietExcluded
     DEF CkptScanDone, PublishedInv, TypeBase, TypeShared, LogSame
<1>5. /\ hdr'[c].mx = 0 \/ (InLog(hdr[c])' /\ hdr'[c].mx <= aHdr'[0].mx)
      /\ UB(hdr[c].tx)'
      /\ ckpt.mode # "PASSIVE" => hdr'[c] = aHdr'[0]
  BY <1>1, <1>2, <1>3, CkptSame DEF CkptScanDone
<1>6. HeaderOf(c)'
  BY <1>1, <1>2, <1>4 DEF CkptScanDone, HeaderOf
<1>7. ReaderOf(c)'
  BY <1>2 DEF CkptScanDone, ReaderOf
<1>8. /\ ckpt'.mode = ckpt.mode /\ ckpt'.i = ckpt.i + 1
      /\ ckpt'.mxSafe \in Int /\ ckpt'.mxSafe <= ckpt.mxSafe
      /\ ckpt.mxSafe \in Int /\ ckpt.i \in Int /\ hdr[c].mx \in Int
  <2>1. ckpt.mxSafe \in 0..MaxFrame /\ ckpt.i \in 0..NReader + 1
    BY <1>4 DEF CkptType
  <2>2. ckpt'.mxSafe \in 0..ckpt.mxSafe
    BY <1>2 DEF CkptScanDone
  <2>. QED
    BY <1>1, <1>2, <2>1, <2>2, HdrFields DEF CkptScanDone, CkptIs
<1>9. CkptOf(c)'
  BY <1>1, <1>2, <1>5, <1>8 DEF CkptScanDone, CkptOf
<1>10. MarksRespected'
  <2>1. TypeBase'
    BY <1>2 DEF Control
  <2>2. ASSUME NEW m \in Marks, NEW e \in Conn, readLock[e] = m, m < ckpt'.i
        PROVE  \/ m < ckpt.i /\ ckpt'.mxSafe <= ckpt.mxSafe
               \/ ckpt'.mxSafe <= aReadMark[m]
    <3>1. m < ckpt.i \/ m = ckpt.i
      BY <1>8, <2>2
    <3>2. ~MarkFree(m)
      BY <2>2 DEF MarkFree, Shared
    <3>. QED
      BY <1>2, <1>8, <3>1, <3>2 DEF CkptScanDone
  <2>3. pc'[c] \notin ReadPcs /\ pc[c] \in ScanPcs
    BY <1>2 DEF CkptScanDone
  <2>. QED
    BY <1>2, <1>4, <2>1, <2>2, <2>3, MarksKept
<1>11. BackfillKept(c)
  BY <1>2 DEF BackfillKept, CkptScanDone
<1>12. /\ spilled' = spilled
       /\ spilled = {} \/ (writeLock' = writeLock /\ writeLock # c)
  BY <1>1, <1>2 DEF CkptScanDone, LockInvOf
<1>. QED
  BY <1>2, <1>3, <1>4, <1>6, <1>7, <1>9, <1>10, <1>11, <1>12, QuietStep

\* A checkpoint that takes READ(0) and starts to copy keeps what the log says of
\* the commits.
LEMMA CkptStartLog ==
  ASSUME Control, LogInv, NEW c \in Conn, CkptStart(c)
  PROVE  LogInv'
<1>1. /\ HeaderOf(c) /\ ReaderOf(c) /\ CkptOf(c) /\ PublishedInv
      /\ LogTypes /\ ChainInv /\ ImageInv
      /\ LockInvOf(c) /\ GlobalLocks /\ TypeBase /\ TypeConn(c)
  BY LocalLog
<1>2. OnlyAt(c) /\ CkptStartDone(c) /\ OnlyLocksOf(c) /\ Control'
  BY CkptStartControl
<1>3. LogSame
  BY <1>1, <1>2 DEF LogSame, CkptStartDone, TypeBase, TypeShared
<1>4. /\ aHdr[0] # ZeroHdr /\ ckpt \in CkptType /\ latest' = latest
      /\ \A d \in Conn \ {c} : Excluded(d)
  BY <1>1, <1>2, <1>3, QuietExcluded
     DEF CkptStartDone, PublishedInv, TypeBase, TypeShared, LogSame
<1>5. /\ hdr'[c].mx = 0 \/ (InLog(hdr[c])' /\ hdr'[c].mx <= aHdr'[0].mx)
      /\ UB(hdr[c].tx)'
      /\ ckpt.mode # "PASSIVE" => hdr'[c] = aHdr'[0]
  BY <1>1, <1>2, <1>3, CkptSame DEF CkptStartDone
<1>6. HeaderOf(c)'
  BY <1>1, <1>2, <1>4 DEF CkptStartDone, HeaderOf
<1>7. ReaderOf(c)'
  BY <1>2 DEF CkptStartDone, ReaderOf
<1>8. /\ ckpt'.mode = ckpt.mode /\ ckpt'.mxSafe = ckpt.mxSafe
      /\ ckpt'.i = ckpt.i
  BY <1>2 DEF CkptStartDone, CkptIs
<1>9. ASSUME pc'[c] = "ckCopy", NEW p \in Page PROVE IterOf(c, p)'
  <2>1. /\ hdr[c].mx \in 1..MaxFrame /\ InLog(hdr[c])
        /\ nBackfill \in Nat /\ ckpt.mxSafe \in Int
    <3>1. hdr[c].mx \in 0..MaxFrame
      BY <1>1, HdrFields
    <3>2. 0 < hdr[c].mx /\ InLog(hdr[c])
      BY <1>1, <1>2 DEF CkptStartDone, CkptOf
    <3>. QED
      BY <1>1, <1>4, <3>1, <3>2 DEF TypeBase, TypeShared, CkptType
  <2>2. PICK h, k : h = hdr[c] /\ k = Iterator(c)[p]
    OBVIOUS
  <2>3. k = IF FramesOf(p, 1, h.mx) = {} THEN 0 ELSE Max(FramesOf(p, 1, h.mx))
    BY <2>2 DEF Iterator
  <2>4. /\ h.mx \in 1..MaxFrame /\ InLog(h) /\ 1 \in 1..(h.mx + 1)
    BY <2>1, <2>2
  <2>5. /\ FramesOf(p, 1, h.mx) = {} => \A g \in 1..h.mx : wal[g].pg # p
        /\ FramesOf(p, 1, h.mx) # {} => k \in 1..h.mx /\ LastAt(p, k, h.mx)
    <3>1. PICK lo \in 1..(h.mx + 1) : lo = 1
      BY <2>4
    <3>2. /\ FramesOf(p, lo, h.mx) = {} =>
               \A g \in 1..h.mx : g >= lo => wal[g].pg # p
          /\ FramesOf(p, lo, h.mx) # {} =>
               /\ Max(FramesOf(p, lo, h.mx)) \in 1..h.mx
               /\ LastAt(p, Max(FramesOf(p, lo, h.mx)), h.mx)
      BY <2>4, Found
    <3>3. \A g \in 1..h.mx : g >= 1
      BY <2>4
    <3>. QED
      BY <2>3, <3>1, <3>2, <3>3
  <2>6. ckpt'.iter[p] = IF k \in (nBackfill + 1)..ckpt.mxSafe THEN k ELSE 0
    BY <1>2, <1>9, <2>2 DEF CkptStartDone
  <2>7. ASSUME NEW l \in 1..h.mx, LastAt(p, l, h.mx)
        PROVE  l = k
    <3>1. wal[l].pg = p
      BY <2>7 DEF LastAt
    <3>2. k \in 1..h.mx /\ LastAt(p, k, h.mx)
      BY <2>5, <3>1
    <3>. QED
      BY <2>4, <2>7, <3>2 DEF LastAt
  <2>8. Absent(p, h.mx) => ckpt'.iter[p] = 0
    <3>1. ASSUME Absent(p, h.mx) PROVE k = 0
      <4>1. ~(k \in 1..h.mx /\ LastAt(p, k, h.mx))
        BY <3>1 DEF Absent, LastAt
      <4>. QED
        BY <2>3, <2>5, <4>1
    <3>. QED
      BY <2>1, <2>6, <3>1
  <2>9. ASSUME NEW l \in 1..h.mx, LastAt(p, l, h.mx)
        PROVE  IF l > nBackfill /\ l <= ckpt.mxSafe
               THEN ckpt'.iter[p] = l ELSE ckpt'.iter[p] = 0
    BY <2>1, <2>4, <2>6, <2>7, <2>9
  <2>10. /\ \A l : LastAt(p, l, h.mx)' <=> LastAt(p, l, h.mx)
         /\ Absent(p, h.mx)' <=> Absent(p, h.mx)
    BY <1>3, <2>2 DEF LogSame, LastAt, Absent
  <2>11. h = hdr'[c] /\ nBackfill' = nBackfill
    BY <1>2, <2>2 DEF CkptStartDone
  <2>. QED
    BY <1>8, <2>8, <2>9, <2>10, <2>11 DEF IterOf
<1>10. CkptOf(c)'
  BY <1>1, <1>2, <1>5, <1>8, <1>9 DEF CkptStartDone, CkptOf
<1>11. MarksRespected'
  <2>1. TypeBase' /\ ckpt.mxSafe \in Int
    BY <1>2, <1>4 DEF Control, CkptType
  <2>2. pc'[c] \notin ReadPcs /\ pc[c] \in ScanPcs
    BY <1>2 DEF CkptStartDone
  <2>. QED
    BY <1>2, <1>4, <1>8, <2>1, <2>2, MarksKept
<1>12. BackfillKept(c)
  BY <1>2 DEF BackfillKept, CkptStartDone
<1>13. /\ spilled' = spilled
       /\ spilled = {} \/ (writeLock' = writeLock /\ writeLock # c)
  BY <1>1, <1>2 DEF CkptStartDone, LockInvOf
<1>. QED
  BY <1>2, <1>3, <1>4, <1>6, <1>7, <1>10, <1>11, <1>12, <1>13, QuietStep

-----------------------------------------------------------------------------
(* Steps of a checkpoint that change the database file or nBackfill *)

\* A step after which the log still holds, at least, what it held.
LEMMA AdvanceStep ==
  ASSUME Control, Control', LogInv, NEW c \in Conn, OnlyAt(c), OnlyLocksOf(c),
         Advance, LogTypes', ChainInv', ImageInv', RecoverableInv',
         PublishedInv', SpillInv', \A d \in Conn \ {c} : Excluded(d),
         MarksRespected', HeaderOf(c)', ReaderOf(c)', CkptOf(c)'
  PROVE  LogInv'
<1>1. TypeBase /\ TypeBase'
  BY DEF Control
<1>2. ASSUME NEW d \in Conn
      PROVE  HeaderOf(d)' /\ ReaderOf(d)' /\ CkptOf(d)'
  <2>1. CASE d = c
    BY <2>1
  <2>2. CASE d # c
    <3>1. Excluded(d)
      BY <2>2
    <3>. QED
      BY <1>1, <2>2, <3>1, HeaderKept, ReaderKept, CkptKept
  <2>. QED
    BY <2>1, <2>2
<1>. QED
  BY <1>2 DEF LogInv

\* The pages copied, noted in nBackfill keeps what the log says of the commits.
LEMMA CkptFinishLog ==
  ASSUME Control, LogInv, NEW c \in Conn, CkptFinish(c)
  PROVE  LogInv'
<1>1. /\ HeaderOf(c) /\ ReaderOf(c) /\ CkptOf(c) /\ PublishedInv
      /\ LogTypes /\ ChainInv /\ ImageInv
      /\ LockInvOf(c) /\ GlobalLocks /\ TypeBase /\ TypeConn(c)
  BY LocalLog
<1>2. OnlyAt(c) /\ CkptFinishDone(c) /\ OnlyLocksOf(c) /\ Control'
  BY CkptFinishControl
<1>3. LogSame
  BY <1>1, <1>2 DEF LogSame, CkptFinishDone, TypeBase, TypeShared
<1>4. /\ aHdr[0] # ZeroHdr /\ latest' = latest /\ aHdr'[0] = aHdr[0]
      /\ \A d \in Conn \ {c} : Excluded(d)
  <2>1. \A d \in Conn \ {c} : Excluded(d)
    BY <1>2, <1>3, QuietExcluded DEF CkptFinishDone
  <2>. QED
    BY <1>1, <1>2, <1>3, <2>1 DEF CkptFinishDone, PublishedInv, LogSame
<1>5. /\ hdr[c].mx \in 1..MaxFrame /\ aHdr[0].mx \in 1..MaxFrame
      /\ hdr[c].mx <= aHdr[0].mx /\ ckpt.mxSafe \in 0..hdr[c].mx
      /\ InLog(hdr[c]) /\ InLog(aHdr[0]) /\ nBackfill \in 0..MaxFrame
      /\ \A p \in Page : IterOf(c, p)
  <2>1. /\ hdr[c].mx \in 0..MaxFrame /\ aHdr[0].mx \in 0..MaxFrame
        /\ ckpt.mxSafe \in 0..MaxFrame /\ nBackfill \in 0..MaxFrame
    BY <1>1, HdrFields DEF TypeBase, TypeShared, CkptType
  <2>2. /\ 0 < hdr[c].mx /\ InLog(hdr[c]) /\ hdr[c].mx <= aHdr[0].mx
        /\ ckpt.mxSafe <= hdr[c].mx /\ \A p \in Page : IterOf(c, p)
    BY <1>1, <1>2, <2>1 DEF CkptFinishDone, CkptOf
  <2>3. Whole(aHdr[0])
    BY <1>1, <1>4 DEF PublishedInv
  <2>. QED
    BY <2>1, <2>2, <2>3 DEF Whole
<1>6. \A d \in Conn : pc[d] # "restartInfo"
  BY <1>1, <1>2
     DEF CkptFinishDone, Control, LockInv, LockInvOf, ReadersOut
<1>7. Filled(nBackfill, aHdr[0].mx)
  BY <1>1, <1>6 DEF PublishedInv
<1>8. Filled(ckpt.mxSafe, aHdr[0].mx)
  <2>1. PICK m, n, k : /\ m = ckpt.mxSafe /\ n = hdr[c].mx
                       /\ k = aHdr[0].mx
    OBVIOUS
  <2>2. /\ n \in ValidFrames /\ n \in 0..MaxFrame /\ m \in 0..n
        /\ k \in n..MaxFrame /\ Filled(nBackfill, k)
    BY <1>5, <1>7, <2>1, Bounds DEF InLog
  <2>3. SUFFICES ASSUME NEW f \in 1..m
                 PROVE  \/ \E g \in 1..k : g > m /\ wal[g].pg = wal[f].pg
                        \/ db[wal[f].pg] >= wal[f].tx
    BY <2>1 DEF Filled
  <2>4. f \in 1..n /\ f \in ValidFrames /\ f \in 1..MaxFrame
    BY <2>2, ValidPrefix
  <2>5. PICK p \in Page : p = wal[f].pg
    BY <1>1, <2>4 DEF ChainInv
  <2>6. ~Absent(p, n)
    BY <2>4, <2>5 DEF Absent
  <2>7. PICK l \in 1..n : LastAt(p, l, n)
    BY <2>2, <2>6, LastExists
  <2>8. f <= l /\ wal[f].tx <= wal[l].tx /\ wal[l].pg = p
    BY <1>1, <2>2, <2>4, <2>5, <2>7, LastNewest DEF LastAt
  <2>9. /\ wal[f].tx \in Int /\ wal[l].tx \in Int /\ db[p] \in Int
    <3>1. l \in 1..MaxFrame
      BY <2>2, <2>7, Bounds
    <3>2. db[p] \in 1..MaxTx
      BY <1>1 DEF LogTypes
    <3>. QED
      BY <1>1, <2>4, <3>1, <3>2, FrameFields
  <2>10. CASE l > m
    <3>1. l \in 1..k
      BY <2>2, <2>7
    <3>. QED
      BY <2>5, <2>8, <2>10, <3>1
  <2>11. CASE l <= m /\ l > nBackfill
    <3>1. ckpt.iter[p] = 0
      BY <1>2 DEF CkptFinishDone
    <3>2. l > 0
      OBVIOUS
    <3>3. db[p] >= wal[l].tx
      BY <1>5, <2>1, <2>7, <2>11, <3>1, <3>2 DEF IterOf
    <3>. QED
      BY <2>5, <2>8, <2>9, <3>3
  <2>12. CASE l <= m /\ l <= nBackfill
    <3>1. f \in 1..nBackfill
      BY <1>5, <2>4, <2>8, <2>12
    <3>2. CASE \E g \in 1..k : g > nBackfill /\ wal[g].pg = wal[f].pg
      <4>1. PICK g \in 1..k : g > nBackfill /\ wal[g].pg = wal[f].pg
        BY <3>2
      <4>2. g > l
        BY <1>5, <2>12, <4>1
      <4>3. g \notin 1..n
        BY <2>5, <2>7, <4>1, <4>2 DEF LastAt
      <4>4. g > m
        BY <2>2, <4>1, <4>3
      <4>. QED
        BY <4>1, <4>4
    <3>3. CASE db[wal[f].pg] >= wal[f].tx
      BY <3>3
    <3>. QED
      BY <2>2, <3>1, <3>2, <3>3 DEF Filled
  <2>. QED
    BY <1>5, <2>2, <2>7, <2>10, <2>11, <2>12
<1>9. PublishedInv'
  <2>1. ASSUME NEW m, NEW n, NEW h, Filled(m, n), Whole(h)
        PROVE  Filled(m, n)' /\ Whole(h)'
    BY <1>3, <2>1, SameOperators
  <2>2. PICK m, n, h : /\ m = ckpt.mxSafe /\ n = aHdr[0].mx /\ h = aHdr[0]
    OBVIOUS
  <2>3. Whole(h) /\ h.tx = latest
    BY <1>1, <1>4, <2>2 DEF PublishedInv
  <2>4. Filled(m, n)' /\ Whole(h)'
    BY <1>8, <2>1, <2>2, <2>3
  <2>5. m = nBackfill' /\ n = aHdr'[0].mx /\ h = aHdr'[0] /\ m <= n
    BY <1>2, <1>4, <1>5, <2>2 DEF CkptFinishDone
  <2>6. Filled(nBackfill, aHdr[0].mx)' /\ Whole(aHdr[0])'
    BY <2>4, <2>5
  <2>. QED
    BY <1>4, <2>2, <2>3, <2>5, <2>6 DEF PublishedInv
<1>10. /\ hdr'[c].mx = 0 \/ (InLog(hdr[c])' /\ hdr'[c].mx <= aHdr'[0].mx)
       /\ UB(hdr[c].tx)'
       /\ ckpt.mode # "PASSIVE" => hdr'[c] = aHdr'[0]
  BY <1>1, <1>2, <1>3, CkptSame DEF CkptFinishDone
<1>11. HeaderOf(c)' /\ ReaderOf(c)' /\ CkptOf(c)'
  BY <1>1, <1>2, <1>4, <1>10 DEF CkptFinishDone, HeaderOf, ReaderOf, CkptOf
<1>12. MarksRespected'
  <2>1. TypeBase' /\ pc'[c] \notin ReadPcs \cup ScanPcs
    BY <1>2 DEF Control, CkptFinishDone
  <2>. QED
    BY <1>2, <1>4, <2>1, MarksKept
<1>13. SpillInv'
  <2>1. /\ spilled' = spilled
        /\ spilled = {} \/ (writeLock' = writeLock /\ writeLock # c)
    BY <1>1, <1>2 DEF CkptFinishDone, LockInvOf
  <2>. QED
    BY <1>2, <1>3, <2>1, SameSpill
<1>14. LogTypes' /\ ChainInv' /\ ImageInv' /\ RecoverableInv' /\ Advance
  BY <1>1, <1>3, SameLog, SameAdvance
<1>. QED
  BY <1>2, <1>4, <1>9, <1>11, <1>12, <1>13, <1>14, AdvanceStep

\* A frame is not newer than the image of a commit after it.
LEMMA WithinImage ==
  ASSUME TypeBase, LogTypes, ChainInv, ImageInv, NEW h, h.mx \in 1..MaxFrame,
         InLog(h), h.tx \in 1..MaxTx, NEW p \in Page, NEW f \in 1..h.mx,
         wal[f].pg = p
  PROVE  wal[f].tx <= image[h.tx][p]
<1>1. /\ ImageOf(h.mx) /\ wal[h.mx].tx = h.tx /\ h.mx \in ValidFrames
  BY DEF InLog, ImageInv
<1>2. ~Absent(p, h.mx)
  BY DEF Absent
<1>3. PICK l \in 1..h.mx : LastAt(p, l, h.mx)
  BY <1>2, LastExists
<1>4. wal[l].tx = image[h.tx][p]
  BY <1>1, <1>3 DEF ImageOf
<1>5. wal[f].tx <= wal[l].tx
  <2>1. PICK n \in ValidFrames : n = h.mx
    BY <1>1
  <2>. QED
    BY <1>3, <2>1, LastNewest
<1>. QED
  BY <1>4, <1>5

\* A page copied to the database file keeps what the log says of the commits.
LEMMA CkptCopyLog ==
  ASSUME Control, LogInv, NEW c \in Conn, CkptCopy(c)
  PROVE  LogInv'
<1>1. /\ HeaderOf(c) /\ ReaderOf(c) /\ CkptOf(c) /\ PublishedInv
      /\ LogTypes /\ ChainInv /\ ImageInv
      /\ LockInvOf(c) /\ GlobalLocks /\ TypeBase /\ TypeConn(c)
  BY LocalLog
<1>2. OnlyAt(c) /\ CkptCopyDone(c) /\ OnlyLocksOf(c) /\ Control'
  BY CkptCopyControl
<1>3. PICK p \in Page :
        /\ ckpt.iter[p] # 0 /\ db' = [db EXCEPT ![p] = wal[ckpt.iter[p]].tx]
        /\ CkptIs(ckpt.mode, ckpt.mxSafe, ckpt.i,
                  [ckpt.iter EXCEPT ![p] = 0], ckpt.changed)
  BY <1>2 DEF CkptCopyDone
<1>4. /\ aHdr[0] # ZeroHdr /\ aHdr[0].tx = latest /\ Whole(aHdr[0])
      /\ aHdr' = aHdr /\ latest' = latest /\ wal' = wal /\ walSalt' = walSalt
      /\ image' = image /\ nTx' = nTx /\ nBackfill' = nBackfill
      /\ aReadMark' = aReadMark /\ spilled' = spilled
      /\ writeLock' = writeLock /\ ckptLock' = ckptLock
      /\ pc[c] = "ckCopy" /\ pc'[c] = "ckCopy" /\ hdr'[c] = hdr[c]
  BY <1>1, <1>2 DEF CkptCopyDone, PublishedInv
<1>5. /\ hdr[c].mx \in 1..MaxFrame /\ aHdr[0].mx \in 1..MaxFrame
      /\ hdr[c].mx <= aHdr[0].mx /\ ckpt.mxSafe \in 0..hdr[c].mx
      /\ InLog(hdr[c]) /\ InLog(aHdr[0]) /\ nBackfill \in 0..MaxFrame
      /\ \A q \in Page : IterOf(c, q)
      /\ ckpt.iter \in [Page -> 0..MaxFrame]
      /\ hdr[c].tx \in 1..MaxTx /\ aHdr[0].tx \in 1..MaxTx
  <2>1. /\ hdr[c].mx \in 0..MaxFrame /\ aHdr[0].mx \in 0..MaxFrame
        /\ ckpt.mxSafe \in 0..MaxFrame /\ nBackfill \in 0..MaxFrame
        /\ ckpt.iter \in [Page -> 0..MaxFrame] /\ hdr[c].tx \in 0..MaxTx
    BY <1>1, HdrFields DEF TypeBase, TypeShared, CkptType
  <2>2. /\ 0 < hdr[c].mx /\ InLog(hdr[c]) /\ hdr[c].mx <= aHdr[0].mx
        /\ ckpt.mxSafe <= hdr[c].mx /\ \A q \in Page : IterOf(c, q)
    BY <1>1, <1>4, <2>1 DEF CkptOf
  <2>3. hdr[c].tx >= 1
    BY <1>1, <1>4 DEF HeaderOf
  <2>. QED
    BY <1>1, <1>4, <2>1, <2>2, <2>3, LatestType DEF Whole
<1>6. PICK l \in 1..hdr[c].mx : /\ LastAt(p, l, hdr[c].mx) /\ ckpt.iter[p] = l
                                /\ l <= ckpt.mxSafe /\ wal[l].pg = p
  <2>1. IterOf(c, p)
    BY <1>5
  <2>2. ~Absent(p, hdr[c].mx)
    BY <1>3, <2>1 DEF IterOf
  <2>3. PICK l \in 1..hdr[c].mx : LastAt(p, l, hdr[c].mx)
    <3>1. PICK n \in 0..MaxFrame : n = hdr[c].mx
      BY <1>5
    <3>. QED
      BY <2>2, <3>1, LastExists
  <2>. QED
    BY <1>3, <2>1, <2>3 DEF IterOf, LastAt
<1>7. /\ l \in ValidFrames /\ l \in 1..MaxFrame /\ wal[l].tx \in 1..MaxTx
      /\ wal[l].tx = image[hdr[c].tx][p]
  <2>1. l \in ValidFrames /\ l \in 1..MaxFrame
    BY <1>5, <1>6, ValidPrefix DEF InLog
  <2>2. wal[l].tx \in 0..MaxTx /\ wal[l].tx >= 1
    BY <1>1, <2>1, FrameFields DEF ChainInv
  <2>3. ImageOf(hdr[c].mx) /\ wal[hdr[c].mx].tx = hdr[c].tx
    BY <1>1, <1>5 DEF InLog, ImageInv
  <2>. QED
    BY <1>6, <2>1, <2>2, <2>3 DEF ImageOf
<1>8. /\ db' \in [Page -> 1..MaxTx] /\ db'[p] = wal[l].tx
      /\ \A q \in Page \ {p} : db'[q] = db[q]
  BY <1>1, <1>3, <1>6, <1>7 DEF LogTypes
<1>9. \A q \in Page : /\ db'[q] >= db[q] /\ db[q] \in Int /\ db'[q] \in Int
                      /\ db'[q] <= image[hdr[c].tx][q]
  <2>1. \A q \in Page : db[q] <= image[hdr[c].tx][q]
    BY <1>1, <1>4 DEF CkptOf, UB
  <2>2. \A q \in Page : /\ db[q] \in 1..MaxTx /\ db'[q] \in 1..MaxTx
                        /\ image[hdr[c].tx][q] \in 1..MaxTx
    BY <1>1, <1>5, <1>8 DEF LogTypes
  <2>. QED
    BY <1>7, <1>8, <2>1, <2>2
<1>10. LogTypes'
  BY <1>1, <1>4, <1>8 DEF LogTypes
<1>11. ValidFrames' = ValidFrames /\ RecoveredHdr' = RecoveredHdr
  BY <1>4 DEF ValidFrames, RecoveredHdr
<1>12. Advance
  <2>1. latest \in Int /\ aHdr[0].mx \in Int
    BY <1>1, <1>5, LatestType
  <2>. QED
    BY <1>4, <1>9, <1>11, <2>1 DEF Advance
\* What the header of a snapshot covers is as new as the frame copied.
<1>13. ASSUME NEW h, h.mx \in 1..MaxFrame, InLog(h), h.tx \in 1..MaxTx,
              l <= h.mx, UB(h.tx)
       PROVE  \A q \in Page : db'[q] <= image[h.tx][q]
  <2>1. l \in 1..h.mx
    BY <1>13
  <2>2. wal[l].tx <= image[h.tx][p]
    BY <1>1, <1>6, <1>13, <2>1, WithinImage
  <2>3. \A q \in Page \ {p} : db'[q] <= image[h.tx][q]
    BY <1>8, <1>13 DEF UB
  <2>. QED
    BY <1>8, <2>2, <2>3
<1>14. UB(latest)'
  <2>1. PICK h : h = aHdr[0]
    OBVIOUS
  <2>2. /\ h.mx \in 1..MaxFrame /\ InLog(h) /\ h.tx \in 1..MaxTx /\ l <= h.mx
        /\ UB(h.tx)
    BY <1>1, <1>4, <1>5, <2>1 DEF ImageInv
  <2>3. \A q \in Page : db'[q] <= image[h.tx][q]
    BY <1>13, <2>2
  <2>. QED
    BY <1>4, <2>1, <2>3 DEF UB
<1>15. ChainInv'
  BY <1>1, <1>4, <1>11 DEF ChainInv
<1>16. ImageInv'
  <2>1. ASSUME NEW f \in ValidFrames, wal[f].commit, ImageOf(f)
        PROVE  ImageOf(f)'
    <3>1. \A q \in Page : image[wal[f].tx][q] \in Int
      <4>1. wal[f].tx \in 1..MaxTx
        <5>1. f \in 1..MaxFrame
          BY ValidPrefix
        <5>2. wal[f].tx \in 0..MaxTx /\ wal[f].tx >= 1
          BY <1>1, <5>1, FrameFields DEF ChainInv
        <5>. QED
          BY <5>2
      <4>2. image[wal[f].tx] \in [Page -> 1..MaxTx]
        BY <1>1, <4>1 DEF LogTypes
      <4>3. \A q \in Page : image[wal[f].tx][q] \in 1..MaxTx
        BY <4>2
      <4>. QED
        BY <4>3
    <3>. QED
      BY <1>4, <1>9, <2>1, <3>1 DEF ImageOf, LastAt, Absent
  <2>. QED
    BY <1>1, <1>4, <1>11, <1>14, <2>1 DEF ImageInv
<1>17. ASSUME NEW t \in 1..latest, LB(t) PROVE LB(t)'
  BY <1>1, <1>10, <1>12, <1>17, LBKept
<1>18. RecoverableInv'
  <2>1. RecoverableInv
    BY DEF LogInv
  <2>2. LB(latest) => LB(latest)'
    <3>1. PICK t \in 1..latest : t = latest
      BY <1>1, LatestType
    <3>2. LB(t) => LB(t)'
      BY <1>17
    <3>3. t = latest'
      BY <1>4, <3>1
    <3>. QED
      BY <3>1, <3>2, <3>3
  <2>. QED
    BY <1>4, <1>11, <2>1, <2>2 DEF RecoverableInv
<1>19. /\ Whole(aHdr[0])'
       /\ Filled(nBackfill, aHdr[0].mx) => Filled(nBackfill, aHdr[0].mx)'
  <2>1. PICK m, n, h : m = nBackfill /\ n = aHdr[0].mx /\ h = aHdr[0]
    OBVIOUS
  <2>2. InLog(h)'
    <3>1. h.mx \in 1..aHdr[0].mx /\ InLog(h)
      BY <1>5, <2>1
    <3>. QED
      BY <1>1, <1>12, <3>1, InLogKept
  <2>3. Filled(m, n) => Filled(m, n)'
    <3>1. SUFFICES ASSUME Filled(m, n), NEW f \in 1..m
                   PROVE  \/ \E g \in 1..n : g > m /\ wal'[g].pg = wal'[f].pg
                          \/ db'[wal'[f].pg] >= wal'[f].tx
      BY DEF Filled
    <3>2. \/ \E g \in 1..n : g > m /\ wal[g].pg = wal[f].pg
          \/ db[wal[f].pg] >= wal[f].tx
      BY <3>1 DEF Filled
    <3>3. CASE f <= n
      <4>1. f \in ValidFrames /\ f \in 1..MaxFrame
        BY <1>5, <2>1, <3>3, ValidPrefix DEF InLog
      <4>2. wal[f].pg \in Page /\ wal[f].tx \in Int
        BY <1>1, <4>1, FrameFields DEF ChainInv
      <4>3. db'[wal[f].pg] >= db[wal[f].pg] /\ db[wal[f].pg] \in Int
            /\ db'[wal[f].pg] \in Int
        BY <1>9, <4>2
      <4>. QED
        BY <1>4, <3>2, <4>2, <4>3
    <3>4. CASE f > n
      <4>1. f \in 1..MaxFrame
        BY <1>5, <2>1, Bounds
      <4>2. ~\E g \in 1..n : g > m
        BY <1>5, <2>1, <3>4
      <4>3. db[wal[f].pg] >= wal[f].tx
        BY <3>2, <4>2
      <4>4. wal[f].pg \in Page \/ wal[f].pg \notin Page
        OBVIOUS
      <4>5. wal[f].pg \notin Page => db'[wal[f].pg] = db[wal[f].pg]
        BY <1>3
      <4>6. wal[f].tx \in Int
        BY <1>1, <4>1, FrameFields
      <4>. QED
        BY <1>4, <1>9, <4>3, <4>5, <4>6
    <3>. QED
      BY <1>5, <2>1, <3>3, <3>4
  <2>4. m = nBackfill' /\ n = aHdr'[0].mx /\ h = aHdr'[0] /\ h.mx > 0
    BY <1>4, <1>5, <2>1
  <2>5. Whole(h)'
    BY <2>2, <2>4 DEF Whole
  <2>. QED
    BY <2>1, <2>3, <2>4, <2>5
<1>20. \A d \in Conn : pc'[d] = pc[d]
  <2>1. \A d \in Conn \ {c} : pc'[d] = pc[d]
    BY <1>1, <1>2, OthersSame
  <2>. QED
    BY <1>4, <2>1
<1>21. PublishedInv'
  BY <1>1, <1>4, <1>19, <1>20 DEF PublishedInv
<1>22. SpillInv'
  <2>1. SpillInv /\ (writeLock # c \/ spilled = {})
    <3>1. spilled # {} => writeLock # c
      BY <1>1, <1>4 DEF LockInvOf
    <3>. QED
      BY <3>1 DEF LogInv
  <2>2. CASE spilled # {}
    <3>1. writeLock \in Conn \ {c} /\ SpillOf(writeLock)
      BY <1>1, <2>1, <2>2 DEF SpillInv, GlobalLocks, TypeBase, TypeShared
    <3>2. hdr'[writeLock] = hdr[writeLock]
      BY <1>1, <1>2, <3>1, OthersSame
    <3>3. SpillOf(writeLock)'
      BY <1>4, <1>11, <3>1, <3>2 DEF SpillOf
    <3>. QED
      BY <3>3 DEF SpillInv
  <2>3. CASE spilled = {}
    BY <1>4, <2>3 DEF SpillInv
  <2>. QED
    BY <2>2, <2>3
<1>23. ASSUME NEW d \in Conn \ {c} PROVE Excluded(d)
  <2>1. /\ LockInvOf(d) /\ ReaderOf(d) /\ TypeConn(d)
    BY <1>23, LocalLog
  <2>2. ckptLock = c /\ ckptLock # d
    BY <1>1, <1>4, <1>23 DEF LockInvOf
  <2>3. ASSUME pc[d] \in ReadPcs
        PROVE  \A q \in Page : db'[q] <= image[Base(d).tx][q]
    <3>1. readLock[d] > 0 /\ readLock[d] \in 1..NReader
      <4>1. readLock[d] >= 0 /\ readLock[d] # 0
        BY <1>4, <1>23, <2>1, <2>3 DEF LockInvOf, Control, LockInv, ReadersOut
      <4>. QED
        BY <2>1, <4>1, Bounds DEF TypeConn
    <3>2. ckpt.i > readLock[d]
      <4>1. ckpt.i > NReader
        BY <1>1, <1>4 DEF CkptOf
      <4>2. ckpt.i \in 0..NReader + 1
        BY <1>1 DEF TypeBase, TypeShared, CkptType
      <4>. QED
        BY <3>1, <4>1, <4>2, Bounds
    <3>3. ckpt.mxSafe <= Base(d).mx
      BY <1>4, <1>23, <2>3, <3>1, <3>2 DEF LogInv, MarksRespected
    <3>4. PICK h : h = Base(d)
      OBVIOUS
    <3>5. /\ h \in Hdr /\ h.mx \in 0..MaxFrame /\ h.tx \in 1..latest
      BY <1>23, <2>3, <3>4, BaseFields
    <3>6. l <= h.mx /\ h.mx \in 1..MaxFrame /\ h.tx \in 1..MaxTx
      <4>1. l <= h.mx /\ h.mx \in 1..MaxFrame
        BY <1>5, <1>6, <3>3, <3>4, <3>5
      <4>2. latest \in 1..MaxTx
        BY <1>1, LatestType
      <4>. QED
        BY <3>5, <4>1, <4>2, Bounds
    <3>7. InLog(h) /\ UB(h.tx)
      BY <2>1, <2>3, <3>1, <3>4, <3>6 DEF ReaderOf, Whole
    <3>8. \A q \in Page : db'[q] <= image[h.tx][q]
      BY <1>13, <3>6, <3>7
    <3>. QED
      BY <3>4, <3>8
  <2>. QED
    BY <1>4, <2>2, <2>3 DEF Excluded
<1>24. /\ ckpt'.mode = ckpt.mode /\ ckpt'.mxSafe = ckpt.mxSafe
       /\ ckpt'.i = ckpt.i /\ ckpt'.iter[p] = 0
       /\ \A q \in Page \ {p} : ckpt'.iter[q] = ckpt.iter[q]
  BY <1>3, <1>5 DEF CkptIs
<1>25. MarksRespected'
  <2>1. TypeBase' /\ ckpt.mxSafe \in Int
    BY <1>2, <1>5 DEF Control
  <2>. QED
    BY <1>2, <1>4, <1>23, <1>24, <2>1, MarksKept
<1>26. HeaderOf(c)' /\ ReaderOf(c)'
  BY <1>1, <1>4 DEF HeaderOf, ReaderOf
<1>27. CkptOf(c)'
  <2>1. InLog(hdr[c])' /\ UB(hdr[c].tx)'
    <3>1. PICK h : h = hdr[c]
      OBVIOUS
    <3>2. h.mx \in 1..aHdr[0].mx /\ InLog(h)
      BY <1>5, <3>1
    <3>3. InLog(h)'
      BY <1>1, <1>12, <3>2, InLogKept
    <3>4. h = hdr'[c]
      BY <1>4, <3>1
    <3>. QED
      BY <1>4, <1>9, <3>3, <3>4 DEF UB
  <2>2. ASSUME NEW q \in Page PROVE IterOf(c, q)'
    <3>1. IterOf(c, q)
      BY <1>5
    <3>2. /\ \A k : LastAt(q, k, hdr[c].mx)' <=> LastAt(q, k, hdr[c].mx)
          /\ Absent(q, hdr[c].mx)' <=> Absent(q, hdr[c].mx)
      BY <1>4 DEF LastAt, Absent
    <3>3. CASE q = p
      <4>1. ASSUME NEW k \in 1..hdr[c].mx, LastAt(p, k, hdr[c].mx)
            PROVE  k = l
        BY <1>5, <1>6, <4>1 DEF LastAt
      <4>2. db'[p] >= wal[l].tx
        BY <1>7, <1>8
      <4>. QED
        BY <1>4, <1>24, <3>1, <3>2, <3>3, <4>1, <4>2 DEF IterOf
    <3>4. CASE q # p
      <4>1. db'[q] = db[q] /\ ckpt'.iter[q] = ckpt.iter[q]
        BY <1>8, <1>24, <3>4
      <4>. QED
        BY <1>4, <1>24, <3>1, <3>2, <4>1 DEF IterOf
    <3>. QED
      BY <3>3, <3>4
  <2>. QED
    BY <1>1, <1>4, <1>5, <1>24, <2>1, <2>2 DEF CkptOf
<1>. QED
  BY <1>2, <1>10, <1>12, <1>15, <1>16, <1>18, <1>21, <1>22, <1>23, <1>25,
     <1>26, <1>27, AdvanceStep

-----------------------------------------------------------------------------
(* Steps that publish a header *)

\* h covers at least what the header in shared memory does, and is the one of
\* the last commit there is.
Publishes(c, h) ==
  /\ h \in Hdr /\ h.mx \in 0..MaxFrame /\ h.tx \in 1..nTx /\ h.tx \in 1..MaxTx
  /\ h.tx >= latest /\ h.mx >= aHdr[0].mx /\ Whole(h)
  /\ IF h.mx = 0
     THEN h.tx = latest /\ \A f \in ValidFrames : ~wal[f].commit
     ELSE \A f \in ValidFrames :
            wal[f].commit /\ wal[f].tx >= h.tx => wal[f].tx = h.tx
  /\ h.tx = latest => h = aHdr[0] \/ LB(latest) \/ aHdr[0] = ZeroHdr
  /\ aHdr'[0] = h /\ latest' = h.tx
  /\ pc[c] # "restartInfo" /\ pc'[c] # "restartInfo"
  /\ writeLock = c /\ spilled = {}
  /\ UNCHANGED <<wal, walSalt, db, image, nTx, nBackfill, aReadMark, ckpt,
                 spilled>>

\* A step that publishes a header makes the transaction that ends the log the
\* last commit, and leaves what the others hold.
LEMMA PublishStep ==
  ASSUME Control, LogInv, NEW c \in Conn, OnlyAt(c), NEW h, Publishes(c, h)
  PROVE  /\ Advance /\ LogTypes' /\ ChainInv' /\ ImageInv' /\ RecoverableInv'
         /\ PublishedInv' /\ SpillInv' /\ \A d \in Conn \ {c} : Excluded(d)
         /\ UB(h.tx)' /\ Whole(h)'
<1>1. /\ TypeBase /\ LogTypes /\ ChainInv /\ ImageInv /\ PublishedInv
      /\ RecoverableInv
  BY DEF Control, LogInv
<1>2. ValidFrames' = ValidFrames
  BY DEF Publishes, ValidFrames
<1>3. /\ latest \in 1..MaxTx /\ aHdr[0].mx \in 0..MaxFrame
      /\ nBackfill \in 0..MaxFrame
  BY <1>1, LatestType, HdrFields DEF TypeBase, TypeShared
<1>4. \A p \in Page : db[p] \in Int
  BY <1>1 DEF LogTypes
<1>5. LogTypes'
  BY <1>1 DEF LogTypes, Publishes
<1>6. Advance
  BY <1>2, <1>3, <1>4 DEF Advance, Publishes
<1>7. ChainInv'
  BY <1>1, <1>2 DEF ChainInv, Publishes
<1>8. \A t \in 1..MaxTx, p \in Page : image[t][p] \in Int
  <2>1. ASSUME NEW t \in 1..MaxTx PROVE \A p \in Page : image[t][p] \in Int
    <3>1. image[t] \in [Page -> 1..MaxTx]
      BY <1>1 DEF LogTypes
    <3>. QED
      BY <3>1
  <2>. QED
    BY <2>1
<1>9. \A p \in Page : db[p] <= image[h.tx][p]
  <2>1. UB(latest)
    BY <1>1 DEF ImageInv
  <2>2. CASE h.mx = 0
    BY <2>1, <2>2 DEF UB, Publishes
  <2>3. CASE h.mx # 0
    <3>1. InLog(h) /\ h.tx >= latest /\ h.tx \in 1..MaxTx
      BY <2>3 DEF Publishes, Whole
    <3>2. ImageOf(h.mx) /\ wal[h.mx].tx = h.tx
      BY <1>1, <3>1 DEF ImageInv, InLog
    <3>3. \A p \in Page : image[h.tx][p] >= image[latest][p]
      BY <3>1, <3>2 DEF ImageOf
    <3>. QED
      BY <1>3, <1>4, <1>8, <2>1, <3>1, <3>3 DEF UB
  <2>. QED
    BY <2>2, <2>3
<1>10. UB(h.tx)'
  <2>1. PICK t : t = h.tx
    OBVIOUS
  <2>2. UB(t)'
    BY <1>9, <2>1 DEF UB, Publishes
  <2>. QED
    BY <2>1, <2>2
<1>11. ImageInv'
  <2>1. ASSUME NEW f \in ValidFrames, wal[f].commit
        PROVE  ImageOf(f)'
    <3>1. ImageOf(f)
      BY <1>1, <2>1 DEF ImageInv
    <3>2. wal[f].tx >= h.tx => \A p \in Page :
            image[wal[f].tx][p] >= image[h.tx][p]
      <4>1. wal[f].tx >= h.tx => wal[f].tx = h.tx
        BY <2>1 DEF Publishes
      <4>2. h.tx \in 1..MaxTx
        BY DEF Publishes
      <4>. QED
        BY <1>8, <4>1, <4>2
    <3>. QED
      BY <3>1, <3>2 DEF ImageOf, LastAt, Absent, Publishes
  <2>2. UB(latest)'
    BY <1>9 DEF UB, Publishes
  <2>. QED
    BY <1>1, <1>2, <2>1, <2>2 DEF ImageInv, Publishes
<1>12. RecoverableInv'
  <2>1. CASE h.mx = 0
    <3>1. \A f \in ValidFrames : ~wal[f].commit
      BY <2>1 DEF Publishes
    <3>2. LB(latest)
      BY <1>1, <3>1 DEF RecoverableInv
    <3>3. LB(latest)'
      BY <2>1, <3>2 DEF LB, Publishes
    <3>. QED
      BY <1>2, <3>1, <3>3 DEF RecoverableInv, Publishes
  <2>2. CASE h.mx # 0
    <3>1. InLog(h) /\ h.tx \in 1..MaxTx
      BY <2>2 DEF Publishes, Whole
    <3>. QED
      BY <1>2, <3>1 DEF RecoverableInv, InLog, Publishes
  <2>. QED
    BY <2>1, <2>2
<1>13. Whole(h)'
  <2>1. InLog(h) => InLog(h)'
    BY <1>2 DEF InLog, Publishes
  <2>2. PICK t : t = h.tx
    OBVIOUS
  <2>3. LB(t) => LB(t)'
    BY DEF LB, Publishes
  <2>. QED
    BY <2>1, <2>2, <2>3 DEF Whole, Publishes
<1>14. PublishedInv'
  <2>1. \A d \in Conn : pc[d] # "restartInfo"
    <3>1. ASSUME NEW d \in Conn, pc[d] = "restartInfo" PROVE FALSE
      <4>1. LockInvOf(d)
        BY Local
      <4>. QED
        BY <3>1, <4>1 DEF LockInvOf, Publishes
    <3>. QED
      BY <3>1
  <2>2. nBackfill <= aHdr[0].mx /\ Filled(nBackfill, aHdr[0].mx)
    BY <1>1, <2>1 DEF PublishedInv
  <2>3. PICK m, n : m = nBackfill /\ n = aHdr[0].mx
    OBVIOUS
  <2>4. m \in Nat /\ n \in Nat /\ h.mx \in Nat /\ n <= h.mx /\ Filled(m, n)
    BY <1>3, <2>2, <2>3 DEF Publishes
  <2>5. Filled(m, h.mx)
    BY <2>4, FilledMore
  <2>6. Filled(m, h.mx)'
    BY <2>5 DEF Filled, Publishes
  <2>7. m = nBackfill' /\ h = aHdr'[0] /\ m <= h.mx
    BY <2>2, <2>3, <2>4 DEF Publishes
  <2>8. Filled(nBackfill, aHdr[0].mx)' /\ Whole(aHdr[0])'
    BY <1>13, <2>6, <2>7
  <2>9. h # ZeroHdr
    BY DEF Publishes, ZeroHdr
  <2>. QED
    BY <2>7, <2>8, <2>9 DEF PublishedInv, Publishes
<1>15. SpillInv'
  BY DEF SpillInv, Publishes
<1>16. ASSUME NEW d \in Conn \ {c} PROVE Excluded(d)
  <2>1. ReaderOf(d)
    BY LocalLog
  <2>2. writeLock # d
    BY DEF Publishes
  <2>. QED
    BY <2>1, <2>2 DEF Excluded, Publishes, ReaderOf, UB
<1>. QED
  BY <1>5, <1>6, <1>7, <1>10, <1>11, <1>12, <1>13, <1>14, <1>15, <1>16

\* A recovery that publishes its header keeps what the log says of the commits.
LEMMA RecoverHdr0Log ==
  ASSUME Control, LogInv, NEW c \in Conn, RecoverHdr0(c)
  PROVE  LogInv'
<1>1. /\ HeaderOf(c) /\ ReaderOf(c) /\ CkptOf(c) /\ PublishedInv
      /\ LogTypes /\ ChainInv /\ ImageInv
      /\ LockInvOf(c) /\ GlobalLocks /\ TypeBase /\ TypeConn(c)
  BY LocalLog
<1>2. OnlyAt(c) /\ RecoverHdr0Done(c) /\ OnlyLocksOf(c) /\ Control'
  BY RecoverHdr0Control
<1>3. PICK h : h = hdr[c]
  OBVIOUS
<1>4. /\ pc[c] = "recover0" /\ pc'[c] = "recoverInfo"
      /\ aHdr'[0] = h /\ latest' = h.tx /\ hdr'[c] = h
      /\ UNCHANGED <<wal, walSalt, db, image, nTx, nBackfill, aReadMark, ckpt,
                     spilled, writeLock, ckptLock>>
      /\ h = RecoveredHdr /\ writeLock = c /\ ckptLock = c
      /\ spilled = {}
  <2>1. aHdr'[0] = h
    BY <1>1, <1>2, <1>3 DEF RecoverHdr0Done, TypeBase, TypeShared
  <2>. QED
    BY <1>1, <1>2, <1>3, <2>1 DEF RecoverHdr0Done, HeaderOf, LockInvOf
<1>5. /\ h \in Hdr /\ h.mx \in 0..MaxFrame /\ h.tx \in 1..nTx
      /\ h.tx \in 1..MaxTx /\ nTx \in 1..MaxTx /\ latest \in 1..MaxTx
      /\ aHdr[0].mx \in 0..MaxFrame /\ aHdr[0] \in Hdr /\ h.salt = walSalt
      /\ \/ /\ h.mx = 0 /\ h.tx = latest
            /\ \A f \in ValidFrames : ~wal[f].commit
         \/ /\ h.mx > 0 /\ InLog(h)
            /\ \A f \in ValidFrames : wal[f].commit => f <= h.mx
  <2>1. /\ h \in Hdr /\ h.mx \in 0..MaxFrame /\ h.tx \in 0..MaxTx
        /\ aHdr[0].mx \in 0..MaxFrame /\ aHdr[0] \in Hdr
    BY <1>1, <1>3, HdrFields
  <2>2. nTx \in 1..MaxTx /\ latest \in 1..MaxTx
    BY <1>1, LatestType
  <2>3. h.tx >= 1 /\ h.tx <= nTx
    BY <1>1, <1>4, RecoveredFacts
  <2>4. \/ /\ h.mx = 0 /\ h.tx = latest
           /\ \A f \in ValidFrames : ~wal[f].commit
        \/ /\ h.mx > 0 /\ InLog(h)
           /\ \A f \in ValidFrames : wal[f].commit => f <= h.mx
    BY <1>1, <1>4, RecoveredFacts
  <2>5. h.salt = walSalt
    BY <1>1, <1>4, RecoveredFacts
  <2>. QED
    BY <2>1, <2>2, <2>3, <2>4, <2>5
<1>6. RecoverableInv
  BY DEF LogInv
<1>7. aHdr[0].mx > 0 => InLog(aHdr[0]) /\ aHdr[0].tx = latest
  BY <1>1 DEF PublishedInv, Whole, ZeroHdr
<1>8. aHdr[0].mx = 0 /\ aHdr[0] # ZeroHdr => LB(latest)
  BY <1>1 DEF PublishedInv, Whole
<1>9. Publishes(c, h)
  <2>1. CASE h.mx = 0
    <3>1. \A f \in ValidFrames : ~wal[f].commit
      BY <1>5, <2>1
    <3>2. LB(latest) /\ h.tx = latest
      BY <1>5, <1>6, <2>1, <3>1 DEF RecoverableInv
    <3>3. aHdr[0].mx = 0
      BY <1>5, <1>7, <3>1 DEF InLog
    <3>4. Whole(h)
      BY <2>1, <3>2 DEF Whole
    <3>. QED
      BY <1>4, <1>5, <2>1, <3>1, <3>2, <3>3, <3>4 DEF Publishes
  <2>2. CASE h.mx # 0
    <3>1. /\ InLog(h) /\ h.mx \in ValidFrames /\ wal[h.mx].tx = h.tx
          /\ wal[h.mx].commit
          /\ \A f \in ValidFrames : wal[f].commit => f <= h.mx
      BY <1>5, <2>2 DEF InLog
    <3>2. ASSUME NEW f \in ValidFrames, wal[f].commit
          PROVE  /\ f \in Int /\ f <= h.mx /\ wal[f].tx \in Int
                 /\ wal[f].tx <= h.tx /\ (wal[f].tx = h.tx => f = h.mx)
      <4>1. f <= h.mx
        BY <3>1, <3>2
      <4>2. f \in 1..MaxFrame
        BY ValidPrefix
      <4>3. wal[f].tx \in Int
        BY <1>1, <4>2, FrameFields
      <4>4. f < h.mx => wal[f].tx < wal[h.mx].tx
        BY <1>1, <3>1, <3>2 DEF ChainInv
      <4>. QED
        BY <1>5, <3>1, <4>1, <4>2, <4>3, <4>4
    <3>3. h.tx >= latest
      <4>1. PICK f \in ValidFrames : wal[f].commit /\ wal[f].tx >= latest
        BY <1>6, <3>1 DEF RecoverableInv
      <4>2. wal[f].tx <= h.tx /\ wal[f].tx \in Int
        BY <3>2, <4>1
      <4>. QED
        BY <1>5, <4>1, <4>2
    <3>4. h.mx >= aHdr[0].mx
      <4>1. CASE aHdr[0].mx > 0
        BY <1>7, <3>2, <4>1 DEF InLog
      <4>2. CASE ~(aHdr[0].mx > 0)
        BY <1>5, <4>2
      <4>. QED
        BY <4>1, <4>2
    <3>5. h.tx = latest => h = aHdr[0] \/ LB(latest) \/ aHdr[0] = ZeroHdr
      <4>1. CASE aHdr[0].mx > 0
        <5>1. /\ aHdr[0].mx \in ValidFrames /\ wal[aHdr[0].mx].commit
              /\ wal[aHdr[0].mx].tx = latest /\ aHdr[0].salt = walSalt
              /\ aHdr[0].tx = latest
          BY <1>7, <4>1 DEF InLog
        <5>2. h.tx = latest => aHdr[0].mx = h.mx
          BY <3>2, <5>1
        <5>. QED
          BY <1>5, <5>1, <5>2, SameHdr
      <4>2. CASE ~(aHdr[0].mx > 0)
        BY <1>5, <1>8, <4>2
      <4>. QED
        BY <4>1, <4>2
    <3>6. \A f \in ValidFrames :
            wal[f].commit /\ wal[f].tx >= h.tx => wal[f].tx = h.tx
      <4>1. h.tx \in Int
        BY <1>5
      <4>. QED
        BY <3>2, <4>1
    <3>7. Whole(h)
      BY <1>5, <2>2, <3>1 DEF Whole
    <3>. QED
      BY <1>4, <1>5, <2>2, <3>3, <3>4, <3>5, <3>6, <3>7 DEF Publishes
  <2>. QED
    BY <2>1, <2>2
<1>10. /\ Advance /\ LogTypes' /\ ChainInv' /\ ImageInv' /\ RecoverableInv'
       /\ PublishedInv' /\ SpillInv' /\ \A d \in Conn \ {c} : Excluded(d)
  BY <1>2, <1>9, PublishStep
<1>11. MarksRespected'
  <2>1. TypeBase' /\ pc'[c] \notin ReadPcs \cup ScanPcs
    BY <1>2, <1>4 DEF Control
  <2>. QED
    BY <1>2, <1>10, <2>1, MarksKept
<1>12. HeaderOf(c)' /\ ReaderOf(c)' /\ CkptOf(c)'
  BY <1>4, <1>5 DEF HeaderOf, ReaderOf, CkptOf
<1>. QED
  BY <1>2, <1>10, <1>11, <1>12, AdvanceStep

\* The header of a commit, published keeps what the log says of the commits.
LEMMA Publish0Log ==
  ASSUME Control, LogInv, NEW c \in Conn, Publish0(c)
  PROVE  LogInv'
<1>1. /\ HeaderOf(c) /\ ReaderOf(c) /\ CkptOf(c) /\ PublishedInv
      /\ LogTypes /\ ChainInv /\ ImageInv
      /\ LockInvOf(c) /\ GlobalLocks /\ TypeBase /\ TypeConn(c)
  BY LocalLog
<1>2. OnlyAt(c) /\ Publish0Done(c) /\ OnlyLocksOf(c) /\ Control'
  BY Publish0Control
<1>3. PICK h : h = hdr[c]
  OBVIOUS
<1>4. /\ pc[c] = "publish0" /\ pc'[c] = "read"
      /\ aHdr'[0] = h /\ latest' = h.tx /\ hdr'[c] = h
      /\ UNCHANGED <<wal, walSalt, db, image, nTx, nBackfill, aReadMark, ckpt,
                     spilled>>
      /\ writeLock = c /\ writeLock' = NoConn /\ spilled = {}
      /\ readLock'[c] = readLock[c] /\ minFrame'[c] = minFrame[c]
      /\ readLock[c] \in Marks
  <2>1. aHdr'[0] = h
    BY <1>1, <1>2, <1>3 DEF Publish0Done, TypeBase, TypeShared
  <2>2. readLock[c] > 0 /\ readLock[c] \in -1..NReader
    BY <1>1, <1>2 DEF Publish0Done, LockInvOf, TypeConn
  <2>. QED
    BY <1>1, <1>2, <1>3, <2>1, <2>2, Bounds
       DEF Publish0Done, HeaderOf, LockInvOf, SameReads
<1>5. /\ h \in Hdr /\ h.mx \in 0..MaxFrame /\ h.tx = nTx /\ nTx > latest
      /\ h.tx \in 1..MaxTx /\ latest \in 1..MaxTx
      /\ aHdr[0].mx \in 0..MaxFrame /\ InLog(h) /\ h.mx > aHdr[0].mx
  BY <1>1, <1>3, <1>4, HdrFields, LatestType DEF HeaderOf
<1>6. Publishes(c, h)
  <2>1. \A f \in ValidFrames : wal[f].tx >= h.tx => wal[f].tx = h.tx
    <3>1. ASSUME NEW f \in ValidFrames
          PROVE  wal[f].tx \in Int /\ wal[f].tx <= nTx
      <4>1. f \in 1..MaxFrame
        BY ValidPrefix
      <4>. QED
        BY <1>1, <4>1, FrameFields DEF ChainInv
    <3>. QED
      BY <1>5, <3>1
  <2>2. h.mx > 0 /\ Whole(h) /\ h.tx \in 1..nTx /\ h.tx > latest
    BY <1>5 DEF Whole
  <2>. QED
    BY <1>4, <1>5, <2>1, <2>2 DEF Publishes
<1>7. /\ Advance /\ LogTypes' /\ ChainInv' /\ ImageInv' /\ RecoverableInv'
      /\ PublishedInv' /\ SpillInv' /\ \A d \in Conn \ {c} : Excluded(d)
      /\ UB(h.tx)' /\ Whole(h)'
  BY <1>2, <1>6, PublishStep
<1>8. Base(c) = aHdr[0] /\ Base(c)' = h
  BY <1>4 DEF Base
<1>9. MarksRespected'
  <2>1. TypeBase' /\ pc'[c] \notin ScanPcs /\ Base(c)'.mx >= Base(c).mx
    BY <1>2, <1>4, <1>5, <1>8 DEF Control
  <2>. QED
    BY <1>2, <1>4, <1>7, <2>1, MarksKept
<1>10. HeaderOf(c)' /\ CkptOf(c)'
  BY <1>4, <1>5 DEF HeaderOf, CkptOf
<1>11. ReaderOf(c)'
  <2>1. /\ minFrame[c] \in 1..(aHdr[0].mx + 1)
        /\ Filled(minFrame[c] - 1, aHdr[0].mx)
        /\ aReadMark[readLock[c]] <= aHdr[0].mx
    BY <1>1, <1>4, <1>8, Bounds DEF ReaderOf
  <2>2. aReadMark[readLock[c]] \in Int
    BY <1>1, <1>4 DEF TypeBase, TypeShared
  <2>3. PICK m, n : m = minFrame[c] - 1 /\ n = aHdr[0].mx
    OBVIOUS
  <2>4. m \in Nat /\ n \in Nat /\ h.mx \in Nat /\ n <= h.mx /\ Filled(m, n)
    BY <1>5, <2>1, <2>3
  <2>5. Filled(m, h.mx)
    BY <2>4, FilledMore
  <2>6. Filled(m, h.mx)'
    BY <1>4, <2>5 DEF Filled
  <2>7. m = minFrame'[c] - 1 /\ h = Base(c)'
    BY <1>4, <1>8, <2>3
  <2>8. /\ Filled(minFrame[c] - 1, Base(c).mx)' /\ Whole(Base(c))'
        /\ UB(Base(c).tx)'
    BY <1>7, <2>6, <2>7
  <2>9. /\ minFrame'[c] \in 1..(h.mx + 1) /\ h.mx <= aHdr'[0].mx
        /\ aReadMark'[readLock'[c]] <= h.mx
    BY <1>4, <1>5, <2>1, <2>2
  <2>. QED
    BY <1>4, <1>8, <2>8, <2>9, Bounds DEF ReaderOf
<1>. QED
  BY <1>2, <1>7, <1>9, <1>10, <1>11, AdvanceStep

-----------------------------------------------------------------------------
(* Frames appended to the log *)

Appends(c, W, isCommit, salt, last, tx) ==
  /\ c \in Conn /\ W \in SUBSET Page /\ W # {} /\ isCommit \in BOOLEAN
  /\ salt \in 1..MaxSalt /\ last \in 1..MaxFrame /\ tx \in 1..MaxTx
  /\ FramesDone(c, W, isCommit, salt, last, tx)
  /\ wal' \in [1..MaxFrame -> FrameType]
  /\ OnlyAt(c) /\ SameReads(c) /\ pc[c] = "write" /\ readLock[c] > 0
  /\ UNCHANGED <<aHdr, nBackfill, aReadMark, writeLock, ckptLock, db, ckpt,
                 latest>>

\* The new frames follow those of the published header, or those that the
\* transaction has spilled; their transaction is a new one.
LEMMA AppendFacts ==
  ASSUME Control, LogInv, NEW c \in Conn, NEW W, NEW isCommit, NEW salt,
         NEW last, NEW tx, Appends(c, W, isCommit, salt, last, tx)
  PROVE  /\ aHdr[0] # ZeroHdr /\ aHdr[0].tx = latest /\ Whole(aHdr[0])
         /\ writeLock = c /\ readLock[c] \in Marks /\ hdr[c].tx = latest
         /\ Base(c) = aHdr[0] /\ latest \in 1..MaxTx /\ latest < tx /\ nTx <= tx
         /\ aHdr[0].mx \in 0..hdr[c].mx /\ hdr[c].mx \in 0..MaxFrame
         /\ last > hdr[c].mx /\ nTx' = tx
         /\ hdr[c].mx > 0 => hdr[c].mx \in ValidFrames /\ walSalt' = walSalt
         /\ \A f \in 1..hdr[c].mx : f > aHdr[0].mx =>
              wal[f].tx = tx /\ ~wal[f].commit /\ wal[f].pg \in spilled
         /\ \A p \in spilled : \E f \in 1..hdr[c].mx :
              f > aHdr[0].mx /\ wal[f].pg = p
         /\ \A f \in 1..MaxFrame : f > hdr[c].mx => wal[f].prev < tx
         /\ \A f \in 1..hdr[c].mx :
              f \in ValidFrames /\ (wal[f].commit => wal[f].tx < tx)
<1>1. /\ HeaderOf(c) /\ PublishedInv /\ LogTypes /\ ChainInv /\ SpillInv
      /\ LockInvOf(c) /\ TypeBase /\ TypeConn(c)
  BY LocalLog DEF LogInv
<1>2. /\ pc[c] = "write" /\ readLock[c] > 0 /\ last > hdr[c].mx
      /\ hdr[c].mx \in 0..MaxFrame /\ aHdr[0].mx \in 0..MaxFrame
      /\ tx = (IF spilled = {} THEN nTx + 1 ELSE nTx) /\ nTx' = tx
      /\ walSalt' = salt /\ (hdr[c].mx > 0 => salt = hdr[c].salt)
      /\ nTx \in 1..MaxTx /\ latest \in 1..MaxTx /\ latest <= nTx
  BY <1>1, HdrFields, LatestType DEF Appends, FramesDone
<1>3. /\ aHdr[0] # ZeroHdr /\ aHdr[0].tx = latest /\ Whole(aHdr[0])
      /\ writeLock = c /\ readLock[c] \in Marks /\ hdr[c].tx = latest
      /\ Base(c) = aHdr[0]
  BY <1>1, <1>2, Bounds
     DEF PublishedInv, LockInvOf, HeaderOf, Base, TypeConn
<1>4. \A f \in 1..MaxFrame : /\ wal[f].tx \in Int /\ wal[f].prev \in Int
                             /\ wal[f].tx <= nTx /\ wal[f].prev <= nTx
  BY <1>1, FrameFields DEF ChainInv
<1>5. CASE spilled = {}
  <2>1. hdr[c] = aHdr[0] /\ tx = nTx + 1
    BY <1>1, <1>2, <1>5 DEF HeaderOf
  <2>2. hdr[c].mx > 0 => /\ hdr[c].mx \in ValidFrames
                         /\ walSalt' = walSalt
    BY <1>2, <1>3, <2>1 DEF Whole, InLog
  <2>3. \A f \in 1..MaxFrame : wal[f].tx < tx /\ wal[f].prev < tx
    BY <1>2, <1>4, <2>1
  <2>4. \A f \in 1..hdr[c].mx : f \in ValidFrames /\ f \in 1..MaxFrame
    BY <1>2, <2>2, ValidPrefix
  <2>5. latest < tx /\ nTx <= tx /\ aHdr[0].mx \in 0..hdr[c].mx
    BY <1>2, <2>1
  <2>6. \A f \in 1..hdr[c].mx : ~(f > aHdr[0].mx)
    BY <1>2, <2>1
  <2>. QED
    BY <1>2, <1>3, <1>5, <2>2, <2>3, <2>4, <2>5, <2>6
<1>6. CASE spilled # {}
  <2>1. SpillOf(c) /\ tx = nTx
    BY <1>1, <1>2, <1>3, <1>6 DEF SpillInv
  <2>2. /\ hdr[c].mx \in ValidFrames /\ walSalt' = walSalt
        /\ hdr[c].mx > aHdr[0].mx /\ latest < tx
    BY <1>2, <2>1 DEF SpillOf
  <2>3. \A f \in 1..hdr[c].mx : f \in ValidFrames /\ f \in 1..MaxFrame
    BY <1>2, <2>2, ValidPrefix
  <2>4. ASSUME NEW f \in 1..hdr[c].mx, wal[f].commit PROVE wal[f].tx < tx
    <3>1. f <= aHdr[0].mx
      BY <1>2, <2>1, <2>4 DEF SpillOf
    <3>2. f < hdr[c].mx
      BY <1>2, <2>2, <3>1
    <3>3. wal[f].tx < wal[hdr[c].mx].tx
      BY <1>1, <2>2, <2>3, <2>4, <3>2 DEF ChainInv
    <3>4. wal[hdr[c].mx].tx = tx
      BY <1>2, <2>1, <2>2 DEF SpillOf
    <3>. QED
      BY <3>3, <3>4
  <2>5. /\ \A f \in 1..hdr[c].mx : f > aHdr[0].mx =>
             wal[f].tx = tx /\ ~wal[f].commit /\ wal[f].pg \in spilled
        /\ \A p \in spilled : \E f \in 1..hdr[c].mx :
             f > aHdr[0].mx /\ wal[f].pg = p
        /\ \A f \in 1..MaxFrame : f > hdr[c].mx => wal[f].prev < tx
    BY <2>1 DEF SpillOf
  <2>6. nTx <= tx /\ aHdr[0].mx \in 0..hdr[c].mx
    BY <1>2, <2>1, <2>2
  <2>. QED
    BY <1>2, <1>3, <2>2, <2>3, <2>4, <2>5, <2>6
<1>. QED
  BY <1>5, <1>6

\* What the frames are after the step.
LEMMA AppendFrames ==
  ASSUME Control, LogInv, NEW c \in Conn, NEW W, NEW isCommit, NEW salt,
         NEW last, NEW tx, Appends(c, W, isCommit, salt, last, tx)
  PROVE  /\ \A f \in 1..MaxFrame : f <= hdr[c].mx => wal'[f] = wal[f]
         /\ \A f \in 1..MaxFrame : f > last => wal'[f] = wal[f]
         /\ \A f \in 1..last : f > hdr[c].mx =>
              /\ wal'[f].pg \in W /\ wal'[f].tx = tx
              /\ wal'[f].commit = (isCommit /\ f = last)
              /\ wal'[f].prev <= tx
         /\ ValidFrames' = 1..last
<1>1. /\ last > hdr[c].mx /\ hdr[c].mx \in 0..MaxFrame /\ nTx <= tx
      /\ hdr[c].mx > 0 => hdr[c].mx \in ValidFrames /\ walSalt' = walSalt
      /\ \A f \in 1..MaxFrame : f > hdr[c].mx => wal[f].prev < tx
  BY AppendFacts
<1>2. /\ walSalt' = salt /\ salt # 0 /\ last \in 1..MaxFrame /\ tx \in 1..MaxTx
      /\ \A f \in 1..MaxFrame :
           f \notin (hdr[c].mx + 1)..last => wal'[f] = wal[f]
      /\ \A f \in (hdr[c].mx + 1)..last :
           /\ wal'[f].pg \in W /\ wal'[f].tx = tx /\ wal'[f].salt = salt
           /\ wal'[f].commit = (isCommit /\ f = last)
           /\ wal'[f].prev = IF f = 1 THEN 0
                             ELSE IF f = hdr[c].mx + 1
                                  THEN wal[hdr[c].mx].tx ELSE tx
  BY DEF Appends, FramesDone
<1>3. PICK m : m = hdr[c].mx
  OBVIOUS
<1>. HIDE DEF Appends
<1>10. /\ m \in 0..MaxFrame /\ last \in 1..MaxFrame /\ last > m
       /\ MaxFrame \in Nat
  BY <1>1, <1>2, <1>3, Bounds
<1>4. /\ \A f \in 1..MaxFrame : f <= m => wal'[f] = wal[f]
      /\ \A f \in 1..MaxFrame : f > last => wal'[f] = wal[f]
  BY <1>1, <1>2, <1>3
<1>5. \A f \in 1..MaxFrame :
        wal[f].tx <= nTx /\ wal[f].tx \in Int /\ nTx \in Int
  <2>1. TypeBase /\ ChainInv /\ LogTypes
    BY DEF Control, LogInv
  <2>2. \A f \in 1..MaxFrame : wal[f].tx \in 0..MaxTx
    BY <2>1, FrameFields
  <2>3. nTx \in 1..MaxTx
    BY <2>1, LatestType
  <2>. QED
    BY <2>1, <2>2, <2>3 DEF ChainInv
<1>6. ASSUME NEW f \in 1..last, f > m
      PROVE  /\ wal'[f].pg \in W /\ wal'[f].tx = tx /\ wal'[f].salt = salt
             /\ wal'[f].commit = (isCommit /\ f = last)
             /\ wal'[f].prev <= tx
             /\ wal'[f].prev = IF f = 1 THEN 0 ELSE wal'[f - 1].tx
  <2>1. f \in (m + 1)..last
    BY <1>1, <1>2, <1>3, <1>6
  <2>2. /\ wal'[f].pg \in W /\ wal'[f].tx = tx /\ wal'[f].salt = salt
        /\ wal'[f].commit = (isCommit /\ f = last)
        /\ wal'[f].prev = IF f = 1 THEN 0
                          ELSE IF f = m + 1 THEN wal[m].tx ELSE tx
    BY <1>2, <1>3, <2>1
  <2>3. CASE f = 1
    BY <1>2, <2>2, <2>3
  <2>4. CASE f # 1 /\ f = m + 1
    <3>1. m \in 1..MaxFrame /\ f - 1 = m
      BY <1>1, <1>3, <2>4
    <3>2. wal'[m] = wal[m] /\ wal[m].tx <= tx
      BY <1>1, <1>2, <1>4, <1>5, <3>1
    <3>. QED
      BY <2>2, <2>4, <3>1, <3>2
  <2>5. CASE f # 1 /\ f # m + 1
    <3>1. f - 1 \in (m + 1)..last
      BY <1>10, <2>1, <2>5
    <3>2. wal'[f - 1].tx = tx
      BY <1>2, <1>3, <3>1
    <3>. QED
      BY <1>2, <2>2, <2>5, <3>2
  <2>. QED
    BY <2>3, <2>4, <2>5
<1>7. ASSUME NEW f \in 1..last
      PROVE  /\ wal'[f].salt = walSalt' /\ walSalt' # 0
             /\ wal'[f].prev = IF f = 1 THEN 0 ELSE wal'[f - 1].tx
  <2>1. CASE f > m
    BY <1>2, <1>6, <2>1
  <2>2. CASE ~(f > m)
    <3>1. /\ m \in ValidFrames /\ walSalt' = walSalt
          /\ f \in 1..m /\ m \in 1..MaxFrame
      BY <1>1, <1>3, <2>2
    <3>2. /\ wal[f].salt = walSalt
          /\ wal[f].prev = IF f = 1 THEN 0 ELSE wal[f - 1].tx
      BY <3>1 DEF ValidFrames
    <3>3. wal'[f] = wal[f] /\ (f # 1 => wal'[f - 1] = wal[f - 1])
      <4>1. f \in 1..MaxFrame /\ (f # 1 => f - 1 \in 1..MaxFrame) /\ f <= m
            /\ f - 1 <= m
        BY <1>10, <3>1
      <4>. QED
        BY <1>4, <4>1
    <3>. QED
      BY <1>2, <3>1, <3>2, <3>3
  <2>. QED
    BY <2>1, <2>2
<1>8. ASSUME NEW f \in 1..MaxFrame, f > last
      PROVE  f \notin ValidFrames'
  <2>1. last + 1 \in 1..f /\ last + 1 \in 1..MaxFrame /\ last + 1 > last
        /\ last + 1 > m /\ last + 1 # 1 /\ (last + 1) - 1 = last
    BY <1>10, <1>8
  <2>2. wal'[last + 1] = wal[last + 1] /\ wal[last + 1].prev < tx
    BY <1>1, <1>3, <1>4, <2>1
  <2>3. wal'[last].tx = tx
    <3>1. last \in 1..last /\ last > m
      BY <1>1, <1>2, <1>3
    <3>. QED
      BY <1>6, <3>1
  <2>4. wal'[last + 1].prev # wal'[(last + 1) - 1].tx
    BY <1>2, <2>1, <2>2, <2>3
  <2>. QED
    BY <2>1, <2>4 DEF ValidFrames
<1>9. ValidFrames' = 1..last
  <2>1. ASSUME NEW f \in 1..last PROVE f \in ValidFrames'
    <3>1. f \in 1..MaxFrame /\ \A g \in 1..f : g \in 1..last
      BY <1>10
    <3>. QED
      BY <1>7, <3>1 DEF ValidFrames
  <2>2. ASSUME NEW f \in ValidFrames' PROVE f \in 1..last
    <3>1. f \in 1..MaxFrame
      BY DEF ValidFrames
    <3>. QED
      BY <1>2, <1>8, <3>1
  <2>. QED
    BY <2>1, <2>2
<1>. QED
  BY <1>3, <1>4, <1>6, <1>9

\* Frames appended to the log continue its transactions, and leave the frames
\* the published header covers.
LEMMA AppendLog ==
  ASSUME Control, Control', LogInv, NEW c \in Conn, NEW W, NEW isCommit,
         NEW salt, NEW last, NEW tx, Appends(c, W, isCommit, salt, last, tx)
  PROVE  /\ LogTypes' /\ ChainInv' /\ Advance
         /\ \A t \in 1..MaxTx : t # tx => image'[t] = image[t]
         /\ isCommit => \A p \in Page : image'[tx][p] =
              IF p \in W \cup spilled THEN tx ELSE image[latest][p]
<1>1. /\ TypeBase /\ LogTypes /\ ChainInv /\ ImageInv /\ TypeBase'
  BY DEF Control, LogInv
<1>2. /\ last > hdr[c].mx /\ hdr[c].mx \in 0..MaxFrame /\ nTx <= tx
      /\ aHdr[0].mx \in 0..hdr[c].mx /\ hdr[c].tx = latest /\ latest < tx
      /\ hdr[c].mx > 0 => walSalt' = walSalt
      /\ latest \in 1..MaxTx /\ nTx' = tx
      /\ \A f \in 1..hdr[c].mx :
           f \in ValidFrames /\ (wal[f].commit => wal[f].tx < tx)
  BY AppendFacts
<1>3. /\ \A f \in 1..MaxFrame : f <= hdr[c].mx => wal'[f] = wal[f]
      /\ \A f \in 1..MaxFrame : f > last => wal'[f] = wal[f]
      /\ \A f \in 1..last : f > hdr[c].mx =>
           /\ wal'[f].pg \in W /\ wal'[f].tx = tx
           /\ wal'[f].commit = (isCommit /\ f = last)
           /\ wal'[f].prev <= tx
      /\ ValidFrames' = 1..last
  BY AppendFrames
<1>4. /\ W \in SUBSET Page /\ tx \in 1..MaxTx /\ last \in 1..MaxFrame
      /\ aHdr' = aHdr /\ db' = db /\ latest' = latest
      /\ isCommit => image' = [image EXCEPT ![tx] =
                       [p \in Page |-> IF p \in W \cup spilled THEN tx
                                       ELSE image[latest][p]]]
      /\ ~isCommit => image' = image
  BY <1>2 DEF Appends, FramesDone
<1>5. /\ image' \in [1..MaxTx -> [Page -> 1..MaxTx]]
      /\ \A t \in 1..MaxTx : t # tx => image'[t] = image[t]
      /\ isCommit => \A p \in Page : image'[tx][p] =
           IF p \in W \cup spilled THEN tx ELSE image[latest][p]
  <2>. DEFINE im == [p \in Page |-> IF p \in W \cup spilled THEN tx
                                    ELSE image[latest][p]]
  <2>1. image \in [1..MaxTx -> [Page -> 1..MaxTx]]
    BY <1>1 DEF LogTypes
  <2>2. image[latest] \in [Page -> 1..MaxTx]
    BY <1>2, <2>1
  <2>3. im \in [Page -> 1..MaxTx]
    BY <1>4, <2>2
  <2>4. isCommit => image' = [image EXCEPT ![tx] = im]
    BY <1>4
  <2>5. \A p \in Page : im[p] = IF p \in W \cup spilled THEN tx
                                ELSE image[latest][p]
    OBVIOUS
  <2>. HIDE DEF im
  <2>6. /\ image' \in [1..MaxTx -> [Page -> 1..MaxTx]]
        /\ \A t \in 1..MaxTx : t # tx => image'[t] = image[t]
        /\ isCommit => image'[tx] = im
    BY <1>4, <2>1, <2>3, <2>4
  <2>. QED
    BY <2>5, <2>6
<1>6. LogTypes'
  <2>1. latest' \in 1..nTx'
    BY <1>2, <1>4
  <2>. QED
    BY <1>1, <1>4, <1>5, <2>1 DEF LogTypes
<1>7. \A f \in 1..MaxFrame :
        /\ wal[f].tx \in Int /\ wal[f].tx <= nTx /\ wal[f].prev <= nTx
        /\ wal[f].prev \in Int
        /\ wal'[f].tx \in Int /\ wal'[f].prev \in Int
  <2>1. \A f \in 1..MaxFrame :
          wal'[f].tx \in 0..MaxTx /\ wal'[f].prev \in 0..MaxTx
    BY <1>1 DEF TypeBase, TypeShared, FrameType
  <2>2. \A f \in 1..MaxFrame :
          wal[f].tx \in 0..MaxTx /\ wal[f].prev \in 0..MaxTx
    BY <1>1, FrameFields
  <2>. QED
    BY <1>1, <2>1, <2>2 DEF ChainInv
<1>8. nTx \in Int /\ MaxFrame \in Nat
  <2>1. nTx \in 1..MaxTx
    BY <1>1, LatestType
  <2>. QED
    BY <2>1, Bounds
\* The frames as they were and the new ones.
<1>9. ASSUME NEW f \in 1..last
      PROVE  /\ f \in 1..MaxFrame
             /\ \/ f \in 1..hdr[c].mx /\ wal'[f] = wal[f] /\ f \in ValidFrames
                \/ /\ f > hdr[c].mx /\ wal'[f].pg \in W /\ wal'[f].tx = tx
                   /\ wal'[f].commit => f = last
                   /\ wal'[f].prev <= tx
  <2>1. f \in 1..MaxFrame
    BY <1>4, <1>8
  <2>2. f > hdr[c].mx \/ (f \in 1..hdr[c].mx /\ f <= hdr[c].mx)
    BY <1>2, <1>4, <1>8, <2>1
  <2>. QED
    BY <1>2, <1>3, <2>1, <2>2
<1>10. ChainInv'
  <2>1. ASSUME NEW f \in 1..last
        PROVE  wal'[f].pg \in Page /\ wal'[f].tx >= 1
    BY <1>1, <1>4, <1>9 DEF ChainInv
  <2>2. ASSUME NEW f \in 1..last, NEW g \in 1..last, f < g
        PROVE  /\ wal'[f].tx <= wal'[g].tx
               /\ wal'[f].commit => wal'[f].tx < wal'[g].tx
    <3>1. CASE g \in 1..hdr[c].mx
      <4>1. f \in 1..hdr[c].mx /\ ~(f > hdr[c].mx) /\ ~(g > hdr[c].mx)
        BY <1>2, <2>2, <3>1
      <4>2. /\ wal'[f] = wal[f] /\ wal'[g] = wal[g] /\ f \in ValidFrames
            /\ g \in ValidFrames
        BY <1>9, <4>1
      <4>. QED
        BY <1>1, <2>2, <4>2 DEF ChainInv
    <3>2. CASE g \notin 1..hdr[c].mx
      <4>1. wal'[g].tx = tx /\ g \in 1..MaxFrame /\ f \in 1..MaxFrame
        BY <1>9, <3>2
      <4>2. CASE f \in 1..hdr[c].mx
        <5>1. wal'[f] = wal[f] /\ (wal[f].commit => wal[f].tx < tx)
          BY <1>2, <1>9, <4>2
        <5>2. wal[f].tx <= nTx /\ wal[f].tx \in Int
          BY <1>7, <4>1
        <5>. QED
          BY <1>2, <1>4, <1>8, <4>1, <5>1, <5>2
      <4>3. CASE f \notin 1..hdr[c].mx
        <5>1. wal'[f].tx = tx /\ (wal'[f].commit => f = last)
          BY <1>9, <4>3
        <5>2. f # last
          BY <1>4, <2>2
        <5>. QED
          BY <1>4, <4>1, <5>1, <5>2
      <4>. QED
        BY <4>2, <4>3
    <3>. QED
      BY <3>1, <3>2
  <2>3. ASSUME NEW f \in 1..MaxFrame
        PROVE  wal'[f].tx <= tx /\ wal'[f].prev <= tx
    <3>1. CASE f > last \/ f <= hdr[c].mx
      <4>1. wal'[f] = wal[f]
        BY <1>3, <3>1
      <4>. QED
        BY <1>2, <1>4, <1>7, <1>8, <4>1
    <3>2. CASE ~(f > last \/ f <= hdr[c].mx)
      <4>1. f \in 1..last /\ f > hdr[c].mx
        BY <1>2, <1>4, <3>2
      <4>. QED
        BY <1>3, <1>4, <4>1
    <3>. QED
      BY <3>1, <3>2
  <2>. QED
    BY <1>2, <1>3, <2>1, <2>2, <2>3 DEF ChainInv
<1>11. Advance
  <2>1. ASSUME NEW f \in 1..aHdr[0].mx
        PROVE  wal'[f] = wal[f] /\ f \in ValidFrames'
    <3>1. f \in 1..MaxFrame /\ f <= hdr[c].mx /\ f \in 1..last
      BY <1>2, <1>4, <1>8
    <3>. QED
      BY <1>3, <3>1
  <2>2. aHdr[0].mx > 0 => walSalt' = walSalt
    BY <1>2
  <2>3. \A t \in 1..latest : image'[t] = image[t]
    <3>1. \A t \in 1..latest : t \in 1..MaxTx /\ t < tx
      BY <1>2, <1>4, Bounds
    <3>. QED
      BY <1>5, <3>1
  <2>4. \A p \in Page : db[p] \in Int
    BY <1>1 DEF LogTypes
  <2>. QED
    BY <1>2, <1>4, <2>1, <2>2, <2>3, <2>4 DEF Advance
<1>. QED
  BY <1>5, <1>6, <1>10, <1>11

\* Frames appended to the log make up the image of their transaction when they
\* end in a commit, and leave the images before.
LEMMA AppendImage ==
  ASSUME Control, Control', LogInv, NEW c \in Conn, NEW W, NEW isCommit,
         NEW salt, NEW last, NEW tx, Appends(c, W, isCommit, salt, last, tx)
  PROVE  ImageInv' /\ RecoverableInv'
<1>1. /\ TypeBase /\ LogTypes /\ ChainInv /\ ImageInv /\ RecoverableInv
  BY DEF Control, LogInv
<1>2. /\ aHdr[0].tx = latest /\ Whole(aHdr[0])
      /\ last > hdr[c].mx /\ hdr[c].mx \in 0..MaxFrame
      /\ aHdr[0].mx \in 0..hdr[c].mx /\ latest < tx /\ latest \in 1..MaxTx
      /\ hdr[c].mx > 0 => hdr[c].mx \in ValidFrames
      /\ \A f \in 1..hdr[c].mx : f > aHdr[0].mx =>
           wal[f].tx = tx /\ ~wal[f].commit /\ wal[f].pg \in spilled
      /\ \A p \in spilled : \E f \in 1..hdr[c].mx :
           f > aHdr[0].mx /\ wal[f].pg = p
      /\ \A f \in 1..hdr[c].mx :
           f \in ValidFrames /\ (wal[f].commit => wal[f].tx < tx)
  BY AppendFacts
<1>3. /\ \A f \in 1..MaxFrame : f <= hdr[c].mx => wal'[f] = wal[f]
      /\ \A f \in 1..last : f > hdr[c].mx =>
           /\ wal'[f].pg \in W /\ wal'[f].tx = tx
           /\ wal'[f].commit = (isCommit /\ f = last)
      /\ ValidFrames' = 1..last
  BY AppendFrames
<1>4. /\ LogTypes' /\ Advance
      /\ \A t \in 1..MaxTx : t # tx => image'[t] = image[t]
      /\ isCommit => \A p \in Page : image'[tx][p] =
           IF p \in W \cup spilled THEN tx ELSE image[latest][p]
  BY AppendLog
<1>5. /\ last \in 1..MaxFrame /\ tx \in 1..MaxTx /\ MaxFrame \in Nat
      /\ db' = db /\ latest' = latest
      /\ ~isCommit => image' = image
      /\ isCommit \in BOOLEAN
      /\ isCommit => \A p \in W \ spilled :
           \E f \in (hdr[c].mx + 1)..last : wal'[f].pg = p
  BY Bounds DEF Appends, FramesDone
<1>6. image'[latest] = image[latest]
  BY <1>2, <1>4
<1>7. ASSUME NEW f \in 1..hdr[c].mx, wal[f].commit
      PROVE  ImageOf(f)'
  <2>1. f \in ValidFrames /\ wal[f].tx < tx
    BY <1>2, <1>7
  <2>2. ImageOf(f)
    BY <1>1, <1>7, <2>1 DEF ImageInv
  <2>3. \A g \in 1..f : wal'[g] = wal[g]
    <3>1. \A g \in 1..f : g \in 1..MaxFrame /\ g <= hdr[c].mx
      BY <1>2, <1>5
    <3>. QED
      BY <1>3, <3>1
  <2>4. f \in 1..f
    BY <1>2
  <2>5. wal[f].tx \in 1..MaxTx
    <3>1. f \in 1..MaxFrame
      BY <1>2, <1>5
    <3>2. wal[f].tx \in 0..MaxTx /\ wal[f].tx >= 1
      BY <1>1, <2>1, <3>1, FrameFields DEF ChainInv
    <3>. QED
      BY <3>2
  <2>6. image'[wal[f].tx] = image[wal[f].tx]
    BY <1>4, <2>1, <2>5
  <2>7. wal'[f] = wal[f]
    BY <2>3, <2>4
  <2>8. /\ \A p, l : l \in 1..f => (LastAt(p, l, f)' <=> LastAt(p, l, f))
        /\ \A p : Absent(p, f)' <=> Absent(p, f)
    BY <2>3 DEF LastAt, Absent
  <2>9. \A l \in 1..f : wal'[l].tx = wal[l].tx
    BY <2>3
  <2>. QED
    BY <1>5, <1>6, <2>2, <2>6, <2>7, <2>8, <2>9 DEF ImageOf
\* The pages that have a frame after those of the published header.
<1>8. ASSUME isCommit, NEW p \in W \cup spilled
      PROVE  \E f \in 1..last : f > aHdr[0].mx /\ wal'[f].pg = p
  <2>1. CASE p \in spilled
    <3>1. PICK f \in 1..hdr[c].mx : f > aHdr[0].mx /\ wal[f].pg = p
      BY <1>2, <2>1
    <3>2. f \in 1..MaxFrame /\ f <= hdr[c].mx /\ f \in 1..last
      BY <1>2, <1>5
    <3>. QED
      BY <1>3, <3>1, <3>2
  <2>2. CASE p \notin spilled
    <3>1. PICK f \in (hdr[c].mx + 1)..last : wal'[f].pg = p
      BY <1>5, <1>8, <2>2
    <3>2. f \in 1..last /\ f > aHdr[0].mx
      BY <1>2, <1>5
    <3>. QED
      BY <3>1, <3>2
  <2>. QED
    BY <2>1, <2>2
<1>9. ASSUME NEW f \in 1..last, f > aHdr[0].mx
      PROVE  wal'[f].pg \in W \cup spilled /\ wal'[f].tx = tx
  <2>1. CASE f > hdr[c].mx
    BY <1>3, <2>1
  <2>2. CASE ~(f > hdr[c].mx)
    <3>1. f \in 1..hdr[c].mx /\ f \in 1..MaxFrame /\ f <= hdr[c].mx
      BY <1>2, <1>5, <2>2
    <3>. QED
      BY <1>2, <1>3, <1>9, <3>1
  <2>. QED
    BY <2>1, <2>2
<1>10. ASSUME NEW f \in 1..aHdr[0].mx
       PROVE  wal'[f] = wal[f] /\ f \in 1..last
  BY <1>2, <1>3, <1>5
<1>11. \A p \in Page : image[latest][p] \in Int /\ image[latest][p] <= latest
  <2>1. image[latest] \in [Page -> 1..MaxTx]
    BY <1>1, <1>2 DEF LogTypes
  <2>. QED
    BY <1>1, <1>2, <2>1 DEF ImageInv
<1>12. ASSUME isCommit PROVE ImageOf(last)'
  <2>1. wal'[last].tx = tx
    BY <1>2, <1>3, <1>5
  <2>2. ASSUME NEW p \in Page, p \in W \cup spilled
        PROVE  /\ \A l \in 1..last :
                    LastAt(p, l, last)' => wal'[l].tx = image'[tx][p]
               /\ ~(Absent(p, last)')
               /\ image'[tx][p] >= image'[latest][p]
    <3>1. PICK f \in 1..last : f > aHdr[0].mx /\ wal'[f].pg = p
      BY <1>8, <1>12, <2>2
    <3>2. ASSUME NEW l \in 1..last, LastAt(p, l, last)' PROVE wal'[l].tx = tx
      <4>1. ~(f > l)
        BY <3>1, <3>2 DEF LastAt
      <4>2. l > aHdr[0].mx
        BY <1>2, <1>5, <3>1, <4>1
      <4>. QED
        BY <1>9, <4>2
    <3>3. image'[tx][p] = tx
      BY <1>4, <1>12, <2>2
    <3>4. ~(Absent(p, last)')
      BY <3>1 DEF Absent
    <3>. QED
      BY <1>2, <1>5, <1>6, <1>11, <3>2, <3>3, <3>4
  <2>3. ASSUME NEW p \in Page, p \notin W \cup spilled
        PROVE  /\ \A l \in 1..last :
                    LastAt(p, l, last)' => wal'[l].tx = image'[tx][p]
               /\ Absent(p, last)' => db[p] >= image'[tx][p]
               /\ image'[tx][p] >= image'[latest][p]
    <3>1. image'[tx][p] = image[latest][p]
      BY <1>4, <1>12, <2>3
    <3>2. aHdr[0].mx > 0 => ImageOf(aHdr[0].mx) /\ wal[aHdr[0].mx].tx = latest
      BY <1>1, <1>2 DEF Whole, InLog, ImageInv
    <3>3. ASSUME NEW l \in 1..last, LastAt(p, l, last)'
          PROVE  wal'[l].tx = image[latest][p]
      <4>1. wal'[l].pg = p
        BY <3>3 DEF LastAt
      <4>2. l \in 1..aHdr[0].mx
        BY <1>2, <1>5, <1>9, <2>3, <4>1
      <4>3. LastAt(p, l, aHdr[0].mx)
        <5>1. ASSUME NEW g \in 1..aHdr[0].mx, g > l PROVE wal[g].pg # p
          <6>1. wal'[g] = wal[g] /\ g \in 1..last
            BY <1>10, <5>1
          <6>. QED
            BY <3>3, <5>1, <6>1 DEF LastAt
        <5>. QED
          BY <1>10, <4>1, <4>2, <5>1 DEF LastAt
      <4>4. aHdr[0].mx > 0 /\ wal'[l] = wal[l]
        BY <1>2, <1>10, <4>2
      <4>. QED
        BY <3>2, <4>2, <4>3, <4>4 DEF ImageOf
    <3>4. ASSUME Absent(p, last)' PROVE db[p] >= image[latest][p]
      <4>1. CASE aHdr[0].mx > 0
        <5>1. Absent(p, aHdr[0].mx)
          BY <1>10, <3>4 DEF Absent
        <5>. QED
          BY <3>2, <4>1, <5>1 DEF ImageOf
      <4>2. CASE ~(aHdr[0].mx > 0)
        BY <1>2, <4>2 DEF Whole, LB
      <4>. QED
        BY <4>1, <4>2
    <3>. QED
      BY <1>6, <1>11, <3>1, <3>3, <3>4
  <2>. QED
    BY <1>5, <2>1, <2>2, <2>3 DEF ImageOf
<1>13. ASSUME NEW t \in 1..MaxTx, NEW p \in Page PROVE image'[t][p] <= t
  <2>1. CASE isCommit /\ t = tx
    BY <1>2, <1>4, <1>5, <1>11, <2>1
  <2>2. CASE ~isCommit
    BY <1>1, <1>5, <2>2 DEF ImageInv
  <2>3. CASE isCommit /\ t # tx
    <3>1. image'[t] = image[t]
      BY <1>4, <2>3
    <3>. QED
      BY <1>1, <3>1 DEF ImageInv
  <2>. QED
    BY <1>5, <2>1, <2>2, <2>3
<1>14. UB(latest)'
  BY <1>1, <1>5, <1>6 DEF UB, ImageInv
<1>15. ASSUME NEW f \in 1..last, wal'[f].commit
       PROVE  \/ f \in 1..hdr[c].mx /\ wal[f].commit
              \/ f = last /\ isCommit
  <2>1. CASE f > hdr[c].mx
    BY <1>3, <1>15, <2>1
  <2>2. CASE ~(f > hdr[c].mx)
    <3>1. f \in 1..hdr[c].mx /\ f \in 1..MaxFrame /\ f <= hdr[c].mx
      BY <1>2, <1>5, <2>2
    <3>. QED
      BY <1>3, <1>15, <3>1
  <2>. QED
    BY <2>1, <2>2
<1>16. ImageInv'
  BY <1>3, <1>7, <1>12, <1>13, <1>14, <1>15 DEF ImageInv
<1>17. RecoverableInv'
  <2>1. CASE aHdr[0].mx > 0
    <3>1. PICK f \in 1..aHdr[0].mx : f = aHdr[0].mx
      BY <1>2, <2>1
    <3>2. /\ wal'[f] = wal[f] /\ f \in 1..last
          /\ wal[f].commit /\ wal[f].tx = latest
      BY <1>2, <1>10, <2>1, <3>1 DEF Whole, InLog
    <3>. QED
      BY <1>2, <1>3, <1>5, <3>2 DEF RecoverableInv
  <2>2. CASE ~(aHdr[0].mx > 0) /\ isCommit
    <3>1. last \in 1..last /\ last > hdr[c].mx
      BY <1>2, <1>5
    <3>2. wal'[last].tx = tx /\ wal'[last].commit = (isCommit /\ last = last)
      BY <1>3, <3>1
    <3>3. wal'[last].commit
      BY <2>2, <3>2
    <3>. QED
      BY <1>2, <1>3, <1>5, <3>1, <3>2, <3>3 DEF RecoverableInv
  <2>3. CASE ~(aHdr[0].mx > 0) /\ ~isCommit
    <3>1. \A f \in 1..last : ~wal'[f].commit
      <4>1. \A f \in 1..hdr[c].mx : ~wal[f].commit
        BY <1>2, <2>3
      <4>. QED
        BY <1>15, <2>3, <4>1
    <3>2. LB(latest)
      BY <1>2, <2>3 DEF Whole
    <3>3. LB(latest)'
      BY <1>5, <1>6, <3>2 DEF LB
    <3>. QED
      BY <1>3, <3>1, <3>3 DEF RecoverableInv
  <2>. QED
    BY <2>1, <2>2, <2>3
<1>. QED
  BY <1>16, <1>17

\* Frames written to the log keeps what the log says of the commits.
LEMMA WalFramesLog ==
  ASSUME Control, LogInv, NEW c \in Conn, NEW W \in SUBSET Page, W # {},
         NEW isCommit \in BOOLEAN, NEW salt \in 1..MaxSalt,
         WalFrames(c, W, isCommit, salt)
  PROVE  LogInv'
<1>1. /\ HeaderOf(c) /\ ReaderOf(c) /\ CkptOf(c) /\ PublishedInv
      /\ LogTypes /\ ChainInv /\ ImageInv
      /\ LockInvOf(c) /\ GlobalLocks /\ TypeBase /\ TypeConn(c)
  BY LocalLog
<1>2. OnlyLocksOf(c) /\ Control' /\ TypeBase'
  BY WalFramesControl DEF Control
<1>3. PICK last, tx : Appends(c, W, isCommit, salt, last, tx)
  <2>1. spilled # {} \/ nTx < MaxTx
    BY <1>1 DEF LockInvOf, WalFrames
  <2>. QED
    BY <1>1, <2>1, WalFramesEffect DEF Appends
<1>4. /\ aHdr[0] # ZeroHdr /\ aHdr[0].tx = latest /\ Whole(aHdr[0])
      /\ writeLock = c /\ readLock[c] \in Marks /\ hdr[c].tx = latest
      /\ Base(c) = aHdr[0] /\ latest \in 1..MaxTx /\ latest < tx /\ nTx' = tx
      /\ aHdr[0].mx \in 0..hdr[c].mx /\ hdr[c].mx \in 0..MaxFrame
      /\ last > hdr[c].mx
      /\ \A f \in 1..hdr[c].mx : f > aHdr[0].mx =>
           wal[f].tx = tx /\ ~wal[f].commit /\ wal[f].pg \in spilled
      /\ \A p \in spilled : \E f \in 1..hdr[c].mx :
           f > aHdr[0].mx /\ wal[f].pg = p
      /\ \A f \in 1..MaxFrame : f > hdr[c].mx => wal[f].prev < tx
  BY <1>3, AppendFacts
<1>5. /\ \A f \in 1..MaxFrame : f <= hdr[c].mx => wal'[f] = wal[f]
      /\ \A f \in 1..MaxFrame : f > last => wal'[f] = wal[f]
      /\ \A f \in 1..last : f > hdr[c].mx =>
           /\ wal'[f].pg \in W /\ wal'[f].tx = tx
           /\ wal'[f].commit = (isCommit /\ f = last)
      /\ ValidFrames' = 1..last
  BY <1>3, AppendFrames
<1>6. LogTypes' /\ ChainInv' /\ Advance /\ ImageInv' /\ RecoverableInv'
  BY <1>2, <1>3, AppendLog, AppendImage
<1>7. /\ OnlyAt(c) /\ SameReads(c) /\ pc[c] = "write" /\ readLock[c] > 0
      /\ last \in 1..MaxFrame /\ tx \in 1..MaxTx /\ walSalt' = salt
      /\ aHdr' = aHdr /\ nBackfill' = nBackfill /\ aReadMark' = aReadMark
      /\ writeLock' = writeLock /\ ckptLock' = ckptLock /\ db' = db
      /\ ckpt' = ckpt /\ latest' = latest
      /\ \A p \in W \ spilled : \E f \in (hdr[c].mx + 1)..last : wal'[f].pg = p
  BY <1>3 DEF Appends, FramesDone
<1>8. /\ isCommit =>
           /\ hdr'[c] = [mx |-> last, salt |-> salt, tx |-> tx]
           /\ spilled' = {} /\ pc'[c] = "publish1"
      /\ ~isCommit =>
           /\ hdr'[c].mx = last /\ hdr'[c].salt = salt
           /\ hdr'[c].tx = hdr[c].tx
           /\ spilled' = spilled \cup W /\ pc'[c] = "write"
  BY <1>3 DEF Appends, FramesDone
<1>9. image'[latest] = image[latest]
  BY <1>4, <1>6 DEF Advance
<1>10. \A d \in Conn \ {c} : Excluded(d)
  <2>1. ASSUME NEW d \in Conn \ {c} PROVE Excluded(d)
    <3>1. ReaderOf(d) /\ writeLock # d
      BY <1>4, LocalLog
    <3>. QED
      BY <1>7, <3>1 DEF Excluded, ReaderOf, UB
  <2>. QED
    BY <2>1
<1>11. Base(c)' = aHdr[0]
  BY <1>7, <1>8 DEF Base
<1>12. MarksRespected'
  <2>1. pc'[c] \in ReadPcs /\ pc'[c] \notin ScanPcs /\ pc[c] \in ReadPcs
    BY <1>7, <1>8
  <2>2. readLock'[c] = readLock[c] /\ Base(c)'.mx >= Base(c).mx
    BY <1>4, <1>7, <1>11 DEF SameReads
  <2>. QED
    BY <1>2, <1>7, <1>10, <2>1, <2>2, MarksKept
<1>13. Whole(aHdr[0])'
  <2>1. PICK h \in Hdr : h = aHdr[0]
    BY <1>1, HdrFields
  <2>2. h.mx \in 0..aHdr[0].mx /\ h.tx \in 1..latest /\ Whole(h)
    BY <1>4, <2>1
  <2>3. Whole(h)'
    BY <1>1, <1>6, <2>1, <2>2, WholeKept
  <2>. QED
    BY <1>7, <2>1, <2>3
<1>14. ASSUME NEW m \in 0..MaxFrame, m <= aHdr[0].mx, Filled(m, aHdr[0].mx)
       PROVE  Filled(m, aHdr[0].mx)'
  <2>1. PICK n : n = aHdr[0].mx
    OBVIOUS
  <2>2. n \in 0..aHdr[0].mx /\ m <= n /\ Filled(m, n) /\ aHdr'[0].mx \in Int
    BY <1>4, <1>7, <1>14, <2>1
  <2>3. n > 0 => n \in ValidFrames
    BY <1>4, <2>1 DEF Whole, InLog
  <2>4. Filled(m, n)'
    BY <1>1, <1>6, <2>2, <2>3, FilledKept
  <2>. QED
    BY <1>7, <2>1, <2>4
<1>15. PublishedInv'
  <2>1. CASE nBackfill <= aHdr[0].mx /\ Filled(nBackfill, aHdr[0].mx)
    <3>1. PICK m \in 0..MaxFrame : m = nBackfill
      BY <1>1 DEF TypeBase, TypeShared
    <3>2. Filled(m, aHdr[0].mx)'
      BY <1>14, <2>1, <3>1
    <3>3. m = nBackfill'
      BY <1>7, <3>1
    <3>4. Filled(nBackfill, aHdr[0].mx)'
      BY <3>2, <3>3
    <3>. QED
      BY <1>4, <1>7, <1>13, <2>1, <3>4 DEF PublishedInv
  <2>2. CASE \E d \in Conn : pc[d] = "restartInfo"
    <3>1. PICK d \in Conn : pc[d] = "restartInfo"
      BY <2>2
    <3>2. LockInvOf(d)
      BY Local
    <3>. QED
      BY <1>4, <1>7, <3>1, <3>2 DEF LockInvOf
  <2>. QED
    BY <1>1, <2>1, <2>2 DEF PublishedInv
<1>16. SpillInv'
  <2>1. CASE isCommit
    BY <1>8, <2>1 DEF SpillInv
  <2>2. CASE ~isCommit
    <3>1. \A f \in 1..last : f > aHdr[0].mx =>
            wal'[f].tx = tx /\ ~wal'[f].commit /\ wal'[f].pg \in spilled \cup W
      <4>1. ASSUME NEW f \in 1..last, f > aHdr[0].mx, f > hdr[c].mx
            PROVE  /\ wal'[f].tx = tx /\ ~wal'[f].commit
                   /\ wal'[f].pg \in spilled \cup W
        BY <1>5, <2>2, <4>1
      <4>2. ASSUME NEW f \in 1..last, f > aHdr[0].mx, ~(f > hdr[c].mx)
            PROVE  /\ wal'[f].tx = tx /\ ~wal'[f].commit
                   /\ wal'[f].pg \in spilled \cup W
        <5>1. f \in 1..hdr[c].mx /\ f \in 1..MaxFrame /\ f <= hdr[c].mx
          BY <1>4, <1>7, <4>2, Bounds
        <5>2. wal'[f] = wal[f]
          BY <1>5, <5>1
        <5>. QED
          BY <1>4, <4>2, <5>1, <5>2
      <4>. QED
        BY <4>1, <4>2
    <3>2. ASSUME NEW p \in spilled \cup W
          PROVE  \E f \in 1..last : f > aHdr[0].mx /\ wal'[f].pg = p
      <4>1. CASE p \in spilled
        <5>1. PICK f \in 1..hdr[c].mx : f > aHdr[0].mx /\ wal[f].pg = p
          BY <1>4, <4>1
        <5>2. f \in 1..MaxFrame /\ f <= hdr[c].mx /\ f \in 1..last
          BY <1>4, <1>7, Bounds
        <5>. QED
          BY <1>5, <5>1, <5>2
      <4>2. CASE p \notin spilled
        <5>1. PICK f \in (hdr[c].mx + 1)..last : wal'[f].pg = p
          BY <1>7, <3>2, <4>2
        <5>2. f \in 1..last /\ f > aHdr[0].mx
          BY <1>4, <1>7
        <5>. QED
          BY <5>1, <5>2
      <4>. QED
        BY <4>1, <4>2
    <3>3. \A f \in 1..MaxFrame : f > last => wal'[f].prev < tx
      <4>1. \A f \in 1..MaxFrame : f > last => f > hdr[c].mx
        BY <1>4, <1>7
      <4>. QED
        BY <1>4, <1>5, <4>1
    <3>4. last \in 1..last /\ last > aHdr[0].mx
      BY <1>4, <1>7
    <3>5. SpillOf(c)'
      BY <1>4, <1>5, <1>7, <1>8, <2>2, <3>1, <3>2, <3>3, <3>4 DEF SpillOf
    <3>. QED
      BY <1>4, <1>7, <3>5 DEF SpillInv
  <2>. QED
    BY <2>1, <2>2
<1>17. HeaderOf(c)'
  <2>1. CASE isCommit
    <3>1. /\ hdr'[c].mx = last /\ hdr'[c].salt = salt /\ hdr'[c].tx = tx
          /\ pc'[c] = "publish1"
      BY <1>8, <2>1
    <3>2. wal'[last].commit /\ wal'[last].tx = tx /\ last \in 1..last
      <4>1. last \in 1..last /\ last > hdr[c].mx
        BY <1>4, <1>7
      <4>2. wal'[last].tx = tx /\ wal'[last].commit = (isCommit /\ last = last)
        BY <1>5, <4>1
      <4>. QED
        BY <2>1, <4>1, <4>2
    <3>3. InLog(hdr[c])'
      BY <1>5, <1>7, <3>1, <3>2 DEF InLog
    <3>4. tx > latest /\ last > aHdr[0].mx /\ tx >= 1
      BY <1>4, <1>7
    <3>. QED
      BY <1>4, <1>7, <3>1, <3>3, <3>4 DEF HeaderOf
  <2>2. CASE ~isCommit
    <3>1. pc'[c] = "write" /\ spilled' # {} /\ hdr'[c].tx = latest
      BY <1>4, <1>8, <2>2
    <3>. QED
      BY <1>4, <1>7, <3>1 DEF HeaderOf
  <2>. QED
    BY <2>1, <2>2
<1>18. ReaderOf(c)'
  <2>1. /\ UB(latest) /\ minFrame[c] \in 1..(aHdr[0].mx + 1)
        /\ Filled(minFrame[c] - 1, aHdr[0].mx)
        /\ aReadMark[readLock[c]] <= aHdr[0].mx
    BY <1>1, <1>4, <1>7 DEF ReaderOf, ImageInv
  <2>2. PICK m \in 0..MaxFrame : m = minFrame[c] - 1 /\ m <= aHdr[0].mx
    <3>1. minFrame[c] - 1 \in 0..MaxFrame /\ minFrame[c] - 1 <= aHdr[0].mx
      BY <1>4, <2>1, Bounds
    <3>. QED
      BY <3>1
  <2>3. Filled(m, aHdr[0].mx)'
    BY <1>14, <2>1, <2>2
  <2>4. /\ m = minFrame'[c] - 1 /\ Base(c)' = aHdr'[0]
        /\ readLock'[c] = readLock[c] /\ minFrame'[c] = minFrame[c]
    BY <1>7, <1>11, <2>2 DEF SameReads
  <2>5. Filled(minFrame[c] - 1, Base(c).mx)' /\ Whole(Base(c))'
    BY <1>13, <2>3, <2>4
  <2>6. UB(Base(c).tx)'
    <3>1. UB(latest)'
      BY <1>7, <1>9, <2>1 DEF UB
    <3>2. latest' = Base(c)'.tx
      BY <1>4, <1>7, <1>11
    <3>. QED
      BY <3>1, <3>2
  <2>7. aHdr'[0].mx <= aHdr'[0].mx /\ pc'[c] # "checkMark"
    BY <1>4, <1>7, <1>8
  <2>. QED
    BY <1>7, <2>1, <2>4, <2>5, <2>6, <2>7 DEF ReaderOf
<1>19. CkptOf(c)'
  BY <1>8 DEF CkptOf
<1>. QED
  BY <1>2, <1>6, <1>7, <1>10, <1>12, <1>15, <1>16, <1>17, <1>18, <1>19,
     AdvanceStep

\* The loss of the wal-index keeps what the log says of the commits.
LEMMA ShmLostLog ==
  ASSUME Control, LogInv, ShmLost
  PROVE  LogInv'
<1>1. /\ LogTypes /\ ChainInv /\ ImageInv /\ RecoverableInv
      /\ TypeBase /\ GlobalLocks
  BY DEF LogInv, Control, LockInv
<1>2. /\ UNCHANGED <<wal, walSalt, db, image, latest, nTx, spilled, writeLock,
                     readLock, pc>>
      /\ aHdr'[0] = ZeroHdr /\ nBackfill' = 0
      /\ \A c \in Conn : pc[c] = "idle" /\ pc'[c] = "idle" /\ hdr'[c] = ZeroHdr
  BY DEF ShmLost
<1>3. ValidFrames' = ValidFrames
  BY <1>2 DEF ValidFrames
<1>4. LogTypes' /\ ChainInv'
  BY <1>1, <1>2, <1>3 DEF LogTypes, ChainInv
<1>5. ImageInv'
  BY <1>1, <1>2, <1>3 DEF ImageInv, ImageOf, LastAt, Absent, UB
<1>6. RecoverableInv'
  BY <1>1, <1>2, <1>3 DEF RecoverableInv, LB
<1>7. PublishedInv'
  <2>1. Filled(nBackfill, aHdr[0].mx)'
    BY <1>2 DEF Filled
  <2>. QED
    BY <1>2, <2>1 DEF PublishedInv, ZeroHdr
<1>8. spilled = {}
  <2>1. ASSUME NEW c \in Conn PROVE writeLock # c
    BY <1>2, Local DEF LockInvOf
  <2>2. writeLock = NoConn
    BY <1>1, <2>1 DEF TypeBase, TypeShared
  <2>. QED
    BY <1>1, <2>2 DEF GlobalLocks
<1>9. SpillInv' /\ MarksRespected'
  BY <1>2, <1>8 DEF SpillInv, MarksRespected
<1>10. ASSUME NEW c \in Conn
       PROVE  HeaderOf(c)' /\ ReaderOf(c)' /\ CkptOf(c)'
  <2>1. pc'[c] = "idle" /\ hdr'[c].tx = 0 /\ latest' >= 0
    BY <1>1, <1>2, LatestType DEF ZeroHdr
  <2>. QED
    BY <2>1 DEF HeaderOf, ReaderOf, CkptOf
<1>. QED
  BY <1>4, <1>5, <1>6, <1>7, <1>9, <1>10 DEF LogInv

-----------------------------------------------------------------------------
(* The log is restarted: nobody reads from it or copies it *)

\* What another connection knows stays true.
LEMMA OthersRestarted ==
  ASSUME Control, LogInv, NEW c \in Conn, OnlyAt(c), writeLock = c,
         writeLock' \in {c, NoConn}, pc[c] \in RestartPcs,
         \A d \in Conn \ {c} : /\ pc[d] \notin {"ckTest", "ckScan", "ckCopy"}
                               /\ pc[d] = "ckTail" => ckpt' = ckpt,
         UNCHANGED <<db, image, latest>>, LB(latest),
         NEW d \in Conn, d # c
  PROVE  HeaderOf(d)' /\ ReaderOf(d)' /\ CkptOf(d)'
<1>1. /\ HeaderOf(d) /\ ReaderOf(d) /\ CkptOf(d) /\ LockInvOf(d)
      /\ GlobalLocks /\ TypeBase /\ TypeConn(d)
  BY Local DEF LogInv
<1>2. /\ pc'[d] = pc[d] /\ hdr'[d] = hdr[d] /\ readLock'[d] = readLock[d]
      /\ minFrame'[d] = minFrame[d] /\ pick'[d] = pick[d]
  BY <1>1, OthersSame
<1>3. readLock[d] \notin Marks
  BY DEF Control, LockInv, ReadersOut
<1>4. pc[d] \notin WriterPcs /\ pc[d] # "checkMark"
  BY <1>1, <1>3 DEF LockInvOf
<1>5. \A t : (LB(t)' <=> LB(t)) /\ (UB(t)' <=> UB(t))
  BY DEF LB, UB
<1>6. LB(latest)'
  BY <1>5
<1>7. writeLock' # d
  BY ConnFacts
<1>8. HeaderOf(d)'
  BY <1>1, <1>2, <1>4, <1>6, <1>7 DEF HeaderOf
<1>9. pc[d] \in ReadPcs => Base(d)' = Base(d) /\ readLock[d] = 0
  <2>1. pc[d] \in ReadPcs => pc[d] = "read"
    BY <1>4
  <2>2. pc[d] \in ReadPcs => readLock[d] >= 0
    BY <1>1 DEF LockInvOf
  <2>3. readLock[d] \in -1..NReader
    BY <1>1 DEF TypeConn
  <2>. QED
    BY <1>2, <1>3, <2>1, <2>2, <2>3, Bounds DEF Base
<1>10. ReaderOf(d)'
  <2>1. pc[d] \in ReadPcs => UB(Base(d).tx) /\ LB(Base(d).tx)
    BY <1>1, <1>9 DEF ReaderOf
  <2>2. ASSUME pc[d] \in ReadPcs PROVE UB(Base(d).tx)' /\ LB(Base(d).tx)'
    <3>1. PICK t : t = Base(d).tx
      OBVIOUS
    <3>2. UB(t)' /\ LB(t)'
      BY <1>5, <2>1, <2>2, <3>1
    <3>3. Base(d)'.tx = t
      BY <1>9, <2>2, <3>1
    <3>. QED
      BY <3>2, <3>3
  <2>3. pc[d] \in ReadPcs => ~(readLock[d] > 0)
    BY <1>9
  <2>. QED
    BY <1>2, <1>4, <2>2, <2>3 DEF ReaderOf
<1>11. CkptOf(d)'
  <2>1. pc[d] \notin {"ckTest", "ckScan", "ckCopy"}
    OBVIOUS
  <2>2. pc[d] = "ckTail" => ckpt'.mode = "PASSIVE"
    <3>1. pc[d] = "ckTail" => ckptLock = d /\ ckpt.mode # "none" /\ ckpt' = ckpt
      BY <1>1 DEF LockInvOf
    <3>. QED
      BY <1>1, <3>1 DEF GlobalLocks
  <2>. QED
    BY <1>2, <2>1, <2>2 DEF CkptOf
<1>. QED
  BY <1>8, <1>10, <1>11

\* The header of the new log, published keeps what the log says of the commits.
LEMMA RestartHdr0Log ==
  ASSUME Control, LogInv, NEW c \in Conn, RestartHdr0(c), ~StaleCheckpoints
  PROVE  LogInv'
<1>1. /\ HeaderOf(c) /\ ReaderOf(c) /\ CkptOf(c) /\ PublishedInv
      /\ LogTypes /\ ChainInv /\ ImageInv
      /\ LockInvOf(c) /\ GlobalLocks /\ TypeBase /\ TypeConn(c)
  BY LocalLog
<1>2. OnlyAt(c) /\ RestartHdr0Done(c) /\ OnlyLocksOf(c) /\ Control'
  BY RestartHdr0Control
<1>3. /\ writeLock = c /\ spilled = {} /\ pc[c] \in RestartPcs
      /\ hdr[c].mx = 0 /\ hdr[c].tx = latest /\ LB(latest)
  BY <1>1, <1>2 DEF RestartHdr0Done, LockInvOf, HeaderOf
<1>4. /\ UNCHANGED <<wal, walSalt, db, image, latest, nTx, spilled, ckpt>>
      /\ writeLock' = c /\ aHdr'[0] = hdr[c] /\ hdr'[c] = hdr[c]
      /\ pc'[c] = "restartInfo"
  BY <1>1, <1>2, <1>3 DEF RestartHdr0Done, TypeBase, TypeShared
<1>5. \A d \in Conn \ {c} : pc[d] \notin {"ckTest", "ckScan", "ckCopy"}
  <2>1. ASSUME NEW d \in Conn \ {c} PROVE pc[d] # "ckCopy"
    <3>1. pc[d] = "ckCopy" => ckptLock = d /\ readLock[c] # 0
      BY Local DEF LockInvOf, Control, LockInv, ReadersOut
    <3>2. ckptLock = c \/ readLock[c] = 0
      BY <1>1, <1>3 DEF LockInvOf
    <3>. QED
      BY <3>1, <3>2
  <2>. QED
    BY <1>2, <2>1 DEF RestartHdr0Done
<1>6. \A d \in Conn \ {c} : HeaderOf(d)' /\ ReaderOf(d)' /\ CkptOf(d)'
  <2>1. ASSUME NEW d \in Conn, d # c
        PROVE  HeaderOf(d)' /\ ReaderOf(d)' /\ CkptOf(d)'
    BY <1>2, <1>3, <1>4, <1>5, <2>1, OthersRestarted
  <2>. QED
    BY <2>1
<1>7. ValidFrames' = ValidFrames
  BY <1>4 DEF ValidFrames
<1>8. LogTypes' /\ ChainInv'
  BY <1>1, <1>4, <1>7 DEF LogTypes, ChainInv
<1>9. LB(latest)' /\ (UB(latest)' <=> UB(latest))
  BY <1>3, <1>4 DEF LB, UB
<1>10. ImageInv' /\ RecoverableInv'
  <2>1. \A f : ImageOf(f)' <=> ImageOf(f)
    BY <1>4 DEF ImageOf, LastAt, Absent
  <2>2. RecoverableInv
    BY DEF LogInv
  <2>. QED
    BY <1>1, <1>3, <1>4, <1>7, <1>9, <2>1, <2>2 DEF ImageInv, RecoverableInv
<1>11. latest \in 1..MaxTx /\ hdr[c].tx >= 1 /\ hdr[c] # ZeroHdr
  BY <1>1, <1>3, LatestType DEF ZeroHdr
<1>12. PublishedInv'
  BY <1>3, <1>4, <1>9, <1>11 DEF PublishedInv, Whole
<1>13. SpillInv'
  BY <1>3, <1>4 DEF SpillInv
<1>14. HeaderOf(c)' /\ ReaderOf(c)' /\ CkptOf(c)'
  BY <1>3, <1>4, <1>9, <1>11 DEF HeaderOf, ReaderOf, CkptOf
<1>15. MarksRespected'
  <2>1. ASSUME NEW d \in Conn PROVE ~(pc'[d] \in ReadPcs /\ readLock'[d] > 0)
    <3>1. CASE d = c
      BY <1>4, <3>1
    <3>2. CASE d # c
      <4>1. readLock'[d] = readLock[d] /\ TypeConn(d)
        BY <1>1, <1>2, <3>2, OthersSame, Local
      <4>2. readLock[d] \notin Marks
        BY <1>3 DEF Control, LockInv, ReadersOut
      <4>. QED
        BY <4>1, <4>2, Bounds DEF TypeConn
    <3>. QED
      BY <3>1, <3>2
  <2>. QED
    BY <2>1 DEF MarksRespected
<1>. QED
  BY <1>6, <1>8, <1>10, <1>12, <1>13, <1>14, <1>15 DEF LogInv

\* A checkpoint that truncates the log keeps what the log says of the commits.
LEMMA CkptTruncateLog ==
  ASSUME Control, LogInv, NEW c \in Conn, CkptTruncate(c)
  PROVE  LogInv'
<1>1. /\ HeaderOf(c) /\ ReaderOf(c) /\ CkptOf(c) /\ PublishedInv
      /\ LogTypes /\ ChainInv /\ ImageInv
      /\ LockInvOf(c) /\ GlobalLocks /\ TypeBase /\ TypeConn(c)
  BY LocalLog
<1>2. OnlyAt(c) /\ CkptTruncateDone(c) /\ OnlyLocksOf(c) /\ Control'
  BY CkptTruncateControl
<1>3. /\ ckptLock = c /\ writeLock = c /\ spilled = {} /\ pc[c] \in RestartPcs
      /\ hdr[c].mx = 0 /\ hdr[c].tx = latest /\ LB(latest)
      /\ hdr[c] = aHdr[0] /\ nBackfill = 0
  BY <1>1, <1>2
     DEF CkptTruncateDone, Checkpointing, LockInvOf, HeaderOf
<1>4. /\ UNCHANGED <<aHdr, nBackfill, db, image, latest, nTx, spilled>>
      /\ writeLock' \in {c, NoConn} /\ pc'[c] = "idle"
      /\ hdr'[c] = ZeroHdr \/ hdr'[c] = hdr[c]
      /\ wal' = [f \in 1..MaxFrame |-> NoFrame] /\ walSalt' = 0
  BY <1>2, <1>3 DEF CkptTruncateDone
<1>5. \A d \in Conn \ {c} :
        pc[d] \notin {"ckTest", "ckScan", "ckCopy", "ckTail"}
  <2>1. ASSUME NEW d \in Conn \ {c}
        PROVE  pc[d] \notin {"ckTest", "ckScan", "ckCopy", "ckTail"}
    BY <1>3, Local DEF LockInvOf
  <2>. QED
    BY <2>1
<1>6. \A d \in Conn \ {c} : HeaderOf(d)' /\ ReaderOf(d)' /\ CkptOf(d)'
  <2>1. ASSUME NEW d \in Conn, d # c
        PROVE  HeaderOf(d)' /\ ReaderOf(d)' /\ CkptOf(d)'
    BY <1>2, <1>3, <1>4, <1>5, <2>1, OthersRestarted
  <2>. QED
    BY <2>1
<1>7. ValidFrames' = {}
  <2>1. ASSUME NEW f \in ValidFrames' PROVE FALSE
    <3>1. f \in 1..MaxFrame /\ \A g \in 1..f : walSalt' # 0
      BY <2>1 DEF ValidFrames
    <3>2. f \in 1..f
      BY <3>1, Bounds
    <3>. QED
      BY <1>4, <3>1, <3>2
  <2>. QED
    BY <2>1
<1>8. latest \in 1..MaxTx /\ nTx \in 1..MaxTx
  BY <1>1, LatestType
<1>9. LogTypes' /\ ChainInv'
  <2>1. \A f \in 1..MaxFrame : wal'[f].tx <= nTx' /\ wal'[f].prev <= nTx'
    BY <1>4, <1>8 DEF NoFrame
  <2>. QED
    BY <1>1, <1>4, <1>7, <2>1 DEF LogTypes, ChainInv
<1>10. LB(latest)' /\ (UB(latest)' <=> UB(latest))
  BY <1>3, <1>4 DEF LB, UB
<1>11. ImageInv' /\ RecoverableInv'
  BY <1>1, <1>4, <1>7, <1>10 DEF ImageInv, RecoverableInv
<1>12. hdr[c] # ZeroHdr /\ hdr[c].tx >= 1
  BY <1>3, <1>8 DEF ZeroHdr
<1>13. PublishedInv'
  <2>1. Filled(nBackfill, aHdr[0].mx)'
    BY <1>3, <1>4 DEF Filled
  <2>2. nBackfill' <= aHdr'[0].mx
    BY <1>3, <1>4
  <2>. QED
    BY <1>3, <1>4, <1>10, <1>12, <2>1, <2>2 DEF PublishedInv, Whole
<1>14. SpillInv'
  BY <1>3, <1>4 DEF SpillInv
<1>15. hdr'[c].tx <= latest'
  BY <1>3, <1>4, <1>8 DEF ZeroHdr
<1>16. HeaderOf(c)' /\ ReaderOf(c)' /\ CkptOf(c)'
  BY <1>4, <1>15 DEF HeaderOf, ReaderOf, CkptOf
<1>17. MarksRespected'
  <2>1. ASSUME NEW d \in Conn PROVE ~(pc'[d] \in ReadPcs /\ readLock'[d] > 0)
    <3>1. CASE d = c
      BY <1>4, <3>1
    <3>2. CASE d # c
      <4>1. readLock'[d] = readLock[d] /\ TypeConn(d)
        BY <1>1, <1>2, <3>2, OthersSame, Local
      <4>2. readLock[d] \notin Marks
        BY <1>3 DEF Control, LockInv, ReadersOut
      <4>. QED
        BY <4>1, <4>2, Bounds DEF TypeConn
    <3>. QED
      BY <3>1, <3>2
  <2>. QED
    BY <2>1 DEF MarksRespected
<1>. QED
  BY <1>6, <1>9, <1>11, <1>13, <1>14, <1>16, <1>17 DEF LogInv

-----------------------------------------------------------------------------
(* The invariant *)

\* The log is empty at first, and the database file holds the first image.
LEMMA InitLog == Init => LogInv
<1>. SUFFICES ASSUME Init PROVE LogInv
  OBVIOUS
<1>1. 1 \in 1..MaxTx /\ 0 \notin 1..MaxTx
  BY Bounds
<1>2. ValidFrames = {}
  <2>1. ASSUME NEW f \in ValidFrames PROVE FALSE
    <3>1. f \in 1..MaxFrame /\ \A g \in 1..f : walSalt # 0
      BY <2>1 DEF ValidFrames
    <3>2. f \in 1..f
      BY <3>1, Bounds
    <3>. QED
      BY <3>1, <3>2 DEF Init
  <2>. QED
    BY <2>1
<1>3. LogTypes
  BY <1>1 DEF Init, LogTypes
<1>4. ChainInv
  BY <1>2 DEF Init, ChainInv, NoFrame
<1>5. LB(latest) /\ UB(latest)
  BY <1>1 DEF Init, LB, UB
<1>6. ImageInv
  BY <1>1, <1>2, <1>5 DEF Init, ImageInv
<1>7. RecoverableInv
  BY <1>2, <1>5 DEF RecoverableInv
<1>8. PublishedInv
  <2>1. aHdr[0] = ZeroHdr /\ nBackfill = 0
    BY DEF Init
  <2>2. \A c \in Conn : pc[c] = "idle"
    BY DEF Init
  <2>3. 0 <= aHdr[0].mx /\ Filled(nBackfill, aHdr[0].mx)
    BY <2>1 DEF ZeroHdr, Filled
  <2>. QED
    BY <2>1, <2>2, <2>3 DEF PublishedInv
<1>9. SpillInv /\ MarksRespected
  BY DEF Init, SpillInv, MarksRespected
<1>10. ASSUME NEW c \in Conn PROVE HeaderOf(c) /\ ReaderOf(c) /\ CkptOf(c)
  <2>1. /\ pc[c] = "idle" /\ hdr[c].tx = 0 /\ latest = 1
    BY DEF Init, ZeroHdr
  <2>. QED
    BY <2>1 DEF HeaderOf, ReaderOf, CkptOf
<1>. QED
  BY <1>3, <1>4, <1>6, <1>7, <1>8, <1>9, <1>10 DEF LogInv

\* Neither a stale checkpoint nor a writer that dies between the two copies of
\* the restarted header and its backfill.
Sound == ~StaleCheckpoints /\ "restartInfo" \notin DeathPcs

\* Every step keeps what the log says of the commits.
THEOREM NextLog == Sound /\ Control /\ LogInv /\ [Next]_vars => LogInv'
<1>. SUFFICES ASSUME Sound, Control, LogInv, [Next]_vars PROVE LogInv'
  OBVIOUS
<1>0. ~StaleCheckpoints /\ "restartInfo" \notin DeathPcs
  BY DEF Sound
<1>1. CASE UNCHANGED vars
  <2>1. /\ UNCHANGED <<aHdr, nBackfill, aReadMark, writeLock, ckptLock, wal>>
        /\ UNCHANGED <<walSalt, db, hdr, minFrame, readLock, pick, pc>>
        /\ UNCHANGED <<spilled, ckpt, image, latest, nTx>>
    BY <1>1 DEF vars
  <2>2. LogSame
    BY <2>1 DEF LogSame
  <2>3. LogTypes' /\ ChainInv' /\ ImageInv' /\ RecoverableInv'
    BY <2>2, SameLog
  <2>4. /\ ValidFrames' = ValidFrames /\ RecoveredHdr' = RecoveredHdr
        /\ \A m, n : Filled(m, n)' <=> Filled(m, n)
        /\ \A t : (LB(t)' <=> LB(t)) /\ (UB(t)' <=> UB(t))
        /\ \A h : (InLog(h)' <=> InLog(h)) /\ (Whole(h)' <=> Whole(h))
    BY <2>2, SameOperators
  <2>5. PublishedInv'
    BY <2>1 DEF LogInv, PublishedInv, Whole, InLog, LB, Filled, ValidFrames
  <2>6. SpillInv'
    BY <2>1, <2>4 DEF LogInv, SpillInv, SpillOf
  <2>7. MarksRespected'
    BY <2>1 DEF LogInv, MarksRespected, Base
  <2>8. ASSUME NEW c \in Conn PROVE HeaderOf(c)' /\ ReaderOf(c)' /\ CkptOf(c)'
    <3>1. HeaderOf(c) /\ ReaderOf(c) /\ CkptOf(c)
      BY DEF LogInv
    <3>2. HeaderOf(c)'
      BY <2>1, <2>4, <3>1 DEF HeaderOf, InLog, LB
    <3>3. ReaderOf(c)'
      BY <2>1, <3>1
         DEF ReaderOf, Base, Whole, InLog, LB, UB, Filled, ValidFrames
    <3>4. CkptOf(c)'
      BY <2>1, <3>1
         DEF CkptOf, InLog, UB, ValidFrames, IterOf, LastAt, Absent
    <3>. QED
      BY <3>2, <3>3, <3>4
  <2>. QED
    BY <2>3, <2>5, <2>6, <2>7, <2>8 DEF LogInv
<1>2. CASE ShmLost
  BY <1>2, ShmLostLog
<1>3. ASSUME NEW c \in Conn, Reader(c) PROVE LogInv'
  BY <1>3, BeginReadLog, ChooseLogLog, LockRead0Log, PickMarkLog, LockMarkLog,
     LoadBackfillLog, CheckMarkLog, EndReadLog DEF Reader
<1>4. ASSUME NEW c \in Conn, Recovery(c) PROVE LogInv'
  BY <1>4, RecoverScanLog, RecoverHdr0Log, RecoverInfoLog DEF Recovery
<1>5. ASSUME NEW c \in Conn, Writer(c) PROVE LogInv'
  <2>1. CASE SpillPage(c)
    <3>1. PICK p \in Page, salt \in 1..MaxSalt : WalFrames(c, {p}, FALSE, salt)
      BY <2>1 DEF SpillPage
    <3>2. {p} \in SUBSET Page /\ {p} # {} /\ FALSE \in BOOLEAN
      OBVIOUS
    <3>. QED
      BY <3>1, <3>2, WalFramesLog
  <2>2. CASE CommitFrames(c)
    <3>1. PICK W \in (SUBSET Page) \ {{}}, salt \in 1..MaxSalt :
             WalFrames(c, W, TRUE, salt)
      BY <2>2 DEF CommitFrames
    <3>2. W \in SUBSET Page /\ W # {} /\ TRUE \in BOOLEAN
      OBVIOUS
    <3>. QED
      BY <3>1, <3>2, WalFramesLog
  <2>3. CASE RestartHdr0(c)
    BY <1>0, <2>3, RestartHdr0Log
  <2>. QED
    BY <1>5, <2>1, <2>2, <2>3, BeginWriteLog, RestartLogLog, KeepLogLog,
       RestartBackfillLog, RestartMarksLog, Publish1Log, Publish0Log,
       RollbackLog DEF Writer
<1>6. ASSUME NEW c \in Conn, Checkpointer(c) PROVE LogInv'
  BY <1>6, CkptBeginLog, CkptReadHdrLog, CkptTestLog, CkptScanLog,
     CkptStartLog, CkptCopyLog, CkptFinishLog, CkptInterruptLog,
     CkptRestartLog, CkptTruncateLog, CkptReturnLog DEF Checkpointer
<1>7. ASSUME NEW c \in Conn, Die(c) PROVE LogInv'
  BY <1>0, <1>7, DieLog
<1>. QED
  BY <1>1, <1>2, <1>3, <1>4, <1>5, <1>6, <1>7 DEF Next

\* The log, the published header and the database file always make up the image
\* of the last commit, and what each header in use says of them is still true:
\* for any number of connections, pages, frames and transactions, with deaths at
\* every other step.
THEOREM LogInvariant ==
  ASSUME Sound
  PROVE  Spec => []LogInv
<1>1. Init => Control /\ LogInv
  BY InitControl, InitLog
<1>2. Control /\ LogInv /\ [Next]_vars => Control' /\ LogInv'
  BY NextControl, NextLog
<1>. QED
  BY <1>1, <1>2, PTL DEF Spec

-----------------------------------------------------------------------------
(* The properties of the runs, and the refinement of SnapshotStore *)

\* What a lookup among the frames lo..n gives, and the database file else.
Lookup(p, lo, n) ==
  LET found == FramesOf(p, lo, n)
  IN IF found = {} THEN db[p] ELSE wal[Max(found)].tx

\* The lookup from a whole header, past frames that the database file has,
\* gives the image of its transaction.
LEMMA LookupImage ==
  ASSUME TypeBase, LogTypes, ImageInv, ChainInv,
         NEW h \in Hdr, h.tx \in 1..MaxTx, Whole(h), UB(h.tx),
         NEW lo \in 1..(h.mx + 1), Filled(lo - 1, h.mx), NEW p \in Page
  PROVE  Lookup(p, lo, h.mx) = image[h.tx][p]
<1>1. h.mx \in 0..MaxFrame
  BY DEF Hdr
<1>2. CASE h.mx = 0
  <2>1. FramesOf(p, lo, h.mx) = {}
    BY <1>2 DEF FramesOf
  <2>2. db[p] >= image[h.tx][p] /\ db[p] <= image[h.tx][p]
    BY <1>2 DEF Whole, LB, UB
  <2>3. image[h.tx] \in [Page -> 1..MaxTx]
    BY DEF LogTypes
  <2>4. db[p] \in Int /\ image[h.tx][p] \in Int
    BY <2>3 DEF LogTypes
  <2>. QED
    BY <2>1, <2>2, <2>4 DEF Lookup
<1>3. CASE h.mx # 0
  <2>1. h.mx \in 1..MaxFrame /\ InLog(h)
    BY <1>1, <1>3 DEF Whole
  <2>2. PICK m \in 0..h.mx : m = lo - 1
    BY <1>1
  <2>3. Filled(m, h.mx)
    BY <2>2
  <2>4. /\ \A l \in 1..h.mx : LastAt(p, l, h.mx) => wal[l].tx = image[h.tx][p]
        /\ (\A g \in 1..h.mx : g > m => wal[g].pg # p) =>
             db[p] = image[h.tx][p]
    BY <2>1, <2>3, SnapshotValue
  <2>5. /\ FramesOf(p, lo, h.mx) = {} =>
             \A g \in 1..h.mx : g >= lo => wal[g].pg # p
        /\ FramesOf(p, lo, h.mx) # {} =>
             /\ Max(FramesOf(p, lo, h.mx)) \in 1..h.mx
             /\ LastAt(p, Max(FramesOf(p, lo, h.mx)), h.mx)
    BY <2>1, Found
  <2>6. CASE FramesOf(p, lo, h.mx) = {}
    <3>1. \A g \in 1..h.mx : g > m => g >= lo
      BY <1>1, <2>2
    <3>2. db[p] = image[h.tx][p]
      BY <2>4, <2>5, <2>6, <3>1
    <3>. QED
      BY <2>6, <3>2 DEF Lookup
  <2>7. CASE FramesOf(p, lo, h.mx) # {}
    <3>1. wal[Max(FramesOf(p, lo, h.mx))].tx = image[h.tx][p]
      BY <2>4, <2>5, <2>7
    <3>. QED
      BY <2>7, <3>1 DEF Lookup
  <2>. QED
    BY <2>6, <2>7
<1>. QED
  BY <1>2, <1>3

\* A commit in the log is not older than the database file.
LEMMA CommitAbove ==
  ASSUME TypeBase, LogTypes, ImageInv, NEW f \in ValidFrames, wal[f].commit,
         wal[f].tx >= latest
  PROVE  UB(wal[f].tx)
<1>1. SUFFICES ASSUME NEW p \in Page PROVE db[p] <= image[wal[f].tx][p]
  BY DEF UB
<1>2. /\ db[p] <= image[latest][p]
      /\ image[wal[f].tx][p] >= image[latest][p]
  BY DEF ImageInv, ImageOf, UB
<1>3. f \in 1..MaxFrame /\ latest \in 1..MaxTx
  BY ValidPrefix, LatestType
<1>4. wal[f].tx \in 1..MaxTx
  <2>1. wal[f].tx \in 0..MaxTx
    BY <1>3, FrameFields
  <2>. QED
    BY <1>3, <2>1
<1>5. /\ image[wal[f].tx] \in [Page -> 1..MaxTx]
      /\ image[latest] \in [Page -> 1..MaxTx]
  BY <1>3, <1>4 DEF LogTypes
<1>6. db[p] \in Int /\ image[wal[f].tx][p] \in Int /\ image[latest][p] \in Int
  <2>1. /\ db[p] \in 1..MaxTx /\ image[wal[f].tx][p] \in 1..MaxTx
        /\ image[latest][p] \in 1..MaxTx
    BY <1>5 DEF LogTypes
  <2>. QED
    BY <2>1
<1>. QED
  BY <1>2, <1>6

\* The writer finds the frames its transaction has spilled, and behind them
\* what the published header covers.
LEMMA SpilledRead ==
  ASSUME Control, LogInv, NEW c \in Conn, writeLock = c, spilled # {},
         NEW p \in Page, hdr[c].tx = aHdr[0].tx,
         minFrame[c] \in 1..(aHdr[0].mx + 1),
         Lookup(p, minFrame[c], aHdr[0].mx) = image[aHdr[0].tx][p]
  PROVE  Lookup(p, minFrame[c], hdr[c].mx) =
           IF p \in spilled THEN nTx ELSE image[hdr[c].tx][p]
<1>1. TypeBase /\ SpillOf(c) /\ TypeConn(c)
  BY Local DEF LogInv, SpillInv
<1>2. /\ hdr[c].mx \in 1..MaxFrame /\ aHdr[0].mx \in 0..MaxFrame
      /\ hdr[c].mx \in ValidFrames /\ hdr[c].mx > aHdr[0].mx
      /\ minFrame[c] \in Int
  BY <1>1, HdrFields, ValidPrefix DEF SpillOf, TypeConn
<1>3. \A f \in 1..hdr[c].mx : wal[f].salt = walSalt
  BY <1>2, ValidPrefix
<1>4. \A f \in 1..hdr[c].mx : f > aHdr[0].mx =>
        wal[f].tx = nTx /\ wal[f].pg \in spilled
  BY <1>1 DEF SpillOf
<1>. DEFINE S == FramesOf(p, minFrame[c], hdr[c].mx)
<1>5. S \in SUBSET (1..hdr[c].mx) /\ \A f \in S : wal[f].pg = p
  BY <1>2 DEF FramesOf
<1>6. CASE p \in spilled
  <2>1. PICK f \in 1..hdr[c].mx : f > aHdr[0].mx /\ wal[f].pg = p
    BY <1>1, <1>6 DEF SpillOf
  <2>2. f \in S
    <3>1. f \in minFrame[c]..hdr[c].mx /\ f # 0
      BY <1>2, <2>1
    <3>. QED
      BY <1>3, <2>1, <3>1 DEF FramesOf
  <2>3. Max(S) \in S /\ f <= Max(S)
    <3>1. IsFiniteSet(1..hdr[c].mx)
      BY <1>2, FS_Interval
    <3>. HIDE DEF S
    <3>2. IsFiniteSet(S)
      BY <1>5, <3>1, FS_Subset
    <3>3. S \subseteq Int
      BY <1>5
    <3>. QED
      BY <2>2, <3>2, <3>3, MaxIn
  <2>4. Max(S) \in 1..hdr[c].mx /\ Max(S) > aHdr[0].mx
    <3>. HIDE DEF S
    <3>1. Max(S) \in 1..hdr[c].mx
      BY <1>5, <2>3
    <3>. QED
      BY <1>2, <2>1, <2>3, <3>1
  <2>5. wal[Max(S)].tx = nTx
    BY <1>4, <2>4
  <2>. QED
    BY <1>6, <2>2, <2>5 DEF Lookup
<1>7. CASE p \notin spilled
  <2>1. S = FramesOf(p, minFrame[c], aHdr[0].mx)
    <3>1. ASSUME NEW f \in S PROVE f \in FramesOf(p, minFrame[c], aHdr[0].mx)
      <4>1. f \in 1..hdr[c].mx /\ ~(f > aHdr[0].mx)
        BY <1>4, <1>5, <1>7
      <4>2. /\ f \in (minFrame[c]..hdr[c].mx) \ {0} /\ wal[f].pg = p
            /\ wal[f].salt = walSalt
        BY DEF FramesOf
      <4>3. f \in minFrame[c]..aHdr[0].mx
        BY <1>2, <4>1, <4>2
      <4>. QED
        BY <4>2, <4>3 DEF FramesOf
    <3>2. ASSUME NEW f \in FramesOf(p, minFrame[c], aHdr[0].mx) PROVE f \in S
      <4>1. f \in minFrame[c]..hdr[c].mx
        BY <1>2 DEF FramesOf
      <4>. QED
        BY <4>1 DEF FramesOf
    <3>. QED
      BY <3>1, <3>2
  <2>2. Lookup(p, minFrame[c], hdr[c].mx) = Lookup(p, minFrame[c], aHdr[0].mx)
    BY <2>1 DEF Lookup
  <2>. QED
    BY <1>7, <2>2
<1>. QED
  BY <1>6, <1>7

\* What a transaction reads is its snapshot with its own changes.
LEMMA ReadSnapshot ==
  ASSUME Control, LogInv, NEW c \in Conn, pc[c] \in ReadPcs, NEW p \in Page
  PROVE  ReadPage(c, p) = IF writeLock = c /\ p \in spilled THEN nTx
                          ELSE image[hdr[c].tx][p]
<1>1. /\ HeaderOf(c) /\ ReaderOf(c) /\ PublishedInv /\ LogTypes /\ ChainInv
      /\ ImageInv /\ LockInvOf(c) /\ TypeBase /\ TypeConn(c) /\ SpillInv
  BY LocalLog DEF LogInv
<1>2. /\ Base(c) \in Hdr /\ Base(c).mx \in 0..MaxFrame
      /\ Base(c).tx \in 1..latest
      /\ pc[c] # "read" => Base(c) = aHdr[0] /\ writeLock = c
  BY BaseFields
<1>3. latest \in 1..MaxTx /\ Base(c).tx \in 1..MaxTx
  BY <1>1, <1>2, LatestType, Bounds
<1>4. readLock[c] >= 0 /\ readLock[c] \in Int
  BY <1>1 DEF LockInvOf, TypeConn
<1>5. writeLock = c /\ p \in spilled => pc[c] = "write" /\ readLock[c] > 0
  BY <1>1 DEF LockInvOf
<1>6. pc[c] = "read" => writeLock # c
  BY <1>1 DEF LockInvOf
<1>7. pc[c] = "read" => Base(c) = hdr[c]
  BY DEF Base
<1>8. CASE readLock[c] = 0
  <2>1. Base(c).tx = hdr[c].tx
    <3>1. pc[c] \notin PublishPcs
      BY <1>1, <1>8 DEF LockInvOf
    <3>2. pc[c] = "write" => hdr[c].tx = latest /\ aHdr[0].tx = latest
      BY <1>1 DEF HeaderOf, PublishedInv
    <3>. QED
      BY <1>2, <1>7, <3>1, <3>2
  <2>2. UB(Base(c).tx) /\ LB(Base(c).tx)
    BY <1>1, <1>8 DEF ReaderOf
  <2>3. db[p] <= image[hdr[c].tx][p] /\ db[p] >= image[hdr[c].tx][p]
    BY <2>1, <2>2 DEF LB, UB
  <2>4. image[hdr[c].tx] \in [Page -> 1..MaxTx]
    BY <1>1, <1>3, <2>1 DEF LogTypes
  <2>5. db[p] \in Int /\ image[hdr[c].tx][p] \in Int
    <3>1. db[p] \in 1..MaxTx /\ image[hdr[c].tx][p] \in 1..MaxTx
      BY <1>1, <2>4 DEF LogTypes
    <3>. QED
      BY <3>1
  <2>6. ReadPage(c, p) = db[p]
    BY <1>8 DEF ReadPage
  <2>. QED
    BY <1>5, <1>8, <2>3, <2>5, <2>6
<1>9. CASE readLock[c] # 0
  <2>1. /\ Whole(Base(c)) /\ UB(Base(c).tx) /\ Base(c).mx <= aHdr[0].mx
        /\ minFrame[c] \in 1..(Base(c).mx + 1)
        /\ Filled(minFrame[c] - 1, Base(c).mx)
    BY <1>1, <1>4, <1>9 DEF ReaderOf
  <2>2. ReadPage(c, p) = Lookup(p, minFrame[c], hdr[c].mx)
    BY <1>9 DEF ReadPage, Lookup
  <2>3. Lookup(p, minFrame[c], Base(c).mx) = image[Base(c).tx][p]
    <3>1. PICK h \in Hdr : h = Base(c)
      BY <1>2
    <3>2. /\ h.tx \in 1..MaxTx /\ Whole(h) /\ UB(h.tx)
          /\ minFrame[c] \in 1..(h.mx + 1) /\ Filled(minFrame[c] - 1, h.mx)
      BY <1>3, <2>1, <3>1
    <3>3. Lookup(p, minFrame[c], h.mx) = image[h.tx][p]
      BY <1>1, <3>2, LookupImage
    <3>. QED
      BY <3>1, <3>3
  <2>4. CASE pc[c] = "read"
    BY <1>6, <1>7, <2>2, <2>3, <2>4
  <2>5. CASE pc[c] = "write"
    <3>1. hdr[c].tx = latest /\ aHdr[0].tx = latest /\ Base(c) = aHdr[0]
          /\ writeLock = c
      BY <1>1, <1>2, <2>5 DEF HeaderOf, PublishedInv
    <3>2. CASE spilled = {}
      <4>1. hdr[c] = aHdr[0]
        BY <1>1, <2>5, <3>2 DEF HeaderOf
      <4>. QED
        BY <2>2, <2>3, <3>1, <3>2, <4>1
    <3>3. CASE spilled # {}
      BY <1>1, <1>2, <2>1, <2>2, <2>3, <3>1, <3>3, SpilledRead
    <3>. QED
      BY <3>2, <3>3
  <2>6. CASE pc[c] \in PublishPcs
    <3>1. /\ hdr[c].tx = nTx /\ nTx > latest /\ InLog(hdr[c])
          /\ hdr[c].mx > aHdr[0].mx
      BY <1>1, <2>6 DEF HeaderOf
    <3>2. p \notin spilled
      BY <1>2, <1>5, <2>6
    <3>3. /\ hdr[c] \in Hdr
          /\ hdr[c].mx \in 0..MaxFrame /\ aHdr[0].mx \in 0..MaxFrame
          /\ nTx \in 1..MaxTx
      BY <1>1, HdrFields, LatestType
    <3>4. Whole(hdr[c])
      <4>1. hdr[c].mx > 0
        BY <3>1, <3>3
      <4>. QED
        BY <3>1, <4>1 DEF Whole
    <3>5. UB(hdr[c].tx)
      <4>1. /\ hdr[c].mx \in ValidFrames /\ wal[hdr[c].mx].commit
            /\ wal[hdr[c].mx].tx = nTx
        BY <3>1 DEF InLog
      <4>2. nTx >= latest
        BY <1>3, <3>1, <3>3
      <4>3. UB(wal[hdr[c].mx].tx)
        BY <1>1, <4>1, <4>2, CommitAbove
      <4>. QED
        BY <3>1, <4>1, <4>3
    <3>6. minFrame[c] \in 1..(hdr[c].mx + 1)
      BY <1>2, <2>1, <3>1, <3>3
    <3>7. Filled(minFrame[c] - 1, hdr[c].mx)
      <4>1. PICK m \in Nat, n \in Nat, k \in Nat :
              m = minFrame[c] - 1 /\ n = Base(c).mx /\ k = hdr[c].mx
        BY <1>2, <2>1, <3>3
      <4>2. n <= k /\ Filled(m, n)
        BY <1>2, <2>1, <3>1, <3>3, <4>1
      <4>3. Filled(m, k)
        BY <4>2, FilledMore
      <4>. QED
        BY <4>1, <4>3
    <3>8. Lookup(p, minFrame[c], hdr[c].mx) = image[hdr[c].tx][p]
      <4>1. PICK h \in Hdr : h = hdr[c]
        BY <3>3
      <4>2. /\ h.tx \in 1..MaxTx /\ Whole(h) /\ UB(h.tx)
            /\ minFrame[c] \in 1..(h.mx + 1) /\ Filled(minFrame[c] - 1, h.mx)
        BY <3>1, <3>3, <3>4, <3>5, <3>6, <3>7, <4>1
      <4>3. Lookup(p, minFrame[c], h.mx) = image[h.tx][p]
        BY <1>1, <4>2, LookupImage
      <4>. QED
        BY <4>1, <4>3
    <3>. QED
      BY <2>2, <3>2, <3>8
  <2>. QED
    BY <2>4, <2>5, <2>6
<1>. QED
  BY <1>8, <1>9

-----------------------------------------------------------------------------
(* The properties of the runs *)

\* Every page a transaction reads, from the log or from the database file, is
\* that of the snapshot its header names, with its own changes on top
\* (walFindFrame, walTryBeginRead, walCheckpoint).
THEOREM SnapshotIsolation ==
  ASSUME Sound
  PROVE  Spec => []SnapshotRead
<1>1. Control /\ LogInv => SnapshotRead
  BY ReadSnapshot DEF SnapshotRead
<1>. QED
  BY <1>1, ControlInvariant, LogInvariant, PTL

\* Shared memory never claims more frames backfilled than the published header
\* has in the log, but while the log is restarted (walRestartHdr).
THEOREM BackfillStays ==
  ASSUME Sound
  PROVE  Spec => []BackfillWithinLog
<1>1. LogInv => BackfillWithinLog
  BY DEF LogInv, PublishedInv, BackfillWithinLog
<1>. QED
  BY <1>1, LogInvariant, PTL

\* What a recovery would find now has the last commit, or a newer one that is
\* whole in the log.
LEMMA RecoveryFinds == Control /\ LogInv => CommittedSurvives
<1>. SUFFICES ASSUME Control, LogInv PROVE CommittedSurvives
  OBVIOUS
<1>1. /\ TypeBase /\ LogTypes /\ ChainInv /\ ImageInv /\ RecoverableInv
  BY DEF Control, LogInv
<1>2. PICK h \in Hdr : h = RecoveredHdr
  BY <1>1, RecoveredFacts
<1>3. /\ h.tx >= 1 /\ h.tx <= nTx
      /\ \/ /\ h.mx = 0 /\ h.tx = latest
            /\ \A f \in ValidFrames : ~wal[f].commit
         \/ /\ h.mx > 0 /\ InLog(h)
            /\ \A f \in ValidFrames : wal[f].commit => f <= h.mx
  BY <1>1, <1>2, RecoveredFacts
<1>4. /\ h.mx \in 0..MaxFrame /\ h.tx \in 0..MaxTx
      /\ latest \in 1..MaxTx /\ nTx \in 1..MaxTx
  BY <1>1, LatestType DEF Hdr
<1>5. h.tx >= latest /\ Whole(h) /\ UB(h.tx)
  <2>1. CASE h.mx = 0 /\ h.tx = latest /\ \A f \in ValidFrames : ~wal[f].commit
    BY <1>1, <1>4, <2>1 DEF RecoverableInv, Whole, ImageInv
  <2>2. CASE /\ h.mx > 0 /\ InLog(h)
             /\ \A f \in ValidFrames : wal[f].commit => f <= h.mx
    <3>1. /\ h.mx \in ValidFrames /\ wal[h.mx].commit /\ wal[h.mx].tx = h.tx
      BY <2>2 DEF InLog
    <3>2. PICK f \in ValidFrames : wal[f].commit /\ wal[f].tx >= latest
      BY <1>1, <3>1 DEF RecoverableInv
    <3>3. f \in 1..MaxFrame /\ f <= h.mx
      BY <2>2, <3>2, ValidPrefix
    <3>4. f < h.mx => wal[f].tx < wal[h.mx].tx
      BY <1>1, <3>1, <3>2 DEF ChainInv
    <3>5. wal[f].tx \in Int
      BY <1>1, <3>3, FrameFields
    <3>6. h.tx >= latest
      BY <1>4, <3>1, <3>2, <3>3, <3>4, <3>5
    <3>7. UB(wal[h.mx].tx)
      BY <1>1, <3>1, <3>6, CommitAbove
    <3>. QED
      BY <2>2, <3>1, <3>6, <3>7 DEF Whole
  <2>. QED
    BY <1>3, <2>1, <2>2
<1>6. ASSUME NEW p \in Page PROVE Lookup(p, 1, h.mx) = image[h.tx][p]
  <2>1. 1 \in 1..(h.mx + 1) /\ h.tx \in 1..MaxTx
    BY <1>3, <1>4
  <2>2. Filled(1 - 1, h.mx)
    BY DEF Filled
  <2>. QED
    BY <1>1, <1>5, <2>1, <2>2, LookupImage
<1>7. \A p \in Page : Lookup(p, 1, h.mx) =
        LET fs == FramesOf(p, 1, h.mx)
        IN IF fs = {} THEN db[p] ELSE wal[Max(fs)].tx
  BY DEF Lookup
<1>. QED
  BY <1>2, <1>5, <1>6, <1>7 DEF CommittedSurvives

\* At every moment a recovery of the wal-index from the files (walIndexRecover)
\* would find the last commit, and an image that is whole.
THEOREM CommitsSurvive ==
  ASSUME Sound
  PROVE  Spec => []CommittedSurvives
BY RecoveryFinds, ControlInvariant, LogInvariant, PTL

\* Every variable stays in its range.
THEOREM TypeCorrect ==
  ASSUME Sound
  PROVE  Spec => []TypeOK
<1>1. ASSUME Control, LogInv PROVE TypeOK
  <2>1. TypeBase /\ TypeShared /\ LogTypes
    BY <1>1 DEF Control, TypeBase, LogInv
  <2>2. latest \in 1..MaxTx
    BY <2>1, LatestType
  <2>. QED
    BY <2>1, <2>2
       DEF TypeOK, TypeBase, TypeShared, LogTypes, FrameType, PickType, CkptType
<1>. QED
  BY <1>1, ControlInvariant, LogInvariant, PTL

-----------------------------------------------------------------------------
(* Without deaths, the wal-index is recovered only when it is new *)

HalfPcs == {"publish0", "restart0", "recover0"}

\* The two copies of the header differ only while one is being written, and a
\* wal-index without a header means an empty log.
IndexInv ==
  /\ \/ HeaderGood \/ (aHdr[0] = ZeroHdr /\ aHdr[1] = ZeroHdr)
     \/ \E c \in Conn : pc[c] \in HalfPcs
  /\ aHdr[0] = ZeroHdr => walSalt = 0
  /\ \A c \in Conn : /\ pc[c] \in HalfPcs => aHdr[1] = hdr[c]
                     /\ pc[c] = "recover0" => hdr[c].tx = latest

\* The wal-index is new at first.
LEMMA InitIndex == Init => IndexInv
BY DEF Init, IndexInv, HalfPcs

\* A step that writes no copy of the header.
LEMMA IndexQuiet ==
  ASSUME Control, IndexInv, NEW c \in Conn, OnlyAt(c), UNCHANGED aHdr,
         latest' = latest \/ writeLock = c,
         walSalt' = walSalt \/ walSalt' = 0 \/ aHdr[0] # ZeroHdr,
         pc[c] \notin HalfPcs, pc'[c] \notin HalfPcs
  PROVE  IndexInv'
<1>1. \A d \in Conn : /\ pc'[d] \in HalfPcs <=> pc[d] \in HalfPcs
                      /\ pc'[d] \in HalfPcs => d # c /\ pc'[d] = pc[d]
                                               /\ hdr'[d] = hdr[d]
  BY OthersSame DEF Control
<1>2. \A d \in Conn : pc[d] \in HalfPcs => writeLock = d
  BY Local DEF LockInvOf, HalfPcs
<1>. QED
  BY <1>1, <1>2 DEF IndexInv, HeaderGood, HalfPcs

\* A step that writes the second copy of the header.
LEMMA IndexOpened ==
  ASSUME Control, Control', IndexInv, NEW c \in Conn, OnlyAt(c),
         writeLock' = c, aHdr'[0] = aHdr[0], aHdr'[1] = hdr'[c],
         UNCHANGED <<walSalt, latest>>, pc'[c] \in HalfPcs,
         pc'[c] = "recover0" => hdr'[c].tx = latest
  PROVE  IndexInv'
<1>1. \A d \in Conn : pc'[d] \in HalfPcs => d = c
  BY Local DEF LockInvOf, HalfPcs, Control, LockInv
<1>2. \A d \in Conn : /\ pc'[d] \in HalfPcs => aHdr'[1] = hdr'[d]
                      /\ pc'[d] = "recover0" => hdr'[d].tx = latest'
  BY <1>1 DEF HalfPcs
<1>3. aHdr'[0] = ZeroHdr => walSalt' = 0
  BY DEF IndexInv
<1>4. \E d \in Conn : pc'[d] \in HalfPcs
  OBVIOUS
<1>. QED
  BY <1>2, <1>3, <1>4 DEF IndexInv

\* A step that writes the first copy as well.
LEMMA IndexClosed ==
  ASSUME Control, LogInv, IndexInv, NEW c \in Conn, OnlyAt(c),
         pc[c] \in HalfPcs, pc'[c] \notin HalfPcs,
         aHdr' = [aHdr EXCEPT ![0] = hdr[c]], UNCHANGED walSalt
  PROVE  IndexInv'
<1>1. TypeBase /\ HeaderOf(c) /\ writeLock = c
  BY LocalLog DEF LockInvOf, HalfPcs
<1>2. \A d \in Conn : pc[d] \in HalfPcs => d = c
  BY <1>1, Local DEF LockInvOf, HalfPcs
<1>3. \A d \in Conn : pc'[d] \notin HalfPcs
  BY <1>1, <1>2, OthersSame
<1>4. aHdr'[0] = hdr[c] /\ aHdr'[1] = hdr[c]
  BY <1>1 DEF TypeBase, TypeShared, IndexInv
<1>5. hdr[c] # ZeroHdr
  <2>1. hdr[c].tx >= 1
    BY <1>1 DEF HeaderOf, HalfPcs
  <2>. QED
    BY <2>1 DEF ZeroHdr
<1>. QED
  BY <1>3, <1>4, <1>5 DEF IndexInv, HeaderGood, HalfPcs

\* The header of a log that nobody has written to.
LEMMA RecoversNothing ==
  ASSUME Control, LogInv, IndexInv, NEW c \in Conn, pc[c] \in {"idle", "ckHdr"},
         ~HeaderGood, MayRecover(c)
  PROVE  RecoveredHdr.tx = latest
<1>1. \A d \in Conn : pc[d] \notin HalfPcs
  BY Local, ConnFacts DEF LockInvOf, HalfPcs, MayRecover, MayWrite
<1>2. walSalt = 0
  BY <1>1 DEF IndexInv
<1>3. ValidFrames = {}
  BY <1>2, ValidPrefix
<1>4. {f \in ValidFrames : wal[f].commit} = {}
  BY <1>3
<1>. QED
  BY <1>4 DEF RecoveredHdr

\* Frames are written to the log for a spilled page, or for a commit.
LEMMA FramesPick ==
  ASSUME NEW c \in Conn, SpillPage(c) \/ CommitFrames(c)
  PROVE  \E W \in SUBSET Page, isCommit \in BOOLEAN, salt \in 1..MaxSalt :
           W # {} /\ WalFrames(c, W, isCommit, salt)
<1>1. CASE SpillPage(c)
  <2>1. PICK p \in Page, salt \in 1..MaxSalt : WalFrames(c, {p}, FALSE, salt)
    BY <1>1 DEF SpillPage
  <2>2. {p} \in SUBSET Page /\ {p} # {} /\ FALSE \in BOOLEAN
    OBVIOUS
  <2>. QED
    BY <2>1, <2>2
<1>2. CASE CommitFrames(c)
  <2>1. PICK W \in (SUBSET Page) \ {{}}, salt \in 1..MaxSalt :
           WalFrames(c, W, TRUE, salt)
    BY <1>2 DEF CommitFrames
  <2>2. W \in SUBSET Page /\ W # {} /\ TRUE \in BOOLEAN
    OBVIOUS
  <2>. QED
    BY <2>1, <2>2
<1>. QED
  BY <1>1, <1>2

\* What the writer's appending changes, in terms of the log invariant.
LEMMA FramesFacts ==
  ASSUME Control, LogInv, NEW c \in Conn, SpillPage(c) \/ CommitFrames(c)
  PROVE  /\ OnlyAt(c) /\ OnlyLocksOf(c) /\ pc[c] = "write" /\ writeLock = c
         /\ aHdr[0] # ZeroHdr /\ hdr[c].tx = latest /\ latest < nTx'
         /\ UNCHANGED <<aHdr, writeLock, ckptLock, latest>>
         /\ pc'[c] \in {"write", "publish1"}
         /\ \A t \in 1..latest : image'[t] = image[t]
         /\ \A p \in Page :
              \/ p \in spilled' /\ pc'[c] = "write"
              \/ p \notin spilled' /\ image'[hdr'[c].tx][p] = nTx'
              \/ p \notin spilled' /\ image'[hdr'[c].tx][p] = image[latest][p]
<1>1. PICK W \in SUBSET Page, isCommit \in BOOLEAN, salt \in 1..MaxSalt :
         W # {} /\ WalFrames(c, W, isCommit, salt)
  BY FramesPick
<1>2. OnlyLocksOf(c) /\ Control'
  BY <1>1, WalFramesControl
<1>3. PICK last, tx : Appends(c, W, isCommit, salt, last, tx)
  <2>1. LockInvOf(c) /\ TypeBase
    BY Local
  <2>2. spilled # {} \/ nTx < MaxTx
    BY <1>1, <2>1 DEF LockInvOf, WalFrames
  <2>. QED
    BY <1>1, <2>1, <2>2, WalFramesEffect DEF Appends
<1>4. /\ aHdr[0] # ZeroHdr /\ writeLock = c /\ hdr[c].tx = latest
      /\ latest < tx /\ nTx' = tx
  BY <1>3, AppendFacts
<1>5. \A t \in 1..latest : image'[t] = image[t]
  <2>1. Advance
    BY <1>2, <1>3, AppendLog DEF Control
  <2>. QED
    BY <2>1 DEF Advance
<1>6. /\ OnlyAt(c) /\ pc[c] = "write" /\ tx \in 1..MaxTx
      /\ UNCHANGED <<aHdr, writeLock, ckptLock, latest>>
  BY <1>3 DEF Appends
<1>7. TypeBase /\ LogTypes /\ latest \in 1..MaxTx
  BY LatestType DEF Control, LogInv
<1>8. CASE isCommit
  <2>1. /\ hdr'[c] = [mx |-> last, salt |-> salt, tx |-> tx]
        /\ image' = [image EXCEPT ![tx] =
                       [p \in Page |-> IF p \in W \cup spilled THEN tx
                                       ELSE image[hdr[c].tx][p]]]
        /\ spilled' = {} /\ pc'[c] = "publish1"
    BY <1>3, <1>8 DEF Appends, FramesDone
  <2>2. hdr'[c].tx = tx
    BY <2>1
  <2>3. \A p \in Page : image'[tx][p] = IF p \in W \cup spilled THEN tx
                                        ELSE image[hdr[c].tx][p]
    BY <1>6, <1>7, <2>1 DEF LogTypes
  <2>. QED
    BY <1>2, <1>4, <1>5, <1>6, <2>1, <2>2, <2>3
<1>9. CASE ~isCommit
  <2>1. /\ hdr'[c].tx = hdr[c].tx /\ image' = image /\ pc'[c] = "write"
    BY <1>3, <1>9 DEF Appends, FramesDone
  <2>. QED
    BY <1>2, <1>4, <1>5, <1>6, <2>1
<1>. QED
  BY <1>8, <1>9

\* The steps of a reader keep the two copies of the header.
LEMMA ReaderIndex ==
  ASSUME Control, LogInv, IndexInv, NEW c \in Conn, Reader(c)
  PROVE  IndexInv'
<1>1. CASE BeginRead(c)
  <2>1. OnlyAt(c) /\ BeginReadDone(c) /\ Control'
    BY <1>1, BeginReadControl
  <2>. QED
    BY <2>1, IndexQuiet DEF BeginReadDone, HalfPcs
<1>2. CASE ChooseLog(c)
  <2>1. OnlyAt(c) /\ ChooseLogDone(c) /\ Control'
    BY <1>2, ChooseLogControl
  <2>. QED
    BY <2>1, IndexQuiet DEF ChooseLogDone, HalfPcs
<1>3. CASE LockRead0(c)
  <2>1. OnlyAt(c) /\ LockRead0Done(c) /\ Control'
    BY <1>3, LockRead0Control
  <2>. QED
    BY <2>1, IndexQuiet DEF LockRead0Done, HalfPcs
<1>4. CASE PickMark(c)
  <2>1. OnlyAt(c) /\ PickMarkDone(c) /\ Control'
    BY <1>4, PickMarkControl
  <2>. QED
    BY <2>1, IndexQuiet DEF PickMarkDone, HalfPcs
<1>5. CASE LockMark(c)
  <2>1. OnlyAt(c) /\ LockMarkDone(c) /\ Control'
    BY <1>5, LockMarkControl
  <2>. QED
    BY <2>1, IndexQuiet DEF LockMarkDone, HalfPcs
<1>6. CASE LoadBackfill(c)
  <2>1. OnlyAt(c) /\ LoadBackfillDone(c) /\ Control'
    BY <1>6, LoadBackfillControl
  <2>. QED
    BY <2>1, IndexQuiet DEF LoadBackfillDone, HalfPcs
<1>7. CASE CheckMark(c)
  <2>1. OnlyAt(c) /\ CheckMarkDone(c) /\ Control'
    BY <1>7, CheckMarkControl
  <2>. QED
    BY <2>1, IndexQuiet DEF CheckMarkDone, HalfPcs
<1>8. CASE EndRead(c)
  <2>1. OnlyAt(c) /\ EndReadDone(c) /\ Control'
    BY <1>8, EndReadControl
  <2>. QED
    BY <2>1, IndexQuiet DEF EndReadDone, HalfPcs
<1>. QED
  BY <1>1, <1>2, <1>3, <1>4, <1>5, <1>6, <1>7, <1>8 DEF Reader

\* The steps of a recovery keep the two copies of the header.
LEMMA RecoveryIndex ==
  ASSUME Control, LogInv, IndexInv, NEW c \in Conn, Recovery(c)
  PROVE  IndexInv'
<1>1. CASE RecoverScan(c)
  <2>1. OnlyAt(c) /\ RecoverScanDone(c) /\ Control'
    BY <1>1, RecoverScanControl
  <2>2. LockInvOf(c)' /\ TypeShared
    BY <2>1, Local DEF Control, LockInv
  <2>3. RecoveredHdr.tx = latest
    BY <2>1, RecoversNothing DEF RecoverScanDone
  <2>. QED
    BY <2>1, <2>2, <2>3, IndexOpened DEF RecoverScanDone, HalfPcs, LockInvOf,
       TypeShared
<1>2. CASE RecoverHdr0(c)
  <2>1. OnlyAt(c) /\ RecoverHdr0Done(c) /\ Control'
    BY <1>2, RecoverHdr0Control
  <2>. QED
    BY <2>1, IndexClosed DEF RecoverHdr0Done, HalfPcs
<1>3. CASE RecoverInfo(c)
  <2>1. OnlyAt(c) /\ RecoverInfoDone(c) /\ Control'
    BY <1>3, RecoverInfoControl
  <2>. QED
    BY <2>1, IndexQuiet DEF RecoverInfoDone, HalfPcs
<1>. QED
  BY <1>1, <1>2, <1>3 DEF Recovery

\* The steps of a writer keep the two copies of the header.
LEMMA WriterIndex ==
  ASSUME Control, LogInv, IndexInv, NEW c \in Conn, Writer(c)
  PROVE  IndexInv'
<1>1. CASE BeginWrite(c)
  <2>1. OnlyAt(c) /\ BeginWriteDone(c) /\ Control'
    BY <1>1, BeginWriteControl
  <2>. QED
    BY <2>1, IndexQuiet DEF BeginWriteDone, HalfPcs
<1>2. CASE RestartLog(c)
  <2>1. OnlyAt(c) /\ RestartLogDone(c) /\ Control'
    BY <1>2, RestartLogControl
  <2>2. LockInvOf(c)' /\ TypeShared
    BY <2>1, Local DEF Control, LockInv
  <2>. QED
    BY <2>1, <2>2, IndexOpened DEF RestartLogDone, HalfPcs, LockInvOf,
       TypeShared
<1>3. CASE KeepLog(c)
  <2>1. OnlyAt(c) /\ KeepLogDone(c) /\ Control'
    BY <1>3, KeepLogControl
  <2>. QED
    BY <2>1, IndexQuiet DEF KeepLogDone, HalfPcs
<1>4. CASE RestartHdr0(c)
  <2>1. OnlyAt(c) /\ RestartHdr0Done(c) /\ Control'
    BY <1>4, RestartHdr0Control
  <2>. QED
    BY <2>1, IndexClosed DEF RestartHdr0Done, HalfPcs
<1>5. CASE RestartBackfill(c)
  <2>1. OnlyAt(c) /\ RestartBackfillDone(c) /\ Control'
    BY <1>5, RestartBackfillControl
  <2>. QED
    BY <2>1, IndexQuiet DEF RestartBackfillDone, HalfPcs
<1>6. CASE RestartMarks(c)
  <2>1. OnlyAt(c) /\ RestartMarksDone(c) /\ Control'
    BY <1>6, RestartMarksControl
  <2>. QED
    BY <2>1, IndexQuiet DEF RestartMarksDone, HalfPcs
<1>7. CASE SpillPage(c) \/ CommitFrames(c)
  <2>1. /\ OnlyAt(c) /\ pc[c] = "write" /\ aHdr[0] # ZeroHdr
        /\ UNCHANGED <<aHdr, latest>> /\ pc'[c] \in {"write", "publish1"}
    BY <1>7, FramesFacts
  <2>. QED
    BY <2>1, IndexQuiet DEF HalfPcs
<1>8. CASE Publish1(c)
  <2>1. OnlyAt(c) /\ Publish1Done(c) /\ Control'
    BY <1>8, Publish1Control
  <2>2. LockInvOf(c)' /\ TypeShared
    BY <2>1, Local DEF Control, LockInv
  <2>. QED
    BY <2>1, <2>2, IndexOpened DEF Publish1Done, HalfPcs, LockInvOf,
       TypeShared
<1>9. CASE Publish0(c)
  <2>1. OnlyAt(c) /\ Publish0Done(c) /\ Control'
    BY <1>9, Publish0Control
  <2>. QED
    BY <2>1, IndexClosed DEF Publish0Done, HalfPcs
<1>10. CASE Rollback(c)
  <2>1. OnlyAt(c) /\ RollbackDone(c) /\ Control'
    BY <1>10, RollbackControl
  <2>. QED
    BY <2>1, IndexQuiet DEF RollbackDone, HalfPcs
<1>. QED
  BY <1>1, <1>2, <1>3, <1>4, <1>5, <1>6, <1>7, <1>8, <1>9, <1>10 DEF Writer

\* The steps of a checkpoint keep the two copies of the header.
LEMMA CheckpointerIndex ==
  ASSUME Control, LogInv, IndexInv, NEW c \in Conn, Checkpointer(c)
  PROVE  IndexInv'
<1>1. ASSUME NEW m \in Modes, CkptBegin(c, m) PROVE IndexInv'
  <2>1. OnlyAt(c) /\ CkptBeginDone(c, m) /\ Control'
    BY <1>1, CkptBeginControl
  <2>. QED
    BY <2>1, IndexQuiet DEF CkptBeginDone, HalfPcs
<1>2. CASE CkptReadHdr(c)
  <2>1. OnlyAt(c) /\ CkptReadHdrDone(c) /\ Control'
    BY <1>2, CkptReadHdrControl
  <2>. QED
    BY <2>1, IndexQuiet DEF CkptReadHdrDone, HalfPcs
<1>3. CASE CkptTest(c)
  <2>1. OnlyAt(c) /\ CkptTestDone(c) /\ Control'
    BY <1>3, CkptTestControl
  <2>. QED
    BY <2>1, IndexQuiet DEF CkptTestDone, HalfPcs
<1>4. CASE CkptScan(c)
  <2>1. OnlyAt(c) /\ CkptScanDone(c) /\ Control'
    BY <1>4, CkptScanControl
  <2>. QED
    BY <2>1, IndexQuiet DEF CkptScanDone, HalfPcs
<1>5. CASE CkptStart(c)
  <2>1. OnlyAt(c) /\ CkptStartDone(c) /\ Control'
    BY <1>5, CkptStartControl
  <2>. QED
    BY <2>1, IndexQuiet DEF CkptStartDone, HalfPcs
<1>6. CASE CkptCopy(c)
  <2>1. OnlyAt(c) /\ CkptCopyDone(c) /\ Control'
    BY <1>6, CkptCopyControl
  <2>. QED
    BY <2>1, IndexQuiet DEF CkptCopyDone, HalfPcs
<1>7. CASE CkptFinish(c)
  <2>1. OnlyAt(c) /\ CkptFinishDone(c) /\ Control'
    BY <1>7, CkptFinishControl
  <2>. QED
    BY <2>1, IndexQuiet DEF CkptFinishDone, HalfPcs
<1>8. CASE CkptInterrupt(c)
  <2>1. OnlyAt(c) /\ CkptInterruptDone(c) /\ Control'
    BY <1>8, CkptInterruptControl
  <2>. QED
    BY <2>1, IndexQuiet DEF CkptInterruptDone, HalfPcs
<1>9. CASE CkptRestart(c)
  <2>1. OnlyAt(c) /\ CkptRestartDone(c) /\ Control'
    BY <1>9, CkptRestartControl
  <2>2. LockInvOf(c)' /\ TypeShared
    BY <2>1, Local DEF Control, LockInv
  <2>. QED
    BY <2>1, <2>2, IndexOpened DEF CkptRestartDone, HalfPcs, LockInvOf,
       TypeShared
<1>10. CASE CkptTruncate(c)
  <2>1. OnlyAt(c) /\ CkptTruncateDone(c) /\ Control'
    BY <1>10, CkptTruncateControl
  <2>. QED
    BY <2>1, IndexQuiet DEF CkptTruncateDone, HalfPcs
<1>11. CASE CkptReturn(c)
  <2>1. OnlyAt(c) /\ CkptReturnDone(c) /\ Control'
    BY <1>11, CkptReturnControl
  <2>. QED
    BY <2>1, IndexQuiet DEF CkptReturnDone, HalfPcs
<1>. QED
  BY <1>1, <1>2, <1>3, <1>4, <1>5, <1>6, <1>7, <1>8, <1>9, <1>10, <1>11
     DEF Checkpointer

\* Without deaths, the copies of the header differ only while one of them is
\* being written.
LEMMA NextIndex ==
  ASSUME DeathPcs = {}, Control, LogInv, IndexInv, [Next]_vars
  PROVE  IndexInv'
<1>1. CASE UNCHANGED vars
  BY <1>1 DEF vars, IndexInv, HeaderGood
<1>2. ~ShmLost /\ \A c \in Conn : ~Die(c)
  BY DEF ShmLost, Die
<1>. QED
  BY <1>1, <1>2, ReaderIndex, RecoveryIndex, WriterIndex, CheckpointerIndex
     DEF Next

-----------------------------------------------------------------------------
(* Refinement of SnapshotStore *)

AbsDb == image[latest]
AbsView == [c \in Conn |->
              IF ~InTransaction(c) THEN [p \in Page |-> 0]
              ELSE IF pc[c] \in ReadPcs
                   THEN [p \in Page |-> ReadPage(c, p)]
              ELSE image[hdr[c].tx]]
AbsWriter == IF writeLock # NoConn /\ InTransaction(writeLock)
             THEN writeLock ELSE NoConn

\* The image a connection sees, in terms of the commits instead of the log.
View(c) ==
  IF InTransaction(c)
  THEN [p \in Page |-> IF writeLock = c /\ p \in spilled THEN nTx
                       ELSE image[hdr[c].tx][p]]
  ELSE [p \in Page |-> 0]
Writes(c) == writeLock = c /\ InTransaction(c)

ViewsAgree == AbsView = [c \in Conn |-> View(c)]

\* What a connection reads is its snapshot, with its own changes on top.
LEMMA Views == Control /\ LogInv => ViewsAgree
<1>. SUFFICES ASSUME Control, LogInv, NEW c \in Conn
              PROVE  AbsView[c] = View(c)
  BY DEF AbsView, ViewsAgree
<1>2. CASE ~InTransaction(c)
  BY <1>2 DEF AbsView, View
<1>3. CASE InTransaction(c) /\ pc[c] \in ReadPcs
  <2>1. AbsView[c] = [p \in Page |-> ReadPage(c, p)]
    BY <1>3 DEF AbsView
  <2>2. \A p \in Page :
          ReadPage(c, p) = IF writeLock = c /\ p \in spilled THEN nTx
                           ELSE image[hdr[c].tx][p]
    BY <1>3, ReadSnapshot
  <2>. QED
    BY <1>3, <2>1, <2>2 DEF View
<1>4. CASE InTransaction(c) /\ pc[c] \notin ReadPcs
  <2>1. LockInvOf(c) /\ HeaderOf(c) /\ LogTypes /\ TypeBase
    BY LocalLog
  <2>2. writeLock = c /\ spilled = {} /\ pc[c] \in RestartPcs \cup TransitPcs
    BY <1>4, <2>1 DEF InTransaction, LockInvOf
  <2>3. hdr[c].tx \in 1..MaxTx
    <3>1. hdr[c].tx >= 1 /\ hdr[c].tx <= latest
      BY <2>1, <2>2 DEF HeaderOf
    <3>. QED
      BY <2>1, <3>1, HdrFields, LatestType
  <2>4. image[hdr[c].tx] \in [Page -> 1..MaxTx]
    BY <2>1, <2>3 DEF LogTypes
  <2>5. AbsView[c] = image[hdr[c].tx]
    BY <1>4 DEF AbsView
  <2>. QED
    BY <1>4, <2>2, <2>4, <2>5 DEF View
<1>. QED
  BY <1>2, <1>3, <1>4

\* A step of c leaves what the others see.
LEMMA OthersView ==
  ASSUME Control, LogInv, NEW c \in Conn, OnlyAt(c), OnlyLocksOf(c),
         \/ image' = image
         \/ writeLock = c /\ \A t \in 1..latest : image'[t] = image[t],
         NEW d \in Conn, d # c
  PROVE  View(d)' = View(d) /\ (Writes(d)' <=> Writes(d))
<1>1. LockInvOf(d) /\ HeaderOf(d) /\ TypeBase /\ LogTypes
  BY LocalLog
<1>2. /\ pc'[d] = pc[d] /\ hdr'[d] = hdr[d]
      /\ writeLock' = d <=> writeLock = d
      /\ ckptLock' = d <=> ckptLock = d
      /\ writeLock = d => spilled' = spilled /\ nTx' = nTx
  BY <1>1, ConnFacts, OthersSame DEF OnlyLocksOf
<1>3. InTransaction(d)' <=> InTransaction(d)
  BY <1>2 DEF InTransaction
<1>4. InTransaction(d) => image'[hdr[d].tx] = image[hdr[d].tx]
  <2>1. CASE image' = image
    BY <2>1
  <2>2. CASE writeLock = c /\ \A t \in 1..latest : image'[t] = image[t]
    <3>1. InTransaction(d) => pc[d] = "read"
      BY <1>1, <2>2 DEF InTransaction, LockInvOf
    <3>2. pc[d] = "read" => hdr[d].tx \in 1..latest
      BY <1>1, HdrFields, LatestType DEF HeaderOf
    <3>. QED
      BY <2>2, <3>1, <3>2
  <2>. QED
    BY <2>1, <2>2
<1>. QED
  BY <1>2, <1>3, <1>4 DEF View, Writes

\* A step of c, in the variables of SnapshotStore: only the view of c changes,
\* and the writer changes only if c begins or ends to write.
LEMMA ViewStep ==
  ASSUME Control, LogInv, Control', LogInv', NEW c \in Conn, OnlyAt(c),
         OnlyLocksOf(c),
         \/ image' = image
         \/ writeLock = c /\ \A t \in 1..latest : image'[t] = image[t]
  PROVE  /\ AbsView[c] = View(c) /\ AbsView'[c] = View(c)'
         /\ AbsView' = [AbsView EXCEPT ![c] = View(c)']
         /\ (Writes(c)' <=> Writes(c)) => AbsWriter' = AbsWriter
         /\ Writes(c) => AbsWriter = c
         /\ Writes(c)' => AbsWriter' = c
         /\ Writes(c) /\ ~Writes(c)' => AbsWriter' = NoConn
         /\ writeLock = NoConn => AbsWriter = NoConn
<1>1. \A d \in Conn : AbsView[d] = View(d) /\ AbsView'[d] = View(d)'
  <2>1. ViewsAgree
    BY Views
  <2>2. ViewsAgree'
    BY Views, PTL
  <2>. QED
    BY <2>1, <2>2 DEF ViewsAgree
<1>2. AbsView' = [AbsView EXCEPT ![c] = View(c)']
  <2>1. \A d \in Conn : AbsView'[d] = IF d = c THEN View(c)' ELSE AbsView[d]
    BY <1>1, OthersView
  <2>2. /\ AbsView = [d \in Conn |-> AbsView[d]]
        /\ AbsView' = [d \in Conn |-> AbsView'[d]]
    BY DEF AbsView
  <2>. QED
    BY <2>1, <2>2
<1>3. AbsWriter = IF \E d \in Conn : Writes(d) THEN writeLock ELSE NoConn
  <2>1. writeLock \in Conn \cup {NoConn}
    BY DEF Control, TypeBase, TypeShared
  <2>. QED
    BY <2>1, ConnFacts DEF AbsWriter, Writes
<1>4. AbsWriter' = IF \E d \in Conn : Writes(d)' THEN writeLock' ELSE NoConn
  <2>1. writeLock' \in Conn \cup {NoConn}
    BY DEF Control, TypeBase, TypeShared
  <2>. QED
    BY <2>1, ConnFacts DEF AbsWriter, Writes
<1>5. \A d \in Conn \ {c} : Writes(d)' <=> Writes(d)
  BY OthersView
<1>6. /\ \A d \in Conn : /\ Writes(d) => writeLock = d
                         /\ Writes(d)' => writeLock' = d
      /\ NoConn \notin Conn
  BY ConnFacts DEF Writes
<1>. QED
  BY <1>1, <1>2, <1>3, <1>4, <1>5, <1>6

\* A step that no transaction can see.
Unseen(c) ==
  /\ UNCHANGED <<image, latest, nTx, spilled>>
  /\ InTransaction(c)' <=> InTransaction(c)
  /\ InTransaction(c) => /\ hdr'[c].tx = hdr[c].tx
                         /\ writeLock' = c <=> writeLock = c

\* A step that no transaction can see is a stutter of SnapshotStore.
LEMMA UnseenStep ==
  ASSUME Control, LogInv, Control', LogInv', NEW c \in Conn, OnlyAt(c),
         OnlyLocksOf(c), Unseen(c)
  PROVE  UNCHANGED <<AbsDb, AbsView, AbsWriter>>
<1>1. View(c)' = View(c) /\ (Writes(c)' <=> Writes(c))
  BY DEF Unseen, View, Writes
<1>2. /\ AbsView[c] = View(c) /\ AbsView' = [AbsView EXCEPT ![c] = View(c)']
      /\ AbsWriter' = AbsWriter
  BY <1>1, ViewStep DEF Unseen
<1>3. AbsView = [d \in Conn |-> AbsView[d]]
  BY DEF AbsView
<1>4. AbsView' = AbsView
  BY <1>1, <1>2, <1>3
<1>5. AbsDb' = AbsDb
  BY DEF Unseen, AbsDb
<1>. QED
  BY <1>2, <1>4, <1>5

AbsStep == SS!SSNext \/ UNCHANGED <<AbsDb, AbsView, AbsWriter>>

\* A transaction that opens has the committed image: SnapshotStore begins.
LEMMA BeginStep ==
  ASSUME Control, LogInv, Control', LogInv', NEW c \in Conn, OnlyAt(c),
         OnlyLocksOf(c), UNCHANGED <<image, latest, writeLock>>, writeLock # c,
         View(c) = [p \in Page |-> 0], View(c)' = AbsDb
  PROVE  AbsStep
<1>1. /\ AbsView[c] = View(c) /\ AbsView' = [AbsView EXCEPT ![c] = AbsDb]
      /\ AbsWriter' = AbsWriter
  BY ViewStep DEF Writes
<1>2. AbsDb' = AbsDb
  BY DEF AbsDb
<1>3. SS!Begin(c)
  BY <1>1, <1>2 DEF SS!Begin, SS!NoView, AbsView, AbsDb, AbsWriter
<1>. QED
  BY <1>3 DEF AbsStep, SS!SSNext

\* A transaction that closes has no view: SnapshotStore ends it.
LEMMA EndStep ==
  ASSUME Control, LogInv, Control', LogInv', NEW c \in Conn, OnlyAt(c),
         OnlyLocksOf(c), UNCHANGED <<image, latest, writeLock>>, writeLock # c,
         View(c) # [p \in Page |-> 0], View(c)' = [p \in Page |-> 0]
  PROVE  AbsStep
<1>1. /\ AbsView[c] = View(c)
      /\ AbsView' = [AbsView EXCEPT ![c] = [p \in Page |-> 0]]
      /\ AbsWriter' = AbsWriter
  BY ViewStep DEF Writes
<1>2. AbsDb' = AbsDb /\ AbsWriter # c
  BY ConnFacts DEF AbsDb, AbsWriter
<1>3. SS!End(c)
  BY <1>1, <1>2 DEF SS!End, SS!NoView, AbsView, AbsDb, AbsWriter
<1>. QED
  BY <1>3 DEF AbsStep, SS!SSNext

\* A reader of the committed image that takes the WRITE lock: SnapshotStore
\* upgrades it.
LEMMA UpgradeStep ==
  ASSUME Control, LogInv, Control', LogInv', NEW c \in Conn, OnlyAt(c),
         OnlyLocksOf(c), UNCHANGED <<image, latest>>, writeLock = NoConn,
         View(c) = AbsDb, View(c)' = AbsDb, Writes(c)'
  PROVE  AbsStep
<1>1. /\ AbsView[c] = View(c) /\ AbsView' = [AbsView EXCEPT ![c] = View(c)]
      /\ AbsWriter = NoConn /\ AbsWriter' = c
  BY ViewStep
<1>2. AbsDb' = AbsDb
  BY DEF AbsDb
<1>3. AbsView' = AbsView
  <2>1. AbsView = [d \in Conn |-> AbsView[d]]
    BY DEF AbsView
  <2>. QED
    BY <1>1, <2>1
<1>4. SS!Upgrade(c)
  BY <1>1, <1>2, <1>3 DEF SS!Upgrade, AbsView, AbsDb, AbsWriter
<1>. QED
  BY <1>4 DEF AbsStep, SS!SSNext

\* Pages changed in a write transaction: SnapshotStore modifies its view.
LEMMA ModifyStep ==
  ASSUME Control, LogInv, Control', LogInv', NEW c \in Conn, OnlyAt(c),
         OnlyLocksOf(c), UNCHANGED latest, writeLock = c,
         \A t \in 1..latest : image'[t] = image[t], Writes(c), Writes(c)',
         \A p \in Page : \/ View(c)'[p] = AbsDb[p]
                         \/ \A q \in Page : View(c)'[p] > AbsDb[q]
  PROVE  AbsStep
<1>1. /\ AbsView' = [AbsView EXCEPT ![c] = View(c)'] /\ AbsView'[c] = View(c)'
      /\ AbsWriter = c /\ AbsWriter' = AbsWriter
  BY ViewStep
<1>2. AbsDb' = AbsDb
  <2>1. latest \in 1..latest
    BY LatestType DEF Control, LogInv
  <2>. QED
    BY <2>1 DEF AbsDb
<1>3. SS!Modify(c)
  <2>1. AbsView' = [AbsView EXCEPT ![c] = AbsView'[c]]
    BY <1>1
  <2>2. \A p \in Page : \/ AbsView'[c][p] = AbsDb[p]
                        \/ \A q \in Page : AbsView'[c][p] > AbsDb[q]
    BY <1>1
  <2>. QED
    BY <1>1, <1>2, <2>1, <2>2 DEF SS!Modify, AbsView, AbsDb, AbsWriter
<1>. QED
  BY <1>3 DEF AbsStep, SS!SSNext

\* A header published for a transaction: SnapshotStore commits.
LEMMA CommitStep ==
  ASSUME Control, LogInv, Control', LogInv', NEW c \in Conn, OnlyAt(c),
         OnlyLocksOf(c), UNCHANGED image, Writes(c), ~Writes(c)',
         View(c)' = View(c), View(c) = AbsDb'
  PROVE  AbsStep
<1>1. /\ AbsView[c] = View(c) /\ AbsView' = [AbsView EXCEPT ![c] = View(c)]
      /\ AbsWriter = c /\ AbsWriter' = NoConn
  BY ViewStep
<1>2. AbsView' = AbsView
  <2>1. AbsView = [d \in Conn |-> AbsView[d]]
    BY DEF AbsView
  <2>. QED
    BY <1>1, <2>1
<1>3. AbsDb' = AbsView[c]
  BY <1>1
<1>4. SS!Commit(c)
  BY <1>1, <1>2, <1>3 DEF SS!Commit, AbsView, AbsDb, AbsWriter
<1>. QED
  BY <1>4 DEF AbsStep, SS!SSNext

\* A write transaction undone: SnapshotStore aborts it.
LEMMA AbortStep ==
  ASSUME Control, LogInv, Control', LogInv', NEW c \in Conn, OnlyAt(c),
         OnlyLocksOf(c), UNCHANGED <<image, latest>>, Writes(c), ~Writes(c)',
         View(c)' = AbsDb
  PROVE  AbsStep
<1>1. /\ AbsView' = [AbsView EXCEPT ![c] = AbsDb]
      /\ AbsWriter = c /\ AbsWriter' = NoConn
  BY ViewStep
<1>2. AbsDb' = AbsDb
  BY DEF AbsDb
<1>3. SS!Abort(c)
  BY <1>1, <1>2 DEF SS!Abort, AbsView, AbsDb, AbsWriter
<1>. QED
  BY <1>3 DEF AbsStep, SS!SSNext

\* Every step of a reader is a step of SnapshotStore or a stutter.
LEMMA ReaderStep ==
  ASSUME Control, LogInv, Control', LogInv', IndexInv, Page # {},
         NEW c \in Conn, Reader(c)
  PROVE  AbsStep
<1>1. /\ Control /\ LogInv /\ Control' /\ LogInv'
      /\ HeaderOf(c) /\ PublishedInv /\ LogTypes /\ ImageInv
      /\ LockInvOf(c) /\ GlobalLocks /\ TypeBase
  BY LocalLog
<1>2. latest \in 1..MaxTx /\ image[latest] \in [Page -> 1..MaxTx]
  BY <1>1, LatestType DEF LogTypes
<1>3. CASE BeginRead(c)
  <2>1. OnlyAt(c) /\ BeginReadDone(c) /\ OnlyLocksOf(c)
    BY <1>3, BeginReadControl
  <2>2. Unseen(c)
    BY <1>1, <2>1 DEF BeginReadDone, Unseen, InTransaction, LockInvOf,
       Checkpointing
  <2>. QED
    BY <1>1, <2>1, <2>2, UnseenStep DEF AbsStep
<1>4. CASE ChooseLog(c)
  <2>1. OnlyAt(c) /\ ChooseLogDone(c) /\ OnlyLocksOf(c)
    BY <1>4, ChooseLogControl
  <2>2. Unseen(c)
    BY <1>1, <2>1 DEF ChooseLogDone, Unseen, InTransaction, LockInvOf,
       Checkpointing
  <2>. QED
    BY <1>1, <2>1, <2>2, UnseenStep DEF AbsStep
<1>5. CASE LockRead0(c)
  <2>1. OnlyAt(c) /\ LockRead0Done(c) /\ OnlyLocksOf(c)
    BY <1>5, LockRead0Control
  <2>2. CASE Unseen(c)
    BY <1>1, <2>1, <2>2, UnseenStep DEF AbsStep
  <2>3. CASE ~Unseen(c)
    <3>1. /\ pc'[c] = "read" /\ writeLock # c /\ aHdr[0] = hdr[c]
          /\ hdr'[c] = hdr[c] /\ writeLock' = writeLock
          /\ UNCHANGED <<image, latest, spilled>> /\ ~InTransaction(c)
      BY <1>1, <2>1, <2>3 DEF LockRead0Done, Unseen, InTransaction, LockInvOf
    <3>2. hdr[c].tx = latest
      BY <1>1, <2>1, <3>1 DEF PublishedInv, LockRead0Done
    <3>3. View(c) = [p \in Page |-> 0] /\ View(c)' = AbsDb
      BY <1>2, <3>1, <3>2 DEF View, InTransaction, AbsDb
    <3>. QED
      BY <1>1, <2>1, <3>1, <3>3, BeginStep
  <2>. QED
    BY <2>2, <2>3
<1>6. CASE PickMark(c)
  <2>1. OnlyAt(c) /\ PickMarkDone(c) /\ OnlyLocksOf(c)
    BY <1>6, PickMarkControl
  <2>2. Unseen(c)
    BY <1>1, <2>1 DEF PickMarkDone, Unseen, InTransaction, LockInvOf,
       Checkpointing
  <2>. QED
    BY <1>1, <2>1, <2>2, UnseenStep DEF AbsStep
<1>7. CASE LockMark(c)
  <2>1. OnlyAt(c) /\ LockMarkDone(c) /\ OnlyLocksOf(c)
    BY <1>7, LockMarkControl
  <2>2. Unseen(c)
    BY <1>1, <2>1 DEF LockMarkDone, Unseen, InTransaction, LockInvOf,
       Checkpointing
  <2>. QED
    BY <1>1, <2>1, <2>2, UnseenStep DEF AbsStep
<1>8. CASE LoadBackfill(c)
  <2>1. OnlyAt(c) /\ LoadBackfillDone(c) /\ OnlyLocksOf(c)
    BY <1>8, LoadBackfillControl
  <2>2. Unseen(c)
    BY <1>1, <2>1 DEF LoadBackfillDone, Unseen, InTransaction, LockInvOf,
       Checkpointing
  <2>. QED
    BY <1>1, <2>1, <2>2, UnseenStep DEF AbsStep
<1>9. CASE CheckMark(c)
  <2>1. OnlyAt(c) /\ CheckMarkDone(c) /\ OnlyLocksOf(c)
    BY <1>9, CheckMarkControl
  <2>2. CASE Unseen(c)
    BY <1>1, <2>1, <2>2, UnseenStep DEF AbsStep
  <2>3. CASE ~Unseen(c)
    <3>1. /\ pc'[c] = "read" /\ writeLock # c /\ aHdr[0] = hdr[c]
          /\ hdr'[c] = hdr[c] /\ writeLock' = writeLock
          /\ UNCHANGED <<image, latest, spilled>> /\ ~InTransaction(c)
      BY <1>1, <2>1, <2>3 DEF CheckMarkDone, Unseen, InTransaction, LockInvOf
    <3>2. hdr[c].tx = latest
      BY <1>1, <2>1, <3>1 DEF PublishedInv, CheckMarkDone
    <3>3. View(c) = [p \in Page |-> 0] /\ View(c)' = AbsDb
      BY <1>2, <3>1, <3>2 DEF View, InTransaction, AbsDb
    <3>. QED
      BY <1>1, <2>1, <3>1, <3>3, BeginStep
  <2>. QED
    BY <2>2, <2>3
<1>10. CASE EndRead(c)
  <2>1. OnlyAt(c) /\ EndReadDone(c) /\ OnlyLocksOf(c)
    BY <1>10, EndReadControl
  <2>2. /\ writeLock # c /\ UNCHANGED <<image, latest, writeLock>>
        /\ InTransaction(c) /\ ~InTransaction(c)'
    BY <1>1, <2>1 DEF EndReadDone, InTransaction, LockInvOf
  <2>3. hdr[c].tx \in 1..MaxTx
    BY <1>1, <2>1, HdrFields, LatestType DEF HeaderOf, EndReadDone
  <2>4. View(c) = image[hdr[c].tx] /\ View(c)' = [p \in Page |-> 0]
    BY <1>1, <2>2, <2>3 DEF View, LogTypes
  <2>5. View(c) # [p \in Page |-> 0]
    <3>1. PICK p \in Page : TRUE
      OBVIOUS
    <3>2. image[hdr[c].tx] \in [Page -> 1..MaxTx]
      BY <1>1, <2>3 DEF LogTypes
    <3>3. image[hdr[c].tx][p] \in 1..MaxTx
      BY <3>1, <3>2
    <3>4. image[hdr[c].tx][p] # 0
      BY <3>3
    <3>. QED
      BY <2>4, <3>4
  <2>. QED
    BY <1>1, <2>1, <2>2, <2>4, <2>5, EndStep
<1>. QED
  BY <1>3, <1>4, <1>5, <1>6, <1>7, <1>8, <1>9, <1>10 DEF Reader

\* Every step of a recovery is a stutter of SnapshotStore.
LEMMA RecoveryStep ==
  ASSUME Control, LogInv, Control', LogInv', IndexInv, Page # {},
         NEW c \in Conn, Recovery(c)
  PROVE  AbsStep
<1>1. /\ Control /\ LogInv /\ Control' /\ LogInv'
      /\ HeaderOf(c) /\ PublishedInv /\ LogTypes /\ ImageInv
      /\ LockInvOf(c) /\ GlobalLocks /\ TypeBase
  BY LocalLog
<1>2. latest \in 1..MaxTx /\ image[latest] \in [Page -> 1..MaxTx]
  BY <1>1, LatestType DEF LogTypes
<1>3. CASE RecoverScan(c)
  <2>1. OnlyAt(c) /\ RecoverScanDone(c) /\ OnlyLocksOf(c)
    BY <1>3, RecoverScanControl
  <2>2. Unseen(c)
    BY <1>1, <2>1 DEF RecoverScanDone, Unseen, InTransaction, LockInvOf,
       Checkpointing
  <2>. QED
    BY <1>1, <2>1, <2>2, UnseenStep DEF AbsStep
<1>4. CASE RecoverHdr0(c)
  <2>1. OnlyAt(c) /\ RecoverHdr0Done(c) /\ OnlyLocksOf(c)
    BY <1>4, RecoverHdr0Control
  <2>2. latest' = latest
    BY <2>1 DEF RecoverHdr0Done, IndexInv
  <2>3. Unseen(c)
    BY <2>1, <2>2 DEF RecoverHdr0Done, Unseen, InTransaction
  <2>. QED
    BY <1>1, <2>1, <2>3, UnseenStep DEF AbsStep
<1>5. CASE RecoverInfo(c)
  <2>1. OnlyAt(c) /\ RecoverInfoDone(c) /\ OnlyLocksOf(c)
    BY <1>5, RecoverInfoControl
  <2>2. Unseen(c)
    BY <1>1, <2>1 DEF RecoverInfoDone, Unseen, InTransaction, LockInvOf,
       Checkpointing
  <2>. QED
    BY <1>1, <2>1, <2>2, UnseenStep DEF AbsStep
<1>. QED
  BY <1>3, <1>4, <1>5 DEF Recovery

\* Every step of a writer is a step of SnapshotStore or a stutter.
LEMMA WriterStep ==
  ASSUME Control, LogInv, Control', LogInv', IndexInv, Page # {},
         NEW c \in Conn, Writer(c)
  PROVE  AbsStep
<1>1. /\ Control /\ LogInv /\ Control' /\ LogInv'
      /\ HeaderOf(c) /\ PublishedInv /\ LogTypes /\ ImageInv
      /\ LockInvOf(c) /\ GlobalLocks /\ TypeBase
  BY LocalLog
<1>2. latest \in 1..MaxTx /\ image[latest] \in [Page -> 1..MaxTx]
  BY <1>1, LatestType DEF LogTypes
<1>3. CASE BeginWrite(c)
  <2>1. OnlyAt(c) /\ BeginWriteDone(c) /\ OnlyLocksOf(c)
    BY <1>3, BeginWriteControl
  <2>2. /\ spilled = {} /\ hdr[c].tx = latest /\ writeLock = NoConn
        /\ writeLock' = c /\ hdr'[c] = hdr[c]
        /\ UNCHANGED <<image, latest, spilled>>
        /\ InTransaction(c) /\ InTransaction(c)'
    BY <1>1, <2>1
       DEF BeginWriteDone, GlobalLocks, PublishedInv, InTransaction
  <2>3. View(c) = AbsDb /\ View(c)' = AbsDb
    BY <1>2, <2>2, ConnFacts DEF View, AbsDb
  <2>4. Writes(c)'
    BY <2>2 DEF Writes
  <2>. QED
    BY <1>1, <2>1, <2>2, <2>3, <2>4, UpgradeStep
<1>4. CASE RestartLog(c)
  <2>1. OnlyAt(c) /\ RestartLogDone(c) /\ OnlyLocksOf(c)
    BY <1>4, RestartLogControl
  <2>2. Unseen(c)
    BY <1>1, <2>1 DEF RestartLogDone, Unseen, InTransaction, LockInvOf,
       Checkpointing
  <2>. QED
    BY <1>1, <2>1, <2>2, UnseenStep DEF AbsStep
<1>5. CASE KeepLog(c)
  <2>1. OnlyAt(c) /\ KeepLogDone(c) /\ OnlyLocksOf(c)
    BY <1>5, KeepLogControl
  <2>2. Unseen(c)
    BY <1>1, <2>1 DEF KeepLogDone, Unseen, InTransaction, LockInvOf,
       Checkpointing
  <2>. QED
    BY <1>1, <2>1, <2>2, UnseenStep DEF AbsStep
<1>6. CASE RestartHdr0(c)
  <2>1. OnlyAt(c) /\ RestartHdr0Done(c) /\ OnlyLocksOf(c)
    BY <1>6, RestartHdr0Control
  <2>2. Unseen(c)
    BY <1>1, <2>1 DEF RestartHdr0Done, Unseen, InTransaction, LockInvOf,
       Checkpointing
  <2>. QED
    BY <1>1, <2>1, <2>2, UnseenStep DEF AbsStep
<1>7. CASE RestartBackfill(c)
  <2>1. OnlyAt(c) /\ RestartBackfillDone(c) /\ OnlyLocksOf(c)
    BY <1>7, RestartBackfillControl
  <2>2. Unseen(c)
    BY <1>1, <2>1 DEF RestartBackfillDone, Unseen, InTransaction, LockInvOf,
       Checkpointing
  <2>. QED
    BY <1>1, <2>1, <2>2, UnseenStep DEF AbsStep
<1>8. CASE RestartMarks(c)
  <2>1. OnlyAt(c) /\ RestartMarksDone(c) /\ OnlyLocksOf(c)
    BY <1>8, RestartMarksControl
  <2>2. Unseen(c)
    BY <1>1, <2>1 DEF RestartMarksDone, Unseen, InTransaction, LockInvOf,
       Checkpointing
  <2>. QED
    BY <1>1, <2>1, <2>2, UnseenStep DEF AbsStep
<1>9. CASE SpillPage(c) \/ CommitFrames(c)
  <2>1. /\ OnlyAt(c) /\ OnlyLocksOf(c) /\ pc[c] = "write" /\ writeLock = c
        /\ hdr[c].tx = latest /\ latest < nTx'
        /\ UNCHANGED <<writeLock, ckptLock, latest>>
        /\ pc'[c] \in {"write", "publish1"}
        /\ \A t \in 1..latest : image'[t] = image[t]
        /\ \A p \in Page :
             \/ p \in spilled' /\ pc'[c] = "write"
             \/ p \notin spilled' /\ image'[hdr'[c].tx][p] = nTx'
             \/ p \notin spilled' /\ image'[hdr'[c].tx][p] = image[latest][p]
    BY <1>9, FramesFacts
  <2>2. InTransaction(c) /\ InTransaction(c)'
    BY <2>1 DEF InTransaction
  <2>3. Writes(c) /\ Writes(c)'
    BY <2>1, <2>2 DEF Writes
  <2>4. \A q \in Page : nTx' > AbsDb[q]
    <3>1. ASSUME NEW q \in Page PROVE nTx' > image[latest][q]
      <4>1. image[latest][q] <= latest /\ image[latest][q] \in Int
        BY <1>1, <1>2 DEF ImageInv
      <4>2. nTx' \in Int
        BY <1>1 DEF Control, TypeBase, TypeShared
      <4>. QED
        BY <1>2, <2>1, <4>1, <4>2
    <3>. QED
      BY <3>1 DEF AbsDb
  <2>5. \A p \in Page : View(c)'[p] = nTx' \/ View(c)'[p] = AbsDb[p]
    BY <2>1, <2>2 DEF View, AbsDb
  <2>6. \A p \in Page : \/ View(c)'[p] = AbsDb[p]
                        \/ \A q \in Page : View(c)'[p] > AbsDb[q]
    BY <2>4, <2>5
  <2>. QED
    BY <1>1, <2>1, <2>3, <2>6, ModifyStep
<1>10. CASE Publish1(c)
  <2>1. OnlyAt(c) /\ Publish1Done(c) /\ OnlyLocksOf(c)
    BY <1>10, Publish1Control
  <2>2. Unseen(c)
    BY <1>1, <2>1 DEF Publish1Done, Unseen, InTransaction, LockInvOf,
       Checkpointing
  <2>. QED
    BY <1>1, <2>1, <2>2, UnseenStep DEF AbsStep
<1>11. CASE Publish0(c)
  <2>1. OnlyAt(c) /\ Publish0Done(c) /\ OnlyLocksOf(c)
    BY <1>11, Publish0Control
  <2>2. /\ writeLock = c /\ spilled = {} /\ writeLock' = NoConn
        /\ latest' = hdr[c].tx /\ hdr'[c] = hdr[c]
        /\ UNCHANGED <<image, spilled>> /\ InTransaction(c)
        /\ InTransaction(c)'
    BY <1>1, <2>1 DEF Publish0Done, LockInvOf, InTransaction
  <2>3. Writes(c) /\ ~Writes(c)'
    BY <2>2, ConnFacts DEF Writes
  <2>4. hdr[c].tx \in 1..MaxTx
    BY <1>1, <2>1, LatestType DEF HeaderOf, Publish0Done
  <2>5. image[hdr[c].tx] \in [Page -> 1..MaxTx]
    BY <1>1, <2>4 DEF LogTypes
  <2>6. View(c)' = View(c) /\ View(c) = AbsDb'
    BY <2>2, <2>5, ConnFacts DEF View, AbsDb
  <2>. QED
    BY <1>1, <2>1, <2>2, <2>3, <2>6, CommitStep
<1>12. CASE Rollback(c)
  <2>1. OnlyAt(c) /\ RollbackDone(c) /\ OnlyLocksOf(c)
    BY <1>12, RollbackControl
  <2>2. /\ writeLock = c /\ spilled' = {} /\ writeLock' = NoConn
        /\ hdr'[c].tx = latest /\ UNCHANGED <<image, latest>>
        /\ InTransaction(c) /\ InTransaction(c)'
    BY <1>1, <2>1
       DEF RollbackDone, LockInvOf, InTransaction, PublishedInv
  <2>3. Writes(c) /\ ~Writes(c)'
    BY <2>2, ConnFacts DEF Writes
  <2>4. View(c)' = AbsDb
    BY <1>2, <2>2, ConnFacts DEF View, AbsDb
  <2>. QED
    BY <1>1, <2>1, <2>2, <2>3, <2>4, AbortStep
<1>. QED
  BY <1>3, <1>4, <1>5, <1>6, <1>7, <1>8, <1>9, <1>10, <1>11, <1>12 DEF Writer

\* Every step of a checkpoint is a stutter of SnapshotStore: no transaction can
\* tell that one runs.
LEMMA CheckpointerStep ==
  ASSUME Control, LogInv, Control', LogInv', IndexInv, Page # {},
         NEW c \in Conn, Checkpointer(c)
  PROVE  AbsStep
<1>1. /\ Control /\ LogInv /\ Control' /\ LogInv'
      /\ HeaderOf(c) /\ PublishedInv /\ LogTypes /\ ImageInv
      /\ LockInvOf(c) /\ GlobalLocks /\ TypeBase
  BY LocalLog
<1>2. latest \in 1..MaxTx /\ image[latest] \in [Page -> 1..MaxTx]
  BY <1>1, LatestType DEF LogTypes
<1>3. ASSUME NEW m \in Modes, CkptBegin(c, m) PROVE AbsStep
  <2>1. OnlyAt(c) /\ CkptBeginDone(c, m) /\ OnlyLocksOf(c)
    BY <1>3, CkptBeginControl
  <2>2. Unseen(c)
    BY <1>1, <2>1 DEF CkptBeginDone, Unseen, InTransaction, LockInvOf,
       Checkpointing
  <2>. QED
    BY <1>1, <2>1, <2>2, UnseenStep DEF AbsStep
<1>4. CASE CkptReadHdr(c)
  <2>1. OnlyAt(c) /\ CkptReadHdrDone(c) /\ OnlyLocksOf(c)
    BY <1>4, CkptReadHdrControl
  <2>2. Unseen(c)
    BY <1>1, <2>1 DEF CkptReadHdrDone, Unseen, InTransaction, LockInvOf,
       Checkpointing
  <2>. QED
    BY <1>1, <2>1, <2>2, UnseenStep DEF AbsStep
<1>5. CASE CkptTest(c)
  <2>1. OnlyAt(c) /\ CkptTestDone(c) /\ OnlyLocksOf(c)
    BY <1>5, CkptTestControl
  <2>2. Unseen(c)
    BY <1>1, <2>1 DEF CkptTestDone, Unseen, InTransaction, LockInvOf,
       Checkpointing
  <2>. QED
    BY <1>1, <2>1, <2>2, UnseenStep DEF AbsStep
<1>6. CASE CkptScan(c)
  <2>1. OnlyAt(c) /\ CkptScanDone(c) /\ OnlyLocksOf(c)
    BY <1>6, CkptScanControl
  <2>2. Unseen(c)
    BY <1>1, <2>1 DEF CkptScanDone, Unseen, InTransaction, LockInvOf,
       Checkpointing
  <2>. QED
    BY <1>1, <2>1, <2>2, UnseenStep DEF AbsStep
<1>7. CASE CkptStart(c)
  <2>1. OnlyAt(c) /\ CkptStartDone(c) /\ OnlyLocksOf(c)
    BY <1>7, CkptStartControl
  <2>2. Unseen(c)
    BY <1>1, <2>1 DEF CkptStartDone, Unseen, InTransaction, LockInvOf,
       Checkpointing
  <2>. QED
    BY <1>1, <2>1, <2>2, UnseenStep DEF AbsStep
<1>8. CASE CkptCopy(c)
  <2>1. OnlyAt(c) /\ CkptCopyDone(c) /\ OnlyLocksOf(c)
    BY <1>8, CkptCopyControl
  <2>2. Unseen(c)
    BY <1>1, <2>1 DEF CkptCopyDone, Unseen, InTransaction, LockInvOf,
       Checkpointing
  <2>. QED
    BY <1>1, <2>1, <2>2, UnseenStep DEF AbsStep
<1>9. CASE CkptFinish(c)
  <2>1. OnlyAt(c) /\ CkptFinishDone(c) /\ OnlyLocksOf(c)
    BY <1>9, CkptFinishControl
  <2>2. Unseen(c)
    BY <1>1, <2>1 DEF CkptFinishDone, Unseen, InTransaction, LockInvOf,
       Checkpointing
  <2>. QED
    BY <1>1, <2>1, <2>2, UnseenStep DEF AbsStep
<1>10. CASE CkptInterrupt(c)
  <2>1. OnlyAt(c) /\ CkptInterruptDone(c) /\ OnlyLocksOf(c)
    BY <1>10, CkptInterruptControl
  <2>2. Unseen(c)
    BY <1>1, <2>1 DEF CkptInterruptDone, Unseen, InTransaction, LockInvOf,
       Checkpointing
  <2>. QED
    BY <1>1, <2>1, <2>2, UnseenStep DEF AbsStep
<1>11. CASE CkptRestart(c)
  <2>1. OnlyAt(c) /\ CkptRestartDone(c) /\ OnlyLocksOf(c)
    BY <1>11, CkptRestartControl
  <2>2. Unseen(c)
    BY <1>1, <2>1 DEF CkptRestartDone, Unseen, InTransaction, LockInvOf,
       Checkpointing
  <2>. QED
    BY <1>1, <2>1, <2>2, UnseenStep DEF AbsStep
<1>12. CASE CkptTruncate(c)
  <2>1. OnlyAt(c) /\ CkptTruncateDone(c) /\ OnlyLocksOf(c)
    BY <1>12, CkptTruncateControl
  <2>2. Unseen(c)
    BY <1>1, <2>1 DEF CkptTruncateDone, Unseen, InTransaction, LockInvOf,
       Checkpointing
  <2>. QED
    BY <1>1, <2>1, <2>2, UnseenStep DEF AbsStep
<1>13. CASE CkptReturn(c)
  <2>1. OnlyAt(c) /\ CkptReturnDone(c) /\ OnlyLocksOf(c)
    BY <1>13, CkptReturnControl
  <2>2. Unseen(c)
    BY <1>1, <2>1 DEF CkptReturnDone, Unseen, InTransaction, LockInvOf,
       Checkpointing
  <2>. QED
    BY <1>1, <2>1, <2>2, UnseenStep DEF AbsStep
<1>. QED
  BY <1>3, <1>4, <1>5, <1>6, <1>7, <1>8, <1>9, <1>10, <1>11, <1>12, <1>13
     DEF Checkpointer

\* Without deaths, the write-ahead log implements SnapshotStore: a transaction
\* sees the image that was committed when it began and nothing later, only one
\* writes at a time, on top of the newest image, and its pages appear to the
\* others all at once.
THEOREM RefinesSnapshotStore ==
  ASSUME Sound, DeathPcs = {}, Page # {}
  PROVE  Spec => ImplementsSnapshotStore
<1>1. Init => SS!SSInit
  <2>. SUFFICES ASSUME Init PROVE SS!SSInit
    OBVIOUS
  <2>1. 1 \in 1..MaxTx
    BY Bounds
  <2>2. image[latest] = [p \in Page |-> 1] /\ writeLock = NoConn
    BY <2>1 DEF Init
  <2>3. \A c \in Conn : ~InTransaction(c)
    BY DEF Init, InTransaction
  <2>4. [p \in Page |-> 1] # [p \in Page |-> 0]
    <3>1. PICK p \in Page : TRUE
      OBVIOUS
    <3>. QED
      BY <3>1
  <2>. QED
    BY <2>2, <2>3, <2>4 DEF SS!SSInit, SS!NoView
<1>2. Init => Control /\ LogInv /\ IndexInv
  BY InitControl, InitLog, InitIndex
<1>3. Control /\ LogInv /\ IndexInv /\ [Next]_vars
        => Control' /\ LogInv' /\ IndexInv'
  BY NextControl, NextLog, NextIndex
<1>4. ASSUME Control, LogInv, IndexInv, Control', LogInv', [Next]_vars
      PROVE  [SS!SSNext]_<<AbsDb, AbsView, AbsWriter>>
  <2>1. CASE UNCHANGED vars
    <3>1. /\ UNCHANGED <<wal, walSalt, db, hdr, minFrame, readLock, pc>>
          /\ UNCHANGED <<writeLock, ckptLock, image, latest>>
      BY <2>1 DEF vars
    <3>. QED
      BY <3>1 DEF AbsDb, AbsView, AbsWriter, InTransaction, ReadPage, FramesOf
  <2>2. CASE Next
    <3>1. ~ShmLost /\ \A c \in Conn : ~Die(c)
      BY DEF ShmLost, Die
    <3>. QED
      BY <1>4, <2>2, <3>1, ReaderStep, RecoveryStep, WriterStep,
         CheckpointerStep DEF Next, AbsStep
  <2>. QED
    BY <1>4, <2>1, <2>2
<1>5. <<AbsDb, AbsView, AbsWriter>> =
        <<image[latest],
          [c \in Conn |->
             IF ~InTransaction(c) THEN [p \in Page |-> 0]
             ELSE IF pc[c] \in ReadPcs
                  THEN [p \in Page |-> ReadPage(c, p)]
             ELSE image[hdr[c].tx]],
          IF writeLock # NoConn /\ InTransaction(writeLock)
          THEN writeLock ELSE NoConn>>
  BY DEF AbsDb, AbsView, AbsWriter
<1>. QED
  BY <1>1, <1>2, <1>3, <1>4, PTL
     DEF Spec, ImplementsSnapshotStore, SS!SSSpec, AbsDb, AbsView, AbsWriter
=============================================================================
