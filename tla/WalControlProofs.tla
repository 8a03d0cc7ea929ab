-------------------------- MODULE WalControlProofs --------------------------
(***************************************************************************)
(* Theorems about the steps of the write-ahead log and the locks they run  *)
(* under.  Control says which lock each connection holds at which step and *)
(* what the variables range over: every step keeps it, with deaths         *)
(* anywhere and with stale checkpoints, for any number of connections,     *)
(* pages, frames and read-marks.  The page cache is fresh by the same      *)
(* argument.  For every action A, ADone(c) is what A does, said of the     *)
(* connection that takes it, and OnlyAt(c) says that nobody else's locals  *)
(* change; the later proofs use those and never the action itself.         *)
(***************************************************************************)
EXTENDS Wal, FiniteSetTheorems, TLAPS

-----------------------------------------------------------------------------
(* Finite sets of integers *)

Rank(S, p) == Cardinality({q \in S : q <= p})

\* The place of a member in a finite set of integers is a number up to the size
\* of the set.
LEMMA RankInRange ==
  ASSUME NEW S, IsFiniteSet(S), S \subseteq Int, NEW p \in S
  PROVE  Rank(S, p) \in 1..Cardinality(S)
<1>. DEFINE T == {q \in S : q <= p}
<1>1. IsFiniteSet(T) /\ Cardinality(T) <= Cardinality(S)
  BY FS_Subset, T \in SUBSET S
<1>2. Cardinality(T) \in Nat /\ Cardinality(S) \in Nat
  BY <1>1, FS_CardinalityType
<1>3. p \in T
  OBVIOUS
<1>4. Cardinality(T) # 0
  BY <1>1, <1>3, FS_EmptySet
<1>. QED
  BY <1>1, <1>2, <1>4 DEF Rank

\* No two members have the same place.
LEMMA RankInjective ==
  ASSUME NEW S, IsFiniteSet(S), S \subseteq Int, NEW p \in S, NEW r \in S,
         Rank(S, p) = Rank(S, r)
  PROVE  p = r
<1>1. ASSUME NEW a \in S, NEW b \in S, a < b, Rank(S, a) = Rank(S, b)
      PROVE  FALSE
  <2>. DEFINE A == {q \in S : q <= a}
              B == {q \in S : q <= b}
  <2>1. IsFiniteSet(B)
    BY FS_Subset, B \in SUBSET S
  <2>2. A \in SUBSET B
    <3>1. \A q \in S : q \in Int /\ a \in Int /\ b \in Int
      OBVIOUS
    <3>2. \A q \in S : q <= a => q <= b
      BY <1>1, <3>1
    <3>. QED
      BY <3>2
  <2>3. Cardinality(A) = Cardinality(B)
    BY <1>1 DEF Rank
  <2>4. A = B
    BY <2>1, <2>2, <2>3, FS_Subset
  <2>5. b \in B /\ b \notin A
    BY <1>1
  <2>. QED
    BY <2>4, <2>5
<1>2. p < r \/ r < p \/ p = r
  OBVIOUS
<1>. QED
  BY <1>1, <1>2

\* The elements of a finite set of integers can be numbered from the lowest.
LEMMA RankOnto ==
  ASSUME NEW S, IsFiniteSet(S), S \subseteq Int, NEW k \in 1..Cardinality(S)
  PROVE  \E p \in S : Rank(S, p) = k
<1>. DEFINE n == Cardinality(S)
            R == [p \in S |-> Rank(S, p)]
<1>1. n \in Nat
  BY FS_CardinalityType
<1>2. IsFiniteSet(1..n) /\ Cardinality(1..n) = n
  BY <1>1, FS_Interval
<1>3. R \in [S -> 1..n]
  BY RankInRange
<1>4. \A p, r \in S : R[p] = R[r] => p = r
  BY RankInjective
<1>5. R \in Injection(S, 1..n)
  BY <1>3, <1>4 DEF Injection, IsInjective
<1>6. R \in Surjection(S, 1..n)
  BY <1>2, <1>5, FS_Injection
<1>. QED
  BY <1>6 DEF Surjection

\* A finite set of integers that is not empty has a highest member.
LEMMA MaxIn ==
  ASSUME NEW S, IsFiniteSet(S), S \subseteq Int, S # {}
  PROVE  Max(S) \in S /\ \A y \in S : y <= Max(S)
<1>1. Cardinality(S) \in 1..Cardinality(S)
  BY FS_CardinalityType, FS_EmptySet
<1>2. PICK p \in S : Rank(S, p) = Cardinality(S)
  BY <1>1, RankOnto
<1>. DEFINE T == {q \in S : q <= p}
<1>3. T = S
  BY <1>2, FS_Subset, T \in SUBSET S DEF Rank
<1>4. \E x \in S : \A y \in S : x >= y
  BY <1>3
<1>5. Max(S) \in S /\ \A y \in S : Max(S) >= y
  BY <1>4 DEF Max
<1>. QED
  BY <1>5

\* It has a lowest member as well.
LEMMA MinIn ==
  ASSUME NEW S, IsFiniteSet(S), S \subseteq Int, S # {}
  PROVE  Min(S) \in S /\ \A y \in S : Min(S) <= y
<1>1. 1 \in 1..Cardinality(S)
  BY FS_CardinalityType, FS_EmptySet
<1>2. PICK p \in S : Rank(S, p) = 1
  BY <1>1, RankOnto
<1>3. ASSUME NEW y \in S PROVE p <= y
  <2>1. CASE y > p
    BY <2>1
  <2>2. CASE y <= p
    <3>. DEFINE A == {q \in S : q <= y}
                B == {q \in S : q <= p}
    <3>1. IsFiniteSet(B) /\ Cardinality(B) = 1
      BY <1>2, FS_Subset, B \in SUBSET S DEF Rank
    <3>2. PICK x : B = {x}
      BY <3>1, FS_Singleton
    <3>3. y \in B /\ p \in B
      BY <2>2
    <3>. QED
      BY <3>2, <3>3
  <2>. QED
    BY <2>1, <2>2
<1>4. \E x \in S : \A y \in S : x =< y
  BY <1>3
<1>. QED
  BY <1>4 DEF Min
-----------------------------------------------------------------------------
(* Control *)

WriterPcs  == {"write", "publish1", "publish0"} \cup RestartPcs \cup RecoverPcs
TransitPcs == {"mark", "lockMark", "loadBackfill", "checkMark"}
PublishPcs == {"publish1", "publish0"}

FrameType == [pg : Page \cup {0}, tx : 0..MaxTx, commit : BOOLEAN,
              salt : 0..MaxSalt, prev : 0..MaxTx]
PickType  == [i : 0..NReader, m : 0..NotUsed]
CkptType  == [mode : Modes \cup {"none", "PASSIVE"}, mxSafe : 0..MaxFrame,
              i : 0..NReader + 1, iter : [Page -> 0..MaxFrame],
              changed : BOOLEAN]

\* The type invariant, without what the content of the log decides: what the
\* connections share, and what each has for itself.
TypeShared ==
  /\ aHdr \in [0..1 -> Hdr]
  /\ nBackfill \in 0..MaxFrame
  /\ aReadMark \in [Marks -> 0..NotUsed]
  /\ writeLock \in Conn \cup {NoConn} /\ ckptLock \in Conn \cup {NoConn}
  /\ wal \in [1..MaxFrame -> FrameType] /\ walSalt \in 0..MaxSalt
  /\ spilled \subseteq Page /\ ckpt \in CkptType
  /\ latest \in 0..MaxTx /\ nTx \in 1..MaxTx /\ nSalt \in 0..MaxSalt

TypeBase ==
  /\ TypeShared
  /\ hdr \in [Conn -> Hdr] /\ minFrame \in [Conn -> 0..MaxFrame + 1]
  /\ readLock \in [Conn -> -1..NReader] /\ pick \in [Conn -> PickType]
  /\ pc \in [Conn -> Pcs] /\ cached \in [Conn -> 0..MaxTx]

\* Which locks c holds at which step.
LockInvOf(c) ==
  /\ pc[c] \in WriterPcs => writeLock = c
  /\ pc[c] \in RecoverPcs \cup CkptPcs => ckptLock = c
  /\ writeLock = c => pc[c] \in WriterPcs \cup TransitPcs \cup CkptPcs
  /\ writeLock = c /\ pc[c] \in CkptPcs => ckpt.mode # "PASSIVE"
  /\ ckptLock = c => pc[c] \in RecoverPcs \cup CkptPcs \cup RestartPcs
  /\ pc[c] \in CkptPcs => ckpt.mode # "none"
  /\ pc[c] \in RestartPcs =>
       IF ckptLock = c THEN ckpt.mode = "TRUNCATE" /\ readLock[c] = -1
       ELSE readLock[c] = 0
  /\ pc[c] \in ReadPcs => readLock[c] >= 0
  /\ pc[c] \in PublishPcs => readLock[c] > 0
  /\ pc[c] \in {"lockMark", "loadBackfill", "checkMark"} => pick[c].i \in Marks
  /\ pc[c] \in {"loadBackfill", "checkMark"} => readLock[c] = pick[c].i
  /\ readLock[c] >= 0 =>
       pc[c] \in ReadPcs \cup RestartPcs \cup {"loadBackfill", "checkMark"}
  /\ pc[c] = "ckScan" => ckpt.i > 0
  /\ writeLock = c /\ ckptLock # c /\ pc[c] \notin PublishPcs
       => spilled # {} \/ nTx < MaxTx
  /\ writeLock = c /\ spilled # {} => pc[c] = "write" /\ readLock[c] > 0

\* Nobody reads the log while it is restarted, nor the database file alone
\* while pages are copied into it.
ReadersOut ==
  \A c, d \in Conn : /\ pc[c] \in RestartPcs => readLock[d] \notin Marks
                     /\ pc[c] = "ckCopy" => readLock[d] # 0

GlobalLocks ==
  /\ ckptLock = NoConn => ckpt.mode = "none"
  /\ ckpt.mode = "none" => ckpt = NoCkpt
  /\ ckpt.mode \notin {"none", "PASSIVE"} => writeLock = ckptLock
  /\ writeLock = NoConn => spilled = {}

LockInv == (\A c \in Conn : LockInvOf(c)) /\ ReadersOut /\ GlobalLocks

Control == TypeBase /\ LockInv

-----------------------------------------------------------------------------
USE DEF Marks, NotUsed, ReadPcs, RestartPcs, RecoverPcs, CkptPcs, WriterPcs,
        TransitPcs, PublishPcs, Goto, shmVars, lockVars, fileVars, readVars,
        txVars

\* What the constants say of the connections, in the form the proofs use.
LEMMA ConnFacts ==
  /\ NoConn \notin Conn /\ IsFiniteSet(Conn)
  /\ Readers \subseteq Conn /\ Writers \subseteq Conn
BY WalAssumption

\* The bounds on frames, transactions, salts and read-marks.
LEMMA Bounds ==
  /\ NReader \in Nat \ {0} /\ MaxFrame \in Nat \ {0}
  /\ MaxTx \in Nat \ {0} /\ MaxSalt \in Nat \ {0}
BY WalAssumption

\* The modes of a checkpoint.
LEMMA ModeFacts == Modes \subseteq {"PASSIVE", "FULL", "TRUNCATE"}
BY WalAssumption

\* Pages are numbers, so that walFrames can write them in order.
LEMMA PageFacts == IsFiniteSet(Page) /\ Page \subseteq Nat
BY WalAssumption

\* Nobody holds a lock at first, and every variable is in its range.
LEMMA InitControl == Init => Control
<1>. SUFFICES ASSUME Init PROVE Control
  OBVIOUS
<1>1. TypeShared
  BY ConnFacts, Bounds
     DEF Init, TypeShared, Hdr, ZeroHdr, NoFrame, NoCkpt, FrameType, CkptType
<1>2. TypeBase
  BY <1>1, Bounds DEF Init, TypeBase, Hdr, ZeroHdr, NoPick, PickType, Pcs
<1>3. LockInv
  BY ConnFacts DEF Init, LockInv, LockInvOf, GlobalLocks, ReadersOut, NoCkpt
<1>. QED
  BY <1>2, <1>3 DEF Control

-----------------------------------------------------------------------------
(* What each step does, said of the connection that takes it *)

\* The step changes what c knows, and nothing another connection knows.
OnlyAt(c) ==
  /\ pc' = [pc EXCEPT ![c] = pc'[c]] /\ hdr' = [hdr EXCEPT ![c] = hdr'[c]]
  /\ cached' = [cached EXCEPT ![c] = cached'[c]]
  /\ readLock' = [readLock EXCEPT ![c] = readLock'[c]]
  /\ minFrame' = [minFrame EXCEPT ![c] = minFrame'[c]]
  /\ pick' = [pick EXCEPT ![c] = pick'[c]]

SameReads(c) ==
  /\ readLock'[c] = readLock[c] /\ minFrame'[c] = minFrame[c]
  /\ pick'[c] = pick[c]

\* The locals of the checkpoint after the step.
CkptIs(mode, mxSafe, i, iter, changed) ==
  /\ ckpt' \in CkptType
  /\ ckpt'.mode = mode /\ ckpt'.mxSafe = mxSafe /\ ckpt'.i = i
  /\ ckpt'.iter = iter /\ ckpt'.changed = changed

\* The locals of no checkpoint.
LEMMA NoCkptType == NoCkpt \in CkptType
BY Bounds DEF NoCkpt, CkptType

\* A checkpoint that notes whether the header was new to it.
LEMMA ChangedTo ==
  ASSUME ckpt \in CkptType, NEW b \in BOOLEAN,
         ckpt' = [ckpt EXCEPT !.changed = b]
  PROVE  CkptIs(ckpt.mode, ckpt.mxSafe, ckpt.i, ckpt.iter, b)
BY DEF CkptType, CkptIs

\* A checkpoint that begins.
LEMMA BeginTo ==
  ASSUME NEW m \in Modes \cup {"PASSIVE"}, ckpt' = [NoCkpt EXCEPT !.mode = m]
  PROVE  CkptIs(m, 0, 0, NoCkpt.iter, FALSE)
<1>1. NoCkpt.mxSafe = 0 /\ NoCkpt.i = 0 /\ NoCkpt.changed = FALSE
  BY DEF NoCkpt
<1>2. ASSUME NEW k \in CkptType
      PROVE  LET e == [k EXCEPT !.mode = m]
             IN /\ e \in CkptType /\ e.mode = m /\ e.mxSafe = k.mxSafe
                /\ e.i = k.i /\ e.iter = k.iter /\ e.changed = k.changed
  BY DEF CkptType
<1>. QED
  BY <1>1, <1>2, NoCkptType DEF CkptIs

\* A checkpoint at its next read-mark.
LEMMA ScanTo ==
  ASSUME ckpt \in CkptType, NEW m \in 0..MaxFrame, NEW i \in 0..NReader + 1,
         \/ ckpt' = [ckpt EXCEPT !.mxSafe = m, !.i = i]
         \/ ckpt' = [ckpt EXCEPT !.i = i, !.mxSafe = m]
  PROVE  CkptIs(ckpt.mode, m, i, ckpt.iter, ckpt.changed)
BY DEF CkptType, CkptIs

\* A checkpoint that has its iterator.
LEMMA IterTo ==
  ASSUME ckpt \in CkptType, NEW it \in [Page -> 0..MaxFrame],
         ckpt' = [ckpt EXCEPT !.iter = it]
  PROVE  CkptIs(ckpt.mode, ckpt.mxSafe, ckpt.i, it, ckpt.changed)
BY DEF CkptType, CkptIs

\* A checkpoint that has copied p.
LEMMA IterAt ==
  ASSUME ckpt \in CkptType, NEW p \in Page, ckpt' = [ckpt EXCEPT !.iter[p] = 0]
  PROVE  CkptIs(ckpt.mode, ckpt.mxSafe, ckpt.i,
                [ckpt.iter EXCEPT ![p] = 0], ckpt.changed)
<1>1. 0 \in 0..MaxFrame
  BY Bounds
<1>2. ckpt.iter \in [Page -> 0..MaxFrame]
  BY DEF CkptType
<1>3. ckpt' = [ckpt EXCEPT !.iter = [ckpt.iter EXCEPT ![p] = 0]]
  OBVIOUS
<1>. QED
  BY <1>1, <1>2, <1>3, IterTo

\* A header with another last frame and another salt.
LEMMA HdrWith ==
  ASSUME NEW h \in Hdr, NEW m \in 0..MaxFrame, NEW s \in 0..MaxSalt,
         NEW g, g = [h EXCEPT !.mx = m, !.salt = s]
  PROVE  g \in Hdr /\ g.mx = m /\ g.salt = s /\ g.tx = h.tx
BY DEF Hdr

\* walRestartHdr keeps the transaction and takes the next salt.
LEMMA HdrRestarted ==
  ASSUME TypeBase, NEW c \in Conn, RestartHeader(c)
  PROVE  /\ hdr'[c] \in Hdr /\ hdr'[c].mx = 0 /\ hdr'[c].salt = nSalt + 1
         /\ hdr'[c].tx = hdr[c].tx
<1>. DEFINE s == nSalt + 1
<1>1. s \in 0..MaxSalt /\ 0 \in 0..MaxFrame
  <2>1. nSalt < MaxSalt
    BY DEF RestartHeader
  <2>2. nSalt \in 0..MaxSalt
    BY DEF TypeBase, TypeShared
  <2>. QED
    BY <2>1, <2>2, Bounds
<1>2. hdr \in [Conn -> Hdr]
  BY DEF TypeBase
<1>3. hdr'[c] = [hdr[c] EXCEPT !.mx = 0, !.salt = s]
  BY <1>2 DEF RestartHeader
<1>4. hdr[c] \in Hdr
  BY <1>2
<1>. HIDE DEF s
<1>5. /\ hdr'[c] \in Hdr /\ hdr'[c].mx = 0 /\ hdr'[c].salt = s
      /\ hdr'[c].tx = hdr[c].tx
  BY <1>1, <1>3, <1>4 DEF Hdr
<1>. QED
  BY <1>5 DEF s

BeginReadDone(c) ==
  /\ pc[c] = "idle" /\ c \in Readers /\ HeaderGood
  /\ pc'[c] = "choose" /\ hdr'[c] = aHdr[0]
  /\ cached'[c] = IF aHdr[0] = hdr[c] THEN cached[c] ELSE 0
  /\ SameReads(c)
  /\ UNCHANGED <<shmVars, lockVars, fileVars, ckpt, txVars>>

\* A read transaction that takes the header: what the step does, and to whom.
LEMMA BeginReadEffect ==
  ASSUME TypeBase, NEW c \in Conn, BeginRead(c)
  PROVE  OnlyAt(c) /\ BeginReadDone(c)
BY DEF TypeBase, TypeShared, OnlyAt, SameReads, BeginReadDone, BeginRead

ChooseLogDone(c) ==
  /\ pc[c] = "choose"
  /\ pc'[c] = IF nBackfill = hdr[c].mx THEN "lock0" ELSE "mark"
  /\ hdr'[c] = hdr[c]
  /\ cached'[c] = cached[c]
  /\ SameReads(c)
  /\ UNCHANGED <<shmVars, lockVars, fileVars, ckpt, txVars>>

\* The choice between the database file and a read-mark: what the step does, and
\* to whom.
LEMMA ChooseLogEffect ==
  ASSUME TypeBase, NEW c \in Conn, ChooseLog(c)
  PROVE  OnlyAt(c) /\ ChooseLogDone(c)
BY DEF TypeBase, TypeShared, OnlyAt, SameReads, ChooseLogDone, ChooseLog

LockRead0Done(c) ==
  /\ pc[c] = "lock0"
  /\ \/ pc'[c] = "mark" /\ cached'[c] = cached[c] /\ readLock'[c] = readLock[c]
     \/ /\ ~Read0Exclusive /\ aHdr[0] = hdr[c]
        /\ readLock'[c] = 0
        /\ pc'[c] = IF writeLock = c THEN "write" ELSE "read"
        /\ cached'[c] = IF cached[c] = 0 THEN hdr[c].tx ELSE cached[c]
     \/ /\ pc'[c] = IF writeLock = c THEN "mark" ELSE "idle"
        /\ cached'[c] = cached[c] /\ readLock'[c] = readLock[c]
  /\ minFrame'[c] = minFrame[c] /\ pick'[c] = pick[c]
  /\ hdr'[c] = hdr[c]
  /\ UNCHANGED <<shmVars, lockVars, fileVars, ckpt, txVars>>

\* READ(0), for a reader of the database file alone: what the step does, and to
\* whom.
LEMMA LockRead0Effect ==
  ASSUME TypeBase, NEW c \in Conn, LockRead0(c)
  PROVE  OnlyAt(c) /\ LockRead0Done(c)
BY DEF TypeBase, TypeShared, OnlyAt, SameReads, LockRead0Done, LockRead0,
     Opened, Retry

\* A set of read-marks is finite.
LEMMA MarkSets ==
  ASSUME NEW S \in SUBSET Marks
  PROVE  IsFiniteSet(S) /\ S \subseteq Int
<1>1. IsFiniteSet(1..NReader)
  BY Bounds, FS_Interval
<1>2. S \in SUBSET (1..NReader)
  OBVIOUS
<1>3. IsFiniteSet(S)
  BY <1>1, <1>2, FS_Subset
<1>4. S \subseteq Int
  BY <1>2
<1>. QED
  BY <1>3, <1>4

\* The mark PickMark looks for exists.
LEMMA BestMark ==
  ASSUME NEW S \in SUBSET Marks, S # {}, aReadMark \in [Marks -> 0..NotUsed]
  PROVE  \E i \in S : \A j \in S : \/ aReadMark[j] < aReadMark[i]
                                   \/ aReadMark[j] = aReadMark[i] /\ j <= i
<1>. DEFINE V == {aReadMark[i] : i \in S}
            m == Max(V)
            T == {i \in S : aReadMark[i] = m}
<1>1. V \in SUBSET (0..NotUsed) /\ V # {}
  OBVIOUS
<1>2. IsFiniteSet(V) /\ V \subseteq Int
  <2>1. IsFiniteSet(0..NotUsed)
    BY Bounds, FS_Interval
  <2>. HIDE DEF V
  <2>2. IsFiniteSet(V)
    BY <1>1, <2>1, FS_Subset
  <2>3. V \subseteq Int
    BY <1>1
  <2>. QED
    BY <2>2, <2>3
<1>3. m \in V /\ \A y \in V : y <= m
  <2>. HIDE DEF V
  <2>. QED
    BY <1>1, <1>2, MaxIn
<1>4. T \in SUBSET Marks /\ T # {}
  BY <1>3
<1>5. IsFiniteSet(T) /\ T \subseteq Int
  BY <1>4, MarkSets
<1>6. Max(T) \in T /\ \A y \in T : y <= Max(T)
  <2>. HIDE DEF T
  <2>. QED
    BY <1>4, <1>5, MaxIn
<1>7. ASSUME NEW j \in S
      PROVE  \/ aReadMark[j] < aReadMark[Max(T)]
             \/ aReadMark[j] = aReadMark[Max(T)] /\ j <= Max(T)
  <2>1. aReadMark[Max(T)] = m /\ aReadMark[j] <= m
    BY <1>3, <1>6
  <2>2. aReadMark[j] = m => j <= Max(T)
    BY <1>6
  <2>3. aReadMark[j] \in Int /\ m \in Int
    <3>1. aReadMark[j] \in V
      OBVIOUS
    <3>. HIDE DEF V, m
    <3>. QED
      BY <1>2, <1>3, <3>1
  <2>. QED
    BY <2>1, <2>2, <2>3
<1>. QED
  BY <1>6, <1>7

PickMarkDone(c) ==
  /\ pc[c] = "mark"
  /\ \/ /\ pc'[c] = "lockMark" /\ pick'[c].i \in Marks
        /\ pick'[c].m \in 0..NotUsed /\ pick'[c].m <= hdr[c].mx
        /\ pick'[c] \in PickType
     \/ /\ pc'[c] = IF writeLock = c THEN "mark" ELSE "idle"
        /\ pick'[c] = pick[c]
  /\ aReadMark' \in [Marks -> 0..NotUsed]
  /\ \A i \in Marks : aReadMark'[i] = aReadMark[i] \/ MarkFree(i)
  /\ minFrame'[c] = minFrame[c] /\ readLock'[c] = readLock[c]
  /\ hdr'[c] = hdr[c]
  /\ cached'[c] = cached[c]
  /\ UNCHANGED <<aHdr, nBackfill, lockVars, fileVars, ckpt, txVars>>

\* The choice of a read-mark, or a new one: what the step does, and to whom.
LEMMA PickMarkEffect ==
  ASSUME TypeBase, NEW c \in Conn, PickMark(c)
  PROVE  OnlyAt(c) /\ PickMarkDone(c)
<1>. DEFINE usable == {i \in Marks : aReadMark[i] <= hdr[c].mx}
            best == CHOOSE i \in usable : \A j \in usable :
                      \/ aReadMark[j] < aReadMark[i]
                      \/ aReadMark[j] = aReadMark[i] /\ j <= i
            free == {i \in Marks : MarkFree(i)}
            To(i, m) == /\ pick' = [pick EXCEPT ![c] = [i |-> i, m |-> m]]
                        /\ pc' = [pc EXCEPT ![c] = "lockMark"]
                        /\ cached' = cached
<1>1. hdr[c].mx \in 0..MaxFrame
  BY DEF TypeBase, TypeShared, Hdr
<1>2. free # {} => Min(free) \in Marks /\ MarkFree(Min(free))
  <2>1. free \in SUBSET Marks
    OBVIOUS
  <2>2. free # {} => Min(free) \in free
    BY <2>1, MarkSets, MinIn
  <2>. QED
    BY <2>2
<1>3. usable # {} => best \in Marks /\ aReadMark[best] <= hdr[c].mx
  <2>1. usable \in SUBSET Marks /\ aReadMark \in [Marks -> 0..NotUsed]
    BY DEF TypeBase, TypeShared
  <2>2. ASSUME usable # {} PROVE best \in usable
    <3>1. \E i \in usable : \A j \in usable :
            \/ aReadMark[j] < aReadMark[i]
            \/ aReadMark[j] = aReadMark[i] /\ j <= i
      BY <2>1, <2>2, BestMark
    <3>. QED
      BY <3>1
  <2>. QED
    BY <2>2
<1>4. /\ pc[c] = "mark"
      /\ UNCHANGED <<aHdr, nBackfill, lockVars, fileVars, minFrame, readLock,
                     hdr, ckpt, txVars>>
      /\ \/ /\ free # {}
            /\ aReadMark' = [aReadMark EXCEPT ![Min(free)] = hdr[c].mx]
            /\ To(Min(free), hdr[c].mx)
         \/ /\ usable # {} /\ To(best, aReadMark[best])
            /\ UNCHANGED aReadMark
         \/ /\ pc' = [pc EXCEPT ![c] = IF writeLock = c THEN "mark" ELSE "idle"]
            /\ UNCHANGED <<aReadMark, pick, cached>>
  BY DEF PickMark, Retry
<1>5. aReadMark \in [Marks -> 0..NotUsed]
  BY DEF TypeBase, TypeShared
<1>6. aReadMark' \in [Marks -> 0..NotUsed]
  <2>. HIDE DEF free, usable, best, To
  <2>1. hdr[c].mx \in 0..NotUsed
    BY <1>1, Bounds
  <2>2. \/ aReadMark' = aReadMark
        \/ aReadMark' = [aReadMark EXCEPT ![Min(free)] = hdr[c].mx]
    BY <1>4
  <2>. QED
    BY <2>1, <2>2, <1>5
<1>7. \A i \in Marks : aReadMark'[i] = aReadMark[i] \/ MarkFree(i)
  BY <1>2, <1>4, <1>5
<1>8. ASSUME NEW i \in Marks, NEW m \in 0..NotUsed, m <= hdr[c].mx, To(i, m)
      PROVE  /\ pc'[c] = "lockMark" /\ pick'[c].i \in Marks
             /\ pick'[c].m \in 0..NotUsed /\ pick'[c].m <= hdr[c].mx
             /\ pick'[c] \in PickType
  BY <1>8, Bounds DEF TypeBase, PickType
<1>9. \/ \E i \in Marks, m \in 0..NotUsed : m <= hdr[c].mx /\ To(i, m)
      \/ /\ pc' = [pc EXCEPT ![c] = IF writeLock = c THEN "mark" ELSE "idle"]
         /\ UNCHANGED <<pick, cached>>
  <2>. HIDE DEF To
  <2>1. CASE free # {} /\ To(Min(free), hdr[c].mx)
    BY <1>1, <1>2, <2>1, Bounds
  <2>2. CASE usable # {} /\ To(best, aReadMark[best])
    BY <1>3, <1>5, <2>2
  <2>. QED
    BY <1>4, <2>1, <2>2
<1>10. OnlyAt(c)
  <2>1. /\ \E v : pc' = [pc EXCEPT ![c] = v]
        /\ \E v : pick' = [pick EXCEPT ![c] = v]
    BY <1>9 DEF TypeBase, TypeShared
  <2>. QED
    BY <1>4, <1>9, <2>1 DEF OnlyAt, TypeBase
<1>11. \/ /\ pc'[c] = "lockMark" /\ pick'[c].i \in Marks
          /\ pick'[c].m \in 0..NotUsed /\ pick'[c].m <= hdr[c].mx
          /\ pick'[c] \in PickType
       \/ /\ pc'[c] = IF writeLock = c THEN "mark" ELSE "idle"
          /\ pick'[c] = pick[c]
  <2>. HIDE DEF To
  <2>. QED
    BY <1>8, <1>9 DEF TypeBase, TypeShared
<1>. QED
  BY <1>4, <1>6, <1>7, <1>9, <1>10, <1>11 DEF TypeBase, TypeShared, PickMarkDone

LockMarkDone(c) ==
  /\ pc[c] = "lockMark"
  /\ \/ /\ pc'[c] = IF writeLock = c THEN "mark" ELSE "idle"
        /\ readLock'[c] = readLock[c]
     \/ /\ ~MarksExclusive /\ pc'[c] = "loadBackfill"
        /\ readLock'[c] = pick[c].i
  /\ minFrame'[c] = minFrame[c] /\ pick'[c] = pick[c]
  /\ hdr'[c] = hdr[c]
  /\ cached'[c] = cached[c]
  /\ UNCHANGED <<shmVars, lockVars, fileVars, ckpt, txVars>>

\* The lock on a read-mark: what the step does, and to whom.
LEMMA LockMarkEffect ==
  ASSUME TypeBase, NEW c \in Conn, LockMark(c)
  PROVE  OnlyAt(c) /\ LockMarkDone(c)
BY DEF TypeBase, TypeShared, OnlyAt, SameReads, LockMarkDone, LockMark, Retry

LoadBackfillDone(c) ==
  /\ pc[c] = "loadBackfill" /\ pc'[c] = "checkMark"
  /\ minFrame'[c] = nBackfill + 1
  /\ readLock'[c] = readLock[c] /\ pick'[c] = pick[c]
  /\ hdr'[c] = hdr[c]
  /\ cached'[c] = cached[c]
  /\ UNCHANGED <<shmVars, lockVars, fileVars, ckpt, txVars>>

\* The frames left to the database file: what the step does, and to whom.
LEMMA LoadBackfillEffect ==
  ASSUME TypeBase, NEW c \in Conn, LoadBackfill(c)
  PROVE  OnlyAt(c) /\ LoadBackfillDone(c)
BY DEF TypeBase, TypeShared, OnlyAt, SameReads, LoadBackfillDone, LoadBackfill

CheckMarkDone(c) ==
  /\ pc[c] = "checkMark" /\ pick'[c] = NoPick
  /\ \/ /\ aReadMark[pick[c].i] = pick[c].m /\ aHdr[0] = hdr[c]
        /\ readLock'[c] = readLock[c] /\ minFrame'[c] = minFrame[c]
        /\ pc'[c] = IF writeLock = c THEN "write" ELSE "read"
        /\ cached'[c] = IF cached[c] = 0 THEN hdr[c].tx ELSE cached[c]
     \/ /\ readLock'[c] = -1 /\ minFrame'[c] = 0
        /\ pc'[c] = IF writeLock = c THEN "mark" ELSE "idle"
        /\ cached'[c] = cached[c]
  /\ hdr'[c] = hdr[c]
  /\ UNCHANGED <<shmVars, lockVars, fileVars, ckpt, txVars>>

\* The second look at the read-mark and the header: what the step does, and to
\* whom.
LEMMA CheckMarkEffect ==
  ASSUME TypeBase, NEW c \in Conn, CheckMark(c)
  PROVE  OnlyAt(c) /\ CheckMarkDone(c)
BY DEF TypeBase, TypeShared, OnlyAt, SameReads, CheckMarkDone, CheckMark,
     Opened, Retry

EndReadDone(c) ==
  /\ pc[c] = "read" /\ pc'[c] = "idle"
  /\ readLock'[c] = -1 /\ minFrame'[c] = 0 /\ pick'[c] = pick[c]
  /\ hdr'[c] = hdr[c]
  /\ cached'[c] = cached[c]
  /\ UNCHANGED <<shmVars, lockVars, fileVars, ckpt, txVars>>

\* The end of a read transaction: what the step does, and to whom.
LEMMA EndReadEffect ==
  ASSUME TypeBase, NEW c \in Conn, EndRead(c)
  PROVE  OnlyAt(c) /\ EndReadDone(c)
BY DEF TypeBase, TypeShared, OnlyAt, SameReads, EndReadDone, EndRead

RecoverScanDone(c) ==
  /\ (pc[c] = "idle" /\ c \in Readers) \/ pc[c] = "ckHdr"
  /\ pc'[c] = "recover0" /\ ~HeaderGood /\ MayRecover(c)
  /\ writeLock' = c /\ ckptLock' = c
  /\ hdr'[c] = RecoveredHdr
  /\ aHdr' = [aHdr EXCEPT ![1] = RecoveredHdr]
  /\ IF pc[c] = "idle"
     THEN cached'[c] = 0 /\ ckpt' = ckpt
     ELSE /\ cached'[c] = cached[c]
          /\ CkptIs(ckpt.mode, ckpt.mxSafe, ckpt.i, ckpt.iter, TRUE)
  /\ SameReads(c)
  /\ UNCHANGED <<nBackfill, aReadMark, fileVars, txVars>>

\* A recovery that scans the log and writes copy 1: what the step does, and to
\* whom.
LEMMA RecoverScanEffect ==
  ASSUME TypeBase, NEW c \in Conn, RecoverScan(c)
  PROVE  OnlyAt(c) /\ RecoverScanDone(c)
BY ChangedTo DEF TypeBase, TypeShared, OnlyAt, SameReads, RecoverScanDone,
     RecoverScan

RecoverHdr0Done(c) ==
  /\ pc[c] = "recover0" /\ pc'[c] = "recoverInfo"
  /\ aHdr' = [aHdr EXCEPT ![0] = hdr[c]] /\ latest' = hdr[c].tx
  /\ hdr'[c] = hdr[c]
  /\ cached'[c] = cached[c]
  /\ SameReads(c)
  /\ UNCHANGED <<nBackfill, aReadMark, lockVars, fileVars, ckpt, spilled,
       image, nTx, nSalt>>

\* A recovery that publishes its header: what the step does, and to whom.
LEMMA RecoverHdr0Effect ==
  ASSUME TypeBase, NEW c \in Conn, RecoverHdr0(c)
  PROVE  OnlyAt(c) /\ RecoverHdr0Done(c)
BY DEF TypeBase, TypeShared, OnlyAt, SameReads, RecoverHdr0Done, RecoverHdr0

RecoverInfoDone(c) ==
  /\ pc[c] = "recoverInfo" /\ nBackfill' = 0
  /\ aReadMark' \in [Marks -> 0..NotUsed]
  /\ \A i \in Marks : aReadMark'[i] = aReadMark[i] \/ MarkFree(i)
  /\ \/ /\ Checkpointing(c) /\ pc'[c] = "ckTest" /\ ckptLock' = ckptLock
        /\ writeLock' = IF ckpt.mode = "PASSIVE" THEN NoConn ELSE c
     \/ /\ ~Checkpointing(c) /\ pc'[c] = "choose"
        /\ writeLock' = NoConn /\ ckptLock' = NoConn
  /\ hdr'[c] = hdr[c]
  /\ cached'[c] = cached[c]
  /\ SameReads(c)
  /\ UNCHANGED <<aHdr, fileVars, ckpt, txVars>>

\* A recovery that resets nBackfill and the free read-marks: what the step does,
\* and to whom.
LEMMA RecoverInfoEffect ==
  ASSUME TypeBase, NEW c \in Conn, RecoverInfo(c)
  PROVE  OnlyAt(c) /\ RecoverInfoDone(c)
<1>1. hdr[c].mx \in 0..MaxFrame
  BY DEF TypeBase, TypeShared, Hdr
<1>2. aReadMark' \in [Marks -> 0..NotUsed]
  <2>1. aReadMark \in [Marks -> 0..NotUsed]
    BY DEF TypeBase, TypeShared
  <2>2. hdr[c].mx \in 0..NotUsed /\ NotUsed \in 0..NotUsed
    BY <1>1, Bounds
  <2>. HIDE DEF NotUsed, Marks
  <2>. QED
    BY <2>1, <2>2 DEF RecoverInfo
<1>3. \A i \in Marks : aReadMark'[i] = aReadMark[i] \/ MarkFree(i)
  BY DEF RecoverInfo
<1>. QED
  BY <1>2, <1>3 DEF TypeBase, TypeShared, OnlyAt, SameReads, RecoverInfo,
                      RecoverInfoDone

BeginWriteDone(c) ==
  /\ pc[c] = "read" /\ pc'[c] = "write" /\ hdr[c] = aHdr[0]
  /\ writeLock = NoConn /\ nTx < MaxTx /\ writeLock' = c
  /\ hdr'[c] = hdr[c]
  /\ cached'[c] = cached[c]
  /\ SameReads(c)
  /\ UNCHANGED <<shmVars, ckptLock, fileVars, ckpt, txVars>>

\* A reader that becomes the writer: what the step does, and to whom.
LEMMA BeginWriteEffect ==
  ASSUME TypeBase, NEW c \in Conn, BeginWrite(c)
  PROVE  OnlyAt(c) /\ BeginWriteDone(c)
BY DEF TypeBase, TypeShared, OnlyAt, SameReads, BeginWriteDone, BeginWrite

RestartLogDone(c) ==
  /\ pc[c] = "write" /\ readLock[c] = 0
  /\ pc'[c] = "restart0" /\ AllMarksFree
  /\ nSalt < MaxSalt /\ nSalt' = nSalt + 1
  /\ hdr'[c] \in Hdr /\ hdr'[c].mx = 0 /\ hdr'[c].salt = nSalt + 1
  /\ hdr'[c].tx = hdr[c].tx
  /\ aHdr' = [aHdr EXCEPT ![1] = hdr'[c]]
  /\ cached'[c] = cached[c]
  /\ SameReads(c)
  /\ UNCHANGED <<nBackfill, aReadMark, lockVars, fileVars, ckpt, spilled,
       image, latest, nTx>>

\* A writer that starts the log again: what the step does, and to whom.
LEMMA RestartLogEffect ==
  ASSUME TypeBase, NEW c \in Conn, RestartLog(c)
  PROVE  OnlyAt(c) /\ RestartLogDone(c)
<1>1. RestartHeader(c)
  BY DEF RestartLog
<1>2. /\ hdr'[c] \in Hdr /\ hdr'[c].mx = 0 /\ hdr'[c].salt = nSalt + 1
      /\ hdr'[c].tx = hdr[c].tx
  BY <1>1, HdrRestarted
<1>3. aHdr' = [aHdr EXCEPT ![1] = hdr'[c]]
  BY <1>1 DEF RestartHeader, TypeBase
<1>4. OnlyAt(c)
  BY DEF TypeBase, OnlyAt, RestartHeader, RestartLog
<1>5. /\ UNCHANGED <<nBackfill, aReadMark, lockVars, fileVars, ckpt, spilled,
                     image, latest, nTx, readVars, cached>>
      /\ pc'[c] = "restart0" /\ AllMarksFree
      /\ nSalt < MaxSalt /\ nSalt' = nSalt + 1
  BY DEF TypeBase, RestartHeader, RestartLog
<1>. HIDE DEF shmVars, lockVars, fileVars, txVars
<1>. QED
  BY <1>2, <1>3, <1>4, <1>5 DEF SameReads, RestartLog, RestartLogDone

KeepLogDone(c) ==
  /\ pc[c] = "write" /\ readLock[c] = 0 /\ pc'[c] = "mark"
  /\ readLock'[c] = -1 /\ minFrame'[c] = minFrame[c] /\ pick'[c] = pick[c]
  /\ hdr'[c] = hdr[c]
  /\ cached'[c] = cached[c]
  /\ UNCHANGED <<shmVars, lockVars, fileVars, ckpt, txVars>>

\* A writer that cannot start the log again: what the step does, and to whom.
LEMMA KeepLogEffect ==
  ASSUME TypeBase, NEW c \in Conn, KeepLog(c)
  PROVE  OnlyAt(c) /\ KeepLogDone(c)
BY DEF TypeBase, TypeShared, OnlyAt, SameReads, KeepLogDone, KeepLog

RestartHdr0Done(c) ==
  /\ pc[c] = "restart0" /\ pc'[c] = "restartInfo"
  /\ (\E d \in Conn : pc[d] \in {"ckTest", "ckScan"}) => StaleCheckpoints
  /\ aHdr' = [aHdr EXCEPT ![0] = hdr[c]]
  /\ hdr'[c] = hdr[c]
  /\ cached'[c] = cached[c]
  /\ SameReads(c)
  /\ UNCHANGED <<nBackfill, aReadMark, lockVars, fileVars, ckpt, txVars>>

\* The header of the new log, published: what the step does, and to whom.
LEMMA RestartHdr0Effect ==
  ASSUME TypeBase, NEW c \in Conn, RestartHdr0(c)
  PROVE  OnlyAt(c) /\ RestartHdr0Done(c)
BY DEF TypeBase, TypeShared, OnlyAt, SameReads, RestartHdr0Done, RestartHdr0

RestartBackfillDone(c) ==
  /\ pc[c] = "restartInfo" /\ pc'[c] = "restartMarks"
  /\ nBackfill' = 0
  /\ hdr'[c] = hdr[c]
  /\ cached'[c] = cached[c]
  /\ SameReads(c)
  /\ UNCHANGED <<aHdr, aReadMark, lockVars, fileVars, ckpt, txVars>>

\* nBackfill of the new log: what the step does, and to whom.
LEMMA RestartBackfillEffect ==
  ASSUME TypeBase, NEW c \in Conn, RestartBackfill(c)
  PROVE  OnlyAt(c) /\ RestartBackfillDone(c)
BY DEF TypeBase, TypeShared, OnlyAt, SameReads, RestartBackfillDone,
     RestartBackfill

\* The read-marks of a new log.
LEMMA FreshMarksType == FreshMarks \in [Marks -> 0..NotUsed]
BY Bounds DEF FreshMarks

RestartMarksDone(c) ==
  /\ pc[c] = "restartMarks" /\ pc'[c] = "mark" /\ ~Checkpointing(c)
  /\ aReadMark' \in [Marks -> 0..NotUsed]
  /\ readLock'[c] = -1 /\ minFrame'[c] = minFrame[c] /\ pick'[c] = pick[c]
  /\ hdr'[c] = hdr[c]
  /\ cached'[c] = cached[c]
  /\ UNCHANGED <<aHdr, nBackfill, lockVars, fileVars, ckpt, txVars>>

\* The read-marks of the new log: what the step does, and to whom.
LEMMA RestartMarksEffect ==
  ASSUME TypeBase, NEW c \in Conn, RestartMarks(c)
  PROVE  OnlyAt(c) /\ RestartMarksDone(c)
BY FreshMarksType DEF TypeBase, TypeShared, OnlyAt, SameReads, RestartMarks,
   RestartMarksDone

Publish1Done(c) ==
  /\ pc[c] = "publish1" /\ pc'[c] = "publish0"
  /\ aHdr' = [aHdr EXCEPT ![1] = hdr[c]]
  /\ hdr'[c] = hdr[c]
  /\ cached'[c] = cached[c]
  /\ SameReads(c)
  /\ UNCHANGED <<nBackfill, aReadMark, lockVars, fileVars, ckpt, txVars>>

\* Copy 1 of the header of a commit: what the step does, and to whom.
LEMMA Publish1Effect ==
  ASSUME TypeBase, NEW c \in Conn, Publish1(c)
  PROVE  OnlyAt(c) /\ Publish1Done(c)
BY DEF TypeBase, TypeShared, OnlyAt, SameReads, Publish1Done, Publish1

Publish0Done(c) ==
  /\ pc[c] = "publish0" /\ pc'[c] = "read"
  /\ aHdr' = [aHdr EXCEPT ![0] = hdr[c]] /\ latest' = hdr[c].tx
  /\ writeLock' = NoConn
  /\ hdr'[c] = hdr[c]
  /\ cached'[c] = cached[c]
  /\ SameReads(c)
  /\ UNCHANGED <<nBackfill, aReadMark, ckptLock, fileVars, ckpt, spilled,
       image, nTx, nSalt>>

\* The header of a commit, published: what the step does, and to whom.
LEMMA Publish0Effect ==
  ASSUME TypeBase, NEW c \in Conn, Publish0(c)
  PROVE  OnlyAt(c) /\ Publish0Done(c)
BY DEF TypeBase, TypeShared, OnlyAt, SameReads, Publish0Done, Publish0

RollbackDone(c) ==
  /\ pc[c] = "write" /\ pc'[c] = "read" /\ hdr'[c] = aHdr[0]
  /\ spilled' = {} /\ writeLock' = NoConn
  /\ cached'[c] = cached[c]
  /\ SameReads(c)
  /\ UNCHANGED <<shmVars, ckptLock, fileVars, ckpt, image, latest, nTx,
       nSalt>>

\* The end of a write transaction that does not commit: what the step does, and
\* to whom.
LEMMA RollbackEffect ==
  ASSUME TypeBase, NEW c \in Conn, Rollback(c)
  PROVE  OnlyAt(c) /\ RollbackDone(c)
BY DEF TypeBase, TypeShared, OnlyAt, SameReads, RollbackDone, Rollback

CkptBeginDone(c, m) ==
  /\ pc[c] = "idle" /\ pc'[c] = "ckHdr"
  /\ ckptLock = NoConn /\ ckptLock' = c
  /\ \/ /\ CkptIs("PASSIVE", 0, 0, NoCkpt.iter, FALSE)
        /\ writeLock' = writeLock
     \/ /\ m # "PASSIVE" /\ CkptIs(m, 0, 0, NoCkpt.iter, FALSE)
        /\ writeLock = NoConn /\ writeLock' = c
  /\ hdr'[c] = hdr[c]
  /\ cached'[c] = cached[c]
  /\ SameReads(c)
  /\ UNCHANGED <<shmVars, fileVars, txVars>>

\* A checkpoint that takes its locks: what the step does, and to whom.
LEMMA CkptBeginEffect ==
  ASSUME TypeBase, NEW c \in Conn, NEW m \in Modes, CkptBegin(c, m)
  PROVE  OnlyAt(c) /\ CkptBeginDone(c, m)
BY BeginTo DEF TypeBase, TypeShared, OnlyAt, SameReads, CkptBeginDone,
     CkptBegin

CkptReadHdrDone(c) ==
  /\ pc[c] = "ckHdr"
  /\ \/ /\ pc'[c] = "ckTest" /\ HeaderGood
        /\ hdr'[c] = aHdr[0]
        /\ CkptIs(ckpt.mode, ckpt.mxSafe, ckpt.i, ckpt.iter, hdr[c] # aHdr[0])
        /\ UNCHANGED lockVars
     \/ /\ pc'[c] = "idle" /\ ckptLock' = NoConn /\ ckpt' = NoCkpt
        /\ writeLock' = IF ckpt.mode = "PASSIVE" THEN writeLock ELSE NoConn
        /\ hdr'[c] = IF ckpt.changed THEN ZeroHdr ELSE hdr[c]
  /\ cached'[c] = cached[c]
  /\ SameReads(c)
  /\ UNCHANGED <<shmVars, fileVars, txVars>>

\* A checkpoint that reads the header: what the step does, and to whom.
LEMMA CkptReadHdrEffect ==
  ASSUME TypeBase, NEW c \in Conn, CkptReadHdr(c)
  PROVE  OnlyAt(c) /\ CkptReadHdrDone(c)
BY ChangedTo DEF TypeBase, TypeShared, OnlyAt, SameReads, CkptReadHdrDone,
     CkptReadHdr, CkptEnd

CkptTestDone(c) ==
  /\ pc[c] = "ckTest"
  /\ \/ /\ pc'[c] = "ckScan" /\ nBackfill < hdr[c].mx
        /\ CkptIs(ckpt.mode, hdr[c].mx, 1, ckpt.iter, ckpt.changed)
     \/ /\ pc'[c] = "ckTail"
        /\ ckpt' = ckpt
  /\ hdr'[c] = hdr[c]
  /\ cached'[c] = cached[c]
  /\ SameReads(c)
  /\ UNCHANGED <<shmVars, lockVars, fileVars, txVars>>

\* A checkpoint that asks whether there is anything to copy: what the step does,
\* and to whom.
LEMMA CkptTestEffect ==
  ASSUME TypeBase, NEW c \in Conn, CkptTest(c)
  PROVE  OnlyAt(c) /\ CkptTestDone(c)
<1>1. ckpt \in CkptType /\ hdr[c].mx \in 0..MaxFrame /\ 1 \in 0..NReader + 1
  BY Bounds DEF TypeBase, TypeShared, Hdr
<1>2. CASE nBackfill < hdr[c].mx
  <2>1. ckpt' = [ckpt EXCEPT !.mxSafe = hdr[c].mx, !.i = 1]
    BY <1>2 DEF CkptTest
  <2>2. CkptIs(ckpt.mode, hdr[c].mx, 1, ckpt.iter, ckpt.changed)
    BY <1>1, <2>1, ScanTo
  <2>. QED
    BY <1>2, <2>2 DEF TypeBase, OnlyAt, SameReads, CkptTest, CkptTestDone
<1>3. CASE ~(nBackfill < hdr[c].mx)
  BY <1>3 DEF TypeBase, OnlyAt, SameReads, CkptTest, CkptTestDone
<1>. QED
  BY <1>2, <1>3

\* The lower of two numbers.
LEMMA MinTwo ==
  ASSUME NEW a \in Int, NEW b \in Int
  PROVE  Min({a, b}) \in {a, b} /\ Min({a, b}) <= a /\ Min({a, b}) <= b
<1>1. IsFiniteSet({a, b})
  <2>1. IsFiniteSet({a} \cup {b})
    BY FS_Singleton, FS_AddElement
  <2>2. {a} \cup {b} = {a, b}
    OBVIOUS
  <2>. QED
    BY <2>1, <2>2
<1>. QED
  BY <1>1, MinIn

CkptScanDone(c) ==
  /\ pc[c] = "ckScan" /\ pc'[c] = "ckScan" /\ ckpt.i <= NReader
  /\ aReadMark' \in [Marks -> 0..NotUsed]
  /\ \A i \in Marks : aReadMark'[i] = aReadMark[i] \/ MarkFree(i)
  /\ CkptIs(ckpt.mode, ckpt'.mxSafe, ckpt.i + 1, ckpt.iter, ckpt.changed)
  /\ ckpt'.mxSafe \in 0..ckpt.mxSafe
  /\ MarkFree(ckpt.i) \/ ckpt'.mxSafe <= aReadMark[ckpt.i]
  /\ hdr'[c] = hdr[c]
  /\ cached'[c] = cached[c]
  /\ SameReads(c)
  /\ UNCHANGED <<aHdr, nBackfill, lockVars, fileVars, txVars>>

\* A checkpoint at one read-mark: what the step does, and to whom.
LEMMA CkptScanEffect ==
  ASSUME TypeBase, NEW c \in Conn, CkptScan(c), ckpt.i > 0
  PROVE  OnlyAt(c) /\ CkptScanDone(c)
<1>. DEFINE i == ckpt.i
            y == aReadMark[i]
            lift == ckpt.mxSafe > y /\ MarkFree(i)
<1>1. i \in Marks /\ y \in 0..NotUsed /\ ckpt.mxSafe \in 0..MaxFrame
  <2>1. ckpt.i \in 0..NReader + 1 /\ ckpt.mxSafe \in 0..MaxFrame
    BY DEF TypeBase, TypeShared, CkptType
  <2>2. i \in Marks
    BY <2>1, Bounds DEF CkptScan
  <2>3. y \in 0..NotUsed
    BY <2>2 DEF TypeBase, TypeShared
  <2>. QED
    BY <2>1, <2>2, <2>3
<1>2. /\ aReadMark' = [aReadMark EXCEPT ![i] =
                         IF ~lift THEN @
                         ELSE IF i = 1 THEN ckpt.mxSafe ELSE NotUsed]
      /\ ckpt' = [ckpt EXCEPT !.i = i + 1, !.mxSafe =
                    IF lift THEN ckpt.mxSafe ELSE Min({ckpt.mxSafe, y})]
  BY DEF CkptScan
<1>3. aReadMark' \in [Marks -> 0..NotUsed]
  <2>1. ckpt.mxSafe \in 0..NotUsed /\ NotUsed \in 0..NotUsed
    BY <1>1, Bounds
  <2>2. aReadMark \in [Marks -> 0..NotUsed]
    BY DEF TypeBase, TypeShared
  <2>. HIDE DEF i, y, NotUsed, Marks
  <2>. QED
    BY <1>1, <1>2, <2>1, <2>2
<1>4. \A j \in Marks : aReadMark'[j] = aReadMark[j] \/ MarkFree(j)
  BY <1>2 DEF TypeBase, TypeShared
<1>6. /\ Min({ckpt.mxSafe, y}) \in 0..ckpt.mxSafe
      /\ Min({ckpt.mxSafe, y}) <= y
  <2>. HIDE DEF y
  <2>1. y \in Int /\ ckpt.mxSafe \in Int /\ y >= 0 /\ ckpt.mxSafe >= 0
    BY <1>1, Bounds
  <2>2. /\ Min({ckpt.mxSafe, y}) \in {ckpt.mxSafe, y}
        /\ Min({ckpt.mxSafe, y}) <= ckpt.mxSafe /\ Min({ckpt.mxSafe, y}) <= y
    BY <2>1, MinTwo
  <2>. QED
    BY <2>1, <2>2
<1>. DEFINE m == IF lift THEN ckpt.mxSafe ELSE Min({ckpt.mxSafe, y})
<1>7. m \in 0..MaxFrame /\ m \in 0..ckpt.mxSafe /\ (MarkFree(i) \/ m <= y)
  <2>1. ASSUME lift PROVE m = ckpt.mxSafe /\ MarkFree(i)
    BY <2>1
  <2>2. ASSUME ~lift PROVE m = Min({ckpt.mxSafe, y})
    BY <2>2
  <2>. HIDE DEF m, y, i
  <2>3. CASE lift
    BY <1>1, <2>1, <2>3
  <2>4. CASE ~lift
    <3>1. m \in 0..ckpt.mxSafe /\ m <= y
      BY <1>6, <2>2, <2>4
    <3>2. m \in 0..MaxFrame
      BY <1>1, <3>1, Bounds
    <3>. QED
      BY <3>1, <3>2
  <2>. QED
    BY <2>3, <2>4
<1>8. CkptIs(ckpt.mode, m, i + 1, ckpt.iter, ckpt.changed)
  <2>1. ckpt \in CkptType
    BY DEF TypeBase, TypeShared
  <2>3. i + 1 \in 0..NReader + 1
    <3>. HIDE DEF i
    <3>. QED
      BY <1>1, Bounds
  <2>2. ckpt' = [ckpt EXCEPT !.i = i + 1, !.mxSafe = m]
    BY <1>2
  <2>. HIDE DEF m, i
  <2>. QED
    BY <1>7, <2>1, <2>2, <2>3, ScanTo
<1>9. ckpt'.mxSafe = m
  BY <1>8 DEF CkptIs
<1>. HIDE DEF m
<1>10. OnlyAt(c) /\ SameReads(c)
  BY DEF TypeBase, OnlyAt, SameReads, CkptScan
<1>. QED
  BY <1>3, <1>4, <1>7, <1>8, <1>9, <1>10 DEF TypeBase, CkptScan, CkptScanDone

\* The frames of a page are a finite set.
LEMMA FramesOfFinite ==
  ASSUME NEW p, NEW lo \in Nat, NEW hi \in Nat
  PROVE  IsFiniteSet(FramesOf(p, lo, hi)) /\ FramesOf(p, lo, hi) \subseteq Int
<1>1. IsFiniteSet(lo..hi)
  BY FS_Interval
<1>2. FramesOf(p, lo, hi) \in SUBSET (lo..hi)
  BY DEF FramesOf
<1>. QED
  BY <1>1, <1>2, FS_Subset

\* The last frame of p among lo..hi.
LEMMA LastFrame ==
  ASSUME NEW p, NEW lo \in Nat, NEW hi \in Nat, FramesOf(p, lo, hi) # {}
  PROVE  /\ Max(FramesOf(p, lo, hi)) \in FramesOf(p, lo, hi)
         /\ \A f \in FramesOf(p, lo, hi) : f <= Max(FramesOf(p, lo, hi))
BY FramesOfFinite, MaxIn

\* The iterator gives a frame or 0 for each page.
LEMMA IteratorType ==
  ASSUME TypeBase, NEW c \in Conn
  PROVE  Iterator(c) \in [Page -> 0..MaxFrame]
<1>1. hdr[c].mx \in 0..MaxFrame
  BY DEF TypeBase, TypeShared, Hdr
<1>2. ASSUME NEW p \in Page, FramesOf(p, 1, hdr[c].mx) # {}
      PROVE  Max(FramesOf(p, 1, hdr[c].mx)) \in 0..MaxFrame
  <2>1. Max(FramesOf(p, 1, hdr[c].mx)) \in FramesOf(p, 1, hdr[c].mx)
    BY <1>1, <1>2, LastFrame
  <2>2. Max(FramesOf(p, 1, hdr[c].mx)) \in 1..hdr[c].mx
    BY <2>1 DEF FramesOf
  <2>. QED
    BY <1>1, <2>2, Bounds
<1>. QED
  BY <1>1, <1>2, Bounds DEF Iterator

CkptStartDone(c) ==
  /\ pc[c] = "ckScan" /\ ckpt.i > NReader
  /\ \/ /\ pc'[c] = "ckCopy" /\ Shared(0) = {} /\ nBackfill < ckpt.mxSafe
        /\ CkptIs(ckpt.mode, ckpt.mxSafe, ckpt.i, ckpt'.iter, ckpt.changed)
        /\ ckpt'.iter \in [Page -> 0..MaxFrame]
        /\ \A p \in Page :
             ckpt'.iter[p] = IF Iterator(c)[p] \in (nBackfill + 1)..ckpt.mxSafe
                             THEN Iterator(c)[p] ELSE 0
     \/ /\ pc'[c] = "ckTail"
        /\ ckpt' = ckpt
  /\ hdr'[c] = hdr[c]
  /\ cached'[c] = cached[c]
  /\ SameReads(c)
  /\ UNCHANGED <<shmVars, lockVars, fileVars, txVars>>

\* A checkpoint that takes READ(0) and starts to copy: what the step does, and
\* to whom.
LEMMA CkptStartEffect ==
  ASSUME TypeBase, NEW c \in Conn, CkptStart(c)
  PROVE  OnlyAt(c) /\ CkptStartDone(c)
<1>. HIDE DEF shmVars, lockVars, fileVars, txVars
<1>1. Iterator(c) \in [Page -> 0..MaxFrame]
  BY IteratorType
<1>. DEFINE it == [p \in Page |->
                     IF Iterator(c)[p] \in (nBackfill + 1)..ckpt.mxSafe
                     THEN Iterator(c)[p] ELSE 0]
<1>2. it \in [Page -> 0..MaxFrame]
  BY <1>1, Bounds
<1>3. /\ pc[c] = "ckScan" /\ ckpt.i > NReader
      /\ \/ /\ Shared(0) = {} /\ nBackfill < ckpt.mxSafe
            /\ ckpt' = [ckpt EXCEPT !.iter = it]
            /\ pc' = [pc EXCEPT ![c] = "ckCopy"]
         \/ ckpt' = ckpt /\ pc' = [pc EXCEPT ![c] = "ckTail"]
      /\ UNCHANGED <<shmVars, lockVars, fileVars, readVars, hdr, cached,
                     txVars>>
  BY DEF CkptStart
<1>4. ckpt' = [ckpt EXCEPT !.iter = it] =>
        CkptIs(ckpt.mode, ckpt.mxSafe, ckpt.i, it, ckpt.changed)
  <2>1. ckpt \in CkptType
    BY DEF TypeBase, TypeShared
  <2>. HIDE DEF it
  <2>. QED
    BY <1>2, <2>1, IterTo
<1>. HIDE DEF it
<1>5. OnlyAt(c) /\ SameReads(c)
  BY <1>3 DEF TypeBase, TypeShared, OnlyAt, SameReads
<1>6. \/ /\ pc'[c] = "ckCopy" /\ Shared(0) = {} /\ nBackfill < ckpt.mxSafe
         /\ CkptIs(ckpt.mode, ckpt.mxSafe, ckpt.i, ckpt'.iter, ckpt.changed)
         /\ ckpt'.iter = it
      \/ pc'[c] = "ckTail" /\ ckpt' = ckpt
  BY <1>3, <1>4 DEF TypeBase, CkptIs
<1>7. \A p \in Page : it[p] = IF Iterator(c)[p] \in (nBackfill + 1)..ckpt.mxSafe
                              THEN Iterator(c)[p] ELSE 0
  BY DEF it
<1>8. hdr'[c] = hdr[c] /\ cached'[c] = cached[c]
  BY <1>3
<1>. QED
  BY <1>2, <1>3, <1>5, <1>6, <1>7, <1>8 DEF CkptStartDone

CkptCopyDone(c) ==
  /\ pc[c] = "ckCopy" /\ pc'[c] = "ckCopy"
  /\ \E p \in Page : /\ ckpt.iter[p] # 0
           /\ db' = [db EXCEPT ![p] = wal[ckpt.iter[p]].tx]
           /\ CkptIs(ckpt.mode, ckpt.mxSafe, ckpt.i,
                   [ckpt.iter EXCEPT ![p] = 0], ckpt.changed)
  /\ hdr'[c] = hdr[c]
  /\ cached'[c] = cached[c]
  /\ SameReads(c)
  /\ UNCHANGED <<shmVars, lockVars, wal, walSalt, txVars>>

\* A page copied to the database file: what the step does, and to whom.
LEMMA CkptCopyEffect ==
  ASSUME TypeBase, NEW c \in Conn, CkptCopy(c)
  PROVE  OnlyAt(c) /\ CkptCopyDone(c)
<1>. DEFINE p == Min(CkptPending)
<1>1. CkptPending \in SUBSET Page /\ CkptPending # {}
  BY DEF CkptPending, CkptCopy
<1>2. IsFiniteSet(CkptPending) /\ CkptPending \subseteq Int
  <2>1. IsFiniteSet(CkptPending)
    BY <1>1, PageFacts, FS_Subset
  <2>. QED
    BY <1>1, <2>1, PageFacts
<1>3. p \in Page /\ ckpt.iter[p] # 0
  <2>1. p \in CkptPending
    BY <1>1, <1>2, MinIn
  <2>. QED
    BY <2>1 DEF CkptPending
<1>4. /\ db' = [db EXCEPT ![p] = wal[ckpt.iter[p]].tx]
      /\ ckpt' = [ckpt EXCEPT !.iter[p] = 0]
  BY DEF CkptCopy
<1>. HIDE DEF p
<1>5. CkptIs(ckpt.mode, ckpt.mxSafe, ckpt.i, [ckpt.iter EXCEPT ![p] = 0],
             ckpt.changed)
  BY <1>3, <1>4, IterAt DEF TypeBase, TypeShared
<1>. QED
  BY <1>3, <1>4, <1>5 DEF TypeBase, TypeShared, OnlyAt, SameReads, CkptCopy,
                    CkptCopyDone

CkptFinishDone(c) ==
  /\ pc[c] = "ckCopy" /\ pc'[c] = "ckTail"
  /\ (\A p \in Page : ckpt.iter[p] = 0) /\ nBackfill' = ckpt.mxSafe
  /\ hdr'[c] = hdr[c]
  /\ cached'[c] = cached[c]
  /\ SameReads(c)
  /\ UNCHANGED <<aHdr, aReadMark, lockVars, fileVars, ckpt, txVars>>

\* The pages copied, noted in nBackfill: what the step does, and to whom.
LEMMA CkptFinishEffect ==
  ASSUME TypeBase, NEW c \in Conn, CkptFinish(c)
  PROVE  OnlyAt(c) /\ CkptFinishDone(c)
BY DEF TypeBase, TypeShared, OnlyAt, SameReads, CkptFinishDone, CkptFinish,
     CkptPending

CkptInterruptDone(c) ==
  /\ pc[c] = "ckCopy"
  /\ pc'[c] = "idle" /\ ckptLock' = NoConn /\ ckpt' = NoCkpt
  /\ writeLock' = IF ckpt.mode = "PASSIVE" THEN writeLock ELSE NoConn
  /\ hdr'[c] = IF ckpt.changed THEN ZeroHdr ELSE hdr[c]
  /\ cached'[c] = cached[c]
  /\ SameReads(c)
  /\ UNCHANGED <<shmVars, fileVars, txVars>>

\* A checkpoint that is interrupted: what the step does, and to whom.
LEMMA CkptInterruptEffect ==
  ASSUME TypeBase, NEW c \in Conn, CkptInterrupt(c)
  PROVE  OnlyAt(c) /\ CkptInterruptDone(c)
BY DEF TypeBase, TypeShared, OnlyAt, SameReads, CkptInterruptDone,
     CkptInterrupt, CkptEnd

CkptRestartDone(c) ==
  /\ pc[c] = "ckTail" /\ ckpt.mode = "TRUNCATE" /\ nBackfill >= hdr[c].mx
  /\ pc'[c] = "restart0" /\ AllMarksFree
  /\ nSalt < MaxSalt /\ nSalt' = nSalt + 1
  /\ hdr'[c] \in Hdr /\ hdr'[c].mx = 0 /\ hdr'[c].salt = nSalt + 1
  /\ hdr'[c].tx = hdr[c].tx
  /\ aHdr' = [aHdr EXCEPT ![1] = hdr'[c]]
  /\ cached'[c] = cached[c]
  /\ SameReads(c)
  /\ UNCHANGED <<nBackfill, aReadMark, lockVars, fileVars, ckpt, spilled,
       image, latest, nTx>>

\* A checkpoint that starts the log again: what the step does, and to whom.
LEMMA CkptRestartEffect ==
  ASSUME TypeBase, NEW c \in Conn, CkptRestart(c)
  PROVE  OnlyAt(c) /\ CkptRestartDone(c)
<1>1. RestartHeader(c)
  BY DEF CkptRestart
<1>2. /\ hdr'[c] \in Hdr /\ hdr'[c].mx = 0 /\ hdr'[c].salt = nSalt + 1
      /\ hdr'[c].tx = hdr[c].tx
  BY <1>1, HdrRestarted
<1>3. aHdr' = [aHdr EXCEPT ![1] = hdr'[c]]
  BY <1>1 DEF RestartHeader, TypeBase
<1>4. OnlyAt(c)
  BY DEF TypeBase, OnlyAt, RestartHeader, CkptRestart
<1>5. /\ UNCHANGED <<nBackfill, aReadMark, lockVars, fileVars, ckpt, spilled,
                     image, latest, nTx, readVars, cached>>
      /\ pc'[c] = "restart0" /\ AllMarksFree
      /\ nSalt < MaxSalt /\ nSalt' = nSalt + 1
  BY DEF TypeBase, RestartHeader, CkptRestart
<1>. HIDE DEF shmVars, lockVars, fileVars, txVars
<1>. QED
  BY <1>2, <1>3, <1>4, <1>5 DEF SameReads, CkptRestart, CkptRestartDone

CkptTruncateDone(c) ==
  /\ pc[c] = "restartMarks" /\ Checkpointing(c)
  /\ aReadMark' \in [Marks -> 0..NotUsed]
  /\ wal' = [f \in 1..MaxFrame |-> NoFrame] /\ walSalt' = 0
  /\ pc'[c] = "idle" /\ ckptLock' = NoConn /\ ckpt' = NoCkpt
  /\ writeLock' = IF ckpt.mode = "PASSIVE" THEN writeLock ELSE NoConn
  /\ hdr'[c] = IF ckpt.changed THEN ZeroHdr ELSE hdr[c]
  /\ cached'[c] = cached[c]
  /\ SameReads(c)
  /\ UNCHANGED <<aHdr, nBackfill, db, txVars>>

\* A checkpoint that truncates the log: what the step does, and to whom.
LEMMA CkptTruncateEffect ==
  ASSUME TypeBase, NEW c \in Conn, CkptTruncate(c)
  PROVE  OnlyAt(c) /\ CkptTruncateDone(c)
BY FreshMarksType
   DEF TypeBase, TypeShared, OnlyAt, SameReads, CkptTruncate, CkptEnd,
       CkptTruncateDone

CkptReturnDone(c) ==
  /\ pc[c] = "ckTail"
  /\ pc'[c] = "idle" /\ ckptLock' = NoConn /\ ckpt' = NoCkpt
  /\ writeLock' = IF ckpt.mode = "PASSIVE" THEN writeLock ELSE NoConn
  /\ hdr'[c] = IF ckpt.changed THEN ZeroHdr ELSE hdr[c]
  /\ cached'[c] = cached[c]
  /\ SameReads(c)
  /\ UNCHANGED <<shmVars, fileVars, txVars>>

\* The end of a checkpoint: what the step does, and to whom.
LEMMA CkptReturnEffect ==
  ASSUME TypeBase, NEW c \in Conn, CkptReturn(c)
  PROVE  OnlyAt(c) /\ CkptReturnDone(c)
BY DEF TypeBase, TypeShared, OnlyAt, SameReads, CkptReturnDone, CkptReturn,
     CkptEnd

DieDone(c) ==
  /\ pc[c] \in DeathPcs /\ pc'[c] = "idle"
  /\ hdr'[c] = ZeroHdr /\ cached'[c] = 0
  /\ minFrame'[c] = 0 /\ readLock'[c] = -1 /\ pick'[c] = NoPick
  /\ writeLock' = IF writeLock = c THEN NoConn ELSE writeLock
  /\ ckptLock' = IF ckptLock = c THEN NoConn ELSE ckptLock
  /\ spilled' = IF writeLock = c THEN {} ELSE spilled
  /\ ckpt' = IF ckptLock = c THEN NoCkpt ELSE ckpt
  /\ UNCHANGED <<shmVars, fileVars, image, latest, nTx, nSalt>>

\* The death of a process: what the step does, and to whom.
LEMMA DieEffect ==
  ASSUME TypeBase, NEW c \in Conn, Die(c)
  PROVE  OnlyAt(c) /\ DieDone(c)
BY DEF TypeBase, TypeShared, OnlyAt, SameReads, DieDone, Die

\* The frames walFrames has written: mx + 1 to last, for the pages of W that
\* are not in the log yet.
FramesDone(c, W, isCommit, salt, last, tx) ==
  /\ last \in (hdr[c].mx + 1)..MaxFrame
  /\ tx = IF spilled = {} THEN nTx + 1 ELSE nTx
  /\ nTx' = tx /\ walSalt' = salt
  /\ hdr[c].mx > 0 => salt = hdr[c].salt
  /\ \A f \in 1..MaxFrame :
       f \notin (hdr[c].mx + 1)..last => wal'[f] = wal[f]
  /\ \A f \in (hdr[c].mx + 1)..last :
       /\ wal'[f].pg \in W /\ wal'[f].tx = tx /\ wal'[f].salt = salt
       /\ wal'[f].commit = (isCommit /\ f = last)
       /\ wal'[f].prev = IF f = 1 THEN 0
                         ELSE IF f = hdr[c].mx + 1 THEN wal[hdr[c].mx].tx
                         ELSE tx
  /\ \A p \in W \ spilled : \E f \in (hdr[c].mx + 1)..last : wal'[f].pg = p
  /\ IF isCommit
     THEN /\ hdr'[c] = [mx |-> last, salt |-> salt, tx |-> tx]
          /\ image' = [image EXCEPT ![tx] =
                         [p \in Page |-> IF p \in W \cup spilled THEN tx
                                         ELSE image[hdr[c].tx][p]]]
          /\ cached'[c] = tx /\ spilled' = {} /\ pc'[c] = "publish1"
     ELSE /\ hdr'[c] \in Hdr /\ hdr'[c].mx = last
          /\ hdr'[c].salt = salt /\ hdr'[c].tx = hdr[c].tx
          /\ image' = image /\ cached'[c] = cached[c]
          /\ spilled' = spilled \cup W /\ pc'[c] = "write"

\* Frames written to the log: what the step does, and to whom.
LEMMA WalFramesEffect ==
  ASSUME TypeBase, NEW c \in Conn, NEW W \in SUBSET Page, W # {},
         NEW isCommit \in BOOLEAN, NEW salt \in 1..MaxSalt,
         WalFrames(c, W, isCommit, salt), spilled # {} \/ nTx < MaxTx
  PROVE  /\ OnlyAt(c) /\ SameReads(c)
         /\ pc[c] = "write" /\ readLock[c] > 0
         /\ wal' \in [1..MaxFrame -> FrameType]
         /\ nSalt' \in 0..MaxSalt
         /\ \E last \in 1..MaxFrame, tx \in 1..MaxTx :
              FramesDone(c, W, isCommit, salt, last, tx)
         /\ UNCHANGED <<shmVars, lockVars, db, ckpt, latest>>
<1>. DEFINE mx == hdr[c].mx
            append == IF isCommit THEN (W \ spilled) \cup {Max(W)}
                      ELSE W \ spilled
            n == Cardinality(append)
            last == mx + n
            tx == IF spilled = {} THEN nTx + 1 ELSE nTx
            Nth(k) == CHOOSE p \in append : Rank(append, p) = k
            Frame(f) == [pg |-> Nth(f - mx), tx |-> tx, salt |-> salt,
                         commit |-> isCommit /\ f = last,
                         prev |-> IF f = 1 THEN 0
                                  ELSE IF f = mx + 1 THEN wal[mx].tx ELSE tx]
<1>1. /\ pc[c] = "write" /\ readLock[c] > 0
      /\ append # {} /\ last <= MaxFrame /\ salt \in SaltChoice(c)
      /\ wal' = [f \in 1..MaxFrame |->
                   IF f \in (mx + 1)..last THEN Frame(f) ELSE wal[f]]
      /\ walSalt' = salt /\ nSalt' = Max({nSalt, salt}) /\ nTx' = tx
      /\ IF isCommit
         THEN /\ hdr' = [hdr EXCEPT ![c] =
                           [mx |-> last, salt |-> salt, tx |-> tx]]
              /\ image' = [image EXCEPT ![tx] =
                             [p \in Page |-> IF p \in W \cup spilled THEN tx
                                             ELSE image[hdr[c].tx][p]]]
              /\ cached' = [cached EXCEPT ![c] = tx]
              /\ spilled' = {}
              /\ Goto(c, "publish1")
         ELSE /\ hdr' = [hdr EXCEPT ![c].mx = last, ![c].salt = salt]
              /\ spilled' = spilled \cup W
              /\ UNCHANGED <<image, cached, pc>>
      /\ UNCHANGED <<shmVars, lockVars, db, readVars, ckpt, latest>>
  BY DEF WalFrames, Rank
<1>2. IsFiniteSet(W) /\ W \subseteq Int
  <2>1. IsFiniteSet(W)
    BY PageFacts, FS_Subset
  <2>. QED
    BY <2>1, PageFacts
<1>3. Max(W) \in W
  BY <1>2, MaxIn
<1>4. append \in SUBSET W
  BY <1>3
<1>5. IsFiniteSet(append) /\ append \subseteq Int
  <2>. HIDE DEF append
  <2>1. IsFiniteSet(append)
    BY <1>2, <1>4, FS_Subset
  <2>. QED
    BY <1>2, <1>4, <2>1
<1>6. n \in Nat \ {0}
  <2>. HIDE DEF append
  <2>. QED
    BY <1>1, <1>5, FS_CardinalityType, FS_EmptySet
<1>7. mx \in 0..MaxFrame /\ last \in (mx + 1)..MaxFrame /\ last \in 1..MaxFrame
  <2>1. mx \in 0..MaxFrame
    BY DEF TypeBase, TypeShared, Hdr
  <2>. HIDE DEF n, mx
  <2>. QED
    BY <1>1, <1>6, <2>1, Bounds
<1>8. tx \in 1..MaxTx
  BY Bounds DEF TypeBase, TypeShared
<1>9. ASSUME NEW k \in 1..n
      PROVE  Nth(k) \in append /\ Rank(append, Nth(k)) = k
  <2>. HIDE DEF append
  <2>1. \E p \in append : Rank(append, p) = k
    BY <1>5, RankOnto
  <2>. QED
    BY <2>1
<1>10. ASSUME NEW p \in append PROVE \E k \in 1..n : Nth(k) = p
  <2>. HIDE DEF append
  <2>1. Rank(append, p) \in 1..n
    BY <1>5, RankInRange
  <2>2. /\ Nth(Rank(append, p)) \in append
        /\ Rank(append, Nth(Rank(append, p))) = Rank(append, p)
    BY <1>9, <2>1
  <2>3. Nth(Rank(append, p)) = p
    BY <1>5, <2>2, RankInjective
  <2>. QED
    BY <2>1, <2>3
<1>. HIDE DEF append, n, Nth
<1>11. mx > 0 => salt = hdr[c].salt
  BY <1>1 DEF SaltChoice
<1>12. nSalt' \in 0..MaxSalt
  <2>1. nSalt \in 0..MaxSalt
    BY DEF TypeBase, TypeShared
  <2>2. IsFiniteSet({nSalt, salt})
    <3>1. IsFiniteSet({nSalt} \cup {salt})
      BY FS_Singleton, FS_AddElement
    <3>2. {nSalt} \cup {salt} = {nSalt, salt}
      OBVIOUS
    <3>. QED
      BY <3>1, <3>2
  <2>3. {nSalt, salt} \subseteq Int /\ {nSalt, salt} # {}
    BY <2>1, Bounds
  <2>4. Max({nSalt, salt}) \in {nSalt, salt}
    BY <2>2, <2>3, MaxIn
  <2>. QED
    BY <1>1, <2>1, <2>4, Bounds
<1>13. \A f \in (mx + 1)..last : f - mx \in 1..n /\ Nth(f - mx) \in W
  BY <1>4, <1>6, <1>7, <1>9
<1>14. ASSUME NEW p \in append
       PROVE  \E f \in (mx + 1)..last : Nth(f - mx) = p
  <2>1. PICK k \in 1..n : Nth(k) = p
    BY <1>10
  <2>2. mx + k \in (mx + 1)..last /\ (mx + k) - mx = k
    BY <1>6, <1>7
  <2>. QED
    BY <2>1, <2>2
<1>15. ASSUME NEW f \in (mx + 1)..last
       PROVE  /\ wal'[f] = Frame(f) /\ wal'[f].pg = Nth(f - mx)
              /\ wal'[f].tx = tx /\ wal'[f].salt = salt
              /\ wal'[f].commit = (isCommit /\ f = last)
              /\ wal'[f].prev = IF f = 1 THEN 0
                                ELSE IF f = mx + 1 THEN wal[mx].tx ELSE tx
  <2>1. f \in 1..MaxFrame
    <3>. HIDE DEF last, mx
    <3>. QED
      BY <1>7, Bounds
  <2>2. wal'[f] = Frame(f)
    <3>. HIDE DEF Frame, last
    <3>. QED
      BY <1>1, <2>1
  <2>. QED
    BY <2>2
<1>16. ASSUME NEW f \in (mx + 1)..last
       PROVE  Frame(f) \in FrameType
  <2>1. Nth(f - mx) \in Page
    BY <1>13
  <2>2. tx \in 0..MaxTx /\ salt \in 0..MaxSalt
    BY <1>8, Bounds
  <2>3. f # 1 /\ f = mx + 1 => wal[mx].tx \in 0..MaxTx
    <3>1. f # 1 /\ f = mx + 1 => mx \in 1..MaxFrame
      BY <1>7, Bounds
    <3>. QED
      BY <3>1 DEF TypeBase, TypeShared, FrameType
  <2>. HIDE DEF tx, last, mx
  <2>. QED
    BY <2>1, <2>2, <2>3, Bounds DEF FrameType
<1>17. wal' \in [1..MaxFrame -> FrameType]
  <2>1. \A f \in 1..MaxFrame : wal[f] \in FrameType
    BY DEF TypeBase, TypeShared
  <2>. HIDE DEF Frame
  <2>. QED
    BY <1>1, <1>16, <2>1
<1>18. \A p \in W \ spilled : p \in append
  BY DEF append
<1>19. OnlyAt(c) /\ SameReads(c)
  <2>1. pc' = [pc EXCEPT ![c] = pc'[c]] /\ hdr' = [hdr EXCEPT ![c] = hdr'[c]]
    BY <1>1 DEF TypeBase, TypeShared
  <2>2. cached' = [cached EXCEPT ![c] = cached'[c]]
    BY <1>1 DEF TypeBase, TypeShared
  <2>. QED
    BY <1>1, <2>1, <2>2 DEF TypeBase, TypeShared, OnlyAt, SameReads
<1>20. IF isCommit
       THEN /\ hdr'[c] = [mx |-> last, salt |-> salt, tx |-> tx]
            /\ image' = [image EXCEPT ![tx] =
                           [p \in Page |-> IF p \in W \cup spilled THEN tx
                                           ELSE image[hdr[c].tx][p]]]
            /\ cached'[c] = tx /\ spilled' = {} /\ pc'[c] = "publish1"
       ELSE /\ hdr'[c] \in Hdr /\ hdr'[c].mx = last
          /\ hdr'[c].salt = salt /\ hdr'[c].tx = hdr[c].tx
            /\ image' = image /\ cached'[c] = cached[c]
            /\ spilled' = spilled \cup W /\ pc'[c] = "write"
  <2>1. hdr \in [Conn -> Hdr] /\ last \in 0..MaxFrame /\ salt \in 0..MaxSalt
    BY <1>7, Bounds DEF TypeBase
  <2>2. ~isCommit => hdr'[c] = [hdr[c] EXCEPT !.mx = last, !.salt = salt]
    BY <1>1, <2>1
  <2>3. ~isCommit => /\ hdr'[c] \in Hdr /\ hdr'[c].mx = last
                     /\ hdr'[c].salt = salt /\ hdr'[c].tx = hdr[c].tx
    <3>1. hdr[c] \in Hdr
      BY <2>1
    <3>. HIDE DEF last
    <3>. QED
      BY <2>1, <2>2, <3>1 DEF Hdr
  <2>. QED
    BY <1>1, <2>3 DEF TypeBase
<1>21. \A f \in 1..MaxFrame : f \notin (mx + 1)..last => wal'[f] = wal[f]
  BY <1>1
<1>. HIDE DEF Frame, last
<1>22. \A p \in W \ spilled : \E f \in (mx + 1)..last : wal'[f].pg = p
  BY <1>14, <1>15, <1>18
<1>23. FramesDone(c, W, isCommit, salt, last, tx)
  <2>1. \A f \in (mx + 1)..last :
          /\ wal'[f].pg \in W /\ wal'[f].tx = tx /\ wal'[f].salt = salt
          /\ wal'[f].commit = (isCommit /\ f = last)
          /\ wal'[f].prev = IF f = 1 THEN 0
                            ELSE IF f = mx + 1 THEN wal[mx].tx ELSE tx
    BY <1>13, <1>15
  <2>. QED
    BY <1>1, <1>7, <1>11, <1>20, <1>21, <1>22, <2>1 DEF FramesDone
<1>. QED
  BY <1>1, <1>7, <1>8, <1>12, <1>17, <1>19, <1>23

-----------------------------------------------------------------------------
(* Every step keeps the control invariant *)

TypeConn(c) ==
  /\ hdr[c] \in Hdr /\ minFrame[c] \in 0..MaxFrame + 1
  /\ readLock[c] \in -1..NReader
  /\ pick[c] \in PickType
  /\ pc[c] \in Pcs /\ cached[c] \in 0..MaxTx

\* c takes or gives back locks for itself alone.
OnlyLocksOf(c) ==
  /\ \/ writeLock' = writeLock
     \/ writeLock \in {c, NoConn} /\ writeLock' \in {c, NoConn}
  /\ \/ ckptLock' = ckptLock
     \/ ckptLock \in {c, NoConn} /\ ckptLock' \in {c, NoConn}
  /\ ckpt' = ckpt \/ ckptLock \in {c, NoConn}
  /\ \/ spilled' = spilled /\ nTx' = nTx
     \/ writeLock \in {c, NoConn}

\* c starts to hold a lock only if nobody holds what excludes it.
Admitted(c) ==
  /\ readLock'[c] \in Marks => readLock[c] \in Marks \/ ~MarksExclusive
  /\ readLock'[c] = 0 => readLock[c] = 0 \/ ~Read0Exclusive
  /\ pc'[c] \in RestartPcs => pc[c] \in RestartPcs \/ AllMarksFree
  /\ pc'[c] = "ckCopy" => pc[c] = "ckCopy" \/ Shared(0) = {}

\* What the control invariant says of one connection.
LEMMA Local ==
  ASSUME Control, NEW c \in Conn
  PROVE  /\ LockInvOf(c) /\ GlobalLocks /\ TypeBase /\ TypeShared
         /\ TypeConn(c)
BY DEF Control, LockInv, TypeBase, TypeConn

\* A step of c leaves what another connection knows.
LEMMA OthersSame ==
  ASSUME TypeBase, NEW c \in Conn, OnlyAt(c), NEW d \in Conn, d # c
  PROVE  /\ pc'[d] = pc[d] /\ hdr'[d] = hdr[d] /\ cached'[d] = cached[d]
         /\ readLock'[d] = readLock[d] /\ minFrame'[d] = minFrame[d]
         /\ pick'[d] = pick[d]
BY DEF OnlyAt, TypeBase

\* The types, from those of what c changes.
LEMMA TypeStep ==
  ASSUME TypeBase, NEW c \in Conn, OnlyAt(c), TypeShared', TypeConn(c)'
  PROVE  TypeBase'
BY DEF TypeBase, TypeConn, OnlyAt

\* A step of c that takes and drops only locks of its own leaves the lock rules
\* of the others.
LEMMA OthersKeepLocks ==
  ASSUME Control, NEW c \in Conn, OnlyAt(c), OnlyLocksOf(c),
         NEW d \in Conn, d # c
  PROVE  LockInvOf(d)'
<1>1. LockInvOf(d) /\ TypeBase
  BY DEF Control, LockInv
<1>2. /\ pc'[d] = pc[d] /\ readLock'[d] = readLock[d] /\ pick'[d] = pick[d]
      /\ writeLock' = d <=> writeLock = d
      /\ ckptLock' = d <=> ckptLock = d
      /\ ckptLock = d => ckpt' = ckpt
      /\ writeLock = d => spilled' = spilled /\ nTx' = nTx
  BY <1>1, ConnFacts, OthersSame DEF OnlyLocksOf
<1>. QED
  BY <1>1, <1>2 DEF LockInvOf

\* A step of c that finds the lock free lets no reader in where readers must
\* stay out.
LEMMA ReadersStayOut ==
  ASSUME Control, NEW c \in Conn, OnlyAt(c), Admitted(c), LockInvOf(c)'
  PROVE  ReadersOut'
<1>. SUFFICES ASSUME NEW a \in Conn, NEW b \in Conn
              PROVE  /\ pc'[a] \in RestartPcs => readLock'[b] \notin Marks
                     /\ pc'[a] = "ckCopy" => readLock'[b] # 0
  BY DEF ReadersOut
<1>1. /\ pc[a] \in RestartPcs => readLock[b] \notin Marks
      /\ pc[a] = "ckCopy" => readLock[b] # 0
  BY DEF Control, LockInv, ReadersOut
<1>2. /\ a # c => pc'[a] = pc[a]
      /\ b # c => readLock'[b] = readLock[b]
  BY OthersSame DEF Control
<1>3. CASE a # c /\ b # c
  BY <1>1, <1>2, <1>3
<1>4. CASE a # c /\ b = c
  BY <1>1, <1>2, <1>4 DEF Admitted, MarksExclusive, Read0Exclusive
<1>5. CASE a = c /\ b # c
  BY <1>1, <1>2, <1>5 DEF Admitted, AllMarksFree, MarkFree, Shared
<1>6. CASE a = c /\ b = c
  <2>1. /\ pc'[c] \in RestartPcs => readLock'[c] \in {-1, 0}
        /\ pc'[c] = "ckCopy" => ~(readLock'[c] >= 0)
    BY DEF LockInvOf
  <2>. QED
    BY <2>1, <1>6, Bounds
<1>. QED
  BY <1>3, <1>4, <1>5, <1>6

\* A step of c keeps the control invariant if it keeps what is said of c.
LEMMA LockStep ==
  ASSUME Control, NEW c \in Conn, OnlyAt(c), TypeBase', OnlyLocksOf(c),
         Admitted(c), LockInvOf(c)', GlobalLocks'
  PROVE  Control'
<1>1. \A d \in Conn : LockInvOf(d)'
  BY OthersKeepLocks
<1>2. ReadersOut'
  BY ReadersStayOut
<1>. QED
  BY <1>1, <1>2 DEF Control, LockInv

\* The values the variables start from.
LEMMA Zeros == ZeroHdr \in Hdr /\ NoPick \in PickType /\ NoFrame \in FrameType
BY Bounds DEF ZeroHdr, Hdr, NoPick, PickType, NoFrame, FrameType

\* A recovery finds a header.
LEMMA RecoveredHdrType ==
  ASSUME TypeBase
  PROVE  RecoveredHdr \in Hdr
<1>. DEFINE commits == {f \in ValidFrames : wal[f].commit}
<1>1. commits \in SUBSET (1..MaxFrame)
  BY DEF ValidFrames
<1>2. IsFiniteSet(1..MaxFrame)
  BY Bounds, FS_Interval
<1>3. IsFiniteSet(commits) /\ commits \subseteq Int
  <2>. HIDE DEF commits
  <2>1. IsFiniteSet(commits)
    BY <1>1, <1>2, FS_Subset
  <2>. QED
    BY <1>1, <2>1
<1>4. commits # {} => Max(commits) \in 1..MaxFrame
  <2>. HIDE DEF commits
  <2>. QED
    BY <1>1, <1>3, MaxIn
<1>5. RecoveredHdr = IF commits = {}
                     THEN [mx |-> 0, salt |-> walSalt, tx |-> latest]
                     ELSE [mx |-> Max(commits), salt |-> walSalt,
                           tx |-> wal[Max(commits)].tx]
  BY DEF RecoveredHdr
<1>. HIDE DEF commits
<1>6. commits # {} => wal[Max(commits)].tx \in 0..MaxTx
  BY <1>4 DEF TypeBase, TypeShared, FrameType
<1>7. walSalt \in 0..MaxSalt /\ latest \in 0..MaxTx
  BY DEF TypeBase, TypeShared
<1>. QED
  BY <1>4, <1>5, <1>6, <1>7, Bounds DEF Hdr

\* A read transaction that takes the header keeps the types and the lock rules.
LEMMA BeginReadControl ==
  ASSUME Control, NEW c \in Conn, BeginRead(c)
  PROVE  OnlyAt(c) /\ BeginReadDone(c) /\ OnlyLocksOf(c) /\ Control'
<1>1. /\ LockInvOf(c) /\ GlobalLocks /\ TypeBase /\ TypeShared
      /\ TypeConn(c)
  BY Local
<1>2. OnlyAt(c) /\ BeginReadDone(c)
  BY <1>1, BeginReadEffect
<1>3. TypeConn(c)'
  BY <1>1, <1>2, Bounds DEF TypeConn, BeginReadDone, SameReads, Pcs,
     TypeShared
<1>4. TypeShared'
  BY <1>1, <1>2, Bounds DEF TypeConn, TypeShared, BeginReadDone
<1>5. OnlyLocksOf(c)
  BY <1>1, <1>2, ConnFacts DEF LockInvOf, OnlyLocksOf, GlobalLocks,
     Checkpointing, BeginReadDone
<1>6. Admitted(c)
  BY <1>1, <1>2, Bounds DEF TypeConn, LockInvOf, Admitted, BeginReadDone,
     SameReads
<1>7. LockInvOf(c)'
  BY <1>1, <1>2, ConnFacts, Bounds DEF LockInvOf, GlobalLocks, BeginReadDone,
     SameReads, NoCkpt, Checkpointing
<1>8. GlobalLocks'
  BY <1>1, <1>2, ConnFacts DEF LockInvOf, GlobalLocks, BeginReadDone, NoCkpt,
     Checkpointing
<1>. QED
  BY <1>1, <1>2, <1>3, <1>4, <1>5, <1>6, <1>7, <1>8, TypeStep, LockStep

\* The choice between the database file and a read-mark keeps the types and the
\* lock rules.
LEMMA ChooseLogControl ==
  ASSUME Control, NEW c \in Conn, ChooseLog(c)
  PROVE  OnlyAt(c) /\ ChooseLogDone(c) /\ OnlyLocksOf(c) /\ Control'
<1>1. /\ LockInvOf(c) /\ GlobalLocks /\ TypeBase /\ TypeShared
      /\ TypeConn(c)
  BY Local
<1>2. OnlyAt(c) /\ ChooseLogDone(c)
  BY <1>1, ChooseLogEffect
<1>3. TypeConn(c)'
  BY <1>1, <1>2, Bounds DEF TypeConn, ChooseLogDone, SameReads, Pcs
<1>4. TypeShared'
  BY <1>1, <1>2, Bounds DEF TypeConn, TypeShared, ChooseLogDone
<1>5. OnlyLocksOf(c)
  BY <1>1, <1>2, ConnFacts DEF LockInvOf, OnlyLocksOf, GlobalLocks,
     Checkpointing, ChooseLogDone
<1>6. Admitted(c)
  BY <1>1, <1>2, Bounds DEF TypeConn, LockInvOf, Admitted, ChooseLogDone,
     SameReads
<1>7. LockInvOf(c)'
  BY <1>1, <1>2, ConnFacts, Bounds DEF LockInvOf, GlobalLocks, ChooseLogDone,
     SameReads, NoCkpt, Checkpointing
<1>8. GlobalLocks'
  BY <1>1, <1>2, ConnFacts DEF LockInvOf, GlobalLocks, ChooseLogDone, NoCkpt,
     Checkpointing
<1>. QED
  BY <1>1, <1>2, <1>3, <1>4, <1>5, <1>6, <1>7, <1>8, TypeStep, LockStep

\* READ(0), for a reader of the database file alone keeps the types and the lock
\* rules.
LEMMA LockRead0Control ==
  ASSUME Control, NEW c \in Conn, LockRead0(c)
  PROVE  OnlyAt(c) /\ LockRead0Done(c) /\ OnlyLocksOf(c) /\ Control'
<1>1. /\ LockInvOf(c) /\ GlobalLocks /\ TypeBase /\ TypeShared
      /\ TypeConn(c)
  BY Local
<1>2. OnlyAt(c) /\ LockRead0Done(c)
  BY <1>1, LockRead0Effect
<1>3. TypeConn(c)'
  BY <1>1, <1>2, Bounds DEF TypeConn, LockRead0Done, SameReads, Pcs, Hdr
<1>4. TypeShared'
  BY <1>1, <1>2, Bounds DEF TypeConn, TypeShared, LockRead0Done
<1>5. OnlyLocksOf(c)
  BY <1>1, <1>2, ConnFacts DEF LockInvOf, OnlyLocksOf, GlobalLocks,
     Checkpointing, LockRead0Done
<1>6. Admitted(c)
  BY <1>1, <1>2, Bounds DEF TypeConn, LockInvOf, Admitted, LockRead0Done,
     SameReads
<1>7. LockInvOf(c)'
  BY <1>1, <1>2, ConnFacts, Bounds DEF LockInvOf, GlobalLocks, LockRead0Done,
     SameReads, NoCkpt, Checkpointing, TypeConn
<1>8. GlobalLocks'
  BY <1>1, <1>2, ConnFacts DEF LockInvOf, GlobalLocks, LockRead0Done, NoCkpt,
     Checkpointing
<1>. QED
  BY <1>1, <1>2, <1>3, <1>4, <1>5, <1>6, <1>7, <1>8, TypeStep, LockStep

\* The choice of a read-mark, or a new one keeps the types and the lock rules.
LEMMA PickMarkControl ==
  ASSUME Control, NEW c \in Conn, PickMark(c)
  PROVE  OnlyAt(c) /\ PickMarkDone(c) /\ OnlyLocksOf(c) /\ Control'
<1>1. /\ LockInvOf(c) /\ GlobalLocks /\ TypeBase /\ TypeShared
      /\ TypeConn(c)
  BY Local
<1>2. OnlyAt(c) /\ PickMarkDone(c)
  BY <1>1, PickMarkEffect
<1>3. TypeConn(c)'
  BY <1>1, <1>2, Bounds DEF TypeConn, PickMarkDone, SameReads, Pcs
<1>4. TypeShared'
  BY <1>1, <1>2, Bounds DEF TypeConn, TypeShared, PickMarkDone
<1>5. OnlyLocksOf(c)
  BY <1>1, <1>2, ConnFacts DEF LockInvOf, OnlyLocksOf, GlobalLocks,
     Checkpointing, PickMarkDone
<1>6. Admitted(c)
  BY <1>1, <1>2, Bounds DEF TypeConn, LockInvOf, Admitted, PickMarkDone,
     SameReads
<1>7. LockInvOf(c)'
  BY <1>1, <1>2, ConnFacts, Bounds DEF LockInvOf, GlobalLocks, PickMarkDone,
     SameReads, NoCkpt, Checkpointing
<1>8. GlobalLocks'
  BY <1>1, <1>2, ConnFacts DEF LockInvOf, GlobalLocks, PickMarkDone, NoCkpt,
     Checkpointing
<1>. QED
  BY <1>1, <1>2, <1>3, <1>4, <1>5, <1>6, <1>7, <1>8, TypeStep, LockStep

\* The lock on a read-mark keeps the types and the lock rules.
LEMMA LockMarkControl ==
  ASSUME Control, NEW c \in Conn, LockMark(c)
  PROVE  OnlyAt(c) /\ LockMarkDone(c) /\ OnlyLocksOf(c) /\ Control'
<1>1. /\ LockInvOf(c) /\ GlobalLocks /\ TypeBase /\ TypeShared
      /\ TypeConn(c)
  BY Local
<1>2. OnlyAt(c) /\ LockMarkDone(c)
  BY <1>1, LockMarkEffect
<1>3. TypeConn(c)'
  BY <1>1, <1>2, Bounds DEF TypeConn, LockMarkDone, SameReads, Pcs, PickType
<1>4. TypeShared'
  BY <1>1, <1>2, Bounds DEF TypeConn, TypeShared, LockMarkDone
<1>5. OnlyLocksOf(c)
  BY <1>1, <1>2, ConnFacts DEF LockInvOf, OnlyLocksOf, GlobalLocks,
     Checkpointing, LockMarkDone
<1>6. Admitted(c)
  BY <1>1, <1>2, Bounds DEF TypeConn, LockInvOf, Admitted, LockMarkDone,
     SameReads
<1>7. LockInvOf(c)'
  BY <1>1, <1>2, ConnFacts, Bounds DEF LockInvOf, GlobalLocks, LockMarkDone,
     SameReads, NoCkpt, Checkpointing
<1>8. GlobalLocks'
  BY <1>1, <1>2, ConnFacts DEF LockInvOf, GlobalLocks, LockMarkDone, NoCkpt,
     Checkpointing
<1>. QED
  BY <1>1, <1>2, <1>3, <1>4, <1>5, <1>6, <1>7, <1>8, TypeStep, LockStep

\* The frames left to the database file keeps the types and the lock rules.
LEMMA LoadBackfillControl ==
  ASSUME Control, NEW c \in Conn, LoadBackfill(c)
  PROVE  OnlyAt(c) /\ LoadBackfillDone(c) /\ OnlyLocksOf(c) /\ Control'
<1>1. /\ LockInvOf(c) /\ GlobalLocks /\ TypeBase /\ TypeShared
      /\ TypeConn(c)
  BY Local
<1>2. OnlyAt(c) /\ LoadBackfillDone(c)
  BY <1>1, LoadBackfillEffect
<1>3. TypeConn(c)'
  BY <1>1, <1>2, Bounds DEF TypeConn, LoadBackfillDone, SameReads, Pcs,
     TypeShared
<1>4. TypeShared'
  BY <1>1, <1>2, Bounds DEF TypeConn, TypeShared, LoadBackfillDone
<1>5. OnlyLocksOf(c)
  BY <1>1, <1>2, ConnFacts DEF LockInvOf, OnlyLocksOf, GlobalLocks,
     Checkpointing, LoadBackfillDone
<1>6. Admitted(c)
  BY <1>1, <1>2, Bounds DEF TypeConn, LockInvOf, Admitted, LoadBackfillDone,
     SameReads
<1>7. LockInvOf(c)'
  BY <1>1, <1>2, ConnFacts, Bounds DEF LockInvOf, GlobalLocks,
     LoadBackfillDone, SameReads, NoCkpt, Checkpointing
<1>8. GlobalLocks'
  BY <1>1, <1>2, ConnFacts DEF LockInvOf, GlobalLocks, LoadBackfillDone,
     NoCkpt, Checkpointing
<1>. QED
  BY <1>1, <1>2, <1>3, <1>4, <1>5, <1>6, <1>7, <1>8, TypeStep, LockStep

\* The second look at the read-mark and the header keeps the types and the lock
\* rules.
LEMMA CheckMarkControl ==
  ASSUME Control, NEW c \in Conn, CheckMark(c)
  PROVE  OnlyAt(c) /\ CheckMarkDone(c) /\ OnlyLocksOf(c) /\ Control'
<1>1. /\ LockInvOf(c) /\ GlobalLocks /\ TypeBase /\ TypeShared
      /\ TypeConn(c)
  BY Local
<1>2. OnlyAt(c) /\ CheckMarkDone(c)
  BY <1>1, CheckMarkEffect
<1>3. TypeConn(c)'
  BY <1>1, <1>2, Bounds, Zeros DEF TypeConn, CheckMarkDone, SameReads, Pcs,
     Hdr
<1>4. TypeShared'
  BY <1>1, <1>2, Bounds DEF TypeConn, TypeShared, CheckMarkDone
<1>5. OnlyLocksOf(c)
  BY <1>1, <1>2, ConnFacts DEF LockInvOf, OnlyLocksOf, GlobalLocks,
     Checkpointing, CheckMarkDone
<1>6. Admitted(c)
  BY <1>1, <1>2, Bounds DEF TypeConn, LockInvOf, Admitted, CheckMarkDone,
     SameReads
<1>7. LockInvOf(c)'
  BY <1>1, <1>2, ConnFacts, Bounds DEF LockInvOf, GlobalLocks, CheckMarkDone,
     SameReads, NoCkpt, Checkpointing
<1>8. GlobalLocks'
  BY <1>1, <1>2, ConnFacts DEF LockInvOf, GlobalLocks, CheckMarkDone, NoCkpt,
     Checkpointing
<1>. QED
  BY <1>1, <1>2, <1>3, <1>4, <1>5, <1>6, <1>7, <1>8, TypeStep, LockStep

\* The end of a read transaction keeps the types and the lock rules.
LEMMA EndReadControl ==
  ASSUME Control, NEW c \in Conn, EndRead(c)
  PROVE  OnlyAt(c) /\ EndReadDone(c) /\ OnlyLocksOf(c) /\ Control'
<1>1. /\ LockInvOf(c) /\ GlobalLocks /\ TypeBase /\ TypeShared
      /\ TypeConn(c)
  BY Local
<1>2. OnlyAt(c) /\ EndReadDone(c)
  BY <1>1, EndReadEffect
<1>3. TypeConn(c)'
  BY <1>1, <1>2, Bounds DEF TypeConn, EndReadDone, SameReads, Pcs
<1>4. TypeShared'
  BY <1>1, <1>2, Bounds DEF TypeConn, TypeShared, EndReadDone
<1>5. OnlyLocksOf(c)
  BY <1>1, <1>2, ConnFacts DEF LockInvOf, OnlyLocksOf, GlobalLocks,
     Checkpointing, EndReadDone
<1>6. Admitted(c)
  BY <1>1, <1>2, Bounds DEF TypeConn, LockInvOf, Admitted, EndReadDone,
     SameReads
<1>7. LockInvOf(c)'
  BY <1>1, <1>2, ConnFacts, Bounds DEF LockInvOf, GlobalLocks, EndReadDone,
     SameReads, NoCkpt, Checkpointing
<1>8. GlobalLocks'
  BY <1>1, <1>2, ConnFacts DEF LockInvOf, GlobalLocks, EndReadDone, NoCkpt,
     Checkpointing
<1>. QED
  BY <1>1, <1>2, <1>3, <1>4, <1>5, <1>6, <1>7, <1>8, TypeStep, LockStep

\* A recovery that scans the log and writes copy 1 keeps the types and the lock
\* rules.
LEMMA RecoverScanControl ==
  ASSUME Control, NEW c \in Conn, RecoverScan(c)
  PROVE  OnlyAt(c) /\ RecoverScanDone(c) /\ OnlyLocksOf(c) /\ Control'
<1>1. /\ LockInvOf(c) /\ GlobalLocks /\ TypeBase /\ TypeShared
      /\ TypeConn(c)
  BY Local
<1>2. OnlyAt(c) /\ RecoverScanDone(c)
  BY <1>1, RecoverScanEffect
<1>3. TypeConn(c)'
  BY <1>1, <1>2, Bounds, RecoveredHdrType DEF TypeConn, RecoverScanDone,
     CkptIs, MayRecover, MayWrite, SameReads, Pcs
<1>4. TypeShared'
  BY <1>1, <1>2, Bounds, RecoveredHdrType DEF TypeConn, TypeShared,
     RecoverScanDone, CkptIs, MayRecover, MayWrite, CkptIs
<1>5. OnlyLocksOf(c)
  BY <1>1, <1>2, ConnFacts DEF LockInvOf, OnlyLocksOf, GlobalLocks,
     Checkpointing, RecoverScanDone, CkptIs, MayRecover, MayWrite
<1>6. Admitted(c)
  BY <1>1, <1>2, Bounds DEF TypeConn, LockInvOf, Admitted, RecoverScanDone,
     CkptIs, MayRecover, MayWrite, SameReads
<1>7. LockInvOf(c)'
  BY <1>1, <1>2, ConnFacts, Bounds DEF LockInvOf, GlobalLocks,
     RecoverScanDone, CkptIs, MayRecover, MayWrite, SameReads, NoCkpt,
     Checkpointing
<1>8. GlobalLocks'
  BY <1>1, <1>2, ConnFacts DEF LockInvOf, GlobalLocks, RecoverScanDone,
     CkptIs, MayRecover, MayWrite, NoCkpt, Checkpointing
<1>. QED
  BY <1>1, <1>2, <1>3, <1>4, <1>5, <1>6, <1>7, <1>8, TypeStep, LockStep

\* A recovery that publishes its header keeps the types and the lock rules.
LEMMA RecoverHdr0Control ==
  ASSUME Control, NEW c \in Conn, RecoverHdr0(c)
  PROVE  OnlyAt(c) /\ RecoverHdr0Done(c) /\ OnlyLocksOf(c) /\ Control'
<1>1. /\ LockInvOf(c) /\ GlobalLocks /\ TypeBase /\ TypeShared
      /\ TypeConn(c)
  BY Local
<1>2. OnlyAt(c) /\ RecoverHdr0Done(c)
  BY <1>1, RecoverHdr0Effect
<1>3. TypeConn(c)'
  BY <1>1, <1>2, Bounds DEF TypeConn, RecoverHdr0Done, SameReads, Pcs
<1>4. TypeShared'
  BY <1>1, <1>2, Bounds DEF TypeConn, TypeShared, RecoverHdr0Done, Hdr
<1>5. OnlyLocksOf(c)
  BY <1>1, <1>2, ConnFacts DEF LockInvOf, OnlyLocksOf, GlobalLocks,
     Checkpointing, RecoverHdr0Done
<1>6. Admitted(c)
  BY <1>1, <1>2, Bounds DEF TypeConn, LockInvOf, Admitted, RecoverHdr0Done,
     SameReads
<1>7. LockInvOf(c)'
  BY <1>1, <1>2, ConnFacts, Bounds DEF LockInvOf, GlobalLocks,
     RecoverHdr0Done, SameReads, NoCkpt, Checkpointing
<1>8. GlobalLocks'
  BY <1>1, <1>2, ConnFacts DEF LockInvOf, GlobalLocks, RecoverHdr0Done,
     NoCkpt, Checkpointing
<1>. QED
  BY <1>1, <1>2, <1>3, <1>4, <1>5, <1>6, <1>7, <1>8, TypeStep, LockStep

\* A recovery that resets nBackfill and the free read-marks keeps the types and
\* the lock rules.
LEMMA RecoverInfoControl ==
  ASSUME Control, NEW c \in Conn, RecoverInfo(c)
  PROVE  OnlyAt(c) /\ RecoverInfoDone(c) /\ OnlyLocksOf(c) /\ Control'
<1>1. /\ LockInvOf(c) /\ GlobalLocks /\ TypeBase /\ TypeShared
      /\ TypeConn(c)
  BY Local
<1>2. OnlyAt(c) /\ RecoverInfoDone(c)
  BY <1>1, RecoverInfoEffect
<1>3. TypeConn(c)'
  BY <1>1, <1>2, Bounds DEF TypeConn, RecoverInfoDone, SameReads, Pcs
<1>4. TypeShared'
  BY SMTT(30), <1>1, <1>2, Bounds DEF TypeConn, TypeShared, RecoverInfoDone
<1>5. OnlyLocksOf(c)
  BY <1>1, <1>2, ConnFacts DEF LockInvOf, OnlyLocksOf, GlobalLocks,
     Checkpointing, RecoverInfoDone
<1>6. Admitted(c)
  BY <1>1, <1>2, Bounds DEF TypeConn, LockInvOf, Admitted, RecoverInfoDone,
     SameReads
<1>7. LockInvOf(c)'
  BY <1>1, <1>2, ConnFacts, Bounds DEF LockInvOf, GlobalLocks,
     RecoverInfoDone, SameReads, NoCkpt, Checkpointing
<1>8. GlobalLocks'
  BY <1>1, <1>2, ConnFacts DEF LockInvOf, GlobalLocks, RecoverInfoDone,
     NoCkpt, Checkpointing
<1>. QED
  BY <1>1, <1>2, <1>3, <1>4, <1>5, <1>6, <1>7, <1>8, TypeStep, LockStep

\* A reader that becomes the writer keeps the types and the lock rules.
LEMMA BeginWriteControl ==
  ASSUME Control, NEW c \in Conn, BeginWrite(c)
  PROVE  OnlyAt(c) /\ BeginWriteDone(c) /\ OnlyLocksOf(c) /\ Control'
<1>1. /\ LockInvOf(c) /\ GlobalLocks /\ TypeBase /\ TypeShared
      /\ TypeConn(c)
  BY Local
<1>2. OnlyAt(c) /\ BeginWriteDone(c)
  BY <1>1, BeginWriteEffect
<1>3. TypeConn(c)'
  BY <1>1, <1>2, Bounds DEF TypeConn, BeginWriteDone, SameReads, Pcs
<1>4. TypeShared'
  BY <1>1, <1>2, Bounds DEF TypeConn, TypeShared, BeginWriteDone
<1>5. OnlyLocksOf(c)
  BY <1>1, <1>2, ConnFacts DEF LockInvOf, OnlyLocksOf, GlobalLocks,
     Checkpointing, BeginWriteDone
<1>6. Admitted(c)
  BY <1>1, <1>2, Bounds DEF TypeConn, LockInvOf, Admitted, BeginWriteDone,
     SameReads
<1>7. LockInvOf(c)'
  BY <1>1, <1>2, ConnFacts, Bounds DEF LockInvOf, GlobalLocks, BeginWriteDone,
     SameReads, NoCkpt, Checkpointing
<1>8. GlobalLocks'
  BY <1>1, <1>2, ConnFacts DEF LockInvOf, GlobalLocks, BeginWriteDone, NoCkpt,
     Checkpointing
<1>. QED
  BY <1>1, <1>2, <1>3, <1>4, <1>5, <1>6, <1>7, <1>8, TypeStep, LockStep

\* A writer that starts the log again keeps the types and the lock rules.
LEMMA RestartLogControl ==
  ASSUME Control, NEW c \in Conn, RestartLog(c)
  PROVE  OnlyAt(c) /\ RestartLogDone(c) /\ OnlyLocksOf(c) /\ Control'
<1>1. /\ LockInvOf(c) /\ GlobalLocks /\ TypeBase /\ TypeShared
      /\ TypeConn(c)
  BY Local
<1>2. OnlyAt(c) /\ RestartLogDone(c)
  BY <1>1, RestartLogEffect
<1>3. TypeConn(c)'
  BY <1>1, <1>2, Bounds DEF TypeConn, RestartLogDone, SameReads, Pcs
<1>4. TypeShared'
  BY SMTT(30), <1>1, <1>2, Bounds DEF TypeConn, TypeShared, RestartLogDone
<1>5. OnlyLocksOf(c)
  BY <1>1, <1>2, ConnFacts DEF LockInvOf, OnlyLocksOf, GlobalLocks,
     Checkpointing, RestartLogDone
<1>6. Admitted(c)
  BY <1>1, <1>2, Bounds DEF TypeConn, LockInvOf, Admitted, RestartLogDone,
     SameReads
<1>7. LockInvOf(c)'
  BY <1>1, <1>2, ConnFacts, Bounds DEF LockInvOf, GlobalLocks, RestartLogDone,
     SameReads, NoCkpt, Checkpointing
<1>8. GlobalLocks'
  BY <1>1, <1>2, ConnFacts DEF LockInvOf, GlobalLocks, RestartLogDone, NoCkpt,
     Checkpointing
<1>. QED
  BY <1>1, <1>2, <1>3, <1>4, <1>5, <1>6, <1>7, <1>8, TypeStep, LockStep

\* A writer that cannot start the log again keeps the types and the lock rules.
LEMMA KeepLogControl ==
  ASSUME Control, NEW c \in Conn, KeepLog(c)
  PROVE  OnlyAt(c) /\ KeepLogDone(c) /\ OnlyLocksOf(c) /\ Control'
<1>1. /\ LockInvOf(c) /\ GlobalLocks /\ TypeBase /\ TypeShared
      /\ TypeConn(c)
  BY Local
<1>2. OnlyAt(c) /\ KeepLogDone(c)
  BY <1>1, KeepLogEffect
<1>3. TypeConn(c)'
  BY <1>1, <1>2, Bounds DEF TypeConn, KeepLogDone, SameReads, Pcs
<1>4. TypeShared'
  BY <1>1, <1>2, Bounds DEF TypeConn, TypeShared, KeepLogDone
<1>5. OnlyLocksOf(c)
  BY <1>1, <1>2, ConnFacts DEF LockInvOf, OnlyLocksOf, GlobalLocks,
     Checkpointing, KeepLogDone
<1>6. Admitted(c)
  BY <1>1, <1>2, Bounds DEF TypeConn, LockInvOf, Admitted, KeepLogDone,
     SameReads
<1>7. LockInvOf(c)'
  BY <1>1, <1>2, ConnFacts, Bounds DEF LockInvOf, GlobalLocks, KeepLogDone,
     SameReads, NoCkpt, Checkpointing
<1>8. GlobalLocks'
  BY <1>1, <1>2, ConnFacts DEF LockInvOf, GlobalLocks, KeepLogDone, NoCkpt,
     Checkpointing
<1>. QED
  BY <1>1, <1>2, <1>3, <1>4, <1>5, <1>6, <1>7, <1>8, TypeStep, LockStep

\* The header of the new log, published keeps the types and the lock rules.
LEMMA RestartHdr0Control ==
  ASSUME Control, NEW c \in Conn, RestartHdr0(c)
  PROVE  OnlyAt(c) /\ RestartHdr0Done(c) /\ OnlyLocksOf(c) /\ Control'
<1>1. /\ LockInvOf(c) /\ GlobalLocks /\ TypeBase /\ TypeShared
      /\ TypeConn(c)
  BY Local
<1>2. OnlyAt(c) /\ RestartHdr0Done(c)
  BY <1>1, RestartHdr0Effect
<1>3. TypeConn(c)'
  BY <1>1, <1>2, Bounds DEF TypeConn, RestartHdr0Done, SameReads, Pcs
<1>4. TypeShared'
  BY <1>1, <1>2, Bounds DEF TypeConn, TypeShared, RestartHdr0Done
<1>5. OnlyLocksOf(c)
  BY <1>1, <1>2, ConnFacts DEF LockInvOf, OnlyLocksOf, GlobalLocks,
     Checkpointing, RestartHdr0Done
<1>6. Admitted(c)
  BY <1>1, <1>2, Bounds DEF TypeConn, LockInvOf, Admitted, RestartHdr0Done,
     SameReads
<1>7. LockInvOf(c)'
  BY <1>1, <1>2, ConnFacts, Bounds DEF LockInvOf, GlobalLocks,
     RestartHdr0Done, SameReads, NoCkpt, Checkpointing
<1>8. GlobalLocks'
  BY <1>1, <1>2, ConnFacts DEF LockInvOf, GlobalLocks, RestartHdr0Done,
     NoCkpt, Checkpointing
<1>. QED
  BY <1>1, <1>2, <1>3, <1>4, <1>5, <1>6, <1>7, <1>8, TypeStep, LockStep

\* nBackfill of the new log keeps the types and the lock rules.
LEMMA RestartBackfillControl ==
  ASSUME Control, NEW c \in Conn, RestartBackfill(c)
  PROVE  OnlyAt(c) /\ RestartBackfillDone(c) /\ OnlyLocksOf(c) /\ Control'
<1>1. /\ LockInvOf(c) /\ GlobalLocks /\ TypeBase /\ TypeShared
      /\ TypeConn(c)
  BY Local
<1>2. OnlyAt(c) /\ RestartBackfillDone(c)
  BY <1>1, RestartBackfillEffect
<1>3. TypeConn(c)'
  BY <1>1, <1>2, Bounds DEF TypeConn, RestartBackfillDone, SameReads, Pcs
<1>4. TypeShared'
  BY <1>1, <1>2, Bounds DEF TypeConn, TypeShared, RestartBackfillDone
<1>5. OnlyLocksOf(c)
  BY <1>1, <1>2, ConnFacts DEF LockInvOf, OnlyLocksOf, GlobalLocks,
     Checkpointing, RestartBackfillDone
<1>6. Admitted(c)
  BY <1>1, <1>2, Bounds DEF TypeConn, LockInvOf, Admitted,
     RestartBackfillDone, SameReads
<1>7. LockInvOf(c)'
  BY <1>1, <1>2, ConnFacts, Bounds DEF LockInvOf, GlobalLocks,
     RestartBackfillDone, SameReads, NoCkpt, Checkpointing
<1>8. GlobalLocks'
  BY <1>1, <1>2, ConnFacts DEF LockInvOf, GlobalLocks, RestartBackfillDone,
     NoCkpt, Checkpointing
<1>. QED
  BY <1>1, <1>2, <1>3, <1>4, <1>5, <1>6, <1>7, <1>8, TypeStep, LockStep

\* The read-marks of the new log keeps the types and the lock rules.
LEMMA RestartMarksControl ==
  ASSUME Control, NEW c \in Conn, RestartMarks(c)
  PROVE  OnlyAt(c) /\ RestartMarksDone(c) /\ OnlyLocksOf(c) /\ Control'
<1>1. /\ LockInvOf(c) /\ GlobalLocks /\ TypeBase /\ TypeShared
      /\ TypeConn(c)
  BY Local
<1>2. OnlyAt(c) /\ RestartMarksDone(c)
  BY <1>1, RestartMarksEffect
<1>3. TypeConn(c)'
  BY <1>1, <1>2, Bounds DEF TypeConn, RestartMarksDone, SameReads, Pcs
<1>4. TypeShared'
  BY <1>1, <1>2, Bounds DEF TypeConn, TypeShared, RestartMarksDone
<1>5. OnlyLocksOf(c)
  BY <1>1, <1>2, ConnFacts DEF LockInvOf, OnlyLocksOf, GlobalLocks,
     Checkpointing, RestartMarksDone
<1>6. Admitted(c)
  BY <1>1, <1>2, Bounds DEF TypeConn, LockInvOf, Admitted, RestartMarksDone,
     SameReads
<1>7. LockInvOf(c)'
  BY <1>1, <1>2, ConnFacts, Bounds DEF LockInvOf, GlobalLocks,
     RestartMarksDone, SameReads, NoCkpt, Checkpointing
<1>8. GlobalLocks'
  BY <1>1, <1>2, ConnFacts DEF LockInvOf, GlobalLocks, RestartMarksDone,
     NoCkpt, Checkpointing
<1>. QED
  BY <1>1, <1>2, <1>3, <1>4, <1>5, <1>6, <1>7, <1>8, TypeStep, LockStep

\* Copy 1 of the header of a commit keeps the types and the lock rules.
LEMMA Publish1Control ==
  ASSUME Control, NEW c \in Conn, Publish1(c)
  PROVE  OnlyAt(c) /\ Publish1Done(c) /\ OnlyLocksOf(c) /\ Control'
<1>1. /\ LockInvOf(c) /\ GlobalLocks /\ TypeBase /\ TypeShared
      /\ TypeConn(c)
  BY Local
<1>2. OnlyAt(c) /\ Publish1Done(c)
  BY <1>1, Publish1Effect
<1>3. TypeConn(c)'
  BY <1>1, <1>2, Bounds DEF TypeConn, Publish1Done, SameReads, Pcs
<1>4. TypeShared'
  BY <1>1, <1>2, Bounds DEF TypeConn, TypeShared, Publish1Done
<1>5. OnlyLocksOf(c)
  BY <1>1, <1>2, ConnFacts DEF LockInvOf, OnlyLocksOf, GlobalLocks,
     Checkpointing, Publish1Done
<1>6. Admitted(c)
  BY <1>1, <1>2, Bounds DEF TypeConn, LockInvOf, Admitted, Publish1Done,
     SameReads
<1>7. LockInvOf(c)'
  BY <1>1, <1>2, ConnFacts, Bounds DEF LockInvOf, GlobalLocks, Publish1Done,
     SameReads, NoCkpt, Checkpointing
<1>8. GlobalLocks'
  BY <1>1, <1>2, ConnFacts DEF LockInvOf, GlobalLocks, Publish1Done, NoCkpt,
     Checkpointing
<1>. QED
  BY <1>1, <1>2, <1>3, <1>4, <1>5, <1>6, <1>7, <1>8, TypeStep, LockStep

\* The header of a commit, published keeps the types and the lock rules.
LEMMA Publish0Control ==
  ASSUME Control, NEW c \in Conn, Publish0(c)
  PROVE  OnlyAt(c) /\ Publish0Done(c) /\ OnlyLocksOf(c) /\ Control'
<1>1. /\ LockInvOf(c) /\ GlobalLocks /\ TypeBase /\ TypeShared
      /\ TypeConn(c)
  BY Local
<1>2. OnlyAt(c) /\ Publish0Done(c)
  BY <1>1, Publish0Effect
<1>3. TypeConn(c)'
  BY <1>1, <1>2, Bounds DEF TypeConn, Publish0Done, SameReads, Pcs
<1>4. TypeShared'
  BY <1>1, <1>2, Bounds DEF TypeConn, TypeShared, Publish0Done, Hdr
<1>5. OnlyLocksOf(c)
  BY <1>1, <1>2, ConnFacts DEF LockInvOf, OnlyLocksOf, GlobalLocks,
     Checkpointing, Publish0Done
<1>6. Admitted(c)
  BY <1>1, <1>2, Bounds DEF TypeConn, LockInvOf, Admitted, Publish0Done,
     SameReads
<1>7. LockInvOf(c)'
  BY <1>1, <1>2, ConnFacts, Bounds DEF LockInvOf, GlobalLocks, Publish0Done,
     SameReads, NoCkpt, Checkpointing
<1>8. GlobalLocks'
  BY <1>1, <1>2, ConnFacts DEF LockInvOf, GlobalLocks, Publish0Done, NoCkpt,
     Checkpointing
<1>. QED
  BY <1>1, <1>2, <1>3, <1>4, <1>5, <1>6, <1>7, <1>8, TypeStep, LockStep

\* The end of a write transaction that does not commit keeps the types and the
\* lock rules.
LEMMA RollbackControl ==
  ASSUME Control, NEW c \in Conn, Rollback(c)
  PROVE  OnlyAt(c) /\ RollbackDone(c) /\ OnlyLocksOf(c) /\ Control'
<1>1. /\ LockInvOf(c) /\ GlobalLocks /\ TypeBase /\ TypeShared
      /\ TypeConn(c)
  BY Local
<1>2. OnlyAt(c) /\ RollbackDone(c)
  BY <1>1, RollbackEffect
<1>3. TypeConn(c)'
  BY <1>1, <1>2, Bounds DEF TypeConn, RollbackDone, SameReads, Pcs, TypeShared
<1>4. TypeShared'
  BY <1>1, <1>2, Bounds DEF TypeConn, TypeShared, RollbackDone
<1>5. OnlyLocksOf(c)
  BY <1>1, <1>2, ConnFacts DEF LockInvOf, OnlyLocksOf, GlobalLocks,
     Checkpointing, RollbackDone
<1>6. Admitted(c)
  BY <1>1, <1>2, Bounds DEF TypeConn, LockInvOf, Admitted, RollbackDone,
     SameReads
<1>7. LockInvOf(c)'
  BY <1>1, <1>2, ConnFacts, Bounds DEF LockInvOf, GlobalLocks, RollbackDone,
     SameReads, NoCkpt, Checkpointing
<1>8. GlobalLocks'
  BY <1>1, <1>2, ConnFacts DEF LockInvOf, GlobalLocks, RollbackDone, NoCkpt,
     Checkpointing
<1>. QED
  BY <1>1, <1>2, <1>3, <1>4, <1>5, <1>6, <1>7, <1>8, TypeStep, LockStep

\* A checkpoint that takes its locks keeps the types and the lock rules.
LEMMA CkptBeginControl ==
  ASSUME Control, NEW c \in Conn, NEW m \in Modes, CkptBegin(c, m)
  PROVE  OnlyAt(c) /\ CkptBeginDone(c, m) /\ OnlyLocksOf(c) /\ Control'
<1>1. /\ LockInvOf(c) /\ GlobalLocks /\ TypeBase /\ TypeShared
      /\ TypeConn(c)
  BY Local
<1>2. OnlyAt(c) /\ CkptBeginDone(c, m)
  BY <1>1, CkptBeginEffect
<1>3. TypeConn(c)'
  BY <1>1, <1>2, ModeFacts, Bounds DEF TypeConn, CkptBeginDone, CkptIs,
     MayRecover, MayWrite, SameReads, Pcs
<1>4. TypeShared'
  BY <1>1, <1>2, ModeFacts, Bounds DEF TypeConn, TypeShared, CkptBeginDone,
     CkptIs, MayRecover, MayWrite, CkptIs
<1>5. OnlyLocksOf(c)
  BY <1>1, <1>2, ModeFacts, ConnFacts DEF LockInvOf, OnlyLocksOf, GlobalLocks,
     Checkpointing, CkptBeginDone, CkptIs, MayRecover, MayWrite
<1>6. Admitted(c)
  BY <1>1, <1>2, ModeFacts, Bounds DEF TypeConn, LockInvOf, Admitted,
     CkptBeginDone, CkptIs, MayRecover, MayWrite, SameReads
<1>7. LockInvOf(c)'
  BY <1>1, <1>2, ModeFacts, ConnFacts, Bounds DEF LockInvOf, GlobalLocks,
     CkptBeginDone, CkptIs, MayRecover, MayWrite, SameReads, NoCkpt,
     Checkpointing
<1>8. GlobalLocks'
  BY <1>1, <1>2, ModeFacts, ConnFacts DEF LockInvOf, GlobalLocks,
     CkptBeginDone, CkptIs, MayRecover, MayWrite, NoCkpt, Checkpointing
<1>. QED
  BY <1>1, <1>2, <1>3, <1>4, <1>5, <1>6, <1>7, <1>8, TypeStep, LockStep

\* A checkpoint that reads the header keeps the types and the lock rules.
LEMMA CkptReadHdrControl ==
  ASSUME Control, NEW c \in Conn, CkptReadHdr(c)
  PROVE  OnlyAt(c) /\ CkptReadHdrDone(c) /\ OnlyLocksOf(c) /\ Control'
<1>1. /\ LockInvOf(c) /\ GlobalLocks /\ TypeBase /\ TypeShared
      /\ TypeConn(c)
  BY Local
<1>2. OnlyAt(c) /\ CkptReadHdrDone(c)
  BY <1>1, CkptReadHdrEffect
<1>3. TypeConn(c)'
  BY SMTT(30), <1>1, <1>2, Bounds, Zeros DEF TypeConn, CkptReadHdrDone, CkptIs,
     MayRecover, MayWrite, SameReads, Pcs, TypeShared
<1>4. TypeShared'
  BY <1>1, <1>2, Bounds, NoCkptType DEF TypeConn, TypeShared, CkptReadHdrDone,
     CkptIs, MayRecover, MayWrite, CkptIs
<1>5. OnlyLocksOf(c)
  BY <1>1, <1>2, ConnFacts DEF LockInvOf, OnlyLocksOf, GlobalLocks,
     Checkpointing, CkptReadHdrDone, CkptIs, MayRecover, MayWrite
<1>6. Admitted(c)
  BY <1>1, <1>2, Bounds DEF TypeConn, LockInvOf, Admitted, CkptReadHdrDone,
     CkptIs, MayRecover, MayWrite, SameReads
<1>7. LockInvOf(c)'
  BY <1>1, <1>2, ConnFacts, Bounds DEF LockInvOf, GlobalLocks,
     CkptReadHdrDone, CkptIs, MayRecover, MayWrite, SameReads, NoCkpt,
     Checkpointing
<1>8. GlobalLocks'
  BY <1>1, <1>2, ConnFacts DEF LockInvOf, GlobalLocks, CkptReadHdrDone,
     CkptIs, MayRecover, MayWrite, NoCkpt, Checkpointing
<1>. QED
  BY <1>1, <1>2, <1>3, <1>4, <1>5, <1>6, <1>7, <1>8, TypeStep, LockStep

\* A checkpoint that asks whether there is anything to copy keeps the types and
\* the lock rules.
LEMMA CkptTestControl ==
  ASSUME Control, NEW c \in Conn, CkptTest(c)
  PROVE  OnlyAt(c) /\ CkptTestDone(c) /\ OnlyLocksOf(c) /\ Control'
<1>1. /\ LockInvOf(c) /\ GlobalLocks /\ TypeBase /\ TypeShared
      /\ TypeConn(c)
  BY Local
<1>2. OnlyAt(c) /\ CkptTestDone(c)
  BY <1>1, CkptTestEffect
<1>3. TypeConn(c)'
  BY <1>1, <1>2, Bounds DEF TypeConn, CkptTestDone, CkptIs, MayRecover,
     MayWrite, SameReads, Pcs
<1>4. TypeShared'
  BY <1>1, <1>2, Bounds DEF TypeConn, TypeShared, CkptTestDone, CkptIs,
     MayRecover, MayWrite, CkptIs
<1>5. OnlyLocksOf(c)
  BY <1>1, <1>2, ConnFacts DEF LockInvOf, OnlyLocksOf, GlobalLocks,
     Checkpointing, CkptTestDone, CkptIs, MayRecover, MayWrite
<1>6. Admitted(c)
  BY <1>1, <1>2, Bounds DEF TypeConn, LockInvOf, Admitted, CkptTestDone,
     CkptIs, MayRecover, MayWrite, SameReads
<1>7. LockInvOf(c)'
  BY <1>1, <1>2, ConnFacts, Bounds DEF LockInvOf, GlobalLocks, CkptTestDone,
     CkptIs, MayRecover, MayWrite, SameReads, NoCkpt, Checkpointing
<1>8. GlobalLocks'
  BY <1>1, <1>2, ConnFacts DEF LockInvOf, GlobalLocks, CkptTestDone, CkptIs,
     MayRecover, MayWrite, NoCkpt, Checkpointing
<1>. QED
  BY <1>1, <1>2, <1>3, <1>4, <1>5, <1>6, <1>7, <1>8, TypeStep, LockStep

\* A checkpoint at one read-mark keeps the types and the lock rules.
LEMMA CkptScanControl ==
  ASSUME Control, NEW c \in Conn, CkptScan(c)
  PROVE  OnlyAt(c) /\ CkptScanDone(c) /\ OnlyLocksOf(c) /\ Control'
<1>1. /\ LockInvOf(c) /\ GlobalLocks /\ TypeBase /\ TypeShared
      /\ TypeConn(c)
  BY Local
<1>0. ckpt.i > 0
  BY <1>1 DEF LockInvOf, CkptScan
<1>2. OnlyAt(c) /\ CkptScanDone(c)
  BY <1>0, <1>1, CkptScanEffect
<1>3. TypeConn(c)'
  BY <1>1, <1>2, Bounds DEF TypeConn, CkptScanDone, CkptIs, MayRecover,
     MayWrite, SameReads, Pcs
<1>4. TypeShared'
  BY <1>1, <1>2, Bounds DEF TypeConn, TypeShared, CkptScanDone, CkptIs,
     MayRecover, MayWrite, CkptIs
<1>5. OnlyLocksOf(c)
  BY <1>1, <1>2, ConnFacts DEF LockInvOf, OnlyLocksOf, GlobalLocks,
     Checkpointing, CkptScanDone, CkptIs, MayRecover, MayWrite
<1>6. Admitted(c)
  BY <1>1, <1>2, Bounds DEF TypeConn, LockInvOf, Admitted, CkptScanDone,
     CkptIs, MayRecover, MayWrite, SameReads
<1>7. LockInvOf(c)'
  BY <1>1, <1>2, ConnFacts, Bounds DEF LockInvOf, GlobalLocks, CkptScanDone,
     CkptIs, MayRecover, MayWrite, SameReads, NoCkpt, Checkpointing,
     TypeShared, CkptType
<1>8. GlobalLocks'
  BY <1>1, <1>2, ConnFacts DEF LockInvOf, GlobalLocks, CkptScanDone, CkptIs,
     MayRecover, MayWrite, NoCkpt, Checkpointing
<1>. QED
  BY <1>1, <1>2, <1>3, <1>4, <1>5, <1>6, <1>7, <1>8, TypeStep, LockStep

\* A checkpoint that takes READ(0) and starts to copy keeps the types and the
\* lock rules.
LEMMA CkptStartControl ==
  ASSUME Control, NEW c \in Conn, CkptStart(c)
  PROVE  OnlyAt(c) /\ CkptStartDone(c) /\ OnlyLocksOf(c) /\ Control'
<1>1. /\ LockInvOf(c) /\ GlobalLocks /\ TypeBase /\ TypeShared
      /\ TypeConn(c)
  BY Local
<1>2. OnlyAt(c) /\ CkptStartDone(c)
  BY <1>1, CkptStartEffect
<1>3. TypeConn(c)'
  BY <1>1, <1>2, Bounds DEF TypeConn, CkptStartDone, CkptIs, MayRecover,
     MayWrite, SameReads, Pcs
<1>4. TypeShared'
  BY <1>1, <1>2, Bounds DEF TypeConn, TypeShared, CkptStartDone, CkptIs,
     MayRecover, MayWrite, CkptIs
<1>5. OnlyLocksOf(c)
  BY <1>1, <1>2, ConnFacts DEF LockInvOf, OnlyLocksOf, GlobalLocks,
     Checkpointing, CkptStartDone, CkptIs, MayRecover, MayWrite
<1>6. Admitted(c)
  BY <1>1, <1>2, Bounds DEF TypeConn, LockInvOf, Admitted, CkptStartDone,
     CkptIs, MayRecover, MayWrite, SameReads
<1>7. LockInvOf(c)'
  BY <1>1, <1>2, ConnFacts, Bounds DEF LockInvOf, GlobalLocks, CkptStartDone,
     CkptIs, MayRecover, MayWrite, SameReads, NoCkpt, Checkpointing
<1>8. GlobalLocks'
  BY <1>1, <1>2, ConnFacts DEF LockInvOf, GlobalLocks, CkptStartDone, CkptIs,
     MayRecover, MayWrite, NoCkpt, Checkpointing
<1>. QED
  BY <1>1, <1>2, <1>3, <1>4, <1>5, <1>6, <1>7, <1>8, TypeStep, LockStep

\* A page copied to the database file keeps the types and the lock rules.
LEMMA CkptCopyControl ==
  ASSUME Control, NEW c \in Conn, CkptCopy(c)
  PROVE  OnlyAt(c) /\ CkptCopyDone(c) /\ OnlyLocksOf(c) /\ Control'
<1>1. /\ LockInvOf(c) /\ GlobalLocks /\ TypeBase /\ TypeShared
      /\ TypeConn(c)
  BY Local
<1>2. OnlyAt(c) /\ CkptCopyDone(c)
  BY <1>1, CkptCopyEffect
<1>3. TypeConn(c)'
  BY <1>1, <1>2, Bounds DEF TypeConn, CkptCopyDone, CkptIs, MayRecover,
     MayWrite, SameReads, Pcs
<1>4. TypeShared'
  BY <1>1, <1>2, Bounds DEF TypeConn, TypeShared, CkptCopyDone, CkptIs,
     MayRecover, MayWrite, CkptIs
<1>5. OnlyLocksOf(c)
  BY <1>1, <1>2, ConnFacts DEF LockInvOf, OnlyLocksOf, GlobalLocks,
     Checkpointing, CkptCopyDone, CkptIs, MayRecover, MayWrite
<1>6. Admitted(c)
  BY <1>1, <1>2, Bounds DEF TypeConn, LockInvOf, Admitted, CkptCopyDone,
     CkptIs, MayRecover, MayWrite, SameReads
<1>7. LockInvOf(c)'
  BY <1>1, <1>2, ConnFacts, Bounds DEF LockInvOf, GlobalLocks, CkptCopyDone,
     CkptIs, MayRecover, MayWrite, SameReads, NoCkpt, Checkpointing
<1>8. GlobalLocks'
  BY <1>1, <1>2, ConnFacts DEF LockInvOf, GlobalLocks, CkptCopyDone, CkptIs,
     MayRecover, MayWrite, NoCkpt, Checkpointing
<1>. QED
  BY <1>1, <1>2, <1>3, <1>4, <1>5, <1>6, <1>7, <1>8, TypeStep, LockStep

\* The pages copied, noted in nBackfill keeps the types and the lock rules.
LEMMA CkptFinishControl ==
  ASSUME Control, NEW c \in Conn, CkptFinish(c)
  PROVE  OnlyAt(c) /\ CkptFinishDone(c) /\ OnlyLocksOf(c) /\ Control'
<1>1. /\ LockInvOf(c) /\ GlobalLocks /\ TypeBase /\ TypeShared
      /\ TypeConn(c)
  BY Local
<1>2. OnlyAt(c) /\ CkptFinishDone(c)
  BY <1>1, CkptFinishEffect
<1>3. TypeConn(c)'
  BY <1>1, <1>2, Bounds DEF TypeConn, CkptFinishDone, SameReads, Pcs
<1>4. TypeShared'
  BY <1>1, <1>2, Bounds DEF TypeConn, TypeShared, CkptFinishDone, CkptType
<1>5. OnlyLocksOf(c)
  BY <1>1, <1>2, ConnFacts DEF LockInvOf, OnlyLocksOf, GlobalLocks,
     Checkpointing, CkptFinishDone
<1>6. Admitted(c)
  BY <1>1, <1>2, Bounds DEF TypeConn, LockInvOf, Admitted, CkptFinishDone,
     SameReads
<1>7. LockInvOf(c)'
  BY <1>1, <1>2, ConnFacts, Bounds DEF LockInvOf, GlobalLocks, CkptFinishDone,
     SameReads, NoCkpt, Checkpointing
<1>8. GlobalLocks'
  BY <1>1, <1>2, ConnFacts DEF LockInvOf, GlobalLocks, CkptFinishDone, NoCkpt,
     Checkpointing
<1>. QED
  BY <1>1, <1>2, <1>3, <1>4, <1>5, <1>6, <1>7, <1>8, TypeStep, LockStep

\* A checkpoint that is interrupted keeps the types and the lock rules.
LEMMA CkptInterruptControl ==
  ASSUME Control, NEW c \in Conn, CkptInterrupt(c)
  PROVE  OnlyAt(c) /\ CkptInterruptDone(c) /\ OnlyLocksOf(c) /\ Control'
<1>1. /\ LockInvOf(c) /\ GlobalLocks /\ TypeBase /\ TypeShared
      /\ TypeConn(c)
  BY Local
<1>2. OnlyAt(c) /\ CkptInterruptDone(c)
  BY <1>1, CkptInterruptEffect
<1>3. TypeConn(c)'
  BY <1>1, <1>2, Bounds, Zeros DEF TypeConn, CkptInterruptDone, SameReads, Pcs
<1>4. TypeShared'
  BY <1>1, <1>2, Bounds, NoCkptType DEF TypeConn, TypeShared,
     CkptInterruptDone
<1>5. OnlyLocksOf(c)
  BY <1>1, <1>2, ConnFacts DEF LockInvOf, OnlyLocksOf, GlobalLocks,
     Checkpointing, CkptInterruptDone
<1>6. Admitted(c)
  BY <1>1, <1>2, Bounds DEF TypeConn, LockInvOf, Admitted, CkptInterruptDone,
     SameReads
<1>7. LockInvOf(c)'
  BY <1>1, <1>2, ConnFacts, Bounds DEF LockInvOf, GlobalLocks,
     CkptInterruptDone, SameReads, NoCkpt, Checkpointing
<1>8. GlobalLocks'
  BY <1>1, <1>2, ConnFacts DEF LockInvOf, GlobalLocks, CkptInterruptDone,
     NoCkpt, Checkpointing
<1>. QED
  BY <1>1, <1>2, <1>3, <1>4, <1>5, <1>6, <1>7, <1>8, TypeStep, LockStep

\* A checkpoint that starts the log again keeps the types and the lock rules.
LEMMA CkptRestartControl ==
  ASSUME Control, NEW c \in Conn, CkptRestart(c)
  PROVE  OnlyAt(c) /\ CkptRestartDone(c) /\ OnlyLocksOf(c) /\ Control'
<1>1. /\ LockInvOf(c) /\ GlobalLocks /\ TypeBase /\ TypeShared
      /\ TypeConn(c)
  BY Local
<1>2. OnlyAt(c) /\ CkptRestartDone(c)
  BY <1>1, CkptRestartEffect
<1>3. TypeConn(c)'
  BY <1>1, <1>2, Bounds DEF TypeConn, CkptRestartDone, SameReads, Pcs
<1>4. TypeShared'
  BY <1>1, <1>2, Bounds DEF TypeConn, TypeShared, CkptRestartDone
<1>5. OnlyLocksOf(c)
  BY <1>1, <1>2, ConnFacts DEF LockInvOf, OnlyLocksOf, GlobalLocks,
     Checkpointing, CkptRestartDone
<1>6. Admitted(c)
  BY <1>1, <1>2, Bounds DEF TypeConn, LockInvOf, Admitted, CkptRestartDone,
     SameReads
<1>7. LockInvOf(c)'
  BY <1>1, <1>2, ConnFacts, Bounds DEF LockInvOf, GlobalLocks,
     CkptRestartDone, SameReads, NoCkpt, Checkpointing, TypeConn
<1>8. GlobalLocks'
  BY <1>1, <1>2, ConnFacts DEF LockInvOf, GlobalLocks, CkptRestartDone,
     NoCkpt, Checkpointing
<1>. QED
  BY <1>1, <1>2, <1>3, <1>4, <1>5, <1>6, <1>7, <1>8, TypeStep, LockStep

\* A checkpoint that truncates the log keeps the types and the lock rules.
LEMMA CkptTruncateControl ==
  ASSUME Control, NEW c \in Conn, CkptTruncate(c)
  PROVE  OnlyAt(c) /\ CkptTruncateDone(c) /\ OnlyLocksOf(c) /\ Control'
<1>1. /\ LockInvOf(c) /\ GlobalLocks /\ TypeBase /\ TypeShared
      /\ TypeConn(c)
  BY Local
<1>2. OnlyAt(c) /\ CkptTruncateDone(c)
  BY <1>1, CkptTruncateEffect
<1>3. TypeConn(c)'
  BY <1>1, <1>2, Bounds, Zeros DEF TypeConn, CkptTruncateDone, SameReads, Pcs
<1>4. TypeShared'
  BY <1>1, <1>2, Bounds, NoCkptType, Zeros DEF TypeConn, TypeShared,
     CkptTruncateDone
<1>5. OnlyLocksOf(c)
  BY <1>1, <1>2, ConnFacts DEF LockInvOf, OnlyLocksOf, GlobalLocks,
     Checkpointing, CkptTruncateDone
<1>6. Admitted(c)
  BY <1>1, <1>2, Bounds DEF TypeConn, LockInvOf, Admitted, CkptTruncateDone,
     SameReads
<1>7. LockInvOf(c)'
  BY <1>1, <1>2, ConnFacts, Bounds DEF LockInvOf, GlobalLocks,
     CkptTruncateDone, SameReads, NoCkpt, Checkpointing
<1>8. GlobalLocks'
  BY <1>1, <1>2, ConnFacts DEF LockInvOf, GlobalLocks, CkptTruncateDone,
     NoCkpt, Checkpointing
<1>. QED
  BY <1>1, <1>2, <1>3, <1>4, <1>5, <1>6, <1>7, <1>8, TypeStep, LockStep

\* The end of a checkpoint keeps the types and the lock rules.
LEMMA CkptReturnControl ==
  ASSUME Control, NEW c \in Conn, CkptReturn(c)
  PROVE  OnlyAt(c) /\ CkptReturnDone(c) /\ OnlyLocksOf(c) /\ Control'
<1>1. /\ LockInvOf(c) /\ GlobalLocks /\ TypeBase /\ TypeShared
      /\ TypeConn(c)
  BY Local
<1>2. OnlyAt(c) /\ CkptReturnDone(c)
  BY <1>1, CkptReturnEffect
<1>3. TypeConn(c)'
  BY <1>1, <1>2, Bounds, Zeros DEF TypeConn, CkptReturnDone, SameReads, Pcs
<1>4. TypeShared'
  BY <1>1, <1>2, Bounds, NoCkptType DEF TypeConn, TypeShared, CkptReturnDone
<1>5. OnlyLocksOf(c)
  BY <1>1, <1>2, ConnFacts DEF LockInvOf, OnlyLocksOf, GlobalLocks,
     Checkpointing, CkptReturnDone
<1>6. Admitted(c)
  BY <1>1, <1>2, Bounds DEF TypeConn, LockInvOf, Admitted, CkptReturnDone,
     SameReads
<1>7. LockInvOf(c)'
  BY <1>1, <1>2, ConnFacts, Bounds DEF LockInvOf, GlobalLocks, CkptReturnDone,
     SameReads, NoCkpt, Checkpointing
<1>8. GlobalLocks'
  BY <1>1, <1>2, ConnFacts DEF LockInvOf, GlobalLocks, CkptReturnDone, NoCkpt,
     Checkpointing
<1>. QED
  BY <1>1, <1>2, <1>3, <1>4, <1>5, <1>6, <1>7, <1>8, TypeStep, LockStep

\* The death of a process keeps the types and the lock rules.
LEMMA DieControl ==
  ASSUME Control, NEW c \in Conn, Die(c)
  PROVE  OnlyAt(c) /\ DieDone(c) /\ OnlyLocksOf(c) /\ Control'
<1>1. /\ LockInvOf(c) /\ GlobalLocks /\ TypeBase /\ TypeShared
      /\ TypeConn(c)
  BY Local
<1>2. OnlyAt(c) /\ DieDone(c)
  BY <1>1, DieEffect
<1>3. TypeConn(c)'
  BY <1>1, <1>2, Bounds, Zeros DEF TypeConn, DieDone, SameReads, Pcs
<1>4. TypeShared'
  BY <1>1, <1>2, Bounds, NoCkptType DEF TypeConn, TypeShared, DieDone
<1>5. OnlyLocksOf(c)
  BY <1>1, <1>2, ConnFacts DEF LockInvOf, OnlyLocksOf, GlobalLocks,
     Checkpointing, DieDone
<1>6. Admitted(c)
  BY <1>1, <1>2, Bounds DEF TypeConn, LockInvOf, Admitted, DieDone, SameReads
<1>7. LockInvOf(c)'
  BY <1>1, <1>2, ConnFacts, Bounds DEF LockInvOf, GlobalLocks, DieDone,
     SameReads, NoCkpt, Checkpointing
<1>8. GlobalLocks'
  BY <1>1, <1>2, ConnFacts DEF LockInvOf, GlobalLocks, DieDone, NoCkpt,
     Checkpointing
<1>. QED
  BY <1>1, <1>2, <1>3, <1>4, <1>5, <1>6, <1>7, <1>8, TypeStep, LockStep

\* Frames written to the log keeps the types and the lock rules.
LEMMA WalFramesControl ==
  ASSUME Control, NEW c \in Conn, NEW W \in SUBSET Page, W # {},
         NEW isCommit \in BOOLEAN, NEW salt \in 1..MaxSalt,
         WalFrames(c, W, isCommit, salt)
  PROVE  OnlyLocksOf(c) /\ Control'
<1>1. /\ LockInvOf(c) /\ GlobalLocks /\ TypeBase /\ TypeShared
      /\ TypeConn(c)
  BY Local
<1>2. spilled # {} \/ nTx < MaxTx
  BY <1>1 DEF LockInvOf, WalFrames
<1>3. /\ OnlyAt(c) /\ SameReads(c)
      /\ pc[c] = "write" /\ readLock[c] > 0
      /\ wal' \in [1..MaxFrame -> FrameType]
      /\ nSalt' \in 0..MaxSalt
      /\ UNCHANGED <<shmVars, lockVars, db, ckpt, latest>>
  BY <1>1, <1>2, WalFramesEffect
<1>4. PICK last \in 1..MaxFrame, tx \in 1..MaxTx :
         FramesDone(c, W, isCommit, salt, last, tx)
  BY <1>1, <1>2, WalFramesEffect
<1>5. /\ nTx' = tx /\ walSalt' = salt /\ hdr'[c] \in Hdr
      /\ cached'[c] \in 0..MaxTx /\ spilled' \in SUBSET Page
      /\ \/ pc'[c] = "publish1" /\ spilled' = {}
         \/ pc'[c] = "write" /\ spilled' # {}
  <2>1. [mx |-> last, salt |-> salt, tx |-> tx] \in Hdr
    <3>1. last \in 0..MaxFrame /\ salt \in 0..MaxSalt /\ tx \in 0..MaxTx
      BY Bounds
    <3>. QED
      BY <3>1 DEF Hdr
  <2>2. tx \in 0..MaxTx
    BY Bounds
  <2>. QED
    BY SMTT(30), <1>1, <1>4, <2>1, <2>2 DEF FramesDone, TypeConn, TypeShared
<1>6. TypeConn(c)'
  BY <1>1, <1>3, <1>5 DEF TypeConn, SameReads, Pcs
<1>7. TypeShared'
  <2>1. walSalt' \in 0..MaxSalt
    BY <1>5, Bounds
  <2>. QED
    BY <1>1, <1>3, <1>5, <2>1 DEF TypeShared
<1>8. OnlyLocksOf(c)
  BY <1>1, <1>3 DEF LockInvOf, OnlyLocksOf
<1>9. Admitted(c)
  BY <1>3, <1>5, Bounds DEF Admitted, SameReads
<1>10. LockInvOf(c)'
  BY <1>1, <1>3, <1>5, Bounds DEF LockInvOf, SameReads
<1>11. GlobalLocks'
  BY <1>1, <1>3, ConnFacts DEF LockInvOf, GlobalLocks, NoCkpt
<1>. QED
  BY <1>1, <1>3, <1>6, <1>7, <1>8, <1>9, <1>10, <1>11, TypeStep, LockStep

\* The loss of the wal-index keeps the types and the lock rules.
LEMMA ShmLostControl ==
  ASSUME Control, ShmLost
  PROVE  Control'
<1>1. TypeBase /\ TypeShared
  BY DEF Control, TypeBase
<1>2. TypeShared'
  BY <1>1, Zeros, Bounds DEF TypeShared, ShmLost
<1>3. TypeBase'
  BY <1>1, <1>2, Zeros, Bounds DEF TypeBase, ShmLost
<1>4. LockInv'
  <2>1. /\ LockInv
        /\ UNCHANGED <<lockVars, readLock, pick, pc, ckpt, spilled, nTx>>
    BY DEF Control, ShmLost
  <2>. QED
    BY <2>1 DEF LockInv, LockInvOf, ReadersOut, GlobalLocks
<1>. QED
  BY <1>3, <1>4 DEF Control

\* Every step keeps the types and the lock rules.  The code behind it:
\* walLockShared, walLockExclusive and the unlocks of wal.c, on every path.
THEOREM NextControl == Control /\ [Next]_vars => Control'
<1>. SUFFICES ASSUME Control, [Next]_vars PROVE Control'
  OBVIOUS
<1>1. CASE UNCHANGED vars
  BY SMTT(30), <1>1 DEF vars, Control, TypeBase, TypeShared, LockInv, LockInvOf,
     ReadersOut,
              GlobalLocks
<1>2. CASE ShmLost
  BY <1>2, ShmLostControl
<1>3. ASSUME NEW c \in Conn, Reader(c) PROVE Control'
  BY <1>3, BeginReadControl, ChooseLogControl, LockRead0Control,
     PickMarkControl,
     LockMarkControl, LoadBackfillControl, CheckMarkControl, EndReadControl
     DEF Reader
<1>4. ASSUME NEW c \in Conn, Recovery(c) PROVE Control'
  BY <1>4, RecoverScanControl, RecoverHdr0Control, RecoverInfoControl
     DEF Recovery
<1>5. ASSUME NEW c \in Conn, Writer(c) PROVE Control'
  <2>1. CASE SpillPage(c)
    <3>1. PICK p \in Page, salt \in 1..MaxSalt : WalFrames(c, {p}, FALSE, salt)
      BY <2>1 DEF SpillPage
    <3>2. {p} \in SUBSET Page /\ {p} # {} /\ FALSE \in BOOLEAN
      OBVIOUS
    <3>. QED
      BY <3>1, <3>2, WalFramesControl
  <2>2. CASE CommitFrames(c)
    <3>1. PICK W \in (SUBSET Page) \ {{}}, salt \in 1..MaxSalt :
             WalFrames(c, W, TRUE, salt)
      BY <2>2 DEF CommitFrames
    <3>2. W \in SUBSET Page /\ W # {} /\ TRUE \in BOOLEAN
      OBVIOUS
    <3>. QED
      BY <3>1, <3>2, WalFramesControl
  <2>. QED
    BY <1>5, <2>1, <2>2, BeginWriteControl, RestartLogControl, KeepLogControl,
       RestartHdr0Control, RestartBackfillControl, RestartMarksControl,
       Publish1Control, Publish0Control, RollbackControl DEF Writer
<1>6. ASSUME NEW c \in Conn, Checkpointer(c) PROVE Control'
  BY <1>6, CkptBeginControl, CkptReadHdrControl, CkptTestControl,
     CkptScanControl, CkptStartControl, CkptCopyControl, CkptFinishControl,
     CkptInterruptControl, CkptRestartControl, CkptTruncateControl,
     CkptReturnControl DEF Checkpointer
<1>. QED
  BY <1>1, <1>2, <1>3, <1>4, <1>5, <1>6, DieControl DEF Next

\* Which locks a connection holds is decided by the step it is at, a reader of
\* the log is never there while it is restarted, and a reader of the database
\* file alone never while a checkpoint copies pages: for every instance, with
\* deaths anywhere.
THEOREM ControlInvariant == Spec => []Control
BY InitControl, NextControl, PTL DEF Spec
-----------------------------------------------------------------------------
(* The page cache *)

\* c runs a checkpoint, or the recovery or the restart of the log in it.
InCkpt(c) == pc[c] \in CkptPcs \/ Checkpointing(c)

\* What the page cache of c holds, with the header that says how fresh it is.
CacheOf(c) ==
  /\ pc[c] = "idle" \/ (InCkpt(c) /\ ~ckpt.changed)
       => cached[c] \in {0, hdr[c].tx} \/ hdr[c] = ZeroHdr
  /\ InCkpt(c) /\ ~ckpt.changed /\ pc[c] # "ckHdr" => hdr[c] # ZeroHdr
  /\ pc[c] = "ckHdr" => ~ckpt.changed
  /\ pc[c] # "idle" /\ ~InCkpt(c) => cached[c] \in {0, hdr[c].tx}
  /\ pc[c] \in ReadPcs => cached[c] = hdr[c].tx
  /\ writeLock = c /\ pc[c] \in {"write"} \cup TransitPcs
                              \cup {"restart0", "restartInfo", "restartMarks"}
       => ckptLock = c \/ hdr[c].tx = aHdr[0].tx

CacheInv == \A c \in Conn : CacheOf(c)

\* A step of c, once c has its page cache right, leaves the caches of the
\* others.
LEMMA CacheStep ==
  ASSUME Control, CacheInv, NEW c \in Conn, OnlyAt(c), OnlyLocksOf(c),
         aHdr'[0] = aHdr[0] \/ writeLock = c, CacheOf(c)'
  PROVE  CacheInv'
<1>. SUFFICES ASSUME NEW d \in Conn, d # c PROVE CacheOf(d)'
  BY DEF CacheInv
<1>1. /\ CacheOf(d) /\ LockInvOf(d) /\ TypeBase
  BY Local DEF CacheInv
<1>2. /\ pc'[d] = pc[d] /\ hdr'[d] = hdr[d] /\ cached'[d] = cached[d]
      /\ writeLock' = d <=> writeLock = d
      /\ ckptLock' = d <=> ckptLock = d
      /\ ckptLock = d => ckpt' = ckpt
      /\ writeLock = d => aHdr'[0] = aHdr[0]
  BY <1>1, ConnFacts, OthersSame DEF OnlyLocksOf
<1>3. InCkpt(d)' <=> InCkpt(d)
  BY <1>1, <1>2 DEF InCkpt, Checkpointing, LockInvOf
<1>4. InCkpt(d) => ckpt' = ckpt
  BY <1>1, <1>2 DEF InCkpt, Checkpointing, LockInvOf
<1>5. pc[d] = "ckHdr" => InCkpt(d)
  BY DEF InCkpt
<1>. QED
  BY <1>1, <1>2, <1>3, <1>4, <1>5 DEF CacheOf

\* A writer that has written frames has a cache of its own transaction.
LEMMA FramesCache ==
  ASSUME Control, CacheInv, NEW c \in Conn, NEW W \in SUBSET Page, W # {},
         NEW isCommit \in BOOLEAN, NEW salt \in 1..MaxSalt,
         WalFrames(c, W, isCommit, salt)
  PROVE  CacheInv'
<1>1. /\ LockInvOf(c) /\ CacheOf(c) /\ TypeBase
  BY Local DEF CacheInv
<1>2. OnlyLocksOf(c)
  BY WalFramesControl
<1>3. /\ OnlyAt(c) /\ pc[c] = "write" /\ UNCHANGED <<aHdr, lockVars, ckpt>>
      /\ \E last \in 1..MaxFrame, tx \in 1..MaxTx :
           FramesDone(c, W, isCommit, salt, last, tx)
  <2>1. spilled # {} \/ nTx < MaxTx
    BY <1>1 DEF LockInvOf, WalFrames
  <2>. QED
    BY <1>1, <2>1, WalFramesEffect
<1>4. \/ pc'[c] = "publish1" /\ cached'[c] = hdr'[c].tx
      \/ /\ pc'[c] = "write" /\ cached'[c] = cached[c]
         /\ hdr'[c].tx = hdr[c].tx
  BY <1>3 DEF FramesDone
<1>5. CacheOf(c)'
  BY <1>1, <1>3, <1>4 DEF CacheOf, InCkpt, Checkpointing, LockInvOf
<1>. QED
  BY <1>1, <1>2, <1>3, <1>5, CacheStep

\* The steps of a reader keep the page caches fresh.
LEMMA ReaderCache ==
  ASSUME Control, CacheInv, NEW c \in Conn, Reader(c)
  PROVE  CacheInv'
<1>1. /\ LockInvOf(c) /\ GlobalLocks /\ CacheOf(c) /\ TypeBase
      /\ TypeShared /\ TypeConn(c)
  BY Local DEF CacheInv
<1>2. CASE BeginRead(c)
  <2>1. /\ OnlyAt(c) /\ BeginReadDone(c) /\ OnlyLocksOf(c) /\ Control'
    BY <1>2, BeginReadControl
  <2>2. LockInvOf(c)'
    BY <2>1 DEF Control, LockInv
  <2>3. CacheOf(c)'
    BY <1>1, <2>1, <2>2, ConnFacts DEF BeginReadDone, CacheOf, InCkpt,
       Checkpointing, LockInvOf, GlobalLocks, SameReads, HeaderGood, CkptIs,
       NoCkpt
  <2>. QED
    BY <1>1, <2>1, <2>3, CacheStep DEF BeginReadDone, LockInvOf
<1>3. CASE ChooseLog(c)
  <2>1. /\ OnlyAt(c) /\ ChooseLogDone(c) /\ OnlyLocksOf(c) /\ Control'
    BY <1>3, ChooseLogControl
  <2>2. LockInvOf(c)'
    BY <2>1 DEF Control, LockInv
  <2>3. CacheOf(c)'
    BY <1>1, <2>1, <2>2, ConnFacts DEF ChooseLogDone, CacheOf, InCkpt,
       Checkpointing, LockInvOf, GlobalLocks, SameReads, HeaderGood, CkptIs,
       NoCkpt
  <2>. QED
    BY <1>1, <2>1, <2>3, CacheStep DEF ChooseLogDone, LockInvOf
<1>4. CASE LockRead0(c)
  <2>1. /\ OnlyAt(c) /\ LockRead0Done(c) /\ OnlyLocksOf(c) /\ Control'
    BY <1>4, LockRead0Control
  <2>2. LockInvOf(c)'
    BY <2>1 DEF Control, LockInv
  <2>3. CacheOf(c)'
    BY <1>1, <2>1, <2>2, ConnFacts DEF LockRead0Done, CacheOf, InCkpt,
       Checkpointing, LockInvOf, GlobalLocks, SameReads, HeaderGood, CkptIs,
       NoCkpt
  <2>. QED
    BY <1>1, <2>1, <2>3, CacheStep DEF LockRead0Done, LockInvOf
<1>5. CASE PickMark(c)
  <2>1. /\ OnlyAt(c) /\ PickMarkDone(c) /\ OnlyLocksOf(c) /\ Control'
    BY <1>5, PickMarkControl
  <2>2. LockInvOf(c)'
    BY <2>1 DEF Control, LockInv
  <2>3. CacheOf(c)'
    BY <1>1, <2>1, <2>2, ConnFacts DEF PickMarkDone, CacheOf, InCkpt,
       Checkpointing, LockInvOf, GlobalLocks, SameReads, HeaderGood, CkptIs,
       NoCkpt
  <2>. QED
    BY <1>1, <2>1, <2>3, CacheStep DEF PickMarkDone, LockInvOf
<1>6. CASE LockMark(c)
  <2>1. /\ OnlyAt(c) /\ LockMarkDone(c) /\ OnlyLocksOf(c) /\ Control'
    BY <1>6, LockMarkControl
  <2>2. LockInvOf(c)'
    BY <2>1 DEF Control, LockInv
  <2>3. CacheOf(c)'
    BY <1>1, <2>1, <2>2, ConnFacts DEF LockMarkDone, CacheOf, InCkpt,
       Checkpointing, LockInvOf, GlobalLocks, SameReads, HeaderGood, CkptIs,
       NoCkpt
  <2>. QED
    BY <1>1, <2>1, <2>3, CacheStep DEF LockMarkDone, LockInvOf
<1>7. CASE LoadBackfill(c)
  <2>1. /\ OnlyAt(c) /\ LoadBackfillDone(c) /\ OnlyLocksOf(c) /\ Control'
    BY <1>7, LoadBackfillControl
  <2>2. LockInvOf(c)'
    BY <2>1 DEF Control, LockInv
  <2>3. CacheOf(c)'
    BY <1>1, <2>1, <2>2, ConnFacts DEF LoadBackfillDone, CacheOf, InCkpt,
       Checkpointing, LockInvOf, GlobalLocks, SameReads, HeaderGood, CkptIs,
       NoCkpt
  <2>. QED
    BY <1>1, <2>1, <2>3, CacheStep DEF LoadBackfillDone, LockInvOf
<1>8. CASE CheckMark(c)
  <2>1. /\ OnlyAt(c) /\ CheckMarkDone(c) /\ OnlyLocksOf(c) /\ Control'
    BY <1>8, CheckMarkControl
  <2>2. LockInvOf(c)'
    BY <2>1 DEF Control, LockInv
  <2>3. CacheOf(c)'
    BY <1>1, <2>1, <2>2, ConnFacts DEF CheckMarkDone, CacheOf, InCkpt,
       Checkpointing, LockInvOf, GlobalLocks, SameReads, HeaderGood, CkptIs,
       NoCkpt
  <2>. QED
    BY <1>1, <2>1, <2>3, CacheStep DEF CheckMarkDone, LockInvOf
<1>9. CASE EndRead(c)
  <2>1. /\ OnlyAt(c) /\ EndReadDone(c) /\ OnlyLocksOf(c) /\ Control'
    BY <1>9, EndReadControl
  <2>2. LockInvOf(c)'
    BY <2>1 DEF Control, LockInv
  <2>3. CacheOf(c)'
    BY <1>1, <2>1, <2>2, ConnFacts DEF EndReadDone, CacheOf, InCkpt,
       Checkpointing, LockInvOf, GlobalLocks, SameReads, HeaderGood, CkptIs,
       NoCkpt
  <2>. QED
    BY <1>1, <2>1, <2>3, CacheStep DEF EndReadDone, LockInvOf
<1>. QED
  BY <1>2, <1>3, <1>4, <1>5, <1>6, <1>7, <1>8, <1>9 DEF Reader

\* The steps of a recovery keep the page caches fresh.
LEMMA RecoveryCache ==
  ASSUME Control, CacheInv, NEW c \in Conn, Recovery(c)
  PROVE  CacheInv'
<1>1. /\ LockInvOf(c) /\ GlobalLocks /\ CacheOf(c) /\ TypeBase
      /\ TypeShared /\ TypeConn(c)
  BY Local DEF CacheInv
<1>2. CASE RecoverScan(c)
  <2>1. /\ OnlyAt(c) /\ RecoverScanDone(c) /\ OnlyLocksOf(c) /\ Control'
    BY <1>2, RecoverScanControl
  <2>2. LockInvOf(c)'
    BY <2>1 DEF Control, LockInv
  <2>3. CacheOf(c)'
    BY <1>1, <2>1, <2>2, ConnFacts DEF RecoverScanDone, CacheOf, InCkpt,
       Checkpointing, LockInvOf, GlobalLocks, SameReads, HeaderGood, CkptIs,
       NoCkpt, MayRecover
  <2>. QED
    BY <1>1, <2>1, <2>3, CacheStep DEF RecoverScanDone, LockInvOf, TypeBase,
       TypeShared
<1>3. CASE RecoverHdr0(c)
  <2>1. /\ OnlyAt(c) /\ RecoverHdr0Done(c) /\ OnlyLocksOf(c) /\ Control'
    BY <1>3, RecoverHdr0Control
  <2>2. LockInvOf(c)'
    BY <2>1 DEF Control, LockInv
  <2>3. CacheOf(c)'
    BY <1>1, <2>1, <2>2, ConnFacts DEF RecoverHdr0Done, CacheOf, InCkpt,
       Checkpointing, LockInvOf, GlobalLocks, SameReads, HeaderGood, CkptIs,
       NoCkpt, ZeroHdr, TypeConn, TypeBase, TypeShared
  <2>. QED
    BY <1>1, <2>1, <2>3, CacheStep DEF RecoverHdr0Done, LockInvOf
<1>4. CASE RecoverInfo(c)
  <2>1. /\ OnlyAt(c) /\ RecoverInfoDone(c) /\ OnlyLocksOf(c) /\ Control'
    BY <1>4, RecoverInfoControl
  <2>2. LockInvOf(c)'
    BY <2>1 DEF Control, LockInv
  <2>3. CacheOf(c)'
    BY <1>1, <2>1, <2>2, ConnFacts DEF RecoverInfoDone, CacheOf, InCkpt,
       Checkpointing, LockInvOf, GlobalLocks, SameReads, HeaderGood, CkptIs,
       NoCkpt
  <2>. QED
    BY <1>1, <2>1, <2>3, CacheStep DEF RecoverInfoDone, LockInvOf
<1>. QED
  BY <1>2, <1>3, <1>4 DEF Recovery

\* The steps of a writer keep the page caches fresh.
LEMMA WriterCache ==
  ASSUME Control, CacheInv, NEW c \in Conn, Writer(c)
  PROVE  CacheInv'
<1>1. /\ LockInvOf(c) /\ GlobalLocks /\ CacheOf(c) /\ TypeBase
      /\ TypeShared /\ TypeConn(c)
  BY Local DEF CacheInv
<1>2. CASE BeginWrite(c)
  <2>1. /\ OnlyAt(c) /\ BeginWriteDone(c) /\ OnlyLocksOf(c) /\ Control'
    BY <1>2, BeginWriteControl
  <2>2. LockInvOf(c)'
    BY <2>1 DEF Control, LockInv
  <2>3. CacheOf(c)'
    BY <1>1, <2>1, <2>2, ConnFacts DEF BeginWriteDone, CacheOf, InCkpt,
       Checkpointing, LockInvOf, GlobalLocks, SameReads, HeaderGood, CkptIs,
       NoCkpt
  <2>. QED
    BY <1>1, <2>1, <2>3, CacheStep DEF BeginWriteDone, LockInvOf
<1>3. CASE RestartLog(c)
  <2>1. /\ OnlyAt(c) /\ RestartLogDone(c) /\ OnlyLocksOf(c) /\ Control'
    BY <1>3, RestartLogControl
  <2>2. LockInvOf(c)'
    BY <2>1 DEF Control, LockInv
  <2>3. CacheOf(c)'
    BY <1>1, <2>1, <2>2, ConnFacts, Bounds DEF RestartLogDone, CacheOf,
       InCkpt, Checkpointing, LockInvOf, GlobalLocks, SameReads, HeaderGood,
       CkptIs, NoCkpt, ZeroHdr, TypeConn, TypeBase, TypeShared
  <2>. QED
    BY <1>1, <2>1, <2>3, CacheStep DEF RestartLogDone, LockInvOf, TypeBase,
       TypeShared
<1>4. CASE KeepLog(c)
  <2>1. /\ OnlyAt(c) /\ KeepLogDone(c) /\ OnlyLocksOf(c) /\ Control'
    BY <1>4, KeepLogControl
  <2>2. LockInvOf(c)'
    BY <2>1 DEF Control, LockInv
  <2>3. CacheOf(c)'
    BY <1>1, <2>1, <2>2, ConnFacts DEF KeepLogDone, CacheOf, InCkpt,
       Checkpointing, LockInvOf, GlobalLocks, SameReads, HeaderGood, CkptIs,
       NoCkpt
  <2>. QED
    BY <1>1, <2>1, <2>3, CacheStep DEF KeepLogDone, LockInvOf
<1>5. CASE RestartHdr0(c)
  <2>1. /\ OnlyAt(c) /\ RestartHdr0Done(c) /\ OnlyLocksOf(c) /\ Control'
    BY <1>5, RestartHdr0Control
  <2>2. LockInvOf(c)'
    BY <2>1 DEF Control, LockInv
  <2>3. CacheOf(c)'
    BY <1>1, <2>1, <2>2, ConnFacts DEF RestartHdr0Done, CacheOf, InCkpt,
       Checkpointing, LockInvOf, GlobalLocks, SameReads, HeaderGood, CkptIs,
       NoCkpt, ZeroHdr, TypeConn, TypeBase, TypeShared
  <2>. QED
    BY <1>1, <2>1, <2>3, CacheStep DEF RestartHdr0Done, LockInvOf
<1>6. CASE RestartBackfill(c)
  <2>1. /\ OnlyAt(c) /\ RestartBackfillDone(c) /\ OnlyLocksOf(c) /\ Control'
    BY <1>6, RestartBackfillControl
  <2>2. LockInvOf(c)'
    BY <2>1 DEF Control, LockInv
  <2>3. CacheOf(c)'
    BY <1>1, <2>1, <2>2, ConnFacts DEF RestartBackfillDone, CacheOf, InCkpt,
       Checkpointing, LockInvOf, GlobalLocks, SameReads, HeaderGood, CkptIs,
       NoCkpt
  <2>. QED
    BY <1>1, <2>1, <2>3, CacheStep DEF RestartBackfillDone, LockInvOf
<1>7. CASE RestartMarks(c)
  <2>1. /\ OnlyAt(c) /\ RestartMarksDone(c) /\ OnlyLocksOf(c) /\ Control'
    BY <1>7, RestartMarksControl
  <2>2. LockInvOf(c)'
    BY <2>1 DEF Control, LockInv
  <2>3. CacheOf(c)'
    BY <1>1, <2>1, <2>2, ConnFacts DEF RestartMarksDone, CacheOf, InCkpt,
       Checkpointing, LockInvOf, GlobalLocks, SameReads, HeaderGood, CkptIs,
       NoCkpt
  <2>. QED
    BY <1>1, <2>1, <2>3, CacheStep DEF RestartMarksDone, LockInvOf
<1>8. CASE SpillPage(c)
  <2>1. PICK p \in Page, salt \in 1..MaxSalt :
           WalFrames(c, {p}, FALSE, salt)
    BY <1>8 DEF SpillPage
  <2>2. {p} \in SUBSET Page /\ {p} # {} /\ FALSE \in BOOLEAN
    OBVIOUS
  <2>. QED
    BY <2>1, <2>2, FramesCache
<1>9. CASE CommitFrames(c)
  <2>1. PICK W \in (SUBSET Page) \ {{}}, salt \in 1..MaxSalt :
           WalFrames(c, W, TRUE, salt)
    BY <1>9 DEF CommitFrames
  <2>2. W \in SUBSET Page /\ W # {} /\ TRUE \in BOOLEAN
    OBVIOUS
  <2>. QED
    BY <2>1, <2>2, FramesCache
<1>10. CASE Publish1(c)
  <2>1. /\ OnlyAt(c) /\ Publish1Done(c) /\ OnlyLocksOf(c) /\ Control'
    BY <1>10, Publish1Control
  <2>2. LockInvOf(c)'
    BY <2>1 DEF Control, LockInv
  <2>3. CacheOf(c)'
    BY <1>1, <2>1, <2>2, ConnFacts DEF Publish1Done, CacheOf, InCkpt,
       Checkpointing, LockInvOf, GlobalLocks, SameReads, HeaderGood, CkptIs,
       NoCkpt
  <2>. QED
    BY <1>1, <2>1, <2>3, CacheStep DEF Publish1Done, LockInvOf, TypeBase,
       TypeShared
<1>11. CASE Publish0(c)
  <2>1. /\ OnlyAt(c) /\ Publish0Done(c) /\ OnlyLocksOf(c) /\ Control'
    BY <1>11, Publish0Control
  <2>2. LockInvOf(c)'
    BY <2>1 DEF Control, LockInv
  <2>3. CacheOf(c)'
    BY <1>1, <2>1, <2>2, ConnFacts DEF Publish0Done, CacheOf, InCkpt,
       Checkpointing, LockInvOf, GlobalLocks, SameReads, HeaderGood, CkptIs,
       NoCkpt, ZeroHdr, TypeConn, TypeBase, TypeShared
  <2>. QED
    BY <1>1, <2>1, <2>3, CacheStep DEF Publish0Done, LockInvOf
<1>12. CASE Rollback(c)
  <2>1. /\ OnlyAt(c) /\ RollbackDone(c) /\ OnlyLocksOf(c) /\ Control'
    BY <1>12, RollbackControl
  <2>2. LockInvOf(c)'
    BY <2>1 DEF Control, LockInv
  <2>3. CacheOf(c)'
    BY <1>1, <2>1, <2>2, ConnFacts DEF RollbackDone, CacheOf, InCkpt,
       Checkpointing, LockInvOf, GlobalLocks, SameReads, HeaderGood, CkptIs,
       NoCkpt
  <2>. QED
    BY <1>1, <2>1, <2>3, CacheStep DEF RollbackDone, LockInvOf
<1>. QED
  BY <1>2, <1>3, <1>4, <1>5, <1>6, <1>7, <1>8, <1>9, <1>10, <1>11, <1>12
     DEF Writer

\* The steps of a checkpoint keep the page caches fresh: the header it reads is
\* forgotten at its end if it was new to it.
LEMMA CheckpointerCache ==
  ASSUME Control, CacheInv, NEW c \in Conn, Checkpointer(c)
  PROVE  CacheInv'
<1>1. /\ LockInvOf(c) /\ GlobalLocks /\ CacheOf(c) /\ TypeBase
      /\ TypeShared /\ TypeConn(c)
  BY Local DEF CacheInv
<1>2. ASSUME NEW m \in Modes, CkptBegin(c, m) PROVE CacheInv'
  <2>1. /\ OnlyAt(c) /\ CkptBeginDone(c, m) /\ OnlyLocksOf(c) /\ Control'
    BY <1>2, CkptBeginControl
  <2>2. LockInvOf(c)'
    BY <2>1 DEF Control, LockInv
  <2>3. CacheOf(c)'
    BY <1>1, <2>1, <2>2, ConnFacts DEF CkptBeginDone, CacheOf, InCkpt,
       Checkpointing, LockInvOf, GlobalLocks, SameReads, HeaderGood, CkptIs,
       NoCkpt
  <2>. QED
    BY <1>1, <2>1, <2>3, CacheStep DEF CkptBeginDone, LockInvOf
<1>3. CASE CkptReadHdr(c)
  <2>1. /\ OnlyAt(c) /\ CkptReadHdrDone(c) /\ OnlyLocksOf(c) /\ Control'
    BY <1>3, CkptReadHdrControl
  <2>2. LockInvOf(c)'
    BY <2>1 DEF Control, LockInv
  <2>3. CacheOf(c)'
    BY <1>1, <2>1, <2>2, ConnFacts DEF CkptReadHdrDone, CacheOf, InCkpt,
       Checkpointing, LockInvOf, GlobalLocks, SameReads, HeaderGood, CkptIs,
       NoCkpt
  <2>. QED
    BY <1>1, <2>1, <2>3, CacheStep DEF CkptReadHdrDone, LockInvOf
<1>4. CASE CkptTest(c)
  <2>1. /\ OnlyAt(c) /\ CkptTestDone(c) /\ OnlyLocksOf(c) /\ Control'
    BY <1>4, CkptTestControl
  <2>2. LockInvOf(c)'
    BY <2>1 DEF Control, LockInv
  <2>3. CacheOf(c)'
    BY <1>1, <2>1, <2>2, ConnFacts DEF CkptTestDone, CacheOf, InCkpt,
       Checkpointing, LockInvOf, GlobalLocks, SameReads, HeaderGood, CkptIs,
       NoCkpt
  <2>. QED
    BY <1>1, <2>1, <2>3, CacheStep DEF CkptTestDone, LockInvOf
<1>5. CASE CkptScan(c)
  <2>1. /\ OnlyAt(c) /\ CkptScanDone(c) /\ OnlyLocksOf(c) /\ Control'
    BY <1>5, CkptScanControl
  <2>2. LockInvOf(c)'
    BY <2>1 DEF Control, LockInv
  <2>3. CacheOf(c)'
    BY <1>1, <2>1, <2>2, ConnFacts DEF CkptScanDone, CacheOf, InCkpt,
       Checkpointing, LockInvOf, GlobalLocks, SameReads, HeaderGood, CkptIs,
       NoCkpt
  <2>. QED
    BY <1>1, <2>1, <2>3, CacheStep DEF CkptScanDone, LockInvOf
<1>6. CASE CkptStart(c)
  <2>1. /\ OnlyAt(c) /\ CkptStartDone(c) /\ OnlyLocksOf(c) /\ Control'
    BY <1>6, CkptStartControl
  <2>2. LockInvOf(c)'
    BY <2>1 DEF Control, LockInv
  <2>3. CacheOf(c)'
    BY <1>1, <2>1, <2>2, ConnFacts DEF CkptStartDone, CacheOf, InCkpt,
       Checkpointing, LockInvOf, GlobalLocks, SameReads, HeaderGood, CkptIs,
       NoCkpt
  <2>. QED
    BY <1>1, <2>1, <2>3, CacheStep DEF CkptStartDone, LockInvOf
<1>7. CASE CkptCopy(c)
  <2>1. /\ OnlyAt(c) /\ CkptCopyDone(c) /\ OnlyLocksOf(c) /\ Control'
    BY <1>7, CkptCopyControl
  <2>2. LockInvOf(c)'
    BY <2>1 DEF Control, LockInv
  <2>3. CacheOf(c)'
    BY <1>1, <2>1, <2>2, ConnFacts DEF CkptCopyDone, CacheOf, InCkpt,
       Checkpointing, LockInvOf, GlobalLocks, SameReads, HeaderGood, CkptIs,
       NoCkpt
  <2>. QED
    BY <1>1, <2>1, <2>3, CacheStep DEF CkptCopyDone, LockInvOf
<1>8. CASE CkptFinish(c)
  <2>1. /\ OnlyAt(c) /\ CkptFinishDone(c) /\ OnlyLocksOf(c) /\ Control'
    BY <1>8, CkptFinishControl
  <2>2. LockInvOf(c)'
    BY <2>1 DEF Control, LockInv
  <2>3. CacheOf(c)'
    BY <1>1, <2>1, <2>2, ConnFacts DEF CkptFinishDone, CacheOf, InCkpt,
       Checkpointing, LockInvOf, GlobalLocks, SameReads, HeaderGood, CkptIs,
       NoCkpt
  <2>. QED
    BY <1>1, <2>1, <2>3, CacheStep DEF CkptFinishDone, LockInvOf
<1>9. CASE CkptInterrupt(c)
  <2>1. /\ OnlyAt(c) /\ CkptInterruptDone(c) /\ OnlyLocksOf(c) /\ Control'
    BY <1>9, CkptInterruptControl
  <2>2. LockInvOf(c)'
    BY <2>1 DEF Control, LockInv
  <2>3. CacheOf(c)'
    BY <1>1, <2>1, <2>2, ConnFacts DEF CkptInterruptDone, CacheOf, InCkpt,
       Checkpointing, LockInvOf, GlobalLocks, SameReads, HeaderGood, CkptIs,
       NoCkpt
  <2>. QED
    BY <1>1, <2>1, <2>3, CacheStep DEF CkptInterruptDone, LockInvOf
<1>10. CASE CkptRestart(c)
  <2>1. /\ OnlyAt(c) /\ CkptRestartDone(c) /\ OnlyLocksOf(c) /\ Control'
    BY <1>10, CkptRestartControl
  <2>2. LockInvOf(c)'
    BY <2>1 DEF Control, LockInv
  <2>3. CacheOf(c)'
    BY <1>1, <2>1, <2>2, ConnFacts, Bounds DEF CkptRestartDone, CacheOf,
       InCkpt, Checkpointing, LockInvOf, GlobalLocks, SameReads, HeaderGood,
       CkptIs, NoCkpt, ZeroHdr, TypeConn, TypeBase, TypeShared
  <2>. QED
    BY <1>1, <2>1, <2>3, CacheStep DEF CkptRestartDone, LockInvOf, TypeBase,
       TypeShared
<1>11. CASE CkptTruncate(c)
  <2>1. /\ OnlyAt(c) /\ CkptTruncateDone(c) /\ OnlyLocksOf(c) /\ Control'
    BY <1>11, CkptTruncateControl
  <2>2. LockInvOf(c)'
    BY <2>1 DEF Control, LockInv
  <2>3. CacheOf(c)'
    BY <1>1, <2>1, <2>2, ConnFacts DEF CkptTruncateDone, CacheOf, InCkpt,
       Checkpointing, LockInvOf, GlobalLocks, SameReads, HeaderGood, CkptIs,
       NoCkpt
  <2>. QED
    BY <1>1, <2>1, <2>3, CacheStep DEF CkptTruncateDone, LockInvOf
<1>12. CASE CkptReturn(c)
  <2>1. /\ OnlyAt(c) /\ CkptReturnDone(c) /\ OnlyLocksOf(c) /\ Control'
    BY <1>12, CkptReturnControl
  <2>2. LockInvOf(c)'
    BY <2>1 DEF Control, LockInv
  <2>3. CacheOf(c)'
    BY <1>1, <2>1, <2>2, ConnFacts DEF CkptReturnDone, CacheOf, InCkpt,
       Checkpointing, LockInvOf, GlobalLocks, SameReads, HeaderGood, CkptIs,
       NoCkpt
  <2>. QED
    BY <1>1, <2>1, <2>3, CacheStep DEF CkptReturnDone, LockInvOf
<1>. QED
  BY <1>2, <1>3, <1>4, <1>5, <1>6, <1>7, <1>8, <1>9, <1>10, <1>11, <1>12
     DEF Checkpointer

\* Every step keeps the page caches fresh (the pChanged results of
\* walIndexReadHdr and the memset of pWal->hdr at the end of a checkpoint).
THEOREM NextCache == Control /\ CacheInv /\ [Next]_vars => CacheInv'
<1>. SUFFICES ASSUME Control, CacheInv, [Next]_vars PROVE CacheInv'
  OBVIOUS
<1>1. CASE UNCHANGED vars
  BY <1>1 DEF vars, CacheInv, CacheOf, InCkpt, Checkpointing
<1>2. CASE ShmLost
  BY <1>2, ConnFacts
     DEF ShmLost, CacheInv, CacheOf, InCkpt, Checkpointing, Control, LockInv,
         LockInvOf
<1>3. ASSUME NEW c \in Conn, Die(c) PROVE CacheInv'
  <2>1. OnlyAt(c) /\ DieDone(c) /\ OnlyLocksOf(c) /\ LockInvOf(c)
    BY <1>3, DieControl, Local
  <2>2. CacheOf(c)'
    BY <2>1, ConnFacts
       DEF DieDone, CacheOf, InCkpt, Checkpointing, LockInvOf
  <2>. QED
    BY <2>1, <2>2, CacheStep DEF DieDone
<1>. QED
  BY <1>1, <1>2, <1>3, ReaderCache, RecoveryCache, WriterCache,
     CheckpointerCache DEF Next

\* The page cache of a connection in a transaction holds pages of the snapshot
\* it reads, with stale checkpoints and deaths anywhere.
THEOREM CacheIsFresh == Spec => []CacheFresh
<1>1. Init => Control /\ CacheInv
  <2>1. Init => CacheInv
    BY ConnFacts DEF Init, CacheInv, CacheOf, InCkpt, Checkpointing, NoCkpt
  <2>. QED
    BY <2>1, InitControl
<1>2. Control /\ CacheInv /\ [Next]_vars => Control' /\ CacheInv'
  BY NextControl, NextCache
<1>3. CacheInv => CacheFresh
  BY DEF CacheInv, CacheOf, CacheFresh
<1>. QED
  BY <1>1, <1>2, <1>3, PTL DEF Spec
=============================================================================
