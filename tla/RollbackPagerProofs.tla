------------------------- MODULE RollbackPagerProofs ------------------------
(***************************************************************************)
(* What holds in every state of RollbackPager that the deaths of processes *)
(* can lead to, for any number of connections and pages. IInv0 is the      *)
(* inductive invariant: who holds which lock and has the locals, which     *)
(* image the journal recovers, what the transaction under way has in its   *)
(* journal, in memory and in the file, what a rollback to the savepoint    *)
(* needs, and how far a rollback or a recovery has come.                   *)
(*                                                                         *)
(* The proof that a step keeps it has a lemma for each action, and one for *)
(* each part that the action disturbs. Power losses are the subject of     *)
(* RollbackDiskProofs.                                                     *)
(***************************************************************************)
EXTENDS RollbackPager, TLAPS, FiniteSetTheorems, WellFoundedInduction,
        NaturalsInduction

-----------------------------------------------------------------------------
(* Types *)

WriteStates == {"none", "locked", "cachemod", "dbmod"}
Endings == {"none", "commit", "rollback", "hot"}
Savepoints == [open : BOOLEAN, nOrig : 0..NPage, iOffset : Nat,
               iHdrOffset : Nat, iSubRec : Nat, in : SUBSET Page, img : Image]
SubRecs == [pg : Page, data : Content]
Locals == [owner : Conn \cup {NoConn}, state : WriteStates, tx : 0..MaxTx,
           mem : Image, inCache : SUBSET Page, dirty : SUBSET Page,
           needSync : SUBSET Page, inJournal : SUBSET Page, orig : 0..NPage,
           off : Nat, hdr : Nat, slot : Nat, goal : 0..NPage,
           ending : Endings, sp : Savepoints, sub : Seq(SubRecs)]
Infos == [ctr : Nat, size : 0..NPage]

DbTypes == db \in Image /\ dbDisk \in [Page -> SUBSET Content]
SlotsOf(j) == IF j = NoFile THEN <<>> ELSE j
JrTypes ==
  /\ jr \in Journals /\ jrDisk \in Seq(SUBSET Slot)
  /\ DOMAIN jrDisk = DOMAIN SlotsOf(jr) /\ jrOther \subseteq Journals
ConnTypes ==
  /\ held \in [Conn -> NO_LOCK..EXCLUSIVE_LOCK] /\ pc \in [Conn -> Pcs]
  /\ cache \in [Conn -> [img : Image, ctr : Nat]]
HistTypes ==
  /\ info \in [1..MaxTx -> Infos] /\ committed \in Image /\ maybe \subseteq Image
  /\ nTx \in 1..MaxTx /\ nDeaths \in Nat /\ nLosses \in Nat
TypeInv == /\ DbTypes /\ JrTypes /\ ConnTypes /\ HistTypes
           /\ w \in Locals /\ todo \subseteq DOMAIN SlotsOf(jr)

-----------------------------------------------------------------------------
(* The locks, and who has the locals *)

Active(c) == pc[c] \in WritePcs \cup EndPcs
LateEndPcs == {"finalSync", "endTx"}
RestPcs == {"exists", "reserved", "first", "exclusive", "validate", "reader"}

LockInv ==
  \A c, d \in Conn :
    c # d =>
      /\ held[c] >= RESERVED_LOCK => held[d] < RESERVED_LOCK
      /\ held[c] = EXCLUSIVE_LOCK => held[d] = NO_LOCK
LockOf(c) ==
  /\ (pc[c] = "open") <=> (held[c] = NO_LOCK)
  /\ pc[c] \in RestPcs => held[c] = SHARED_LOCK
  /\ Active(c) => held[c] >= RESERVED_LOCK
  /\ pc[c] = "write" => ((held[c] = EXCLUSIVE_LOCK) <=> (w.state = "dbmod"))
  /\ pc[c] \in (WritePcs \ {"write"}) \cup {"finish"} => held[c] = EXCLUSIVE_LOCK
  /\ pc[c] \in EndPcs /\ w.state = "dbmod" => held[c] = EXCLUSIVE_LOCK
OwnerOf(c) ==
  Active(c) =>
    /\ w.owner = IF w.ending = "hot" THEN NoConn ELSE c
    /\ pc[c] \in WritePcs \cup {"finish"} => w.ending = "none"
    /\ pc[c] = "play" => w.ending \in {"rollback", "hot"}
    /\ pc[c] \in {"finalize", "finalSync", "endTx"} => w.ending # "none"
    /\ w.ending = "commit" => w.state = "dbmod"
    /\ w.ending = "hot" => w.state = "dbmod"
    /\ w.state # "none"
    /\ w.state = "locked" => pc[c] = "write"
    /\ pc[c] # "play" => todo = {}
IdleInv == (\A c \in Conn : ~Active(c)) => w = NoWrite /\ todo = {}
ControlInv == LockInv /\ IdleInv /\ \A c \in Conn : LockOf(c) /\ OwnerOf(c)

-----------------------------------------------------------------------------
(* The images *)

SizeOf(m) == InfoOf(m[1]).size
CtrOf(m) == InfoOf(m[1]).ctr
\* Image m has n pages, one after the other.
Prefix(m, n) == n \in Page /\ \A p \in Page : (m[p] # Absent) <=> p <= n
\* m is the image of a transaction that has begun.
Whole(m) == /\ Prefix(m, SizeOf(m)) /\ CtrOf(m) > 0
            /\ \A p \in Page : m[p] <= 2 * nTx + 1
ImageInv == committed \in maybe /\ \A m \in maybe : Whole(m)

\* File d holds image m of n pages.
Agree(d, m, n) == \A p \in Page : p <= n => d[p] = m[p]
Hot(j) == j # NoFile /\ IsHeader(j, 1, 0)
Undoes(j, p) == Hot(j) /\ \E i \in Playback(j, 0) : j[i].pg = p
\* Whatever part of m journal j plays back it plays back as it is in m.
Harmless(j, m, n) ==
  Hot(j) =>
    /\ j[1].orig >= n
    /\ \A i \in Playback(j, 0) : j[i].pg <= n => j[i].data = m[j[i].pg]
\* The recovery of file d with journal j ends with m.
Covers(d, j, m, n) ==
  /\ Harmless(j, m, n)
  /\ \A p \in Page : p <= n => d[p] = m[p] \/ Undoes(j, p)
FileInv == Covers(db, jr, committed, SizeOf(committed))

\* A cache is of an older image, or holds the last one.
CacheOf(c) ==
  /\ cache[c] # NoCache =>
       /\ 0 < cache[c].ctr /\ cache[c].ctr <= CtrOf(committed)
       /\ cache[c].ctr = CtrOf(committed) => cache[c].img = committed
  /\ (\/ pc[c] = "reader"
      \/ Active(c) /\ w.ending # "hot" /\ ~(w.ending = "commit" /\ pc[c] \in LateEndPcs))
       => cache[c].img = committed /\ cache[c].ctr = CtrOf(committed)
\* Whoever reads found no hot journal, and there is none while it reads.
ColdOf(c) ==
  (\/ pc[c] \in {"validate", "reader"} \cup LateEndPcs
   \/ held[c] \in {RESERVED_LOCK, PENDING_LOCK}) => ~Hot(jr)
ReadInv == \A c \in Conn : CacheOf(c) /\ ColdOf(c)
InitInv == \A i \in DOMAIN SlotsOf(jr) :
             SlotsOf(jr)[i].kind \in {"hdr", "rec"} => SlotsOf(jr)[i].init <= nTx

-----------------------------------------------------------------------------
(* The transaction under way: v are its locals, d and j the files, m the image *)
(* of n pages that it has started from, at the place it has come to.           *)

OpenPcs == WritePcs \cup {"finish"}
SyncPcs == {"jsync", "jhdr", "jsync2"}
InTx(c) == w.owner = c /\ pc[c] \in OpenPcs \cup {"play", "finalize"}

RecordsOf(v, j) == {i \in 1..v.off : j[i].kind = "rec"}
Saved(v, j, p) == \E i \in RecordsOf(v, j) : i <= v.hdr /\ j[i].pg = p

\* What is in the journal.
OwnSlot(v, s, m, n) ==
  /\ s.kind \in {"hdr", "rec"} /\ s.init = v.tx
  /\ s.kind = "hdr" => s.orig = v.orig
  /\ s.kind = "rec" => /\ s.pg <= v.orig /\ s.pg \in v.inJournal
                       /\ s.pg <= n => s.data = m[s.pg]
SlotsOk(v, j, m, n) ==
  /\ j # NoFile /\ v.off \in DOMAIN j /\ v.hdr <= v.off /\ j[1].kind = "hdr"
  /\ \A i \in 1..v.off : OwnSlot(v, j[i], m, n)
  /\ \A p \in v.inJournal :
       \E i \in RecordsOf(v, j) : j[i].pg = p /\ (i <= v.hdr \/ p \in v.needSync)
StaleOk(v, j) ==
  \A i \in DOMAIN SlotsOf(j) :
    i > v.off /\ SlotsOf(j)[i].kind \in {"hdr", "rec"} => SlotsOf(j)[i].init < v.tx
\* The header that the records to come are counted in.
HeaderOk(at, v, j) ==
  /\ v.slot # 0 =>
       /\ v.slot = v.hdr + 1 /\ v.slot <= v.off
       /\ j[v.slot].kind = "hdr"
       /\ \A i \in v.slot + 1..v.off : j[i].kind = "rec"
       /\ IF at = "jsync2" THEN j[v.slot].magic /\ j[v.slot].n = v.off - v.slot
          ELSE ~j[v.slot].magic /\ j[v.slot].n = 0
  /\ v.slot = 0 => v.hdr = v.off
  /\ v.slot = 0 \/ at \in SyncPcs => ~IsHeader(j, v.off + 1, 0)
SyncedOk(v, j) ==
  v.hdr > 0 =>
    /\ \A i \in 1..v.hdr : Readable(j, i, 0)
    /\ \E h \in 1..v.hdr : Heads(j, h, v.hdr + 1) /\ j[h].n = v.hdr - h
StateOk(at, v) ==
  /\ at = "write" \/ at \in SyncPcs => v.slot # 0
  /\ at \in {"dbsync", "finish"} => v.slot = 0
  /\ at = "flush" => v.needSync = {} /\ ((v.slot = 0) <=> (v.goal = 0))
  /\ v.state = "cachemod" => v.hdr = 0 /\ v.slot = 1
  /\ (v.state = "dbmod") <=> (v.hdr > 0)
  /\ at \in {"flush", "dbsync", "finish"} => v.state = "dbmod"
LockedOk(v, m) ==
  /\ v.off = 0 /\ v.hdr = 0 /\ v.slot = 0 /\ v.sub = <<>> /\ v.inJournal = {}
  /\ v.dirty = {} /\ v.needSync = {} /\ v.mem = m
JournalOk(at, v, j, m, n) ==
  /\ StaleOk(v, j)
  /\ v.state = "locked" => LockedOk(v, m)
  /\ v.state # "locked" =>
       SlotsOk(v, j, m, n) /\ HeaderOk(at, v, j) /\ SyncedOk(v, j) /\ StateOk(at, v)

\* What it has changed.
Own(t) == {2 * t, 2 * t + 1}
DbOk(v, d, j, m, n) == \A p \in Page : p <= n => d[p] = m[p] \/ Saved(v, j, p)
MemOk(at, v, d, m, n) ==
  /\ \A p \in Page : p <= n /\ p \notin v.inJournal => v.mem[p] = m[p]
  /\ at \in OpenPcs \/ v.ending = "commit" =>
       /\ \E k \in Page : Prefix(v.mem, k) /\ k >= n
       /\ \A p \in Page : v.mem[p] = m[p] \/ v.mem[p] \in Own(v.tx)
       /\ \A p \in Page : v.mem[p] # Absent /\ p \notin v.dirty => d[p] = v.mem[p]
       /\ \A p \in v.dirty : p <= v.orig => p \in v.inJournal
\* The commit has begun: i is what page 1 will say, k the change counter of m.
CommitOk(at, v, i, k) ==
  /\ (\/ at \in SyncPcs \cup {"flush"} /\ v.goal = 0
      \/ at \in {"dbsync", "finish"}
      \/ v.ending = "commit")
     => v.mem[1] \in Own(v.tx) /\ i.ctr = k + 1 /\ Prefix(v.mem, i.size)
  /\ at \in {"dbsync", "finish"} \/ v.ending = "commit" => v.dirty = {}

\* The savepoint.  A locked transaction is about to open its journal.
OffOf(v) == IF v.state = "locked" THEN 1 ELSE v.off
NewSlots(v, j) == {i \in RecordsOf(v, j) : i > v.sp.iOffset}
NewSubs(v) == {i \in DOMAIN v.sub : i > v.sp.iSubRec}
SavepointPage(v, j, p) ==
  /\ v.mem[p] # Absent
  /\ p \notin v.sp.in => v.mem[p] = v.sp.img[p]
  /\ p \in v.sp.in => /\ \/ \E i \in NewSlots(v, j) : j[i].pg = p
                         \/ \E i \in NewSubs(v) : v.sub[i].pg = p
                      /\ p <= v.orig => p \in v.inJournal
SavepointOk(v, j, m, n) ==
  v.sp.open =>
    /\ Prefix(v.sp.img, v.sp.nOrig) /\ v.sp.nOrig >= n
    /\ \A p \in Page : v.sp.img[p] = m[p] \/ v.sp.img[p] \in Own(v.tx)
    /\ \A p \in Page : p <= v.sp.nOrig => SavepointPage(v, j, p)
    /\ \A i \in NewSlots(v, j) :
         j[i].pg <= v.sp.nOrig => j[i].data = v.sp.img[j[i].pg]
    /\ \A i \in NewSubs(v) :
         /\ v.sub[i].pg \in v.sp.in /\ v.sub[i].pg <= v.sp.nOrig
         /\ v.sub[i].data = v.sp.img[v.sub[i].pg]
    /\ v.sp.iOffset >= 1 /\ v.sp.iOffset <= OffOf(v) /\ v.sp.iSubRec <= Len(v.sub)
    /\ v.sp.iHdrOffset <= v.off
    /\ \A i \in v.sp.iOffset + 1..v.off :
         v.sp.iHdrOffset = 0 \/ i <= v.sp.iHdrOffset => j[i].kind = "rec"

\* The rollback: a page is as in m when its record has been played.
PlayOk(v, d, j, m, n, left) ==
  /\ left \subseteq RecordsOf(v, j)
  /\ \A i \in RecordsOf(v, j) \ left : j[i].pg <= n =>
       /\ v.state = "dbmod" /\ i <= v.hdr => d[j[i].pg] = m[j[i].pg]
       /\ j[i].pg \in v.inCache => v.mem[j[i].pg] = m[j[i].pg]
TxOk(at, v, d, j, m, n) ==
  /\ v.orig >= n
  /\ JournalOk(at, v, j, m, n) /\ DbOk(v, d, j, m, n) /\ MemOk(at, v, d, m, n)
  /\ at \in OpenPcs => SavepointOk(v, j, m, n)

TxOfInv(c) ==
  InTx(c) =>
    /\ w.tx = nTx /\ \A m \in maybe : \A p \in Page : m[p] < 2 * w.tx
    /\ TxOk(pc[c], w, db, jr, committed, SizeOf(committed))
    /\ CommitOk(pc[c], w, info[w.tx], CtrOf(committed))
    /\ pc[c] = "play" => PlayOk(w, db, jr, committed, SizeOf(committed), todo)
    /\ pc[c] = "finalize" /\ w.ending = "rollback" =>
         w.mem = committed /\ Agree(db, committed, SizeOf(committed))

\* The recovery.
HotInv(c) ==
  Active(c) /\ w.ending = "hot" =>
    /\ pc[c] \in {"play", "finalize"} =>
         jr # NoFile /\ w.hdr = Len(jr) /\ w.off = IF Hot(jr) THEN 1 ELSE 0
    /\ pc[c] = "play" =>
         /\ todo \subseteq Playback(jr, 0)
         /\ \A i \in Playback(jr, 0) \ todo :
              jr[i].pg <= SizeOf(committed) => db[jr[i].pg] = committed[jr[i].pg]
    /\ pc[c] = "finalize" => Agree(db, committed, SizeOf(committed))
\* The transaction is over, the lock has not been given back.
LateInv(c) ==
  pc[c] \in LateEndPcs =>
    /\ w.ending \in {"commit", "rollback"} => w.mem = committed
    /\ w.ending = "commit" => /\ info[w.tx].size = SizeOf(committed)
                              /\ info[w.tx].ctr = CtrOf(committed)
WorkInv == \A c \in Conn : TxOfInv(c) /\ HotInv(c) /\ LateInv(c)
IInv0 == /\ TypeInv /\ ControlInv /\ ImageInv /\ FileInv /\ ReadInv /\ InitInv
         /\ WorkInv

-----------------------------------------------------------------------------
(* Numbers and sequences *)

\* The least element of a set of numbers.
LEMMA MinNat ==
  ASSUME NEW S, S \subseteq Nat, S # {}
  PROVE  Min(S) \in S /\ \A y \in S : Min(S) <= y
<1>. DEFINE R == OpToRel(<, Nat)
<1>0. \A x, y \in Nat : y < x => <<y, x>> \in R
  BY DEF OpToRel
<1>1. IsWellFoundedOn(R, Nat)
  BY NatLessThanWellFounded
<1>. HIDE DEF R
<1>3. PICK x \in S : \A y \in S : ~(<<y, x>> \in R)
  BY <1>1, WFMin
<1>2. \A y \in S : x =< y
  <2>1. \A y \in S : ~(y < x) /\ x \in Nat /\ y \in Nat
    BY <1>0, <1>3
  <2>. QED
    BY <2>1
<1>4. \E z \in S : \A y \in S : z =< y
  BY <1>2
<1>. QED
  BY <1>4 DEF Min

\* The greatest element of a set of numbers that has a bound.
LEMMA MaxNat ==
  ASSUME NEW S, S \subseteq Nat, S # {}, NEW n \in Nat, \A y \in S : y <= n
  PROVE  Max(S) \in S /\ \A y \in S : y <= Max(S)
<1>. DEFINE T == {n - y : y \in S}
<1>0. \A y \in S : n - y \in Nat
  OBVIOUS
<1>1. T \subseteq Nat /\ T # {}
  BY <1>0
<1>2. Min(T) \in T /\ \A t \in T : Min(T) <= t
  BY <1>1, MinNat
<1>3. PICK x \in S : Min(T) = n - x
  BY <1>2
<1>4. \A y \in S : y <= x
  BY <1>2, <1>3
<1>5. \E z \in S : \A y \in S : z >= y
  BY <1>4
<1>6. Max(S) \in S /\ \A y \in S : Max(S) >= y
  BY <1>5 DEF Max
<1>. QED
  BY <1>6

\* A function on 1..n is a sequence.
LEMMA MakeSeq ==
  ASSUME NEW X, NEW n \in Nat, NEW f \in [1..n -> X]
  PROVE  f \in Seq(X) /\ Len(f) = n /\ DOMAIN f = 1..n
OBVIOUS

\* A sequence as a function.
LEMMA SeqParts ==
  ASSUME NEW X, NEW f \in Seq(X)
  PROVE  /\ Len(f) \in Nat /\ DOMAIN f = 1..Len(f)
         /\ f \in [1..Len(f) -> X] /\ f # <<>> => 1 \in DOMAIN f
OBVIOUS

\* AnyOf chooses one element for each place.
LEMMA AnyOfDoes ==
  ASSUME NEW X, NEW s \in Seq(SUBSET X)
  PROVE  AnyOf(s) = {j \in Seq(X) : /\ Len(j) = Len(s)
                                    /\ \A k \in 1..Len(s) : j[k] \in s[k]}
<1>. DEFINE n == Len(s)
            More(B, i) == UNION {{Append(e, x) : x \in s[i]} : e \in B}
            Row(i) == {j \in Seq(X) : Len(j) = i /\ \A k \in 1..i : j[k] \in s[k]}
            g == [i \in 0..n |-> Row(i)]
            F(f) == [i \in 0..n |-> IF i = 0 THEN {<<>>}
                       ELSE More(f[i - 1], i)]
            u == CHOOSE f : f = F(f)
<1>0. n \in Nat /\ DOMAIN s = 1..n
  OBVIOUS
<1>1. AnyOf(s) = u[n]
  BY DEF AnyOf
<1>2. \A i \in 1..n : More(Row(i - 1), i) = Row(i)
  <2>. SUFFICES ASSUME NEW i \in 1..n
                PROVE  More(Row(i - 1), i) = Row(i)
    OBVIOUS
  <2>1. ASSUME NEW e \in Row(i - 1), NEW x \in s[i] PROVE Append(e, x) \in Row(i)
    <3>1. x \in X /\ e \in Seq(X) /\ Len(e) = i - 1
      BY <1>0
    <3>2. Append(e, x) \in Seq(X) /\ Len(Append(e, x)) = i
      BY <3>1
    <3>3. \A k \in 1..i : Append(e, x)[k] = IF k = i THEN x ELSE e[k]
      BY <3>1
    <3>4. \A k \in 1..i : k # i => k \in 1..i - 1
      OBVIOUS
    <3>. QED
      BY <3>1, <3>2, <3>3, <3>4
  <2>2. ASSUME NEW j \in Row(i)
        PROVE  \E e \in Row(i - 1), x \in s[i] : j = Append(e, x)
    <3>. DEFINE e == [k \in 1..i - 1 |-> j[k]]
    <3>1. j \in [1..i -> X] /\ j[i] \in s[i] /\ i - 1 \in Nat
      BY <1>0
    <3>2. e \in [1..i - 1 -> X]
      BY <3>1
    <3>3. e \in Seq(X) /\ Len(e) = i - 1
      BY <3>1, <3>2, MakeSeq
    <3>4. \A k \in 1..i - 1 : k \in 1..i
      OBVIOUS
    <3>5. e \in Row(i - 1)
      BY <3>3, <3>4
    <3>6. j[i] \in X
      BY <3>1, <1>0
    <3>. HIDE DEF e
    <3>7. Append(e, j[i]) \in Seq(X) /\ Len(Append(e, j[i])) = i
      BY <3>3, <3>6
    <3>8. \A k \in 1..i : Append(e, j[i])[k] = j[k]
      BY <3>3, <3>6 DEF e
    <3>9. Append(e, j[i]) = j
      BY <3>7, <3>8, <3>1
    <3>. QED
      BY <3>5, <3>1, <3>9
  <2>3. \A y : y \in More(Row(i - 1), i) <=>
                \E e \in Row(i - 1), x \in s[i] : y = Append(e, x)
    OBVIOUS
  <2>. HIDE DEF More, Row
  <2>4. ASSUME NEW y \in More(Row(i - 1), i) PROVE y \in Row(i)
    <3>1. PICK e \in Row(i - 1) : \E x \in s[i] : y = Append(e, x)
      BY <2>3
    <3>2. PICK x \in s[i] : y = Append(e, x)
      BY <3>1
    <3>. QED
      BY <3>2, <2>1
  <2>5. \A y \in Row(i) : y \in More(Row(i - 1), i)
    BY <2>2, <2>3
  <2>. QED
    BY <2>4, <2>5
<1>3. Row(0) = {<<>>}
  <2>1. \A j \in Seq(X) : Len(j) = 0 => j = <<>>
    OBVIOUS
  <2>2. <<>> \in Seq(X) /\ Len(<<>>) = 0 /\ 1..0 = {}
    OBVIOUS
  <2>. QED
    BY <2>1, <2>2
<1>4. g = F(g)
  <2>1. \A i \in 0..n : g[i] = F(g)[i]
    <3>. SUFFICES ASSUME NEW i \in 0..n PROVE g[i] = F(g)[i]
      OBVIOUS
    <3>1. CASE i = 0
      BY <3>1, <1>3
    <3>2. CASE i # 0
      <4>1. i \in 1..n /\ i - 1 \in 0..n
        BY <3>2, <1>0
      <4>. QED
        BY <4>1, <3>2, <1>2
    <3>. QED
      BY <3>1, <3>2
  <2>. QED
    BY <2>1
<1>. HIDE DEF g
<1>5. u = F(u)
  BY <1>4
<1>. HIDE DEF u
<1>6. \A i \in 0..n : u[i] = g[i]
  <2>. DEFINE B == {i \in 0..n : u[i] # g[i]}
  <2>1. SUFFICES ASSUME B # {} PROVE FALSE
    OBVIOUS
  <2>0. B \subseteq Nat
    BY <1>0
  <2>2. Min(B) \in B /\ \A y \in B : Min(B) <= y
    <3>. HIDE DEF B
    <3>. QED
      BY <2>0, <2>1, MinNat
  <2>. DEFINE m == Min(B)
  <2>. HIDE DEF m
  <2>3. m \in 0..n /\ u[m] # g[m]
    BY <2>2 DEF m
  <2>4. CASE m = 0
    BY <2>3, <2>4, <1>4, <1>5
  <2>5. CASE m # 0
    <3>1. m - 1 \in 0..n /\ m - 1 \notin B
      BY <2>2, <2>3, <2>5, <1>0 DEF m
    <3>2. u[m - 1] = g[m - 1]
      BY <3>1
    <3>3. u[m] = More(u[m - 1], m)
      <4>1. u[m] = F(u)[m]
        BY <1>5
      <4>. QED
        BY <4>1, <2>3, <2>5
    <3>4. g[m] = More(g[m - 1], m)
      <4>1. g[m] = F(g)[m]
        BY <1>4
      <4>. QED
        BY <4>1, <2>3, <2>5
    <3>. QED
      BY <3>2, <3>3, <3>4, <2>3
  <2>. QED
    BY <2>4, <2>5
<1>7. u[n] = Row(n)
  BY <1>6, <1>0 DEF g
<1>. QED
  BY <1>1, <1>7

-----------------------------------------------------------------------------
(* Journals *)

\* What the slots of each kind are made of.
LEMMA SlotKinds ==
  ASSUME NEW s \in Slot
  PROVE  /\ s.kind \in {"zero", "torn", "hdr", "rec"}
         /\ s.kind = "hdr" => /\ s.magic \in BOOLEAN /\ s.n \in Nat
                              /\ s.init \in 1..MaxTx /\ s.orig \in 0..NPage
         /\ s.kind = "rec" => /\ s.pg \in Page /\ s.data \in Content
                              /\ s.init \in 0..MaxTx
         /\ s = Zero => s.kind = "zero"
BY DEF Slot, Zero, Torn

\* The slots that the code writes are slots.
LEMMA SlotMade ==
  /\ Zero \in Slot /\ Torn \in Slot
  /\ \A p \in Page, x \in Content, t \in 0..MaxTx : Record(p, x, t) \in Slot
  /\ \A b \in BOOLEAN, n \in Nat, t \in 1..MaxTx, o \in 0..NPage :
       Header(b, n, t, o) \in Slot
BY DEF Slot, Zero, Torn, Record, Header

\* The fields of the slots that the code writes.
LEMMA SlotFields ==
  /\ Zero.kind = "zero" /\ Torn.kind = "torn"
  /\ \A p, x, t : /\ Record(p, x, t).kind = "rec" /\ Record(p, x, t).pg = p
                  /\ Record(p, x, t).data = x /\ Record(p, x, t).init = t
  /\ \A b, n, t, o : /\ Header(b, n, t, o).kind = "hdr" /\ Header(b, n, t, o).magic = b
                     /\ Header(b, n, t, o).n = n /\ Header(b, n, t, o).init = t
                     /\ Header(b, n, t, o).orig = o
BY DEF Zero, Torn, Record, Header

\* No slot is played back at or behind one that cannot be read.
LEMMA PlaybackIn ==
  ASSUME NEW j \in Seq(Slot), NEW s
  PROVE  /\ Playback(j, s) \subseteq 1..Len(j)
         /\ \A i \in Playback(j, s) : /\ j[i].kind = "rec"
                                      /\ \A k \in 1..i : Readable(j, k, s)
         /\ \A i \in 1..Len(j) : j[i].kind = "rec" /\ (\A k \in 1..i : Readable(j, k, s))
                                 => i \in Playback(j, s)
BY SeqParts DEF Playback

\* A recovery plays nothing from the first slot that it cannot read.
LEMMA PlaybackEnd ==
  ASSUME NEW j \in Seq(Slot), NEW s, NEW e \in Nat, ~Readable(j, e + 1, s)
  PROVE  \A i \in Playback(j, s) : i \in 1..e
<1>. SUFFICES ASSUME NEW i \in Playback(j, s) PROVE i <= e
  BY PlaybackIn, SeqParts
<1>1. i \in 1..Len(j) /\ Len(j) \in Nat /\ \A k \in 1..i : Readable(j, k, s)
  BY PlaybackIn, SeqParts
<1>. QED
  BY <1>1

\* The last header before a slot decides what may be there.
LEMMA HeadsOnce ==
  ASSUME NEW j, NEW i \in Nat, NEW h \in 1..i - 1, NEW g \in 1..i - 1,
         Heads(j, h, i), Heads(j, g, i)
  PROVE  h = g
BY DEF Heads

\* Whether a recovery reads slot i depends on the header before it, and on how
\* many records that header counts.
LEMMA ReadableBehind ==
  ASSUME NEW j, NEW s, NEW i \in Nat, NEW h \in 1..i - 1, Heads(j, h, i)
  PROVE  Readable(j, i, s) <=> IF i - h <= RecordsAfter(j, h, s)
                               THEN IsRecord(j, i, h) ELSE IsHeader(j, i, s)
<1>1. i # 1
  OBVIOUS
<1>2. \A g \in 1..i - 1 : Heads(j, g, i) => g = h
  BY HeadsOnce
<1>. QED
  BY <1>1, <1>2 DEF Readable

\* Behind the records of a header a recovery reads on only at another header.
LEMMA Unreadable ==
  ASSUME NEW j, NEW s, NEW i \in Nat, NEW h \in 1..i - 1, Heads(j, h, i),
         ~(i - h <= RecordsAfter(j, h, s)), ~IsHeader(j, i, s)
  PROVE  ~Readable(j, i, s)
BY ReadableBehind

\* Reading up to slot i depends on nothing behind it.
LEMMA ReadableSame ==
  ASSUME NEW j, NEW k, NEW i \in Nat, i >= 1,
         i <= Len(j), i <= Len(k), \A x \in 1..i : j[x] = k[x]
  PROVE  Readable(j, i, 0) <=> Readable(k, i, 0)
<1>1. \A h \in 1..i - 1 : /\ RecordsAfter(j, h, 0) = RecordsAfter(k, h, 0)
                          /\ Heads(j, h, i) <=> Heads(k, h, i)
  BY SMTT(30) DEF RecordsAfter, Heads
<1>2. IsHeader(j, i, 0) <=> IsHeader(k, i, 0)
  BY DEF IsHeader
<1>3. \A h \in 1..i - 1 : IsRecord(j, i, h) <=> IsRecord(k, i, h)
  BY DEF IsRecord
<1>4. CASE i = 1
  BY <1>4, <1>2 DEF Readable
<1>5. CASE i # 1
  BY <1>5, <1>1, <1>2, <1>3 DEF Readable
<1>. QED
  BY <1>4, <1>5

\* What a recovery reads of the synced slots depends on these slots alone.
LEMMA SyncedSame ==
  ASSUME NEW j, NEW k, NEW v, NEW u, v.hdr \in Nat, u.hdr = v.hdr,
         v.hdr <= Len(j), v.hdr <= Len(k), \A x \in 1..v.hdr : j[x] = k[x],
         SyncedOk(v, j)
  PROVE  SyncedOk(u, k)
<1>. SUFFICES ASSUME v.hdr > 0
              PROVE  /\ \A i \in 1..v.hdr : Readable(k, i, 0)
                     /\ \E h \in 1..v.hdr : Heads(k, h, v.hdr + 1) /\ k[h].n = v.hdr - h
  BY DEF SyncedOk
<1>1. ASSUME NEW i \in 1..v.hdr PROVE Readable(k, i, 0)
  <2>1. Readable(j, i, 0)
    BY DEF SyncedOk
  <2>2. i \in Nat /\ i >= 1 /\ \A x \in 1..i : j[x] = k[x]
    OBVIOUS
  <2>3. \A a, b : a \in {Len(j), Len(k)} /\ v.hdr <= a => i <= a
    BY SMT
  <2>. QED
    BY <2>1, <2>2, <2>3, ReadableSame
<1>2. PICK h \in 1..v.hdr : Heads(j, h, v.hdr + 1) /\ j[h].n = v.hdr - h
  BY DEF SyncedOk
<1>3. Heads(k, h, v.hdr + 1)
  <2>1. \A x \in h + 1..v.hdr + 1 - 1 : x \in 1..v.hdr
    OBVIOUS
  <2>2. \A x \in h + 1..v.hdr + 1 - 1 : k[x] = j[x]
    BY <2>1
  <2>3. k[h] = j[h] /\ h < v.hdr + 1
    OBVIOUS
  <2>. QED
    BY <1>2, <2>2, <2>3 DEF Heads
<1>. QED
  BY <1>1, <1>2, <1>3

-----------------------------------------------------------------------------
(* What the journal of a transaction plays back *)

\* The fields of the locals.
LEMMA LocalsHave ==
  ASSUME NEW v \in Locals
  PROVE  /\ v.owner \in Conn \cup {NoConn} /\ v.state \in WriteStates
         /\ v.tx \in 0..MaxTx /\ v.mem \in Image
         /\ v.inCache \in SUBSET Page /\ v.dirty \in SUBSET Page
         /\ v.needSync \in SUBSET Page /\ v.inJournal \in SUBSET Page
         /\ v.orig \in 0..NPage /\ v.off \in Nat /\ v.hdr \in Nat /\ v.slot \in Nat
         /\ v.goal \in 0..NPage /\ v.ending \in Endings /\ v.sp \in Savepoints
         /\ v.sub \in Seq(SubRecs)
BY DEF Locals

\* The slots of the transaction under way.
LEMMA OwnSlots ==
  ASSUME NEW v \in Locals, NEW j \in Seq(Slot), NEW m, NEW n, SlotsOk(v, j, m, n)
  PROVE  /\ Len(j) \in Nat /\ DOMAIN j = 1..Len(j) /\ v.off \in 1..Len(j)
         /\ v.off \in Nat /\ v.hdr \in 0..v.off /\ v.slot \in Nat
         /\ \A i \in 1..v.off : j[i] \in Slot /\ OwnSlot(v, j[i], m, n)
BY LocalsHave, SeqParts DEF SlotsOk

\* Where a recovery would stop.
LEMMA OwnEnd ==
  ASSUME NEW v \in Locals, NEW j \in Seq(Slot), NEW m, NEW n, NEW at,
         SlotsOk(v, j, m, n), HeaderOk(at, v, j), SyncedOk(v, j)
  PROVE  \E e \in v.hdr..v.off : ~Readable(j, e + 1, 0)
<1>4. /\ Len(j) \in Nat /\ DOMAIN j = 1..Len(j) /\ v.off \in 1..Len(j)
      /\ v.off \in Nat /\ v.hdr \in 0..v.off /\ v.slot \in Nat
  BY OwnSlots
<1>. USE <1>4
<1>1. CASE v.slot = 0
  <2>1. v.hdr = v.off /\ v.hdr > 0 /\ ~IsHeader(j, v.off + 1, 0)
    BY <1>1 DEF HeaderOk
  <2>2. PICK h \in 1..v.hdr : Heads(j, h, v.hdr + 1) /\ j[h].n = v.hdr - h
    BY <2>1 DEF SyncedOk
  <2>3. ~(v.hdr + 1 - h <= RecordsAfter(j, h, 0))
    BY <2>2, <2>1 DEF RecordsAfter
  <2>4. v.hdr + 1 \in Nat /\ h \in 1..v.hdr + 1 - 1
    OBVIOUS
  <2>5. ~Readable(j, v.hdr + 1, 0)
    BY <2>1, <2>2, <2>3, <2>4, Unreadable
  <2>. QED
    BY <2>1, <2>5
<1>2. CASE v.slot # 0 /\ at # "jsync2"
  <2>1. v.slot = v.hdr + 1 /\ v.slot <= v.off /\ ~IsHeader(j, v.slot, 0)
    BY <1>2 DEF HeaderOk, IsHeader
  <2>2. CASE v.hdr = 0
    BY <2>1, <2>2 DEF Readable
  <2>3. CASE v.hdr > 0
    <3>2. PICK h \in 1..v.hdr : Heads(j, h, v.hdr + 1) /\ j[h].n = v.hdr - h
      BY <2>3 DEF SyncedOk
    <3>3. ~(v.hdr + 1 - h <= RecordsAfter(j, h, 0))
      BY <3>2 DEF RecordsAfter
    <3>4. v.hdr + 1 \in Nat /\ h \in 1..v.hdr + 1 - 1
      OBVIOUS
    <3>5. ~Readable(j, v.hdr + 1, 0)
      BY <2>1, <3>2, <3>3, <3>4, Unreadable
    <3>. QED
      BY <2>1, <3>5
  <2>. QED
    BY <2>2, <2>3
<1>3. CASE v.slot # 0 /\ at = "jsync2"
  <2>1. /\ v.slot = v.hdr + 1 /\ v.slot <= v.off /\ j[v.slot].n = v.off - v.slot
        /\ j[v.slot].kind = "hdr" /\ \A i \in v.slot + 1..v.off : j[i].kind = "rec"
        /\ ~IsHeader(j, v.off + 1, 0)
    BY <1>3 DEF HeaderOk, SyncPcs
  <2>2. Heads(j, v.slot, v.off + 1)
    BY <2>1 DEF Heads
  <2>3. ~(v.off + 1 - v.slot <= RecordsAfter(j, v.slot, 0))
    BY <2>1 DEF RecordsAfter
  <2>4. v.off + 1 \in Nat /\ v.slot \in 1..v.off + 1 - 1
    BY <2>1
  <2>5. ~Readable(j, v.off + 1, 0)
    BY <2>1, <2>2, <2>3, <2>4, Unreadable
  <2>. QED
    BY <2>5
<1>. QED
  BY <1>1, <1>2, <1>3

\* A recovery now would play back records of the transaction under way, all
\* those that have been synced among them.
LEMMA OwnPlayback ==
  ASSUME NEW v \in Locals, NEW j \in Seq(Slot), NEW m, NEW n, NEW at,
         SlotsOk(v, j, m, n), HeaderOk(at, v, j), SyncedOk(v, j)
  PROVE  /\ Playback(j, 0) \subseteq RecordsOf(v, j)
         /\ \A i \in RecordsOf(v, j) : i <= v.hdr => i \in Playback(j, 0)
         /\ v.hdr > 0 => Hot(j)
         /\ Hot(j) => j[1].orig = v.orig
<1>. USE OwnSlots
<1>1. PICK e \in v.hdr..v.off : ~Readable(j, e + 1, 0)
  BY OwnEnd
<1>2. Playback(j, 0) \subseteq RecordsOf(v, j)
  <2>1. \A i \in Playback(j, 0) : i \in 1..e
    BY <1>1, PlaybackEnd
  <2>2. \A i \in 1..e : i \in 1..v.off
    OBVIOUS
  <2>. QED
    BY <2>1, <2>2, PlaybackIn DEF RecordsOf
<1>3. ASSUME NEW i \in RecordsOf(v, j), i <= v.hdr PROVE i \in Playback(j, 0)
  <2>1. i \in 1..v.off /\ i \in 1..v.hdr /\ v.hdr > 0 /\ j[i].kind = "rec"
    BY <1>3 DEF RecordsOf
  <2>2. \A k \in 1..i : Readable(j, k, 0)
    <3>1. \A k \in 1..i : k \in 1..v.hdr
      BY <2>1
    <3>. QED
      BY <2>1, <3>1 DEF SyncedOk
  <2>. QED
    BY <2>1, <2>2, PlaybackIn
<1>4. ASSUME v.hdr > 0 PROVE Hot(j)
  <2>1. Readable(j, 1, 0)
    BY <1>4 DEF SyncedOk
  <2>. QED
    BY <2>1 DEF Readable, Hot, SlotsOk
<1>5. ASSUME Hot(j) PROVE j[1].orig = v.orig
  <2>1. OwnSlot(v, j[1], m, n)
    OBVIOUS
  <2>. QED
    BY <2>1, <1>5 DEF OwnSlot, Hot, IsHeader
<1>. QED
  BY <1>2, <1>3, <1>4, <1>5

\* The journal of a transaction covers the file.
LEMMA OwnCovers ==
  ASSUME NEW v \in Locals, NEW d, NEW j \in Seq(Slot), NEW m, NEW n, NEW at,
         v.orig >= n, DbOk(v, d, j, m, n),
         SlotsOk(v, j, m, n), HeaderOk(at, v, j), SyncedOk(v, j)
  PROVE  Covers(d, j, m, n)
<1>1. Harmless(j, m, n)
  <2>1. \A i \in Playback(j, 0) : OwnSlot(v, j[i], m, n) /\ j[i].kind = "rec"
    BY OwnSlots, OwnPlayback DEF RecordsOf
  <2>2. \A i \in Playback(j, 0) : j[i].pg <= n => j[i].data = m[j[i].pg]
    BY <2>1 DEF OwnSlot
  <2>. QED
    BY <2>2, OwnPlayback DEF Harmless
<1>2. ASSUME NEW p \in Page, p <= n PROVE d[p] = m[p] \/ Undoes(j, p)
  <2>1. CASE Saved(v, j, p)
    <3>1. PICK i \in RecordsOf(v, j) : i <= v.hdr /\ j[i].pg = p
      BY <2>1 DEF Saved
    <3>2. i \in Playback(j, 0) /\ v.hdr > 0
      BY <3>1, OwnPlayback, OwnSlots DEF RecordsOf
    <3>. QED
      BY <3>1, <3>2, OwnPlayback DEF Undoes
  <2>. QED
    BY <2>1, <1>2 DEF DbOk
<1>. QED
  BY <1>1, <1>2 DEF Covers

\* A transaction that rolls back reads its own records and nothing else.
LEMMA RollbackPlayback ==
  ASSUME NEW v \in Locals, NEW j \in Seq(Slot), NEW m, NEW n, NEW at, at # "jsync2",
         j # NoFile, StaleOk(v, j),
         SlotsOk(v, j, m, n), HeaderOk(at, v, j), SyncedOk(v, j)
  PROVE  Playback(j, v.slot) = RecordsOf(v, j)
<1>. USE OwnSlots
<1>. DEFINE s == v.slot
<1>0. /\ s # 0 => /\ s = v.hdr + 1 /\ s <= v.off /\ j[s].kind = "hdr"
                  /\ \A i \in s + 1..v.off : j[i].kind = "rec"
                  /\ ~j[s].magic /\ j[s].n = 0
      /\ s = 0 => v.hdr = v.off /\ ~IsHeader(j, v.off + 1, 0)
  BY DEF HeaderOk
<1>1. ASSUME NEW i \in 1..v.hdr PROVE Readable(j, i, s)
  <2>1. Readable(j, i, 0) /\ i # s
    BY <1>0 DEF SyncedOk
  <2>2. IsHeader(j, i, 0) => IsHeader(j, i, s)
    BY DEF IsHeader
  <2>3. CASE i = 1
    BY <2>1, <2>2, <2>3 DEF Readable
  <2>4. CASE i # 1
    <3>1. PICK h \in 1..i - 1 :
                 /\ Heads(j, h, i)
                 /\ IF i - h <= RecordsAfter(j, h, 0) THEN IsRecord(j, i, h)
                                                      ELSE IsHeader(j, i, 0)
      BY <2>1, <2>4 DEF Readable
    <3>2. RecordsAfter(j, h, s) = RecordsAfter(j, h, 0)
      <4>1. h # s /\ h # 0
        BY <1>0
      <4>. QED
        BY <4>1 DEF RecordsAfter
    <3>. QED
      BY <3>1, <3>2, <2>2, <2>4 DEF Readable
  <2>. QED
    BY <2>3, <2>4
<1>2. v.hdr > 0 => \E h \in 1..v.hdr : Heads(j, h, v.hdr + 1) /\ j[h].n = v.hdr - h
  BY DEF SyncedOk
<1>3. ASSUME s # 0 PROVE Readable(j, s, s)
  <2>1. IsHeader(j, s, s)
    BY <1>0, <1>3 DEF IsHeader
  <2>2. CASE v.hdr = 0
    BY <1>0, <1>3, <2>1, <2>2 DEF Readable
  <2>3. CASE v.hdr > 0
    <3>1. PICK h \in 1..v.hdr : Heads(j, h, v.hdr + 1) /\ j[h].n = v.hdr - h
      BY <1>2, <2>3
    <3>2. ~(v.hdr + 1 - h <= RecordsAfter(j, h, s))
      BY <1>0, <1>3, <3>1 DEF RecordsAfter
    <3>3. v.hdr + 1 \in Nat /\ h \in 1..v.hdr + 1 - 1
      OBVIOUS
    <3>. QED
      BY <1>0, <1>3, <2>1, <3>1, <3>2, <3>3, ReadableBehind
  <2>. QED
    BY <2>2, <2>3
<1>4. ASSUME s # 0, NEW i \in s + 1..v.off PROVE Readable(j, i, s)
  <2>1. Heads(j, s, i) /\ i \in Nat /\ s \in 1..i - 1
    BY SMTT(30), <1>0, <1>4 DEF Heads
  <2>2. i - s <= RecordsAfter(j, s, s)
    BY SMTT(30), <1>0, <1>4 DEF RecordsAfter
  <2>3. IsRecord(j, i, s)
    <3>1. OwnSlot(v, j[i], m, n) /\ OwnSlot(v, j[s], m, n) /\ i <= Len(j)
      BY <1>0, <1>4
    <3>. QED
      BY <3>1, <1>0, <1>4 DEF IsRecord, OwnSlot
  <2>. QED
    BY <2>1, <2>2, <2>3, ReadableBehind
<1>5. \A i \in 1..v.off : Readable(j, i, s)
  <2>1. \A i \in 1..v.off : i \in 1..v.hdr \/ (s # 0 /\ (i = s \/ i \in s + 1..v.off))
    BY <1>0
  <2>. QED
    BY <2>1, <1>1, <1>3, <1>4
<1>6. ~Readable(j, v.off + 1, s)
  <2>1. CASE s = 0
    <3>1. PICK h \in 1..v.hdr : Heads(j, h, v.hdr + 1) /\ j[h].n = v.hdr - h
      BY <1>2, <1>0, <2>1
    <3>2. ~(v.hdr + 1 - h <= RecordsAfter(j, h, s))
      BY <1>0, <2>1, <3>1 DEF RecordsAfter
    <3>3. v.hdr + 1 \in Nat /\ h \in 1..v.hdr + 1 - 1
      OBVIOUS
    <3>. QED
      BY <1>0, <2>1, <3>1, <3>2, <3>3, ReadableBehind
  <2>2. CASE s # 0
    <3>1. Heads(j, s, v.off + 1) /\ v.off + 1 \in Nat /\ s \in 1..v.off + 1 - 1
      BY <1>0, <2>2 DEF Heads
    <3>2. CASE v.off + 1 <= Len(j)
      <4>1. v.off + 1 - s <= RecordsAfter(j, s, s)
        BY <1>0, <2>2, <3>2 DEF RecordsAfter
      <4>2. ~IsRecord(j, v.off + 1, s)
        <5>1. v.off + 1 \in DOMAIN SlotsOf(j) /\ SlotsOf(j) = j /\ v.off + 1 > v.off
          BY <3>2 DEF SlotsOf
        <5>2. j[v.off + 1].kind = "rec" => j[v.off + 1].init < v.tx
          BY <5>1 DEF StaleOk
        <5>3. j[s].init = v.tx
          BY <1>0, <2>2 DEF OwnSlot
        <5>4. v.tx \in Int /\ \A x \in Int : ~(x < x)
          BY LocalsHave
        <5>. QED
          BY <5>2, <5>3, <5>4 DEF IsRecord
      <4>. QED
        BY <3>1, <4>1, <4>2, ReadableBehind
    <3>3. CASE ~(v.off + 1 <= Len(j))
      <4>1. ~IsRecord(j, v.off + 1, s) /\ ~IsHeader(j, v.off + 1, s)
        BY <3>3 DEF IsRecord, IsHeader
      <4>. QED
        BY <3>1, <4>1, ReadableBehind
    <3>. QED
      BY <3>2, <3>3
  <2>. QED
    BY <2>1, <2>2
<1>. HIDE DEF s
<1>7. \A i \in Playback(j, s) : i \in RecordsOf(v, j)
  BY <1>6, PlaybackEnd, PlaybackIn DEF RecordsOf
<1>8. ASSUME NEW i \in RecordsOf(v, j) PROVE i \in Playback(j, s)
  <2>1. i \in 1..v.off /\ i \in 1..Len(j) /\ j[i].kind = "rec"
    BY DEF RecordsOf
  <2>2. \A k \in 1..i : k \in 1..v.off
    BY <2>1
  <2>. QED
    BY <2>1, <2>2, <1>5, PlaybackIn
<1>9. Playback(j, s) = RecordsOf(v, j)
  BY <1>7, <1>8
<1>. QED
  BY <1>9 DEF s

-----------------------------------------------------------------------------
(* What recovery finds *)

\* An image that the files cover is the one that recovery finds.
LEMMA RecoveredIs ==
  ASSUME NEW d \in Image, NEW j \in Journals, NEW m \in Image,
         PagerAssumption, Prefix(m, SizeOf(m)), Covers(d, j, m, SizeOf(m))
  PROVE  ImageIn(Recovered(d, j)) = m
<1>. DEFINE n == SizeOf(m)
            r == Recovered(d, j)
<1>0. n \in Page /\ 1 \in Page /\ 1 <= n /\ n \in Nat /\ NPage \in Nat
  BY PagerAssumption DEF Prefix, Page
<1>1. \A p \in Page : p <= n => r[p] = m[p]
  <2>1. CASE ~Hot(j)
    <3>1. r = d
      BY <2>1 DEF Recovered, FirstByte, Hot
    <3>2. \A p \in Page : p <= n => d[p] = m[p]
      BY <2>1 DEF Covers, Undoes
    <3>. QED
      BY <3>1, <3>2 DEF Image
  <2>2. CASE Hot(j)
    <3>1. j \in Seq(Slot) /\ j # NoFile /\ Len(j) \in Nat
      BY <2>2 DEF Hot, Journals
    <3>2. j # <<>> /\ IsHeader(j, 1, 0) /\ FirstByte(j)
      <4>1. 1 <= Len(j) /\ j[1].kind = "hdr" /\ j[1].magic
        BY <2>2 DEF Hot, IsHeader
      <4>2. j[1] # Zero
        BY <4>1, SlotFields
      <4>3. j # <<>>
        BY <4>1
      <4>. QED
        BY <4>1, <4>2, <4>3, <2>2 DEF Hot, FirstByte
    <3>. DEFINE read == Playback(j, 0)
                slots(p) == {i \in read : j[i].pg = p}
    <3>3. r = [p \in Page |-> IF p > j[1].orig THEN Absent
                              ELSE IF slots(p) = {} THEN d[p] ELSE j[Max(slots(p))].data]
      BY <3>2 DEF Recovered
    <3>4. /\ j[1].orig >= n
          /\ \A i \in read : j[i].pg <= n => j[i].data = m[j[i].pg]
      BY <2>2 DEF Covers, Harmless
    <3>5. ASSUME NEW p \in Page, p <= n PROVE r[p] = m[p]
      <4>1. ~(p > j[1].orig)
        <5>1. j[1] \in Slot /\ j[1].kind = "hdr"
          BY <3>1, <3>2 DEF IsHeader
        <5>2. j[1].orig \in 0..NPage
          BY <5>1, SlotKinds
        <5>. QED
          BY <5>2, <3>4, <3>5, <1>0 DEF Page
      <4>2. CASE slots(p) = {}
        <5>1. ~Undoes(j, p)
          BY <4>2 DEF Undoes
        <5>2. d[p] = m[p]
          BY <5>1, <3>5 DEF Covers
        <5>. QED
          BY <5>2, <4>1, <4>2, <3>3
      <4>3. CASE slots(p) # {}
        <5>1. slots(p) \subseteq Nat /\ \A i \in slots(p) : i <= Len(j)
          BY PlaybackIn, <3>1
        <5>2. Max(slots(p)) \in slots(p)
          BY <5>1, <4>3, <3>1, MaxNat
        <5>3. j[Max(slots(p))].data = m[p]
          BY <5>2, <3>4, <3>5
        <5>. QED
          BY <5>3, <4>1, <4>3, <3>3
      <4>. QED
        BY <4>2, <4>3
    <3>. QED
      BY <3>3, <3>5
  <2>. QED
    BY <2>1, <2>2
<1>2. r[1] = m[1]
  BY <1>0, <1>1
<1>3. InfoOf(r[1]).size = n
  BY <1>2 DEF SizeOf
<1>4. \A p \in Page : ~(p <= n) => m[p] = Absent
  BY DEF Prefix
<1>. HIDE DEF r, n
<1>5. ImageIn(r) = [p \in Page |-> IF p <= n THEN r[p] ELSE Absent]
  BY <1>3 DEF ImageIn
<1>6. m = [p \in Page |-> m[p]]
  BY DEF Image
<1>7. \A p \in Page : (IF p <= n THEN r[p] ELSE Absent) = m[p]
  BY <1>1, <1>4
<1>8. ImageIn(r) = m
  BY <1>5, <1>6, <1>7
<1>. QED
  BY <1>8 DEF r

-----------------------------------------------------------------------------
(* The operators that write *)

Written(j, new) ==
  [i \in DOMAIN SlotsOf(j) \cup DOMAIN new |->
     IF i \in DOMAIN new THEN new[i] ELSE SlotsOf(j)[i]]

\* The slots of a journal that may be missing.
LEMMA SlotsAre ==
  ASSUME NEW j \in Journals
  PROVE  /\ SlotsOf(j) \in Seq(Slot) /\ Len(SlotsOf(j)) \in Nat
         /\ DOMAIN SlotsOf(j) = 1..Len(SlotsOf(j))
         /\ \A i \in DOMAIN SlotsOf(j) : SlotsOf(j)[i] \in Slot
         /\ j # NoFile => SlotsOf(j) = j /\ j \in Seq(Slot)
         /\ j = NoFile => DOMAIN SlotsOf(j) = {}
<1>1. SlotsOf(j) \in Seq(Slot)
  BY DEF SlotsOf, Journals
<1>2. j = NoFile => SlotsOf(j) = <<>>
  BY DEF SlotsOf
<1>. QED
  BY <1>1, <1>2, SeqParts DEF SlotsOf

\* The slots of new fit in journal j, or right behind it: k slots in all.
Fits(j, new, k) == /\ DOMAIN SlotsOf(j) \cup DOMAIN new = 1..k
                   /\ \A i \in DOMAIN new : new[i] \in Slot
\* Journal f is j with the slots of new, k slots in all.
WrittenTo(j, new, f, k) ==
  /\ f \in Seq(Slot) /\ Len(f) = k /\ DOMAIN f = 1..k
  /\ f \in Journals /\ f # NoFile
  /\ \A i \in DOMAIN new : f[i] = new[i]
  /\ \A i \in DOMAIN SlotsOf(j) : i \notin DOMAIN new => f[i] = SlotsOf(j)[i]

\* Written is the journal after a write that leaves no gap.
LEMMA WrittenDoes ==
  ASSUME NEW j \in Journals, NEW new, NEW k \in Nat, Fits(j, new, k)
  PROVE  WrittenTo(j, new, Written(j, new), k)
<1>. USE DEF Fits
<1>1. Written(j, new) \in [1..k -> Slot]
  BY SlotsAre DEF Written
<1>2. Written(j, new) \in Seq(Slot) /\ Len(Written(j, new)) = k
          /\ DOMAIN Written(j, new) = 1..k
  BY <1>1, MakeSeq
<1>3. /\ \A i \in DOMAIN new : Written(j, new)[i] = new[i]
      /\ \A i \in DOMAIN SlotsOf(j) :
           i \notin DOMAIN new => Written(j, new)[i] = SlotsOf(j)[i]
  BY DEF Written
<1>. QED
  BY <1>2, <1>3, NoFileIsNoJournal DEF Journals, WrittenTo

\* The page before its change.
Old(v, p) == IF v.mem[p] = Absent THEN db[p] ELSE v.mem[p]

\* The page gets a record in the sub-journal.
SubRecord(v, p) ==
  v.sp.open /\ p <= v.sp.nOrig /\ p \notin v.sp.in /\ ~NeedsRecord(v, p)

\* What has become of v, and which slots are written.
Wrote(v, p, u, new) ==
  /\ u \in Locals
  /\ u.owner = v.owner /\ u.tx = v.tx /\ u.inCache = v.inCache
  /\ u.orig = v.orig /\ u.hdr = v.hdr /\ u.goal = v.goal /\ u.ending = v.ending
  /\ u.state = IF v.state = "locked" THEN "cachemod" ELSE v.state
  /\ u.slot = IF v.state = "locked" THEN 1 ELSE v.slot
  /\ u.off = OffOf(v) + (IF NeedsRecord(v, p) THEN 1 ELSE 0)
  /\ u.inJournal = v.inJournal \cup (IF NeedsRecord(v, p) THEN {p} ELSE {})
  /\ v.needSync \subseteq u.needSync /\ u.needSync \subseteq v.needSync \cup {p}
  /\ NeedsRecord(v, p) => p \in u.needSync
  /\ u.sub = IF SubRecord(v, p) THEN Append(v.sub, [pg |-> p, data |-> Old(v, p)])
             ELSE v.sub
  /\ u.sp.in = v.sp.in \cup
       (IF v.sp.open /\ (NeedsRecord(v, p) \/ SubRecord(v, p)) THEN {p} ELSE {})
  /\ u.sp.open = v.sp.open /\ u.sp.nOrig = v.sp.nOrig /\ u.sp.img = v.sp.img
  /\ u.sp.iOffset = v.sp.iOffset /\ u.sp.iHdrOffset = v.sp.iHdrOffset
  /\ u.sp.iSubRec = v.sp.iSubRec
  /\ u.dirty = v.dirty \cup {p}
  /\ \A q \in Page : u.mem[q] = IF q = p THEN 2 * v.tx + IF v.sp.open THEN 1 ELSE 0
                                ELSE v.mem[q]
  /\ DOMAIN new = (IF v.state = "locked" THEN {1} ELSE {})
                  \cup (IF NeedsRecord(v, p) THEN {OffOf(v) + 1} ELSE {})
  /\ \A i \in DOMAIN new : new[i] = IF i = OffOf(v) + 1
                                    THEN Record(p, Old(v, p), v.tx)
                                    ELSE Header(FALSE, 0, v.tx, v.orig)

\* What pager_write does to the locals and to the journal.
LEMMA PagerWriteDoes ==
  ASSUME NEW v \in Locals, NEW p \in Page, NEW u, NEW new, PagerAssumption,
         v.tx \in 1..MaxTx, Old(v, p) \in Content,
         u = PagerWrite(v, p).v, new = PagerWrite(v, p).new
  PROVE  Wrote(v, p, u, new)
<1>. DEFINE o == IF v.state # "locked" THEN v
                 ELSE [v EXCEPT !.state = "cachemod", !.slot = 1, !.off = 1]
            jn == NeedsRecord(v, p)
            k == IF jn /\ o.sp.open THEN [o EXCEPT !.sp.in = @ \cup {p}] ELSE o
            sj == SubjRequiresPage(k, p)
<1>1. /\ o \in Locals /\ o.off = OffOf(v) /\ o.sp = v.sp /\ o.mem = v.mem /\ o.sub = v.sub
      /\ o.state = (IF v.state = "locked" THEN "cachemod" ELSE v.state)
      /\ o.slot = (IF v.state = "locked" THEN 1 ELSE v.slot)
      /\ o.owner = v.owner /\ o.tx = v.tx /\ o.inCache = v.inCache
      /\ o.orig = v.orig /\ o.hdr = v.hdr /\ o.goal = v.goal /\ o.ending = v.ending
      /\ o.dirty = v.dirty /\ o.inJournal = v.inJournal /\ o.needSync = v.needSync
  <2>1. CASE v.state # "locked"
    BY <2>1 DEF OffOf
  <2>2. CASE v.state = "locked"
    <3>1. o = [v EXCEPT !.state = "cachemod", !.slot = 1, !.off = 1] /\ OffOf(v) = 1
      BY <2>2 DEF OffOf
    <3>. HIDE DEF o
    <3>2. o \in Locals
      BY <3>1 DEF Locals, WriteStates
    <3>3. /\ o.off = 1 /\ o.sp = v.sp /\ o.mem = v.mem /\ o.sub = v.sub
          /\ o.state = "cachemod" /\ o.slot = 1
          /\ o.owner = v.owner /\ o.tx = v.tx /\ o.inCache = v.inCache
          /\ o.orig = v.orig /\ o.hdr = v.hdr /\ o.goal = v.goal /\ o.ending = v.ending
          /\ o.dirty = v.dirty /\ o.inJournal = v.inJournal /\ o.needSync = v.needSync
      BY <3>1 DEF Locals
    <3>. QED
      BY <3>1, <3>2, <3>3, <2>2
  <2>. QED
    BY <2>1, <2>2
<1>2. u = [k EXCEPT
               !.off = IF jn THEN o.off + 1 ELSE @,
               !.inJournal = IF jn THEN @ \cup {p} ELSE @,
               !.needSync = IF jn \/ (p > v.orig /\ v.state # "dbmod")
                            THEN @ \cup {p} ELSE @,
               !.sub = IF sj THEN Append(@, [pg |-> p, data |-> Old(v, p)]) ELSE @,
               !.sp.in = IF sj THEN @ \cup {p} ELSE @,
               !.dirty = @ \cup {p},
               !.mem[p] = 2 * v.tx + IF v.sp.open THEN 1 ELSE 0]
  BY DEF PagerWrite, Old
<1>3. new = [i \in (IF v.state = "locked" THEN {1} ELSE {})
                   \cup (IF jn THEN {o.off + 1} ELSE {}) |->
                 IF i = o.off + 1 THEN Record(p, Old(v, p), v.tx)
                 ELSE Header(FALSE, 0, v.tx, v.orig)]
  BY DEF PagerWrite, Old
<1>. HIDE DEF o, jn
<1>4. /\ k \in Locals /\ k.off = OffOf(v) /\ k.mem = v.mem /\ k.sub = v.sub
      /\ k.sp.in = v.sp.in \cup (IF jn /\ v.sp.open THEN {p} ELSE {})
      /\ k.sp.open = v.sp.open /\ k.sp.nOrig = v.sp.nOrig /\ k.sp.img = v.sp.img
      /\ k.sp.iOffset = v.sp.iOffset /\ k.sp.iHdrOffset = v.sp.iHdrOffset
      /\ k.sp.iSubRec = v.sp.iSubRec
      /\ k.state = o.state /\ k.slot = o.slot
      /\ k.owner = v.owner /\ k.tx = v.tx /\ k.inCache = v.inCache
      /\ k.orig = v.orig /\ k.hdr = v.hdr /\ k.goal = v.goal /\ k.ending = v.ending
      /\ k.dirty = v.dirty /\ k.inJournal = v.inJournal /\ k.needSync = v.needSync
  BY <1>1 DEF Locals, Savepoints
<1>. HIDE DEF k
<1>5. sj <=> (SubRecord(v, p) /\ ~jn)
  BY <1>4 DEF SubRecord, SubjRequiresPage, jn
<1>6. SubRecord(v, p) => ~jn
  BY DEF SubRecord, jn
<1>. HIDE DEF sj
<1>7. 2 * v.tx + (IF v.sp.open THEN 1 ELSE 0) \in Content
  BY PagerAssumption DEF Content, Garbage, Absent
<1>8. [pg |-> p, data |-> Old(v, p)] \in SubRecs
  BY DEF SubRecs
<1>9. u \in Locals
  <2>. DEFINE nMem == [k.mem EXCEPT ![p] = 2 * v.tx + IF v.sp.open THEN 1 ELSE 0]
              nSp == [k.sp EXCEPT !.in = IF sj THEN @ \cup {p} ELSE @]
              nSub == IF sj THEN Append(k.sub, [pg |-> p, data |-> Old(v, p)]) ELSE k.sub
              nOff == IF jn THEN o.off + 1 ELSE k.off
              nNeed == IF jn \/ (p > v.orig /\ v.state # "dbmod")
                       THEN k.needSync \cup {p} ELSE k.needSync
              nIn == IF jn THEN k.inJournal \cup {p} ELSE k.inJournal
  <2>1. nMem \in Image
    BY <1>4, <1>7 DEF Image, Locals
  <2>2. nSp \in Savepoints
    BY <1>4 DEF Savepoints, Locals
  <2>3. nSub \in Seq(SubRecs)
    BY <1>4, <1>8 DEF Locals
  <2>4. nOff \in Nat /\ nNeed \in SUBSET Page /\ nIn \in SUBSET Page
        /\ k.dirty \cup {p} \in SUBSET Page
    BY SMTT(30), <1>1, <1>4 DEF Locals
  <2>5. u = [k EXCEPT !.off = nOff, !.inJournal = nIn, !.needSync = nNeed, !.sub = nSub,
                      !.sp = nSp, !.dirty = k.dirty \cup {p}, !.mem = nMem]
    BY <1>2, <1>4 DEF Locals, Savepoints
  <2>6. k \in Locals
    BY <1>4
  <2>. DEFINE nDirty == k.dirty \cup {p}
              k1 == [k EXCEPT !.off = nOff, !.inJournal = nIn, !.needSync = nNeed]
  <2>. HIDE DEF nMem, nSp, nSub, nOff, nNeed, nIn, nDirty
  <2>7. u = [k1 EXCEPT !.sub = nSub, !.sp = nSp, !.dirty = nDirty, !.mem = nMem]
    BY <2>5, <2>6 DEF Locals, nDirty
  <2>8. k1 \in Locals /\ nDirty \in SUBSET Page
    BY <2>4, <2>6 DEF Locals, nDirty
  <2>. HIDE DEF k1
  <2>. DEFINE k2 == [k1 EXCEPT !.sub = nSub, !.sp = nSp]
  <2>9. k2 \in Locals
    BY <2>2, <2>3, <2>8 DEF Locals
  <2>10. u = [k2 EXCEPT !.dirty = nDirty, !.mem = nMem]
    BY <2>7, <2>8 DEF Locals
  <2>. HIDE DEF k2
  <2>. QED
    BY <2>1, <2>8, <2>9, <2>10 DEF Locals
<1>10. /\ u.owner = v.owner /\ u.tx = v.tx /\ u.inCache = v.inCache
       /\ u.orig = v.orig /\ u.hdr = v.hdr /\ u.goal = v.goal /\ u.ending = v.ending
       /\ u.state = IF v.state = "locked" THEN "cachemod" ELSE v.state
       /\ u.slot = IF v.state = "locked" THEN 1 ELSE v.slot
       /\ u.off = OffOf(v) + (IF jn THEN 1 ELSE 0)
  BY SMTT(30), <1>2, <1>4, <1>1 DEF Locals, OffOf
<1>11. /\ u.inJournal = v.inJournal \cup (IF jn THEN {p} ELSE {})
       /\ v.needSync \subseteq u.needSync /\ u.needSync \subseteq v.needSync \cup {p}
       /\ jn => p \in u.needSync
       /\ u.dirty = v.dirty \cup {p}
       /\ u.sub = IF SubRecord(v, p) THEN Append(v.sub, [pg |-> p, data |-> Old(v, p)])
                  ELSE v.sub
  BY <1>2, <1>4, <1>5, <1>6 DEF Locals
<1>12. /\ u.sp.in = v.sp.in \cup
              (IF v.sp.open /\ (jn \/ SubRecord(v, p)) THEN {p} ELSE {})
       /\ u.sp.open = v.sp.open /\ u.sp.nOrig = v.sp.nOrig /\ u.sp.img = v.sp.img
       /\ u.sp.iOffset = v.sp.iOffset /\ u.sp.iHdrOffset = v.sp.iHdrOffset
       /\ u.sp.iSubRec = v.sp.iSubRec
  BY SMTT(30), <1>2, <1>4, <1>5, <1>6 DEF Locals, Savepoints, SubRecord
<1>13. \A q \in Page : u.mem[q] = IF q = p THEN 2 * v.tx + IF v.sp.open THEN 1 ELSE 0
                                  ELSE v.mem[q]
  BY <1>2, <1>4 DEF Locals, Image
<1>14. /\ DOMAIN new = (IF v.state = "locked" THEN {1} ELSE {})
                       \cup (IF jn THEN {OffOf(v) + 1} ELSE {})
       /\ \A i \in DOMAIN new : new[i] = IF i = OffOf(v) + 1
                                         THEN Record(p, Old(v, p), v.tx)
                                         ELSE Header(FALSE, 0, v.tx, v.orig)
  <2>1. o.off = OffOf(v)
    BY <1>1
  <2>. DEFINE D == (IF v.state = "locked" THEN {1} ELSE {})
                   \cup (IF jn THEN {OffOf(v) + 1} ELSE {})
              e(i) == IF i = OffOf(v) + 1 THEN Record(p, Old(v, p), v.tx)
                      ELSE Header(FALSE, 0, v.tx, v.orig)
  <2>2. new = [i \in D |-> e(i)]
    BY <1>3, <2>1
  <2>. HIDE DEF D, e
  <2>3. DOMAIN new = D /\ \A i \in DOMAIN new : new[i] = e(i)
    BY <2>2
  <2>. QED
    BY <2>3 DEF D, e
<1>. QED
  BY <1>9, <1>10, <1>11, <1>12, <1>13, <1>14 DEF Wrote, jn

-----------------------------------------------------------------------------
(* A page is changed *)

\* The content that a record saves is one a page may have.
LEMMA OldHas ==
  ASSUME NEW v \in Locals, NEW p \in Page, db \in Image
  PROVE  Old(v, p) \in Content
BY LocalsHave DEF Old, Image

\* Journal j grows to f by the header, if there was none, and by the record.
Grown(v, p, u, j, f, k) ==
  /\ f \in Seq(Slot) /\ Len(f) = k /\ DOMAIN f = 1..k /\ f # NoFile
  /\ f \in Journals /\ u.off \in 1..k /\ k >= Len(SlotsOf(j))
  /\ \A i \in 1..OffOf(v) :
       f[i] = IF v.state = "locked" THEN Header(FALSE, 0, v.tx, v.orig) ELSE j[i]
  /\ NeedsRecord(v, p) => f[u.off] = Record(p, Old(v, p), v.tx)
  /\ \A i \in 1..k : i > u.off => i \in DOMAIN SlotsOf(j) /\ f[i] = SlotsOf(j)[i]

\* After pager_write the journal still is the one of the transaction.
LEMMA WriteSlots ==
  ASSUME NEW v \in Locals, NEW p \in Page, NEW u, NEW new, PagerAssumption,
         v.tx \in 1..MaxTx, db \in Image, NEW j \in Journals, NEW m, NEW n,
         JournalOk("write", v, j, m, n),
         u = PagerWrite(v, p).v, new = PagerWrite(v, p).new
  PROVE  \E k \in Nat : Grown(v, p, u, j, Written(j, new), k) /\ Fits(j, new, k)
<1>. DEFINE L == Len(SlotsOf(j))
            D == (IF v.state = "locked" THEN {1} ELSE {})
                 \cup (IF NeedsRecord(v, p) THEN {OffOf(v) + 1} ELSE {})
<1>0. L \in Nat /\ DOMAIN SlotsOf(j) = 1..L
  BY SlotsAre
<1>1. /\ u.off = OffOf(v) + (IF NeedsRecord(v, p) THEN 1 ELSE 0)
      /\ DOMAIN new = D
      /\ \A i \in DOMAIN new : new[i] = IF i = OffOf(v) + 1
                                        THEN Record(p, Old(v, p), v.tx)
                                        ELSE Header(FALSE, 0, v.tx, v.orig)
  <2>1. Old(v, p) \in Content
    BY OldHas
  <2>2. Wrote(v, p, u, new)
    BY <2>1, PagerWriteDoes
  <2>. QED
    BY <2>2 DEF Wrote
<1>2. /\ OffOf(v) \in Nat /\ OffOf(v) >= 1
      /\ (v.state # "locked" => OffOf(v) <= L /\ OffOf(v) = v.off)
  <2>1. CASE v.state = "locked"
    BY <2>1 DEF OffOf
  <2>2. CASE v.state # "locked"
    <3>1. SlotsOk(v, j, m, n) /\ j # NoFile /\ SlotsOf(j) = j
      BY <2>2 DEF JournalOk, SlotsOk, SlotsOf
    <3>. QED
      BY <3>1, <2>2, <1>0 DEF SlotsOk, OffOf
  <2>. QED
    BY <2>1, <2>2
<1>. DEFINE k == IF u.off > L THEN u.off ELSE L
<1>3. k \in Nat /\ u.off \in 1..k /\ k >= L
  BY <1>0, <1>1, <1>2
<1>4. DOMAIN SlotsOf(j) \cup DOMAIN new = 1..k
  <2>1. CASE v.state = "locked"
    <3>1. OffOf(v) = 1
      BY <2>1 DEF OffOf
    <3>. QED
      BY <3>1, <2>1, <1>0, <1>1
  <2>2. CASE v.state # "locked"
    BY <2>2, <1>0, <1>1, <1>2
  <2>. QED
    BY <2>1, <2>2
<1>5. \A i \in DOMAIN new : new[i] \in Slot
  <2>1. v.tx \in 0..MaxTx /\ v.orig \in 0..NPage /\ Old(v, p) \in Content
    BY LocalsHave, OldHas
  <2>2. Record(p, Old(v, p), v.tx) \in Slot /\ Header(FALSE, 0, v.tx, v.orig) \in Slot
    BY <2>1, SlotMade
  <2>. QED
    BY <2>2, <1>1
<1>. HIDE DEF k, D
<1>. DEFINE f == Written(j, new)
<1>6. /\ f \in Seq(Slot) /\ Len(f) = k /\ DOMAIN f = 1..k /\ f # NoFile /\ f \in Journals
      /\ \A i \in DOMAIN new : f[i] = new[i]
      /\ \A i \in DOMAIN SlotsOf(j) : i \notin DOMAIN new => f[i] = SlotsOf(j)[i]
  <2>1. WrittenTo(j, new, f, k)
    BY <1>3, <1>4, <1>5, WrittenDoes DEF f, Fits
  <2>. QED
    BY <2>1 DEF WrittenTo
<1>. HIDE DEF f
<1>7. \A i \in 1..OffOf(v) : f[i] = IF v.state = "locked" THEN Header(FALSE, 0, v.tx, v.orig)
                                    ELSE j[i]
  <2>1. CASE v.state = "locked"
    <3>1. OffOf(v) = 1 /\ 1 \in DOMAIN new
      BY <2>1, <1>1 DEF OffOf, D
    <3>2. new[1] = Header(FALSE, 0, v.tx, v.orig)
      <4>1. 1 # OffOf(v) + 1
        BY <3>1
      <4>. QED
        BY <3>1, <4>1, <1>1
    <3>3. \A i \in 1..1 : i = 1
      OBVIOUS
    <3>. QED
      BY <3>1, <3>2, <3>3, <2>1, <1>6
  <2>2. CASE v.state # "locked"
    <3>1. \A i \in 1..OffOf(v) : i \notin DOMAIN new /\ i \in DOMAIN SlotsOf(j)
      BY <2>2, <1>0, <1>1, <1>2 DEF D
    <3>2. SlotsOf(j) = j
      BY <2>2 DEF JournalOk, SlotsOk, SlotsOf
    <3>. QED
      BY <3>1, <3>2, <2>2, <1>6 DEF f
  <2>. QED
    BY <2>1, <2>2
<1>8. NeedsRecord(v, p) => f[u.off] = Record(p, Old(v, p), v.tx)
  BY <1>1, <1>2, <1>6 DEF D, f
<1>9. \A i \in 1..k : i > u.off => i \in DOMAIN SlotsOf(j) /\ f[i] = SlotsOf(j)[i]
  <2>1. \A i \in DOMAIN new : i <= u.off
    BY <1>1, <1>2 DEF D
  <2>2. \A i \in 1..k : i > u.off => i \in 1..L /\ i \notin DOMAIN new
    BY <2>1, <1>1, <1>2, <1>0 DEF k
  <2>. QED
    BY <2>2, <1>6, <1>0 DEF f
<1>10. Grown(v, p, u, j, f, k)
  BY <1>3, <1>6, <1>7, <1>8, <1>9 DEF f, Grown
<1>11. Fits(j, new, k)
  BY <1>4, <1>5 DEF Fits
<1>. QED
  BY <1>3, <1>10, <1>11 DEF f

\* The transaction goes on.
LEMMA WriteJournal ==
  ASSUME NEW v \in Locals, NEW p \in Page, NEW u, NEW new, PagerAssumption,
         v.tx \in 1..MaxTx, db \in Image, NEW j \in Journals, NEW m \in Image, NEW n \in Page,
         Prefix(m, n), v.orig >= n, JournalOk("write", v, j, m, n),
         MemOk("write", v, db, m, n),
         u = PagerWrite(v, p).v, new = PagerWrite(v, p).new
  PROVE  JournalOk("write", u, Written(j, new), m, n)
<1>. DEFINE f == Written(j, new)
<1>1. /\ u \in Locals /\ u.tx = v.tx /\ u.orig = v.orig /\ u.hdr = v.hdr
      /\ u.state = (IF v.state = "locked" THEN "cachemod" ELSE v.state)
      /\ u.slot = (IF v.state = "locked" THEN 1 ELSE v.slot)
      /\ u.off = OffOf(v) + (IF NeedsRecord(v, p) THEN 1 ELSE 0)
      /\ u.inJournal = v.inJournal \cup (IF NeedsRecord(v, p) THEN {p} ELSE {})
      /\ v.needSync \subseteq u.needSync /\ (NeedsRecord(v, p) => p \in u.needSync)
  <2>1. Old(v, p) \in Content
    BY OldHas
  <2>2. Wrote(v, p, u, new)
    BY <2>1, PagerWriteDoes
  <2>. QED
    BY <2>2 DEF Wrote
<1>a. PICK k \in Nat : Grown(v, p, u, j, f, k)
  BY WriteSlots
<1>2.      /\ f \in Seq(Slot) /\ Len(f) = k /\ DOMAIN f = 1..k /\ f # NoFile
           /\ u.off \in 1..k
           /\ \A i \in 1..OffOf(v) :
                f[i] = IF v.state = "locked" THEN Header(FALSE, 0, v.tx, v.orig)
                       ELSE j[i]
           /\ NeedsRecord(v, p) => f[u.off] = Record(p, Old(v, p), v.tx)
           /\ \A i \in 1..k : i > u.off => i \in DOMAIN SlotsOf(j) /\ f[i] = SlotsOf(j)[i]
  BY <1>a DEF Grown
<1>. HIDE DEF f
<1>3. StaleOk(u, f)
  <2>1. SlotsOf(f) = f
    BY <1>2 DEF SlotsOf
  <2>2. OffOf(v) >= v.off /\ OffOf(v) \in Nat /\ u.off >= v.off /\ v.off \in Nat
    BY <1>1, LocalsHave DEF OffOf, JournalOk, LockedOk
  <2>. QED
    BY <2>1, <2>2, <1>1, <1>2 DEF StaleOk, JournalOk
<1>4. NeedsRecord(v, p) => OwnSlot(u, f[u.off], m, n)
  <2>1. SUFFICES ASSUME NeedsRecord(v, p) PROVE OwnSlot(u, Record(p, Old(v, p), v.tx), m, n)
    BY <1>2
  <2>2. p <= v.orig /\ p \notin v.inJournal
    BY <2>1 DEF NeedsRecord
  <2>3. p <= n => Old(v, p) = m[p]
    BY <2>2 DEF Old, MemOk, Prefix
  <2>. QED
    BY <2>1, <2>2, <2>3, <1>1, SlotFields DEF OwnSlot
<1>5. CASE v.state = "locked"
  <2>1. LockedOk(v, m) /\ OffOf(v) = 1 /\ u.hdr = 0 /\ u.slot = 1
    BY <1>5, <1>1 DEF JournalOk, LockedOk, OffOf
  <2>2. f[1] = Header(FALSE, 0, v.tx, v.orig) /\ u.off \in {1, 2}
        /\ ((u.off = 2) <=> NeedsRecord(v, p))
    <3>1. 1 \in 1..OffOf(v) /\ u.off = 1 + (IF NeedsRecord(v, p) THEN 1 ELSE 0)
      BY <2>1, <1>1
    <3>2. f[1] = Header(FALSE, 0, v.tx, v.orig)
      BY <3>1, <1>5, <1>2
    <3>. QED
      BY <3>1, <3>2
  <2>3. OwnSlot(u, f[1], m, n) /\ f[1].kind = "hdr" /\ ~f[1].magic /\ f[1].n = 0
    <3>1. /\ f[1].kind = "hdr" /\ f[1].magic = FALSE /\ f[1].n = 0
          /\ f[1].init = v.tx /\ f[1].orig = v.orig
      BY <2>2 DEF Header
    <3>. QED
      BY <3>1, <1>1 DEF OwnSlot
  <2>4. u.off = 2 => f[2] = Record(p, Old(v, p), v.tx) /\ f[2].kind = "rec" /\ f[2].pg = p
    BY <2>2, <1>2, SlotFields
  <2>5. \A i \in 1..u.off : OwnSlot(u, f[i], m, n)
    <3>1. \A i \in 1..u.off : i = 1 \/ (i = u.off /\ NeedsRecord(v, p))
      BY <2>2
    <3>. QED
      BY <3>1, <2>3, <1>4
  <2>6. \A q \in u.inJournal :
           \E i \in RecordsOf(u, f) : f[i].pg = q /\ (i <= u.hdr \/ q \in u.needSync)
    <3>1. \A q \in u.inJournal : q = p /\ NeedsRecord(v, p)
      BY <1>1, <2>1 DEF LockedOk
    <3>2. NeedsRecord(v, p) => 2 \in RecordsOf(u, f) /\ f[2].pg = p
      BY <2>2, <2>4 DEF RecordsOf
    <3>. QED
      BY <3>1, <3>2, <1>1
  <2>7. SlotsOk(u, f, m, n)
    <3>1. u.off \in DOMAIN f /\ u.hdr <= u.off
      BY <1>2, <2>1, <2>2
    <3>. QED
      BY <3>1, <2>3, <2>5, <2>6, <1>2 DEF SlotsOk
  <2>8. HeaderOk("write", u, f)
    <3>1. \A i \in 2..u.off : f[i].kind = "rec"
      BY <2>2, <2>4
    <3>2. "write" \notin SyncPcs /\ u.slot = u.hdr + 1 /\ u.slot <= u.off
          /\ u.slot + 1 = 2
      BY <2>1, <2>2 DEF SyncPcs
    <3>. QED
      BY <3>1, <3>2, <2>1, <2>3 DEF HeaderOk
  <2>9. SyncedOk(u, f) /\ StateOk("write", u)
    BY <2>1, <1>1, <1>5 DEF SyncedOk, StateOk, SyncPcs
  <2>. QED
    <3>1. u.state # "locked"
      BY <1>1, <1>5
    <3>. QED
      BY <3>1, <1>3, <2>7, <2>8, <2>9 DEF JournalOk, f
<1>6. CASE v.state # "locked"
  <2>1. /\ SlotsOk(v, j, m, n) /\ HeaderOk("write", v, j) /\ SyncedOk(v, j)
        /\ StateOk("write", v) /\ j # NoFile /\ j \in Seq(Slot) /\ OffOf(v) = v.off
        /\ u.state = v.state /\ u.slot = v.slot
    BY <1>6, <1>1 DEF JournalOk, SlotsOk, OffOf, Journals
  <2>2. /\ Len(j) \in Nat /\ DOMAIN j = 1..Len(j) /\ v.off \in 1..Len(j)
        /\ v.off \in Nat /\ v.hdr \in 0..v.off /\ v.slot \in Nat
        /\ \A i \in 1..v.off : j[i] \in Slot /\ OwnSlot(v, j[i], m, n)
    BY <2>1, OwnSlots
  <2>3. \A i \in 1..v.off : f[i] = j[i]
    BY <1>6, <2>1, <1>2
  <2>4. /\ u.off = v.off \/ (u.off = v.off + 1 /\ NeedsRecord(v, p) /\ f[u.off].kind = "rec"
                             /\ f[u.off].pg = p)
        /\ NeedsRecord(v, p) => u.off = v.off + 1
    BY <2>1, <2>2, <1>1, <1>2, SlotFields
  <2>5. \A i \in 1..u.off : i \in 1..v.off \/ (i = u.off /\ NeedsRecord(v, p)
                                               /\ f[i].kind = "rec" /\ f[i].pg = p)
    BY <2>4, <2>2
  <2>6. \A i \in 1..v.off : OwnSlot(u, f[i], m, n)
    BY <2>2, <2>3, <1>1 DEF OwnSlot
  <2>7. \A q \in u.inJournal :
           \E i \in RecordsOf(u, f) : f[i].pg = q /\ (i <= u.hdr \/ q \in u.needSync)
    <3>. SUFFICES ASSUME NEW q \in u.inJournal
                  PROVE \E i \in RecordsOf(u, f) : f[i].pg = q
                      /\ (i <= u.hdr \/ q \in u.needSync)
      OBVIOUS
    <3>1. CASE q \in v.inJournal
      <4>1. PICK i \in RecordsOf(v, j) : j[i].pg = q /\ (i <= v.hdr \/ q \in v.needSync)
        BY <3>1, <2>1 DEF SlotsOk
      <4>2. i \in RecordsOf(u, f) /\ f[i] = j[i]
        BY <2>2, <2>3, <2>4 DEF RecordsOf
      <4>. QED
        BY <4>1, <4>2, <1>1
    <3>2. CASE q \notin v.inJournal
      <4>1. q = p /\ NeedsRecord(v, p)
        BY <3>2, <1>1
      <4>2. u.off \in RecordsOf(u, f) /\ f[u.off].pg = p
        BY <4>1, <2>4, <2>2 DEF RecordsOf
      <4>. QED
        BY <4>1, <4>2, <1>1
    <3>. QED
      BY <3>1, <3>2
  <2>8. SlotsOk(u, f, m, n)
    <3>1. u.off \in DOMAIN f /\ u.hdr <= u.off
      BY <1>1, <1>2, <2>2, <2>4
    <3>2. f[1].kind = "hdr"
      BY <2>1, <2>2, <2>3 DEF SlotsOk
    <3>. QED
      BY <3>1, <3>2, <2>5, <2>6, <2>7, <1>2, <1>4 DEF SlotsOk
  <2>9. HeaderOk("write", u, f)
    <3>1. v.slot # 0
      BY <2>1 DEF StateOk
    <3>2. /\ v.slot = v.hdr + 1 /\ v.slot <= v.off /\ j[v.slot].kind = "hdr"
          /\ \A i \in v.slot + 1..v.off : j[i].kind = "rec"
          /\ ~j[v.slot].magic /\ j[v.slot].n = 0
      BY <2>1, <3>1 DEF HeaderOk
    <3>3. f[v.slot] = j[v.slot]
      BY <3>2, <2>2, <2>3
    <3>4. \A i \in v.slot + 1..u.off : f[i].kind = "rec"
      <4>1. \A i \in v.slot + 1..u.off : i \in 1..u.off
                /\ (i \in 1..v.off => i \in v.slot + 1..v.off)
        BY <3>2, <2>2
      <4>. QED
        BY <4>1, <2>5, <2>3, <3>2
    <3>5. v.slot <= u.off
      BY <3>2, <2>2, <2>4
    <3>. QED
      BY <3>1, <3>2, <3>3, <3>4, <3>5, <2>1, <1>1 DEF HeaderOk, SyncPcs
  <2>10. SyncedOk(u, f)
    <3>1. v.hdr <= Len(j) /\ v.hdr <= Len(f) /\ \A x \in 1..v.hdr : j[x] = f[x]
      BY SMTT(30), <2>2, <2>3, <2>4, <1>2
    <3>. QED
      BY <3>1, <2>1, <2>2, <1>1, SyncedSame
  <2>11. StateOk("write", u)
    BY <2>1, <1>1 DEF StateOk, SyncPcs
  <2>. QED
    <3>1. u.state # "locked"
      BY <2>1, <1>6
    <3>. QED
      BY <3>1, <1>3, <2>8, <2>9, <2>10, <2>11 DEF JournalOk, f
<1>. QED
  BY <1>5, <1>6 DEF f

\* The records are those there were and the one of the page.
LEMMA WriteRecords ==
  ASSUME NEW v \in Locals, NEW p \in Page, NEW u, NEW f, NEW k \in Nat,
         NEW j \in Journals, NEW m, NEW n, JournalOk("write", v, j, m, n),
         Grown(v, p, u, j, f, k),
         u.off = OffOf(v) + (IF NeedsRecord(v, p) THEN 1 ELSE 0)
  PROVE  /\ \A i \in RecordsOf(v, j) : i \in RecordsOf(u, f) /\ f[i] = j[i]
         /\ \A i \in RecordsOf(u, f) :
              \/ i \in RecordsOf(v, j) /\ f[i] = j[i]
              \/ NeedsRecord(v, p) /\ i = u.off
         /\ NeedsRecord(v, p) => /\ u.off \in RecordsOf(u, f) /\ u.off = OffOf(v) + 1
                                 /\ f[u.off].pg = p /\ f[u.off].data = Old(v, p)
         /\ OffOf(v) \in Nat /\ OffOf(v) >= 1 /\ OffOf(v) >= v.off /\ v.off \in Nat
         /\ v.hdr \in Nat /\ v.hdr <= v.off
<1>1. /\ OffOf(v) \in Nat /\ OffOf(v) >= 1 /\ OffOf(v) >= v.off /\ v.off \in Nat
      /\ v.hdr \in Nat /\ v.hdr <= v.off
      /\ v.state # "locked" => OffOf(v) = v.off
      /\ v.state = "locked" => v.off = 0 /\ OffOf(v) = 1
  <2>1. CASE v.state = "locked"
    BY <2>1, LocalsHave DEF OffOf, JournalOk, LockedOk
  <2>2. CASE v.state # "locked"
    <3>1. SlotsOk(v, j, m, n) /\ j \in Seq(Slot)
      BY <2>2 DEF JournalOk, SlotsOk, Journals
    <3>2. v.off \in 1..Len(j) /\ v.off \in Nat /\ v.hdr \in 0..v.off /\ Len(j) \in Nat
      BY <3>1, OwnSlots
    <3>. QED
      BY <3>2, <2>2 DEF OffOf
  <2>. QED
    BY <2>1, <2>2
<1>2. NeedsRecord(v, p) => f[u.off] = Record(p, Old(v, p), v.tx)
  BY DEF Grown
<1>3. NeedsRecord(v, p) => /\ u.off \in RecordsOf(u, f) /\ u.off = OffOf(v) + 1
                           /\ f[u.off].pg = p /\ f[u.off].data = Old(v, p)
  <2>1. u.off \in 1..u.off
    BY <1>1
  <2>. QED
    BY <1>1, <1>2, <2>1, SlotFields DEF RecordsOf
<1>4. \A i \in RecordsOf(v, j) : i \in RecordsOf(u, f) /\ f[i] = j[i]
  <2>1. \A i \in 1..v.off : i \in 1..OffOf(v) /\ i \in 1..u.off /\ v.state # "locked"
    BY <1>1
  <2>2. \A i \in 1..v.off : f[i] = j[i]
    BY <2>1 DEF Grown
  <2>. QED
    BY <2>1, <2>2 DEF RecordsOf
<1>5. ASSUME NEW i \in RecordsOf(u, f)
      PROVE  \/ i \in RecordsOf(v, j) /\ f[i] = j[i]
             \/ NeedsRecord(v, p) /\ i = u.off
  <2>1. i \in 1..OffOf(v) \/ (NeedsRecord(v, p) /\ i = u.off)
    BY <1>1 DEF RecordsOf
  <2>2. CASE i \in 1..OffOf(v)
    <3>1. CASE v.state = "locked"
      <4>1. f[i] = Header(FALSE, 0, v.tx, v.orig)
        BY <2>2, <3>1 DEF Grown
      <4>2. f[i].kind = "hdr"
        BY <4>1 DEF Header
      <4>. QED
        BY <4>2 DEF RecordsOf
    <3>2. CASE v.state # "locked"
      <4>1. f[i] = j[i] /\ i \in 1..v.off
        BY <2>2, <3>2, <1>1 DEF Grown
      <4>. QED
        BY <4>1 DEF RecordsOf
    <3>. QED
      BY <3>1, <3>2
  <2>. QED
    BY <2>1, <2>2
<1>. QED
  BY <1>1, <1>3, <1>4, <1>5

\* pager_write keeps what is known of the pages in memory.
LEMMA WriteMem ==
  ASSUME NEW v \in Locals, NEW p \in Page, NEW u, NEW new, NEW m, NEW n \in Page,
         PagerAssumption, NEW k \in Page, Prefix(v.mem, k), k >= n, p <= k + 1,
         v.tx \in 1..MaxTx, v.orig >= n, MemOk("write", v, db, m, n), Wrote(v, p, u, new)
  PROVE  MemOk("write", u, db, m, n)
<1>1. /\ u.dirty = v.dirty \cup {p} /\ u.tx = v.tx /\ u.orig = v.orig
      /\ u.inJournal = v.inJournal \cup (IF NeedsRecord(v, p) THEN {p} ELSE {})
      /\ \A q \in Page : u.mem[q] = IF q = p THEN 2 * v.tx + IF v.sp.open THEN 1 ELSE 0
                                    ELSE v.mem[q]
      /\ u.mem[p] = 2 * v.tx + (IF v.sp.open THEN 1 ELSE 0)
  BY DEF Wrote
<1>2. u.mem[p] \in Own(v.tx) /\ u.mem[p] # Absent
  BY <1>1 DEF Own, Absent
<1>3. "write" \in OpenPcs
  BY DEF OpenPcs, WritePcs
<1>4. \A q \in Page : q <= n /\ q \notin u.inJournal => u.mem[q] = m[q]
  <2>. SUFFICES ASSUME NEW q \in Page, q <= n, q \notin u.inJournal PROVE u.mem[q] = m[q]
    OBVIOUS
  <2>1. q # p
    <3>1. n <= v.orig /\ v.orig \in Nat /\ n \in Nat /\ p \in Nat
      BY PagerAssumption, LocalsHave DEF Page
    <3>. QED
      BY <1>1, <3>1 DEF NeedsRecord
  <2>2. u.mem[q] = v.mem[q] /\ q \notin v.inJournal
    BY <2>1, <1>1
  <2>. QED
    BY <2>2 DEF MemOk
<1>5. \E x \in Page : Prefix(u.mem, x) /\ x >= n
  <2>1. CASE p <= k
    <3>1. Prefix(u.mem, k)
      BY <2>1, <1>1, <1>2 DEF Prefix
    <3>. QED
      BY <3>1
  <2>2. CASE ~(p <= k)
    <3>1. p = k + 1 /\ k \in Nat /\ n \in Nat /\ p >= n
      BY <2>2, PagerAssumption DEF Page
    <3>2. \A q \in Page : q <= p <=> (q <= k \/ q = p)
      BY <3>1 DEF Page
    <3>3. Prefix(u.mem, p)
      BY <3>2, <1>1, <1>2 DEF Prefix
    <3>. QED
      BY <3>1, <3>3
  <2>. QED
    BY <2>1, <2>2
<1>6. \A q \in Page : u.mem[q] = m[q] \/ u.mem[q] \in Own(u.tx)
  BY <1>1, <1>2, <1>3 DEF MemOk
<1>7. \A q \in Page : u.mem[q] # Absent /\ q \notin u.dirty => db[q] = u.mem[q]
  BY <1>1, <1>3 DEF MemOk
<1>8. \A q \in u.dirty : q <= u.orig => q \in u.inJournal
  BY <1>1, <1>3 DEF MemOk, NeedsRecord
<1>. QED
  BY <1>4, <1>5, <1>6, <1>7, <1>8 DEF MemOk

\* pager_write keeps what is known of the database file.
LEMMA WriteDb ==
  ASSUME NEW v \in Locals, NEW p \in Page, NEW u, NEW new, NEW f, NEW k \in Nat,
         NEW j \in Journals, NEW m, NEW n, JournalOk("write", v, j, m, n),
         Grown(v, p, u, j, f, k), Wrote(v, p, u, new), DbOk(v, db, j, m, n)
  PROVE  DbOk(u, db, f, m, n)
<1>1. u.hdr = v.hdr /\ u.off = OffOf(v) + (IF NeedsRecord(v, p) THEN 1 ELSE 0)
  BY DEF Wrote
<1>2. \A i \in RecordsOf(v, j) : i \in RecordsOf(u, f) /\ f[i] = j[i]
  BY <1>1, WriteRecords
<1>. QED
  BY <1>1, <1>2 DEF DbOk, Saved

\* pager_write keeps what a rollback to the savepoint needs.
LEMMA WriteSavepoint ==
  ASSUME NEW v \in Locals, NEW p \in Page, NEW u, NEW new, NEW f, NEW k \in Nat,
         PagerAssumption, db \in Image, v.tx \in 1..MaxTx,
         NEW j \in Journals, NEW m, NEW n, JournalOk("write", v, j, m, n),
         Grown(v, p, u, j, f, k), Wrote(v, p, u, new), SavepointOk(v, j, m, n)
  PROVE  SavepointOk(u, f, m, n)
<1>1. /\ u.dirty = v.dirty \cup {p} /\ u.tx = v.tx /\ u.orig = v.orig
      /\ u.inJournal = v.inJournal \cup (IF NeedsRecord(v, p) THEN {p} ELSE {})
      /\ \A q \in Page : u.mem[q] = IF q = p THEN 2 * v.tx + IF v.sp.open THEN 1 ELSE 0
                                    ELSE v.mem[q]
      /\ u.off = OffOf(v) + (IF NeedsRecord(v, p) THEN 1 ELSE 0)
      /\ u.state = (IF v.state = "locked" THEN "cachemod" ELSE v.state)
  BY DEF Wrote
<1>2. /\ u.sub = (IF SubRecord(v, p) THEN Append(v.sub, [pg |-> p, data |-> Old(v, p)])
                  ELSE v.sub)
      /\ u.sp.in = v.sp.in \cup
              (IF v.sp.open /\ (NeedsRecord(v, p) \/ SubRecord(v, p)) THEN {p} ELSE {})
      /\ u.sp.open = v.sp.open /\ u.sp.nOrig = v.sp.nOrig /\ u.sp.img = v.sp.img
      /\ u.sp.iOffset = v.sp.iOffset /\ u.sp.iHdrOffset = v.sp.iHdrOffset
      /\ u.sp.iSubRec = v.sp.iSubRec
  BY DEF Wrote
<1>3. /\ \A i \in RecordsOf(v, j) : i \in RecordsOf(u, f) /\ f[i] = j[i]
      /\ \A i \in RecordsOf(u, f) :
              \/ i \in RecordsOf(v, j) /\ f[i] = j[i]
              \/ NeedsRecord(v, p) /\ i = u.off
      /\ NeedsRecord(v, p) => /\ u.off \in RecordsOf(u, f) /\ u.off = OffOf(v) + 1
                              /\ f[u.off].pg = p /\ f[u.off].data = Old(v, p)
      /\ OffOf(v) \in Nat /\ OffOf(v) >= 1 /\ OffOf(v) >= v.off /\ v.off \in Nat
  <2>1. u.off = OffOf(v) + (IF NeedsRecord(v, p) THEN 1 ELSE 0)
    BY <1>1
  <2>. QED
    BY <2>1, WriteRecords
<1>. SUFFICES ASSUME v.sp.open PROVE SavepointOk(u, f, m, n)
  BY <1>2 DEF SavepointOk
<1>4. /\ v.sp \in Savepoints /\ v.sub \in Seq(SubRecs) /\ v.sp.nOrig \in Nat
      /\ v.sp.iOffset \in Nat /\ v.sp.iHdrOffset \in Nat /\ v.sp.iSubRec \in Nat
      /\ p \in Nat /\ v.orig \in Nat /\ v.sp.open = TRUE /\ v.mem \in Image
      /\ v.sp.in \in SUBSET Page /\ v.state \in WriteStates
  BY SMTT(30), PagerAssumption, LocalsHave DEF Savepoints, Page
<1>5. /\ Prefix(v.sp.img, v.sp.nOrig) /\ v.sp.nOrig >= n
      /\ \A q \in Page : v.sp.img[q] = m[q] \/ v.sp.img[q] \in Own(v.tx)
      /\ \A q \in Page : q <= v.sp.nOrig => SavepointPage(v, j, q)
      /\ \A i \in NewSlots(v, j) :
           j[i].pg <= v.sp.nOrig => j[i].data = v.sp.img[j[i].pg]
      /\ \A i \in NewSubs(v) :
           /\ v.sub[i].pg \in v.sp.in /\ v.sub[i].pg <= v.sp.nOrig
           /\ v.sub[i].data = v.sp.img[v.sub[i].pg]
      /\ v.sp.iOffset >= 1 /\ v.sp.iOffset <= OffOf(v) /\ v.sp.iSubRec <= Len(v.sub)
      /\ v.sp.iHdrOffset <= v.off
      /\ \A i \in v.sp.iOffset + 1..v.off :
           v.sp.iHdrOffset = 0 \/ i <= v.sp.iHdrOffset => j[i].kind = "rec"
  BY DEF SavepointOk
<1>6. p <= v.sp.nOrig /\ p \notin v.sp.in => Old(v, p) = v.sp.img[p]
  BY <1>5 DEF SavepointPage, Old
<1>7. \A i \in NewSlots(u, f) :
        \/ i \in NewSlots(v, j) /\ f[i] = j[i]
        \/ NeedsRecord(v, p) /\ i = u.off /\ f[i].pg = p /\ f[i].data = Old(v, p)
  BY <1>2, <1>3 DEF NewSlots
<1>8. \A i \in NewSlots(v, j) : i \in NewSlots(u, f) /\ f[i] = j[i]
  BY <1>2, <1>3 DEF NewSlots
<1>9. NeedsRecord(v, p) => u.off \in NewSlots(u, f) /\ f[u.off].pg = p
  BY <1>2, <1>3, <1>4, <1>5 DEF NewSlots
<1>. DEFINE L == Len(v.sub)
            x == [pg |-> p, data |-> Old(v, p)]
<1>10. L \in Nat /\ DOMAIN v.sub = 1..L /\ x \in SubRecs
  BY <1>4, OldHas DEF SubRecs
<1>11. SubRecord(v, p) => /\ DOMAIN u.sub = 1..L + 1 /\ u.sub[L + 1] = x
                          /\ \A i \in 1..L : u.sub[i] = v.sub[i]
                          /\ Len(u.sub) = L + 1
  <2>1. SubRecord(v, p) => u.sub = Append(v.sub, x)
    BY <1>2
  <2>. HIDE DEF x, L
  <2>2. /\ Len(Append(v.sub, x)) = L + 1 /\ DOMAIN Append(v.sub, x) = 1..L + 1
        /\ Append(v.sub, x)[L + 1] = x
        /\ \A i \in 1..L : Append(v.sub, x)[i] = v.sub[i]
    BY <1>10, <1>4 DEF L
  <2>. QED
    BY <2>1, <2>2
<1>12. ~SubRecord(v, p) => u.sub = v.sub
  BY <1>2
<1>13. \A i \in NewSubs(v) : i \in NewSubs(u) /\ u.sub[i] = v.sub[i]
  BY <1>2, <1>10, <1>11, <1>12 DEF NewSubs
<1>14. \A i \in NewSubs(u) :
         \/ i \in NewSubs(v) /\ u.sub[i] = v.sub[i]
         \/ SubRecord(v, p) /\ i = L + 1 /\ u.sub[i] = x
  BY <1>2, <1>10, <1>11, <1>12 DEF NewSubs
<1>15. SubRecord(v, p) => L + 1 \in NewSubs(u) /\ u.sub[L + 1] = x
  BY SMTT(30), <1>2, <1>4, <1>5, <1>10, <1>11 DEF NewSubs
<1>16. x.pg = p /\ x.data = Old(v, p)
  OBVIOUS
<1>. HIDE DEF x, L
<1>17. ASSUME NEW q \in Page, q <= v.sp.nOrig PROVE SavepointPage(u, f, q)
  <2>1. SavepointPage(v, j, q)
    BY <1>5, <1>17
  <2>2. u.mem[q] # Absent
    <3>1. 2 * v.tx + (IF v.sp.open THEN 1 ELSE 0) # Absent
      BY DEF Absent
    <3>. QED
      BY <3>1, <2>1, <1>1 DEF SavepointPage
  <2>3. ASSUME q \notin u.sp.in PROVE u.mem[q] = u.sp.img[q]
    <3>1. q # p
      BY <2>3, <1>17, <1>2, <1>4 DEF SubRecord
    <3>. QED
      BY <3>1, <2>3, <2>1, <1>1, <1>2 DEF SavepointPage
  <2>4. ASSUME q \in u.sp.in
        PROVE  /\ (\E i \in NewSlots(u, f) : f[i].pg = q)
                  \/ (\E i \in NewSubs(u) : u.sub[i].pg = q)
               /\ q <= u.orig => q \in u.inJournal
    <3>1. CASE q \in v.sp.in
      <4>1. /\ (\E i \in NewSlots(v, j) : j[i].pg = q)
               \/ (\E i \in NewSubs(v) : v.sub[i].pg = q)
            /\ q <= v.orig => q \in v.inJournal
        BY <3>1, <2>1 DEF SavepointPage
      <4>2. (\E i \in NewSlots(u, f) : f[i].pg = q)
               \/ (\E i \in NewSubs(u) : u.sub[i].pg = q)
        BY <4>1, <1>8, <1>13
      <4>. QED
        BY <4>1, <4>2, <1>1
    <3>2. CASE q \notin v.sp.in
      <4>1. q = p /\ (NeedsRecord(v, p) \/ SubRecord(v, p))
        BY <3>2, <2>4, <1>2
      <4>2. (\E i \in NewSlots(u, f) : f[i].pg = q)
               \/ (\E i \in NewSubs(u) : u.sub[i].pg = q)
        BY <4>1, <1>9, <1>15, <1>16
      <4>3. q <= u.orig => q \in u.inJournal
        BY <4>1, <1>1 DEF NeedsRecord
      <4>. QED
        BY <4>2, <4>3
    <3>. QED
      BY <3>1, <3>2
  <2>. QED
    BY <2>2, <2>3, <2>4 DEF SavepointPage
<1>18. ASSUME NEW i \in NewSlots(u, f), f[i].pg <= u.sp.nOrig
       PROVE  f[i].data = u.sp.img[f[i].pg]
  <2>1. CASE i \in NewSlots(v, j) /\ f[i] = j[i]
    BY <2>1, <1>18, <1>5, <1>2
  <2>2. CASE NeedsRecord(v, p) /\ i = u.off /\ f[i].pg = p /\ f[i].data = Old(v, p)
    <3>1. p \notin v.sp.in
      BY <2>2, <1>18, <1>2, <1>5 DEF SavepointPage, NeedsRecord
    <3>. QED
      BY <3>1, <2>2, <1>18, <1>6, <1>2
  <2>. QED
    BY <2>1, <2>2, <1>7
<1>19. ASSUME NEW i \in NewSubs(u)
       PROVE  /\ u.sub[i].pg \in u.sp.in /\ u.sub[i].pg <= u.sp.nOrig
              /\ u.sub[i].data = u.sp.img[u.sub[i].pg]
  <2>1. CASE i \in NewSubs(v) /\ u.sub[i] = v.sub[i]
    BY <2>1, <1>5, <1>2
  <2>2. CASE SubRecord(v, p) /\ u.sub[i] = x
    BY <2>2, <1>2, <1>6, <1>16 DEF SubRecord
  <2>. QED
    BY <2>1, <2>2, <1>14
<1>20. ASSUME NEW i \in u.sp.iOffset + 1..u.off,
              u.sp.iHdrOffset = 0 \/ i <= u.sp.iHdrOffset
       PROVE  f[i].kind = "rec"
  <2>1. CASE i <= v.off
    <3>1. j[i].kind = "rec" /\ i \in RecordsOf(v, j)
      BY <2>1, <1>20, <1>2, <1>4, <1>5 DEF RecordsOf
    <3>. QED
      BY <3>1, <1>3
  <2>2. CASE ~(i <= v.off)
    <3>1. NeedsRecord(v, p) /\ i = u.off
      <4>1. u.off = OffOf(v) + (IF NeedsRecord(v, p) THEN 1 ELSE 0)
        BY <1>1
      <4>2. i \in Nat /\ i >= v.sp.iOffset + 1 /\ i <= u.off /\ v.sp.iOffset >= 1
        BY <1>20, <1>2, <1>4, <1>5, <4>1, <1>3
      <4>3. i > OffOf(v)
        BY SMTT(30), <4>2, <2>2, <1>3, <1>4 DEF OffOf
      <4>. QED
        BY <4>1, <4>2, <4>3, <1>3
    <3>. QED
      BY <3>1, <1>3 DEF RecordsOf
  <2>. QED
    BY <2>1, <2>2
<1>21. u.sp.iOffset <= OffOf(u) /\ u.sp.iHdrOffset <= u.off
  <2>1. OffOf(u) = u.off
    BY <1>1, <1>4 DEF OffOf
  <2>2. u.off = OffOf(v) + (IF NeedsRecord(v, p) THEN 1 ELSE 0)
    BY <1>1
  <2>3. u.sp.iOffset <= OffOf(v) /\ u.sp.iHdrOffset <= v.off
        /\ u.sp.iOffset \in Nat /\ u.sp.iHdrOffset \in Nat
    BY <1>2, <1>4, <1>5
  <2>4. OffOf(v) \in Nat /\ OffOf(v) >= v.off /\ v.off \in Nat
    BY <1>3
  <2>. QED
    BY <2>1, <2>2, <2>3, <2>4
<1>22. u.sp.iSubRec <= Len(u.sub)
  BY <1>2, <1>4, <1>5, <1>10, <1>11, <1>12 DEF L
<1>23. /\ Prefix(u.sp.img, u.sp.nOrig) /\ u.sp.nOrig >= n /\ u.sp.iOffset >= 1
       /\ \A q \in Page : u.sp.img[q] = m[q] \/ u.sp.img[q] \in Own(u.tx)
       /\ \A q \in Page : q <= u.sp.nOrig => SavepointPage(u, f, q)
  BY <1>1, <1>2, <1>5, <1>17
<1>. QED
  BY <1>18, <1>19, <1>20, <1>21, <1>22, <1>23 DEF SavepointOk

-----------------------------------------------------------------------------
(* Steps that leave the records alone *)

\* The same transaction, as far as its journal tells.
SameTx(v, u) ==
  /\ u.tx = v.tx /\ u.orig = v.orig /\ u.state = v.state
  /\ u.inJournal = v.inJournal /\ u.needSync = v.needSync
  /\ u.off = v.off /\ u.hdr = v.hdr /\ u.slot = v.slot
\* The same slots up to the end of its records.
SameSlots(v, j, f) ==
  /\ Len(f) = Len(j) /\ f # NoFile /\ \A i \in 1..v.off : f[i] = j[i]

\* Journals that agree up to the end of the records have the same records.
LEMMA RecordsSame ==
  ASSUME NEW v, NEW u, NEW j, NEW f, u.off = v.off,
         \A i \in 1..v.off : f[i] = j[i]
  PROVE  RecordsOf(u, f) = RecordsOf(v, j) /\ \A i \in RecordsOf(v, j) : f[i] = j[i]
BY DEF RecordsOf

\* A journal with the same slots has the same records to play back.
LEMMA SlotsSame ==
  ASSUME NEW v \in Locals, NEW u, NEW j \in Seq(Slot), NEW f \in Seq(Slot), NEW m, NEW n,
         SameTx(v, u), SameSlots(v, j, f), SlotsOk(v, j, m, n), SyncedOk(v, j)
  PROVE  SlotsOk(u, f, m, n) /\ SyncedOk(u, f)
<1>. USE OwnSlots
<1>1. \A i \in 1..v.off : f[i] = j[i]
  BY DEF SameSlots
<1>2. DOMAIN f = 1..Len(j)
  BY SeqParts DEF SameSlots
<1>3. u.off \in DOMAIN f /\ u.hdr <= u.off /\ f[1].kind = "hdr" /\ f # NoFile
  BY <1>1, <1>2 DEF SameTx, SameSlots, SlotsOk
<1>4. \A i \in 1..u.off : OwnSlot(u, f[i], m, n)
  BY <1>1 DEF SameTx, OwnSlot
<1>5. RecordsOf(u, f) = RecordsOf(v, j) /\ \A i \in RecordsOf(v, j) : f[i] = j[i]
  <2>1. u.off = v.off
    BY DEF SameTx
  <2>. QED
    BY <1>1, <2>1 DEF RecordsOf
<1>6. \A p \in u.inJournal :
         \E i \in RecordsOf(u, f) : f[i].pg = p /\ (i <= u.hdr \/ p \in u.needSync)
  BY <1>5 DEF SlotsOk, SameTx
<1>7. SlotsOk(u, f, m, n)
  BY <1>3, <1>4, <1>6 DEF SlotsOk
<1>8. SyncedOk(u, f)
  <2>1. v.hdr <= Len(j) /\ v.hdr <= Len(f) /\ \A x \in 1..v.hdr : j[x] = f[x]
    BY <1>1 DEF SameSlots
  <2>2. u.hdr = v.hdr /\ v.hdr \in Nat
    BY DEF SameTx
  <2>. QED
    BY <2>1, <2>2, SyncedSame
<1>. QED
  BY <1>7, <1>8

\* A step from one place to another that keeps the header.
LEMMA HeaderSame ==
  ASSUME NEW v \in Locals, NEW u, NEW j \in Seq(Slot), NEW f \in Seq(Slot), NEW m, NEW n,
         SameTx(v, u), SameSlots(v, j, f), SlotsOk(v, j, m, n), NEW at, NEW to,
         HeaderOk(at, v, j), (at = "jsync2") <=> (to = "jsync2"),
         v.slot = 0 \/ to \in SyncPcs => ~IsHeader(f, v.off + 1, 0)
  PROVE  HeaderOk(to, u, f)
<1>. USE OwnSlots
<1>1. \A i \in 1..v.off : f[i] = j[i]
  BY DEF SameSlots
<1>2. u.slot = v.slot /\ u.hdr = v.hdr /\ u.off = v.off
  BY DEF SameTx
<1>3. ASSUME v.slot # 0
      PROVE  /\ v.slot = v.hdr + 1 /\ v.slot <= v.off /\ f[v.slot].kind = "hdr"
             /\ \A i \in v.slot + 1..v.off : f[i].kind = "rec"
             /\ f[v.slot] = j[v.slot]
  <2>1. v.slot \in 1..v.off /\ \A i \in v.slot + 1..v.off : i \in 1..v.off
    BY <1>3 DEF HeaderOk
  <2>. QED
    BY <2>1, <1>1, <1>3 DEF HeaderOk
<1>. QED
  BY <1>2, <1>3 DEF HeaderOk

\* Whether a slot is a header depends on it and on the length of the file.
LEMMA IsHeaderSame ==
  ASSUME NEW j, NEW f, NEW i, NEW s, Len(f) = Len(j), f[i] = j[i]
  PROVE  IsHeader(j, i, s) <=> IsHeader(f, i, s)
BY DEF IsHeader

\* Nothing but the place, or fields that no record depends on, has changed.
LEMMA JournalSame ==
  ASSUME NEW v \in Locals, NEW u, NEW j \in Journals, NEW m, NEW n, NEW at, NEW to,
         SameTx(v, u), v.state # "locked", JournalOk(at, v, j, m, n), StateOk(to, u),
         (at = "jsync2") <=> (to = "jsync2"), to \in SyncPcs => at \in SyncPcs
  PROVE  JournalOk(to, u, j, m, n)
<1>1. /\ SlotsOk(v, j, m, n) /\ HeaderOk(at, v, j) /\ SyncedOk(v, j) /\ StaleOk(v, j)
      /\ j \in Seq(Slot) /\ j # NoFile
  BY DEF JournalOk, SlotsOk, Journals
<1>2. SameSlots(v, j, j)
  BY <1>1 DEF SameSlots
<1>3. SlotsOk(u, j, m, n) /\ SyncedOk(u, j)
  BY <1>1, <1>2, SlotsSame
<1>4. HeaderOk(to, u, j)
  <2>1. v.slot = 0 \/ to \in SyncPcs => ~IsHeader(j, v.off + 1, 0)
    BY <1>1 DEF HeaderOk
  <2>. QED
    BY <1>1, <1>2, <2>1, HeaderSame
<1>5. StaleOk(u, j)
  BY <1>1 DEF StaleOk, SameTx
<1>6. u.state # "locked"
  BY DEF SameTx
<1>. QED
  BY <1>3, <1>4, <1>5, <1>6 DEF JournalOk

\* What is known of the database file, for other locals of the same
\* transaction.
LEMMA DbSame ==
  ASSUME NEW v, NEW u, NEW d, NEW j, NEW m, NEW n, SameTx(v, u), DbOk(v, d, j, m, n)
  PROVE  DbOk(u, d, j, m, n)
BY RecordsSame DEF DbOk, Saved, SameTx

\* The header of an older journal is defaced, if it is right behind the records.
Defaced(v, j, f) ==
  /\ f \in Seq(Slot) /\ f # NoFile /\ Len(f) = Len(j)
  /\ \A i \in 1..Len(j) :
       IF i = v.off + 1 /\ j[i].kind = "hdr"
       THEN f[i].kind = "hdr" /\ f[i].init = j[i].init /\ ~f[i].magic
       ELSE f[i] = j[i]

\* syncJournal zeroes an old header behind the records: the journal stays the
\* one of the transaction.
LEMMA DefacedJournal ==
  ASSUME NEW v \in Locals, NEW u, NEW j \in Journals, NEW f, NEW m, NEW n, NEW to,
         SameTx(v, u), v.state # "locked", JournalOk("write", v, j, m, n),
         Defaced(v, j, f), to \in {"jsync", "jhdr"}
  PROVE  JournalOk(to, u, f, m, n)
<1>1. /\ SlotsOk(v, j, m, n) /\ HeaderOk("write", v, j) /\ SyncedOk(v, j) /\ StaleOk(v, j)
      /\ StateOk("write", v) /\ j \in Seq(Slot) /\ j # NoFile
  BY DEF JournalOk, SlotsOk, Journals
<1>. USE OwnSlots
<1>2. f \in Seq(Slot) /\ f # NoFile /\ Len(f) = Len(j) /\ Len(j) \in Nat /\ v.off \in 1..Len(j)
      /\ DOMAIN f = 1..Len(j) /\ DOMAIN j = 1..Len(j)
  BY <1>1, SeqParts DEF Defaced
<1>3. \A i \in 1..v.off : f[i] = j[i]
  BY <1>1, <1>2 DEF Defaced
<1>4. SameSlots(v, j, f)
  BY <1>2, <1>3 DEF SameSlots
<1>5. SlotsOk(u, f, m, n) /\ SyncedOk(u, f)
  BY <1>1, <1>2, <1>4, SlotsSame
<1>6. ~IsHeader(f, v.off + 1, 0)
  BY <1>1, <1>2 DEF Defaced, IsHeader
<1>7. HeaderOk(to, u, f)
  BY <1>1, <1>2, <1>4, <1>6, HeaderSame
<1>8. StaleOk(u, f)
  <2>1. SlotsOf(f) = f /\ SlotsOf(j) = j
    BY <1>1, <1>2 DEF SlotsOf
  <2>2. \A i \in 1..Len(j) : f[i].kind \in {"hdr", "rec"} =>
          j[i].kind \in {"hdr", "rec"} /\ f[i].init = j[i].init
    BY DEF Defaced
  <2>. QED
    BY <1>1, <1>2, <2>1, <2>2 DEF StaleOk, SameTx
<1>9. StateOk(to, u)
  BY <1>1 DEF StateOk, SameTx, SyncPcs
<1>10. u.state # "locked"
  BY DEF SameTx
<1>. QED
  BY <1>5, <1>7, <1>8, <1>9, <1>10 DEF JournalOk

-----------------------------------------------------------------------------
(* The header of the records is written and synced *)

\* Journal f is j with the magic and the count of the last header.
Counted(v, j, f) ==
  /\ f \in Seq(Slot) /\ f # NoFile /\ Len(f) = Len(j) /\ DOMAIN f = 1..Len(j)
  /\ \A i \in 1..Len(j) : i # v.slot => f[i] = j[i]
  /\ f[v.slot].kind = "hdr" /\ f[v.slot].magic = TRUE /\ f[v.slot].n = v.off - v.slot
  /\ f[v.slot].init = v.tx /\ f[v.slot].orig = v.orig

\* The record count that syncJournal writes into the header.
LEMMA CountSlots ==
  ASSUME NEW v \in Locals, NEW j \in Journals, NEW m, NEW n, PagerAssumption,
         v.state # "locked", v.tx \in 1..MaxTx, JournalOk("jhdr", v, j, m, n)
  PROVE  LET new == [i \in {v.slot} |-> Header(TRUE, v.off - v.slot, v.tx, v.orig)]
         IN Counted(v, j, Written(j, new)) /\ Fits(j, new, Len(j))
<1>. DEFINE h == Header(TRUE, v.off - v.slot, v.tx, v.orig)
            new == [i \in {v.slot} |-> h]
            f == Written(j, new)
<1>1. /\ SlotsOk(v, j, m, n) /\ HeaderOk("jhdr", v, j)
      /\ StateOk("jhdr", v) /\ j \in Seq(Slot) /\ j # NoFile
  BY DEF JournalOk, SlotsOk, Journals
<1>2. SlotsOf(j) = j
  BY <1>1 DEF SlotsOf
<1>3. /\ Len(j) \in Nat /\ DOMAIN j = 1..Len(j) /\ v.off \in 1..Len(j)
      /\ v.off \in Nat /\ v.hdr \in 0..v.off /\ v.slot \in Nat
  BY <1>1, OwnSlots
<1>5. v.slot <= v.off /\ v.slot # 0 /\ v.slot \in 1..Len(j)
  BY <1>1, <1>3 DEF HeaderOk, StateOk, SyncPcs
<1>6. h \in Slot
  <2>1. v.off - v.slot \in Nat /\ v.orig \in 0..NPage /\ TRUE \in BOOLEAN
    BY <1>3, <1>5, LocalsHave
  <2>. QED
    BY <2>1, SlotMade
<1>7. h.kind = "hdr" /\ h.magic = TRUE /\ h.n = v.off - v.slot /\ h.init = v.tx
          /\ h.orig = v.orig
  BY DEF Header
<1>. HIDE DEF h
<1>8. WrittenTo(j, new, f, Len(j)) /\ Fits(j, new, Len(j))
  <2>1. DOMAIN new = {v.slot} /\ DOMAIN SlotsOf(j) \cup DOMAIN new = 1..Len(j)
    BY <1>2, <1>3, <1>5
  <2>2. \A i \in DOMAIN new : new[i] \in Slot
    BY <1>6
  <2>. HIDE DEF new
  <2>. QED
    BY <2>1, <2>2, <1>3, WrittenDoes DEF Fits
<1>9. DOMAIN new = {v.slot} /\ new[v.slot] = h
  OBVIOUS
<1>. HIDE DEF new, f
<1>10. Counted(v, j, f)
  BY <1>2, <1>3, <1>5, <1>7, <1>8, <1>9 DEF WrittenTo, Counted
<1>. QED
  BY <1>8, <1>10 DEF f, new, h

\* With the record count in its header the journal stays the one of the
\* transaction.
LEMMA CountJournal ==
  ASSUME NEW v \in Locals, NEW j \in Journals, NEW m, NEW n, NEW f,
         v.state # "locked", JournalOk("jhdr", v, j, m, n), Counted(v, j, f)
  PROVE  /\ JournalOk("jsync2", v, f, m, n)
         /\ RecordsOf(v, f) = RecordsOf(v, j)
         /\ \A i \in RecordsOf(v, j) : f[i] = j[i]
<1>1. /\ SlotsOk(v, j, m, n) /\ HeaderOk("jhdr", v, j) /\ SyncedOk(v, j) /\ StaleOk(v, j)
      /\ StateOk("jhdr", v) /\ j \in Seq(Slot) /\ j # NoFile
  BY DEF JournalOk, SlotsOk, Journals
<1>2. SlotsOf(j) = j
  BY <1>1 DEF SlotsOf
<1>3. /\ Len(j) \in Nat /\ DOMAIN j = 1..Len(j) /\ v.off \in 1..Len(j)
      /\ v.off \in Nat /\ v.hdr \in 0..v.off /\ v.slot \in Nat
  BY <1>1, OwnSlots
<1>3a. \A i \in 1..v.off : OwnSlot(v, j[i], m, n)
  BY <1>1 DEF SlotsOk
<1>4. v.slot # 0
  BY <1>1 DEF StateOk, SyncPcs
<1>5. /\ v.slot = v.hdr + 1 /\ v.slot <= v.off /\ j[v.slot].kind = "hdr"
      /\ \A i \in v.slot + 1..v.off : j[i].kind = "rec"
      /\ ~IsHeader(j, v.off + 1, 0)
  BY <1>1, <1>4 DEF HeaderOk, SyncPcs
<1>7. /\ f[v.slot].kind = "hdr" /\ f[v.slot].magic = TRUE /\ f[v.slot].n = v.off - v.slot
      /\ f[v.slot].init = v.tx /\ f[v.slot].orig = v.orig
  BY DEF Counted
<1>9. /\ f \in Seq(Slot) /\ f # NoFile /\ Len(f) = Len(j) /\ DOMAIN f = 1..Len(j)
      /\ \A i \in 1..Len(j) : i # v.slot => f[i] = j[i]
  BY DEF Counted
<1>a. \A i \in 1..v.off : i \in 1..Len(j)
  BY <1>3
<1>b. \A i \in 1..v.off : i # v.slot => f[i] = j[i]
  BY <1>a, <1>9
<1>c. v.slot \in 1..v.off /\ \A i \in v.slot + 1..v.off : i \in 1..v.off /\ i # v.slot
  BY <1>3, <1>4, <1>5
<1>10. RecordsOf(v, f) = RecordsOf(v, j) /\ \A i \in RecordsOf(v, j) : f[i] = j[i]
  <2>1. \A i \in 1..v.off : f[i].kind = j[i].kind
    BY <1>b, <1>5, <1>7
  <2>2. RecordsOf(v, f) = RecordsOf(v, j)
    BY <2>1 DEF RecordsOf
  <2>3. \A i \in RecordsOf(v, j) : i \in 1..v.off /\ i # v.slot
    BY <1>5 DEF RecordsOf
  <2>. QED
    BY <2>2, <2>3, <1>b
<1>11. SlotsOk(v, f, m, n)
  <2>1. ASSUME NEW i \in 1..v.off PROVE OwnSlot(v, f[i], m, n)
    <3>1. CASE i = v.slot
      BY <3>1, <1>7 DEF OwnSlot
    <3>2. CASE i # v.slot
      BY <3>2, <1>3a, <1>b
    <3>. QED
      BY <3>1, <3>2
  <2>2. f[1].kind = "hdr"
    <3>1. 1 \in 1..v.off /\ j[1].kind = "hdr"
      BY <1>1, <1>3 DEF SlotsOk
    <3>. QED
      BY <3>1, <1>b, <1>7
  <2>3. v.off \in DOMAIN f /\ v.hdr <= v.off
    BY <1>3, <1>9
  <2>4. \A p \in v.inJournal :
       \E i \in RecordsOf(v, f) : f[i].pg = p /\ (i <= v.hdr \/ p \in v.needSync)
    <3>1. \A p \in v.inJournal :
       \E i \in RecordsOf(v, j) : j[i].pg = p /\ (i <= v.hdr \/ p \in v.needSync)
      BY <1>1 DEF SlotsOk
    <3>. QED
      BY <3>1, <1>10
  <2>. QED
    BY <2>1, <2>2, <2>3, <2>4, <1>9 DEF SlotsOk
<1>12. HeaderOk("jsync2", v, f)
  <2>1. \A i \in v.slot + 1..v.off : f[i].kind = "rec"
    BY <1>b, <1>c, <1>5
  <2>2. ~IsHeader(f, v.off + 1, 0)
    <3>1. CASE v.off + 1 <= Len(j)
      <4>1. v.off + 1 \in 1..Len(j) /\ v.off + 1 # v.slot
        BY <3>1, <1>3, <1>5
      <4>2. f[v.off + 1] = j[v.off + 1]
        BY <4>1, <1>9
      <4>. QED
        BY <4>2, <1>5, <1>9 DEF IsHeader
    <3>2. CASE ~(v.off + 1 <= Len(j))
      BY <3>2, <1>9 DEF IsHeader
    <3>. QED
      BY <3>1, <3>2
  <2>. QED
    BY <2>1, <2>2, <1>4, <1>5, <1>7 DEF HeaderOk
<1>13. SyncedOk(v, f)
  <2>1. v.hdr <= Len(j) /\ v.hdr <= Len(f)
    BY <1>3, <1>9
  <2>2. \A x \in 1..v.hdr : x \in 1..v.off /\ x # v.slot
    BY <1>3, <1>5
  <2>3. \A x \in 1..v.hdr : j[x] = f[x]
    BY <2>2, <1>b
  <2>4. v.hdr \in Nat
    BY <1>3
  <2>. QED
    BY <2>1, <2>3, <2>4, <1>1, SyncedSame
<1>14. StaleOk(v, f)
  <2>1. SlotsOf(f) = f
    BY <1>9 DEF SlotsOf
  <2>2. \A i \in 1..Len(j) : i > v.off => i # v.slot
    BY <1>3, <1>5
  <2>3. \A i \in 1..Len(j) : i > v.off => f[i] = j[i]
    BY <2>2, <1>9
  <2>4. DOMAIN f = DOMAIN j /\ DOMAIN j = 1..Len(j)
    BY <1>3, <1>9
  <2>. QED
    BY <2>1, <2>3, <2>4, <1>1, <1>2 DEF StaleOk
<1>15. StateOk("jsync2", v)
  BY <1>1 DEF StateOk, SyncPcs
<1>16. JournalOk("jsync2", v, f, m, n)
  BY <1>11, <1>12, <1>13, <1>14, <1>15 DEF JournalOk
<1>. QED
  BY <1>10, <1>16

\* Once the header is there the whole journal can be read.
LEMMA AllReadable ==
  ASSUME NEW v \in Locals, NEW j \in Seq(Slot), NEW m, NEW n,
         SlotsOk(v, j, m, n), HeaderOk("jsync2", v, j), SyncedOk(v, j), v.slot # 0
  PROVE  /\ \A i \in 1..v.off : Readable(j, i, 0)
         /\ v.slot \in 1..v.off /\ Heads(j, v.slot, v.off + 1)
         /\ j[v.slot].n = v.off - v.slot
<1>. USE OwnSlots
<1>1. /\ v.slot = v.hdr + 1 /\ v.slot <= v.off /\ j[v.slot].n = v.off - v.slot
      /\ j[v.slot].kind = "hdr" /\ \A i \in v.slot + 1..v.off : j[i].kind = "rec"
      /\ j[v.slot].magic
  BY DEF HeaderOk, SyncPcs
<1>2. IsHeader(j, v.slot, 0)
  BY <1>1 DEF IsHeader
<1>3. Readable(j, v.slot, 0)
  <2>1. CASE v.hdr = 0
    BY <1>1, <1>2, <2>1 DEF Readable
  <2>2. CASE v.hdr > 0
    <3>1. PICK h \in 1..v.hdr : Heads(j, h, v.hdr + 1) /\ j[h].n = v.hdr - h
      BY <2>2 DEF SyncedOk
    <3>2. ~(v.hdr + 1 - h <= RecordsAfter(j, h, 0))
      BY <3>1 DEF RecordsAfter
    <3>3. v.hdr + 1 \in Nat /\ h \in 1..v.hdr + 1 - 1
      OBVIOUS
    <3>. QED
      BY <1>1, <1>2, <3>1, <3>2, <3>3, ReadableBehind
  <2>. QED
    BY <2>1, <2>2
<1>4. ASSUME NEW i \in v.slot + 1..v.off PROVE Readable(j, i, 0)
  <2>1. Heads(j, v.slot, i) /\ i \in Nat /\ v.slot \in 1..i - 1
    BY <1>1 DEF Heads
  <2>2. i - v.slot <= RecordsAfter(j, v.slot, 0)
    BY <1>1 DEF RecordsAfter
  <2>3. IsRecord(j, i, v.slot)
    <3>1. OwnSlot(v, j[i], m, n) /\ OwnSlot(v, j[v.slot], m, n) /\ i <= Len(j)
      BY <1>1
    <3>. QED
      BY <3>1, <1>1 DEF IsRecord, OwnSlot
  <2>. QED
    BY <2>1, <2>2, <2>3, ReadableBehind
<1>5. \A i \in 1..v.off : Readable(j, i, 0)
  <2>1. \A i \in 1..v.off : i \in 1..v.hdr \/ i = v.slot \/ i \in v.slot + 1..v.off
    BY <1>1
  <2>2. \A i \in 1..v.hdr : Readable(j, i, 0)
    BY DEF SyncedOk
  <2>. QED
    BY <2>1, <2>2, <1>3, <1>4
<1>6. Heads(j, v.slot, v.off + 1) /\ v.slot \in 1..v.off
  <2>1. v.off + 1 - 1 = v.off /\ v.slot < v.off + 1
    BY <1>1
  <2>2. \A i \in v.slot + 1..v.off : j[i].kind # "hdr"
    BY <1>1
  <2>3. v.slot \in 1..v.off
    BY <1>1
  <2>. QED
    BY <2>1, <2>2, <2>3, <1>1 DEF Heads
<1>. QED
  BY <1>1, <1>5, <1>6

\* After the last sync of a commit every record counts.
LEMMA SyncedJournal ==
  ASSUME NEW v \in Locals, NEW j \in Journals, NEW m, NEW n, NEW u, v.goal = 0,
         v.state # "locked", JournalOk("jsync2", v, j, m, n),
         u.tx = v.tx, u.orig = v.orig, u.inJournal = v.inJournal, u.off = v.off,
         u.hdr = v.off, u.needSync = {}, u.state = "dbmod", u.slot = 0, u.goal = 0
  PROVE  JournalOk("flush", u, j, m, n)
<1>1. /\ SlotsOk(v, j, m, n) /\ HeaderOk("jsync2", v, j) /\ SyncedOk(v, j) /\ StaleOk(v, j)
      /\ StateOk("jsync2", v) /\ j \in Seq(Slot) /\ j # NoFile
  BY DEF JournalOk, SlotsOk, Journals
<1>. USE OwnSlots
<1>2. v.slot # 0
  BY <1>1 DEF StateOk, SyncPcs
<1>3. /\ \A i \in 1..v.off : Readable(j, i, 0)
      /\ v.slot \in 1..v.off /\ Heads(j, v.slot, v.off + 1)
      /\ j[v.slot].n = v.off - v.slot
  BY <1>1, <1>2, AllReadable
<1>4. SyncedOk(u, j)
  BY <1>3 DEF SyncedOk
<1>5. HeaderOk("flush", u, j)
  BY <1>1 DEF HeaderOk, SyncPcs
<1>6. StateOk("flush", u)
  BY <1>1, <1>3 DEF StateOk, SyncPcs
<1>7. SlotsOk(u, j, m, n)
  <2>1. \A i \in 1..v.off : OwnSlot(u, j[i], m, n)
    BY <1>1 DEF OwnSlot
  <2>2. RecordsOf(u, j) = RecordsOf(v, j) /\ \A i \in RecordsOf(u, j) : i <= v.off
    BY DEF RecordsOf
  <2>. QED
    BY <1>1, <2>1, <2>2 DEF SlotsOk
<1>8. StaleOk(u, j)
  BY <1>1 DEF StaleOk
<1>. QED
  BY <1>4, <1>5, <1>6, <1>7, <1>8 DEF JournalOk

\* A transaction that goes on gets a header for the records to come.
Headed(v, j, f) ==
  /\ f \in Seq(Slot) /\ f # NoFile /\ Len(f) \in Nat /\ DOMAIN f = 1..Len(f)
  /\ v.off + 1 <= Len(f) /\ Len(j) <= Len(f)
  /\ f[v.off + 1].kind = "hdr" /\ f[v.off + 1].magic = FALSE /\ f[v.off + 1].n = 0
  /\ f[v.off + 1].init = v.tx /\ f[v.off + 1].orig = v.orig
  /\ \A i \in 1..Len(f) : i # v.off + 1 => i \in 1..Len(j) /\ f[i] = j[i]

\* A new header at the end of the records.
LEMMA HeadedDoes ==
  ASSUME NEW v \in Locals, NEW j \in Seq(Slot), v.tx \in 1..MaxTx, v.off \in 1..Len(j)
  PROVE  Headed(v, j, [i \in DOMAIN j \cup {v.off + 1} |->
                         IF i = v.off + 1 THEN Header(FALSE, 0, v.tx, v.orig) ELSE j[i]])
<1>. DEFINE h == Header(FALSE, 0, v.tx, v.orig)
            k == IF v.off + 1 > Len(j) THEN v.off + 1 ELSE Len(j)
            f == [i \in DOMAIN j \cup {v.off + 1} |-> IF i = v.off + 1 THEN h ELSE j[i]]
<1>1. Len(j) \in Nat /\ DOMAIN j = 1..Len(j) /\ v.off \in Nat
  BY SeqParts
<1>2. h \in Slot /\ h.kind = "hdr" /\ h.magic = FALSE /\ h.n = 0 /\ h.init = v.tx
          /\ h.orig = v.orig
  <2>1. v.orig \in 0..NPage /\ FALSE \in BOOLEAN
    BY LocalsHave
  <2>2. h \in Slot
    BY <2>1, SlotMade
  <2>. QED
    BY <2>2 DEF Header
<1>. HIDE DEF h
<1>3. DOMAIN j \cup {v.off + 1} = 1..k /\ k \in Nat /\ v.off + 1 <= k /\ Len(j) <= k
      /\ \A i \in 1..k : i # v.off + 1 => i \in 1..Len(j)
  BY <1>1
<1>. HIDE DEF k
<1>4. \A i \in 1..Len(j) : j[i] \in Slot
  BY <1>1
<1>5. f \in [1..k -> Slot]
  BY <1>2, <1>3, <1>4
<1>6. f \in Seq(Slot) /\ Len(f) = k /\ DOMAIN f = 1..k
  <2>. HIDE DEF f
  <2>. QED
    BY <1>3, <1>5, MakeSeq
<1>7. f # NoFile
  BY <1>6, NoFileIsNoJournal
<1>8. \A i \in 1..k : f[i] = IF i = v.off + 1 THEN h ELSE j[i]
  BY <1>3
<1>9. v.off + 1 \in 1..k
  BY <1>1, <1>3
<1>. HIDE DEF f
<1>10. Headed(v, j, f)
  BY <1>2, <1>3, <1>6, <1>7, <1>8, <1>9 DEF Headed
<1>. QED
  BY <1>10 DEF f, h

\* The same page records.
SameRecords(v, j, u, f) ==
  RecordsOf(u, f) = RecordsOf(v, j) /\ \A i \in RecordsOf(v, j) : f[i] = j[i]

\* After a sync for a page that the cache spills, a new header follows the
\* records, all of which count now.
LEMMA NextHeaderJournal ==
  ASSUME NEW v \in Locals, NEW j \in Journals, NEW m, NEW n, NEW u, NEW f,
         v.goal # 0, u.goal = v.goal,
         v.state # "locked", JournalOk("jsync2", v, j, m, n), Headed(v, j, f),
         u.tx = v.tx, u.orig = v.orig, u.inJournal = v.inJournal, u.off = v.off + 1,
         u.hdr = v.off, u.needSync = {}, u.state = "dbmod", u.slot = v.off + 1
  PROVE  JournalOk("flush", u, f, m, n) /\ SameRecords(v, j, u, f)
<1>1. /\ SlotsOk(v, j, m, n) /\ HeaderOk("jsync2", v, j) /\ SyncedOk(v, j) /\ StaleOk(v, j)
      /\ StateOk("jsync2", v) /\ j \in Seq(Slot) /\ j # NoFile
  BY DEF JournalOk, SlotsOk, Journals
<1>2. /\ Len(j) \in Nat /\ DOMAIN j = 1..Len(j) /\ v.off \in 1..Len(j) /\ v.off \in Nat
  BY <1>1, OwnSlots
<1>2a. \A i \in 1..v.off : OwnSlot(v, j[i], m, n)
  BY <1>1 DEF SlotsOk
<1>3. v.slot # 0
  BY <1>1 DEF StateOk, SyncPcs
<1>4. /\ \A i \in 1..v.off : Readable(j, i, 0)
      /\ v.slot \in 1..v.off /\ Heads(j, v.slot, v.off + 1)
      /\ j[v.slot].n = v.off - v.slot
  BY <1>1, <1>3, AllReadable
<1>5. /\ f[v.off + 1].kind = "hdr" /\ f[v.off + 1].magic = FALSE /\ f[v.off + 1].n = 0
      /\ f[v.off + 1].init = v.tx /\ f[v.off + 1].orig = v.orig
  BY DEF Headed
<1>6. /\ f \in Seq(Slot) /\ f # NoFile /\ Len(f) \in Nat /\ DOMAIN f = 1..Len(f)
      /\ v.off + 1 <= Len(f) /\ Len(j) <= Len(f)
  BY DEF Headed
<1>7. \A i \in 1..Len(f) : i # v.off + 1 => i \in 1..Len(j) /\ f[i] = j[i]
  BY DEF Headed
<1>a. \A i \in 1..v.off : i \in 1..Len(f) /\ i # v.off + 1
  BY <1>2, <1>6
<1>8. \A i \in 1..v.off : f[i] = j[i]
  BY <1>a, <1>7
<1>b. \A i \in 1..v.off + 1 : i \in 1..v.off \/ i = v.off + 1
  BY <1>2
<1>9. RecordsOf(u, f) = RecordsOf(v, j) /\ \A i \in RecordsOf(v, j) : f[i] = j[i] /\ i <= v.off
  <2>1. ASSUME NEW i \in RecordsOf(u, f) PROVE i \in RecordsOf(v, j)
    BY <1>b, <1>5, <1>8 DEF RecordsOf
  <2>2. ASSUME NEW i \in RecordsOf(v, j) PROVE i \in RecordsOf(u, f) /\ f[i] = j[i]
            /\ i <= v.off
    <3>1. i \in 1..v.off /\ i \in 1..v.off + 1 /\ i <= v.off
      BY <1>2 DEF RecordsOf
    <3>. QED
      BY <3>1, <1>8 DEF RecordsOf
  <2>. QED
    BY <2>1, <2>2
<1>10. SlotsOk(u, f, m, n)
  <2>1. ASSUME NEW i \in 1..v.off + 1 PROVE OwnSlot(u, f[i], m, n)
    <3>1. CASE i = v.off + 1
      BY <3>1, <1>5 DEF OwnSlot
    <3>2. CASE i \in 1..v.off
      BY <3>2, <1>2a, <1>8 DEF OwnSlot
    <3>. QED
      BY <3>1, <3>2, <1>b
  <2>2. f[1].kind = "hdr"
    <3>1. 1 \in 1..v.off /\ j[1].kind = "hdr"
      BY <1>1, <1>2 DEF SlotsOk
    <3>. QED
      BY <3>1, <1>8
  <2>3. u.off \in DOMAIN f /\ u.hdr <= u.off
    BY <1>2, <1>6
  <2>4. \A p \in u.inJournal :
       \E i \in RecordsOf(u, f) : f[i].pg = p /\ (i <= u.hdr \/ p \in u.needSync)
    <3>1. \A p \in v.inJournal : \E i \in RecordsOf(v, j) : j[i].pg = p
      BY <1>1 DEF SlotsOk
    <3>. QED
      BY <3>1, <1>9
  <2>. QED
    BY <2>1, <2>2, <2>3, <2>4, <1>6 DEF SlotsOk
<1>11. HeaderOk("flush", u, f)
  <2>1. \A i \in u.slot + 1..u.off : FALSE
    BY <1>2
  <2>2. u.slot # 0 /\ u.slot = u.hdr + 1 /\ u.slot <= u.off
    BY <1>2
  <2>. QED
    BY <2>1, <2>2, <1>5 DEF HeaderOk, SyncPcs
<1>12. SyncedOk(u, f)
  <2>. DEFINE x == [hdr |-> v.off]
  <2>0. x.hdr = v.off
    OBVIOUS
  <2>. HIDE DEF x
  <2>1. SyncedOk(x, j)
    BY <2>0, <1>4 DEF SyncedOk
  <2>2. x.hdr <= Len(j) /\ x.hdr <= Len(f) /\ x.hdr \in Nat /\ u.hdr = x.hdr
    BY <2>0, <1>2, <1>6
  <2>3. \A i \in 1..x.hdr : j[i] = f[i]
    BY <2>0, <1>8
  <2>. QED
    BY <2>1, <2>2, <2>3, SyncedSame
<1>13. StaleOk(u, f)
  <2>1. SlotsOf(f) = f /\ SlotsOf(j) = j
    BY <1>1, <1>6 DEF SlotsOf
  <2>2. \A i \in 1..Len(f) : i > u.off => i # v.off + 1 /\ i > v.off
    BY <1>2
  <2>3. \A i \in 1..Len(f) : i > u.off => i \in DOMAIN j /\ f[i] = j[i] /\ i > v.off
    BY <2>2, <1>2, <1>7
  <2>. QED
    BY <2>1, <2>3, <1>1, <1>6 DEF StaleOk
<1>14. StateOk("flush", u)
  BY <1>2 DEF StateOk, SyncPcs
<1>15. JournalOk("flush", u, f, m, n)
  BY <1>10, <1>11, <1>12, <1>13, <1>14 DEF JournalOk
<1>. QED
  BY <1>9, <1>15 DEF SameRecords

-----------------------------------------------------------------------------
(* What the operations on the files keep *)

\* What a disk keeps of a file is part of what it may hold of it.
LEMMA KeptIn ==
  ASSUME NEW S, NEW X, S \subseteq X
  PROVE  Kept(S) \subseteq X
BY DEF Kept, KeptAfter

\* A write of the database file.
LEMMA DbWriteDoes ==
  ASSUME DbTypes, NEW new, \A p \in DOMAIN new : new[p] \in Content, DbWrite(new)
  PROVE  DbTypes' /\ \A p \in Page : db'[p] = IF p \in DOMAIN new THEN new[p] ELSE db[p]
<1>1. db' \in Image
  BY DEF DbTypes, DbWrite, Image
<1>2. \A p \in Page : dbDisk[p] \cup (IF p \notin DOMAIN new THEN {}
                                      ELSE IF new[p] = Absent THEN {Absent}
                                      ELSE {new[p], Garbage}) \subseteq Content
  <2>1. Garbage \in Content /\ Absent \in Content
    BY PagerAssumption DEF Garbage, Content, Absent
  <2>. QED
    BY <2>1 DEF DbTypes
<1>3. dbDisk' \in [Page -> SUBSET Content]
  BY <1>2, KeptIn DEF DbWrite
<1>. QED
  BY <1>1, <1>3 DEF DbTypes, DbWrite

\* A sync of the database file.
LEMMA DbSyncDoes ==
  ASSUME DbTypes, DbSync
  PROVE  DbTypes' /\ db' = db
<1>1. \A p \in Page : {db[p]} \subseteq Content
  BY DEF DbTypes, Image
<1>. QED
  BY <1>1, KeptIn DEF DbTypes, DbSync

\* What pager_truncate does to each page.
LEMMA CutHas ==
  ASSUME NEW n
  PROVE  /\ \A p \in DOMAIN Cut(n) : Cut(n)[p] \in Content
         /\ \A p \in Page : (p \in DOMAIN Cut(n)) <=> p > n
         /\ \A p \in DOMAIN Cut(n) : Cut(n)[p] = Absent
BY PagerAssumption DEF Cut, Content, Absent, Garbage

\* pager_truncate drops the pages from its argument on.
LEMMA CutDoes ==
  ASSUME DbTypes, NEW n, DbWrite(Cut(n))
  PROVE  DbTypes' /\ \A p \in Page : db'[p] = IF p > n THEN Absent ELSE db[p]
BY CutHas, DbWriteDoes

\* The journal is written, and what the disk may hold of it.
LEMMA JournalWriteDoes ==
  ASSUME JrTypes, NEW new, NEW k \in Nat, Fits(jr, new, k), JournalWrite(new)
  PROVE  JrTypes' /\ jr' = Written(jr, new) /\ WrittenTo(jr, new, jr', k)
<1>. USE DEF Fits
<1>1. Slots = SlotsOf(jr) /\ jr \in Journals
  BY DEF Slots, SlotsOf, JrTypes
<1>2. jr' = Written(jr, new)
  BY <1>1 DEF JournalWrite, Written
<1>3. WrittenTo(jr, new, jr', k)
  BY <1>1, <1>2, WrittenDoes
<1>4. jr' \in Journals /\ SlotsOf(jr') = jr' /\ DOMAIN jr' = 1..k
  BY <1>3 DEF WrittenTo, SlotsOf
<1>5. jrDisk' \in [1..k -> SUBSET Slot]
  <2>. DEFINE e(i) == (IF i \in DOMAIN SlotsOf(jr) THEN jrDisk[i] ELSE {Zero})
                      \cup (IF i \in DOMAIN new THEN {new[i], Torn} ELSE {})
  <2>1. \A i \in 1..k : e(i) \subseteq Slot
    <3>1. \A i \in DOMAIN SlotsOf(jr) : jrDisk[i] \subseteq Slot
      BY DEF JrTypes
    <3>. QED
      BY <3>1, SlotMade
  <2>2. jrDisk' = [i \in 1..k |-> Kept(e(i))]
    BY <1>1 DEF JournalWrite
  <2>. HIDE DEF e
  <2>. QED
    BY <2>1, <2>2, KeptIn
<1>6. jrDisk' \in Seq(SUBSET Slot) /\ DOMAIN jrDisk' = 1..k
  BY <1>5, MakeSeq
<1>7. jrOther' \subseteq Journals
  BY DEF JrTypes, JournalWrite
<1>. QED
  BY <1>2, <1>3, <1>4, <1>6, <1>7 DEF JrTypes

\* A sync of the journal.
LEMMA JournalSyncDoes ==
  ASSUME JrTypes, JournalSync
  PROVE  JrTypes' /\ jr' = jr
<1>1. Slots = SlotsOf(jr) /\ jr \in Journals /\ jr' = jr /\ jrOther' = {}
  BY DEF Slots, SlotsOf, JrTypes, JournalSync
<1>2. /\ Len(SlotsOf(jr)) \in Nat /\ DOMAIN SlotsOf(jr) = 1..Len(SlotsOf(jr))
      /\ \A i \in DOMAIN SlotsOf(jr) : SlotsOf(jr)[i] \in Slot
  BY <1>1, SlotsAre
<1>3. jrDisk' \in [1..Len(SlotsOf(jr)) -> SUBSET Slot]
  <2>1. jrDisk' = [i \in 1..Len(SlotsOf(jr)) |-> Kept({SlotsOf(jr)[i]})]
    BY <1>1, <1>2 DEF JournalSync
  <2>2. \A i \in 1..Len(SlotsOf(jr)) : {SlotsOf(jr)[i]} \subseteq Slot
    BY <1>2
  <2>. QED
    BY <2>1, <2>2, KeptIn
<1>4. jrDisk' \in Seq(SUBSET Slot) /\ DOMAIN jrDisk' = DOMAIN SlotsOf(jr)
  BY <1>2, <1>3, MakeSeq
<1>. QED
  BY <1>1, <1>4 DEF JrTypes

\* A journal that is unlinked or truncated.
LEMMA JournalReplaceDoes ==
  ASSUME JrTypes, NEW new \in {NoFile, <<>>}, JournalReplace(new)
  PROVE  JrTypes' /\ jr' = new /\ DOMAIN SlotsOf(jr') = {}
<1>1. new \in Journals /\ SlotsOf(new) = <<>>
  <2>1. <<>> \in Seq(Slot)
    OBVIOUS
  <2>2. new \in Journals
    BY <2>1 DEF Journals
  <2>3. SlotsOf(new) = <<>>
    BY DEF SlotsOf
  <2>. QED
    BY <2>2, <2>3
<1>2. JournalOnDisk \subseteq Journals
  <2>1. jrDisk \in Seq(SUBSET Slot) /\ jrOther \subseteq Journals
    BY DEF JrTypes
  <2>2. AnyOf(jrDisk) \subseteq Seq(Slot)
    BY <2>1, AnyOfDoes
  <2>. QED
    BY <2>1, <2>2 DEF JournalOnDisk, Journals
<1>3. jrOther' \subseteq Journals
  <2>1. JournalOnDisk \cup {new} \subseteq Journals
    BY <1>1, <1>2
  <2>. QED
    BY <2>1, KeptIn DEF JournalReplace
<1>4. jrDisk' = <<>> /\ jr' = new
  BY DEF JournalReplace
<1>. QED
  BY <1>1, <1>3, <1>4 DEF JrTypes
-----------------------------------------------------------------------------
(* Who works, and which locks it has *)

\* One connection at most is in a transaction or in a recovery.
LEMMA OneActive ==
  ASSUME ConnTypes, ControlInv, NEW c \in Conn, Active(c)
  PROVE  \A d \in Conn \ {c} : ~Active(d) /\ held[d] < RESERVED_LOCK
<1>1. held[c] >= RESERVED_LOCK
  BY DEF ControlInv, LockOf
<1>2. \A d \in Conn \ {c} : held[d] < RESERVED_LOCK
  BY <1>1 DEF ControlInv, LockInv
<1>3. \A d \in Conn : Active(d) => held[d] >= RESERVED_LOCK
  BY DEF ControlInv, LockOf
<1>4. \A d \in Conn : held[d] \in NO_LOCK..EXCLUSIVE_LOCK
  BY DEF ConnTypes
<1>. QED
  BY <1>2, <1>3, <1>4 DEF NO_LOCK, EXCLUSIVE_LOCK, RESERVED_LOCK

\* Beside an exclusive lock there is no other lock.
LEMMA AloneExclusive ==
  ASSUME ControlInv, NEW c \in Conn, held[c] = EXCLUSIVE_LOCK
  PROVE  \A d \in Conn \ {c} : held[d] = NO_LOCK /\ pc[d] = "open"
BY DEF ControlInv, LockInv, LockOf

\* The places of a connection.
LEMMA PcKinds ==
  /\ WritePcs \cup EndPcs \cup RestPcs \cup {"open"} = Pcs
  /\ \A l \in RestPcs \cup {"open"} : l \notin WritePcs \cup EndPcs
  /\ OpenPcs \cup {"play", "finalize"} \cup LateEndPcs = WritePcs \cup EndPcs
BY DEF Pcs, WritePcs, EndPcs, RestPcs, ReadPcs, OpenPcs, LateEndPcs

\* A step of c that takes only a lock the others allow keeps the locks and the
\* locals in order.
LEMMA ControlStep ==
  ASSUME ConnTypes, ControlInv, NEW c \in Conn, NEW l, NEW k,
         pc' = [pc EXCEPT ![c] = l], held' = [held EXCEPT ![c] = k],
         \A d \in Conn \ {c} :
           /\ k >= RESERVED_LOCK => held[d] < RESERVED_LOCK
           /\ held[d] >= RESERVED_LOCK => k < RESERVED_LOCK
           /\ k = EXCLUSIVE_LOCK => held[d] = NO_LOCK
           /\ held[d] = EXCLUSIVE_LOCK => k = NO_LOCK,
         LockOf(c)', OwnerOf(c)',
         \/ w' = w /\ todo' = todo /\ (l \in WritePcs \cup EndPcs <=> Active(c))
         \/ /\ \A d \in Conn \ {c} : ~Active(d)
            /\ l \in WritePcs \cup EndPcs \/ (w' = NoWrite /\ todo' = {})
  PROVE  ControlInv'
<1>1. /\ \A d \in Conn \ {c} : pc'[d] = pc[d] /\ held'[d] = held[d]
      /\ pc'[c] = l /\ held'[c] = k
  BY DEF ConnTypes
<1>2. LockInv'
  BY <1>1 DEF ControlInv, LockInv
<1>3. ASSUME NEW d \in Conn \ {c} PROVE LockOf(d)' /\ OwnerOf(d)'
  <2>1. LockOf(d) /\ OwnerOf(d)
    BY DEF ControlInv
  <2>2. CASE w' = w /\ todo' = todo
    BY <2>1, <2>2, <1>1 DEF LockOf, OwnerOf, Active
  <2>3. CASE ~Active(d)
    BY <2>1, <2>3, <1>1 DEF LockOf, OwnerOf, Active, WritePcs
  <2>. QED
    BY <2>2, <2>3
<1>4. IdleInv'
  <2>1. CASE w' = w /\ todo' = todo /\ (l \in WritePcs \cup EndPcs <=> Active(c))
    BY <2>1, <1>1 DEF ControlInv, IdleInv, Active
  <2>2. CASE l \in WritePcs \cup EndPcs \/ (w' = NoWrite /\ todo' = {})
    BY <2>2, <1>1 DEF IdleInv, Active
  <2>. QED
    BY <2>1, <2>2
<1>. QED
  BY <1>2, <1>3, <1>4 DEF ControlInv

\* A step of the only connection at work has to keep WorkInv for that
\* connection alone.
LEMMA WorkStep ==
  ASSUME ConnTypes, NEW c \in Conn, NEW l, pc' = [pc EXCEPT ![c] = l],
         \A d \in Conn \ {c} : ~Active(d),
         TxOfInv(c)', HotInv(c)', LateInv(c)'
  PROVE  WorkInv'
<1>1. \A d \in Conn \ {c} : pc'[d] = pc[d]
  BY DEF ConnTypes
<1>2. ASSUME NEW d \in Conn \ {c} PROVE TxOfInv(d)' /\ HotInv(d)' /\ LateInv(d)'
  <2>1. pc'[d] \notin WritePcs \cup EndPcs
    BY <1>1 DEF Active
  <2>2. pc'[d] \notin OpenPcs \cup {"play", "finalize"} \cup LateEndPcs
    BY <2>1, PcKinds
  <2>. QED
    BY <2>1, <2>2 DEF TxOfInv, HotInv, LateInv, InTx, Active
<1>. QED
  BY <1>2 DEF WorkInv

-----------------------------------------------------------------------------
(* A step of the transaction under way *)

\* What page 1 says in an older image does not change with the change counter
\* and the size of a newer one.
LEMMA InfoSame ==
  ASSUME info \in [1..MaxTx -> Infos], info' \in [1..MaxTx -> Infos], NEW t \in Nat,
         \A u \in 1..MaxTx : u # t => info'[u] = info[u]
  PROVE  \A m \in Image : m[1] < 2 * t => SizeOf(m)' = SizeOf(m) /\ CtrOf(m)' = CtrOf(m)
<1>. SUFFICES ASSUME NEW m \in Image, m[1] < 2 * t
              PROVE  SizeOf(m)' = SizeOf(m) /\ CtrOf(m)' = CtrOf(m)
  OBVIOUS
<1>1. m[1] \in Nat
  BY PagerAssumption DEF Image, Page, Content, Absent, Garbage
<1>2. TxOf(m[1]) # t
  BY <1>1 DEF TxOf
<1>3. TxOf(m[1]) \in DOMAIN info => info'[TxOf(m[1])] = info[TxOf(m[1])]
  BY <1>2
<1>. QED
  BY <1>3 DEF SizeOf, CtrOf, InfoOf

\* The connection of the transaction under way is alone and has a lock.
LEMMA TxFacts ==
  ASSUME IInv0, NEW c \in Conn, InTx(c)
  PROVE  /\ Active(c) /\ w.ending # "hot" /\ w.owner = c /\ pc[c] \notin LateEndPcs
         /\ \A d \in Conn \ {c} : ~Active(d) /\ held[d] < RESERVED_LOCK
         /\ w.tx = nTx /\ w.tx \in 1..MaxTx /\ w \in Locals /\ held[c] >= RESERVED_LOCK
<1>1. Active(c) /\ pc[c] \notin LateEndPcs
  BY PcKinds DEF InTx, Active, LateEndPcs, OpenPcs, WritePcs
<1>2. w.owner = c /\ w.ending # "hot"
  <2>1. OwnerOf(c)
    BY DEF IInv0, ControlInv
  <2>. QED
    BY <1>1, <2>1, PagerAssumption DEF OwnerOf, InTx
<1>3. w.tx = nTx
  BY DEF IInv0, WorkInv, TxOfInv
<1>4. w.tx \in 1..MaxTx /\ w \in Locals
  BY <1>3 DEF IInv0, TypeInv, HistTypes
<1>5. \A d \in Conn \ {c} : ~Active(d) /\ held[d] < RESERVED_LOCK
  BY <1>1, OneActive DEF IInv0, TypeInv
<1>6. held[c] >= RESERVED_LOCK
  BY <1>1 DEF IInv0, ControlInv, LockOf
<1>. QED
  BY <1>1, <1>2, <1>3, <1>4, <1>5, <1>6

\* The image that the transaction has started from.
LEMMA Started ==
  ASSUME IInv0
  PROVE  /\ committed \in Image /\ committed \in maybe /\ SizeOf(committed) \in Page
         /\ Prefix(committed, SizeOf(committed)) /\ CtrOf(committed) \in Nat
         /\ CtrOf(committed) > 0 /\ SizeOf(committed) \in Nat
         /\ maybe \subseteq Image
<1>1. committed \in Image /\ info \in [1..MaxTx -> Infos] /\ maybe \subseteq Image
  BY DEF IInv0, TypeInv, HistTypes
<1>2. committed \in maybe /\ Whole(committed)
  BY DEF IInv0, ImageInv
<1>3. CtrOf(committed) \in Nat
  BY <1>1 DEF CtrOf, InfoOf, Infos
<1>4. Prefix(committed, SizeOf(committed)) /\ SizeOf(committed) \in Page
  BY <1>2 DEF Whole, Prefix
<1>. QED
  BY <1>1, <1>2, <1>3, <1>4 DEF Whole, Page

\* A step inside a transaction keeps the invariant when it keeps what is known
\* of the transaction.
LEMMA OpenStep ==
  ASSUME IInv0, NEW c \in Conn, InTx(c), NEW l, NEW k,
         pc' = [pc EXCEPT ![c] = l], held' = [held EXCEPT ![c] = k], cache' = cache,
         committed' = committed, maybe' = maybe \/ maybe' = {committed},
         nTx' = nTx, nDeaths' = nDeaths, nLosses' = nLosses,
         info' \in [1..MaxTx -> Infos],
         \A t \in 1..MaxTx : t # w.tx => info'[t] = info[t],
         DbTypes', JrTypes', w' \in Locals, todo' \subseteq DOMAIN SlotsOf(jr'),
         l \in OpenPcs \cup {"play", "finalize"},
         k \in RESERVED_LOCK..EXCLUSIVE_LOCK, k = EXCLUSIVE_LOCK \/ ~Hot(jr'),
         k = EXCLUSIVE_LOCK => \A d \in Conn \ {c} : held[d] = NO_LOCK,
         LockOf(c)', OwnerOf(c)', w'.owner = c, w'.tx = w.tx,
         w'.state # "locked" \/ (jr' = jr /\ db' = db),
         TxOk(l, w', db', jr', committed, SizeOf(committed)),
         CommitOk(l, w', info'[w.tx], CtrOf(committed)),
         l = "play" => PlayOk(w', db', jr', committed, SizeOf(committed), todo'),
         l = "finalize" /\ w'.ending = "rollback" =>
           w'.mem = committed /\ Agree(db', committed, SizeOf(committed))
  PROVE  IInv0'
<1>. DEFINE n == SizeOf(committed)
<1>1. /\ Active(c) /\ w.ending # "hot" /\ w.owner = c /\ pc[c] \notin LateEndPcs
      /\ \A d \in Conn \ {c} : ~Active(d) /\ held[d] < RESERVED_LOCK
      /\ w.tx = nTx /\ w.tx \in 1..MaxTx
  BY TxFacts
<1>2. TypeInv /\ ControlInv /\ ImageInv /\ FileInv /\ ReadInv /\ InitInv /\ WorkInv
  BY DEF IInv0
<1>3. /\ committed \in Image /\ committed \in maybe /\ SizeOf(committed) \in Page
      /\ maybe \subseteq Image
  BY Started
<1>4. /\ \A d \in Conn \ {c} : pc'[d] = pc[d] /\ held'[d] = held[d]
      /\ pc'[c] = l /\ held'[c] = k
      /\ held \in [Conn -> NO_LOCK..EXCLUSIVE_LOCK] /\ pc \in [Conn -> Pcs]
  BY <1>2 DEF TypeInv, ConnTypes
<1>5. l \in WritePcs \cup EndPcs /\ l \in Pcs /\ l \notin LateEndPcs
  BY PcKinds DEF OpenPcs, LateEndPcs, WritePcs
<1>6. \A m \in maybe : SizeOf(m)' = SizeOf(m) /\ CtrOf(m)' = CtrOf(m)
  <2>1. \A m \in maybe : m[1] < 2 * w.tx
    <3>1. 1 \in Page
      BY PagerAssumption DEF Page
    <3>. QED
      BY <1>2, <3>1 DEF WorkInv, TxOfInv
  <2>2. info \in [1..MaxTx -> Infos] /\ w.tx \in Nat
    BY <1>1, <1>2 DEF TypeInv, HistTypes
  <2>. QED
    BY <2>1, <2>2, <1>3, InfoSame
<1>7. SizeOf(committed)' = n /\ CtrOf(committed)' = CtrOf(committed)
  <2>1. \A m \in maybe : /\ InfoOf(m[1]).size = InfoOf(m[1])'.size
                         /\ InfoOf(m[1]).ctr = InfoOf(m[1])'.ctr
    BY <1>6 DEF SizeOf, CtrOf
  <2>. QED
    BY <2>1, <1>3 DEF SizeOf, CtrOf, InfoOf
<1>8. TypeInv'
  <2>1. ConnTypes'
    <3>1. k \in NO_LOCK..EXCLUSIVE_LOCK
      BY DEF NO_LOCK, EXCLUSIVE_LOCK, RESERVED_LOCK
    <3>. QED
      BY <3>1, <1>2, <1>4, <1>5 DEF TypeInv, ConnTypes
  <2>2. HistTypes'
    BY <1>2, <1>3 DEF TypeInv, HistTypes
  <2>. QED
    BY <2>1, <2>2 DEF TypeInv
<1>9. ControlInv'
  <2>1. \A d \in Conn \ {c} : held[d] \in Nat /\ held[d] < 2
    BY <1>1, <1>4 DEF NO_LOCK, EXCLUSIVE_LOCK, RESERVED_LOCK
  <2>2. \A d \in Conn \ {c} :
           /\ k >= RESERVED_LOCK => held[d] < RESERVED_LOCK
           /\ held[d] >= RESERVED_LOCK => k < RESERVED_LOCK
           /\ k = EXCLUSIVE_LOCK => held[d] = NO_LOCK
           /\ held[d] = EXCLUSIVE_LOCK => k = NO_LOCK
    BY <2>1 DEF EXCLUSIVE_LOCK, RESERVED_LOCK
  <2>3. ConnTypes
    BY <1>2 DEF TypeInv
  <2>. QED
    BY <2>2, <2>3, <1>1, <1>2, <1>5, ControlStep
<1>10. ImageInv'
  <2>1. maybe' \subseteq maybe /\ committed \in maybe'
    BY <1>3
  <2>2. ASSUME NEW m \in maybe PROVE Whole(m)'
    <3>1. Whole(m)
      BY <1>2 DEF ImageInv
    <3>2. SizeOf(m)' = SizeOf(m) /\ CtrOf(m)' = CtrOf(m)
      BY <1>6
    <3>. QED
      BY <3>1, <3>2 DEF Whole
  <2>. QED
    BY <2>1, <2>2 DEF ImageInv
<1>11. w'.state # "locked" => /\ SlotsOk(w', jr', committed, n) /\ HeaderOk(l, w', jr')
                              /\ SyncedOk(w', jr') /\ StaleOk(w', jr')
                              /\ jr' \in Seq(Slot) /\ jr' # NoFile
  BY DEF TxOk, JournalOk, SlotsOk, JrTypes, Journals
<1>12. FileInv'
  <2>1. Covers(db', jr', committed, n)
    <3>1. CASE w'.state # "locked"
      <4>1. w'.orig >= n /\ DbOk(w', db', jr', committed, n)
        BY DEF TxOk
      <4>. QED
        BY <3>1, <4>1, <1>11, OwnCovers
    <3>2. CASE jr' = jr /\ db' = db
      BY <3>2, <1>2 DEF FileInv
    <3>. QED
      BY <3>1, <3>2
  <2>. QED
    BY <2>1, <1>7 DEF FileInv
<1>13. InitInv'
  <2>1. CASE jr' = jr
    BY <2>1, <1>2 DEF InitInv
  <2>2. CASE w'.state # "locked"
    <3>1. SlotsOf(jr') = jr' /\ DOMAIN jr' = 1..Len(jr') /\ Len(jr') \in Nat /\ w'.off \in Nat
      BY <2>2, <1>11, LocalsHave, SeqParts DEF SlotsOf
    <3>2. ASSUME NEW i \in DOMAIN jr', jr'[i].kind \in {"hdr", "rec"}
          PROVE  jr'[i].init <= nTx
      <4>1. nTx \in Nat
        BY <1>2 DEF TypeInv, HistTypes
      <4>2. CASE i <= w'.off
        <5>1. i \in 1..w'.off
          BY <3>1, <4>2
        <5>2. jr'[i].init = nTx
          BY <5>1, <1>11, <2>2, <1>1 DEF SlotsOk, OwnSlot
        <5>. QED
          BY <5>2, <4>1
      <4>3. CASE i > w'.off
        <5>1. jr'[i].init < nTx
          BY <4>3, <3>1, <3>2, <1>11, <2>2, <1>1 DEF StaleOk
        <5>2. jr'[i] \in Slot
          BY <1>11, <2>2
        <5>3. jr'[i].init \in Nat
          BY <5>2, <3>2, SlotKinds
        <5>. QED
          BY <5>1, <5>3, <4>1
      <4>. QED
        BY <4>2, <4>3, <3>1
    <3>. QED
      BY <3>1, <3>2 DEF InitInv
  <2>. QED
    BY <2>1, <2>2
<1>14. ReadInv'
  <2>1. ASSUME NEW d \in Conn PROVE CacheOf(d)'
    <3>1. CacheOf(d)
      BY <1>2 DEF ReadInv
    <3>2. \/ d = c
          \/ pc'[d] = pc[d] /\ ~Active(d) /\ ~(Active(d)')
      BY <1>1, <1>4 DEF Active
    <3>3. CASE d = c
      <4>1. cache[c].img = committed /\ cache[c].ctr = CtrOf(committed)
        BY <3>1, <3>3, <1>1 DEF CacheOf
      <4>. QED
        BY <3>1, <3>3, <4>1, <1>7 DEF CacheOf
    <3>4. CASE pc'[d] = pc[d] /\ ~Active(d) /\ ~(Active(d)')
      BY <3>1, <3>4, <1>7 DEF CacheOf
    <3>. QED
      BY <3>2, <3>3, <3>4
  <2>2. ASSUME NEW d \in Conn PROVE ColdOf(d)'
    <3>1. CASE ~Hot(jr')
      BY <3>1 DEF ColdOf
    <3>2. CASE k = EXCLUSIVE_LOCK
      <4>1. CASE d = c
        BY <4>1, <3>2, <1>4, <1>5
           DEF ColdOf, OpenPcs, WritePcs, EXCLUSIVE_LOCK, RESERVED_LOCK, PENDING_LOCK
      <4>2. CASE d # c
        <5>1. held'[d] = NO_LOCK /\ pc'[d] = pc[d] /\ held[d] = NO_LOCK
          BY <4>2, <3>2, <1>4
        <5>2. pc[d] = "open"
          BY <5>1, <1>2 DEF ControlInv, LockOf
        <5>. QED
          BY <5>1, <5>2 DEF ColdOf, LateEndPcs, NO_LOCK, RESERVED_LOCK, PENDING_LOCK
      <4>. QED
        BY <4>1, <4>2
    <3>. QED
      BY <3>1, <3>2
  <2>. QED
    BY <2>1, <2>2 DEF ReadInv
<1>15. TxOfInv(c)'
  <2>1. maybe' \subseteq maybe
    BY <1>3
  <2>2. \A m \in maybe : \A p \in Page : m[p] < 2 * w.tx
    BY <1>2 DEF WorkInv, TxOfInv
  <2>. QED
    BY <2>1, <2>2, <1>1, <1>4, <1>7 DEF TxOfInv
<1>16. HotInv(c)' /\ LateInv(c)'
  <2>1. w'.ending # "hot"
    BY <1>4, <1>5, PagerAssumption DEF OwnerOf, Active
  <2>. QED
    BY <2>1, <1>4, <1>5 DEF HotInv, LateInv
<1>17. WorkInv'
  <2>1. ConnTypes
    BY <1>2 DEF TypeInv
  <2>. QED
    BY <2>1, <1>1, <1>15, <1>16, WorkStep
<1>. QED
  BY <1>8, <1>9, <1>10, <1>12, <1>13, <1>14, <1>17 DEF IInv0

-----------------------------------------------------------------------------
(* A transaction that writes *)

\* An image of k pages.
LEMMA PagesCount ==
  ASSUME NEW img \in Image, NEW k \in Page, Prefix(img, k)
  PROVE  PagesOf(img) = 1..k /\ Cardinality(PagesOf(img)) = k
<1>1. k \in Nat
  BY PagerAssumption DEF Page
<1>2. PagesOf(img) = 1..k
  BY <1>1, PagerAssumption DEF PagesOf, Prefix, Page
<1>. QED
  BY <1>1, <1>2, FS_Interval

\* The journal of a transaction that has not been synced is not hot.
LEMMA ColdUnsynced ==
  ASSUME NEW v, NEW j, NEW m, NEW n, NEW at, JournalOk(at, v, j, m, n),
         at \in {"write", "jsync", "jhdr"}, v.state = "cachemod"
  PROVE  ~Hot(j)
<1>1. HeaderOk(at, v, j) /\ StateOk(at, v)
  BY DEF JournalOk
<1>2. v.slot = 1 /\ v.hdr = 0
  BY <1>1 DEF StateOk
<1>3. ~j[1].magic
  BY <1>1, <1>2 DEF HeaderOk
<1>. QED
  BY <1>3 DEF Hot, IsHeader

\* What holds where a connection may change a page.
LEMMA AtWrite ==
  ASSUME IInv0, NEW c \in Conn, pc[c] = "write", w.owner = c
  PROVE  /\ InTx(c) /\ w.ending = "none" /\ todo = {}
         /\ (held[c] = EXCLUSIVE_LOCK) <=> (w.state = "dbmod")
         /\ held[c] \in RESERVED_LOCK..EXCLUSIVE_LOCK
         /\ held[c] = EXCLUSIVE_LOCK => \A d \in Conn \ {c} : held[d] = NO_LOCK
         /\ w.state \in {"locked", "cachemod", "dbmod"}
         /\ TxOk("write", w, db, jr, committed, SizeOf(committed))
<1>1. InTx(c) /\ Active(c)
  BY DEF InTx, Active, OpenPcs, WritePcs
<1>2. LockOf(c) /\ OwnerOf(c) /\ held[c] \in NO_LOCK..EXCLUSIVE_LOCK
  BY DEF IInv0, ControlInv, TypeInv, ConnTypes
<1>3. w.ending = "none" /\ todo = {} /\ w.state # "none"
  BY <1>1, <1>2 DEF OwnerOf, WritePcs
<1>4. w.state \in {"locked", "cachemod", "dbmod"}
  BY <1>3, LocalsHave DEF IInv0, TypeInv, WriteStates
<1>5. held[c] >= RESERVED_LOCK /\ ((held[c] = EXCLUSIVE_LOCK) <=> (w.state = "dbmod"))
  BY <1>1, <1>2 DEF LockOf
<1>6. held[c] \in RESERVED_LOCK..EXCLUSIVE_LOCK
  BY <1>2, <1>5 DEF NO_LOCK, RESERVED_LOCK, EXCLUSIVE_LOCK
<1>7. held[c] = EXCLUSIVE_LOCK => \A d \in Conn \ {c} : held[d] = NO_LOCK
  BY AloneExclusive DEF IInv0
<1>8. TxOk("write", w, db, jr, committed, SizeOf(committed))
  BY <1>1 DEF IInv0, WorkInv, TxOfInv
<1>. QED
  BY <1>1, <1>3, <1>4, <1>5, <1>6, <1>7, <1>8

\* A step that stays there keeps the invariant when it keeps what is known of
\* the transaction.
LEMMA WriteStep ==
  ASSUME IInv0, NEW c \in Conn, pc[c] = "write", w.owner = c,
         UNCHANGED <<connVars, todo, histVars, faultVars>>,
         DbTypes', JrTypes', w' \in Locals, w'.owner = w.owner, w'.tx = w.tx,
         w'.ending = w.ending,
         \/ w'.state = w.state
         \/ w.state = "locked" /\ w'.state = "cachemod",
         w'.state # "locked" \/ (jr' = jr /\ db' = db),
         TxOk("write", w', db', jr', committed, SizeOf(committed))
  PROVE  IInv0'
<1>1. /\ InTx(c) /\ w.ending = "none" /\ todo = {}
      /\ (held[c] = EXCLUSIVE_LOCK) <=> (w.state = "dbmod")
      /\ held[c] \in RESERVED_LOCK..EXCLUSIVE_LOCK
      /\ held[c] = EXCLUSIVE_LOCK => \A d \in Conn \ {c} : held[d] = NO_LOCK
      /\ w.state \in {"locked", "cachemod", "dbmod"}
      /\ TxOk("write", w, db, jr, committed, SizeOf(committed))
  BY AtWrite
<1>2. ConnTypes /\ HistTypes /\ LockOf(c) /\ OwnerOf(c) /\ ReadInv
  BY DEF IInv0, TypeInv, ControlInv
<1>3. /\ pc' = pc /\ held' = held /\ cache' = cache /\ todo' = {} /\ info' = info
      /\ committed' = committed /\ maybe' = maybe /\ nTx' = nTx
      /\ nDeaths' = nDeaths /\ nLosses' = nLosses
  BY <1>1 DEF connVars, histVars, faultVars
<1>4. pc' = [pc EXCEPT ![c] = "write"] /\ held' = [held EXCEPT ![c] = held[c]]
  BY <1>2, <1>3 DEF ConnTypes
<1>5. LockOf(c)'
  BY <1>1, <1>2, <1>3 DEF LockOf, Active, RestPcs, WritePcs, EndPcs
<1>6. OwnerOf(c)'
  <2>1. w.owner = c /\ w'.owner = c /\ w'.ending = "none" /\ w'.state # "none"
    BY <1>1
  <2>. QED
    BY <2>1, <1>3, PagerAssumption DEF OwnerOf
<1>7. held[c] = EXCLUSIVE_LOCK \/ ~Hot(jr')
  <2>1. CASE w'.state = "cachemod"
    <3>1. JournalOk("write", w', jr', committed, SizeOf(committed))
      BY DEF TxOk
    <3>. QED
      BY <2>1, <3>1, ColdUnsynced
  <2>2. CASE w'.state = "locked"
    <3>1. jr' = jr /\ w.state = "locked"
      BY <2>2, <1>1
    <3>2. held[c] \in {RESERVED_LOCK, PENDING_LOCK}
      BY <3>1, <1>1 DEF RESERVED_LOCK, PENDING_LOCK, EXCLUSIVE_LOCK
    <3>3. ColdOf(c)
      BY <1>2 DEF ReadInv
    <3>. QED
      BY <3>1, <3>2, <3>3 DEF ColdOf
  <2>3. CASE w'.state = "dbmod"
    BY <2>3, <1>1
  <2>. QED
    BY <2>1, <2>2, <2>3, <1>1
<1>8. CommitOk("write", w', info'[w.tx], CtrOf(committed))
  BY <1>1 DEF CommitOk, SyncPcs
<1>9. info' \in [1..MaxTx -> Infos] /\ todo' \subseteq DOMAIN SlotsOf(jr')
  BY <1>2, <1>3 DEF HistTypes
<1>10. "write" \in OpenPcs
  BY DEF OpenPcs, WritePcs
<1>. QED
  BY <1>1, <1>3, <1>4, <1>5, <1>6, <1>7, <1>8, <1>9, <1>10, OpenStep

\* The transaction and its journal once page p has been changed.
Changed(p, u, new, k) ==
  /\ Wrote(w, p, u, new) /\ Fits(jr, new, k)
  /\ TxOk("write", u, db, Written(jr, new), committed, SizeOf(committed))

\* What a change of one page does to memory and to the journal.
LEMMA PageChanged ==
  ASSUME IInv0, NEW c \in Conn, pc[c] = "write", w.owner = c, NEW p \in Page,
         p \in PagesOf(w.mem) \/ p = Cardinality(PagesOf(w.mem)) + 1,
         NEW u, NEW new, u = PagerWrite(w, p).v, new = PagerWrite(w, p).new
  PROVE  \E k \in Nat : Changed(p, u, new, k)
<1>. DEFINE m == committed
            n == SizeOf(committed)
<1>2. InTx(c) /\ TxOk("write", w, db, jr, m, n)
  BY AtWrite
<1>3. w \in Locals /\ w.tx \in 1..MaxTx
  BY <1>2, TxFacts
<1>4. /\ m \in Image /\ n \in Page /\ Prefix(m, n)
  BY Started
<1>5. db \in Image /\ jr \in Journals
  BY DEF IInv0, TypeInv, DbTypes, JrTypes
<1>6. /\ w.orig >= n /\ JournalOk("write", w, jr, m, n) /\ DbOk(w, db, jr, m, n)
      /\ MemOk("write", w, db, m, n) /\ SavepointOk(w, jr, m, n)
  BY <1>2 DEF TxOk, OpenPcs, WritePcs
<1>7. PICK k \in Page : Prefix(w.mem, k) /\ k >= n
  BY <1>6 DEF MemOk, OpenPcs, WritePcs
<1>8. p <= k + 1
  <2>1. PagesOf(w.mem) = 1..k /\ Cardinality(PagesOf(w.mem)) = k /\ k \in Nat
    <3>1. w.mem \in Image /\ k \in Nat
      BY <1>3, LocalsHave, PagerAssumption DEF Page
    <3>. QED
      BY <3>1, <1>7, PagesCount
  <2>. QED
    BY <2>1
<1>10. Wrote(w, p, u, new)
  <2>1. Old(w, p) \in Content
    BY <1>3, <1>5, OldHas
  <2>. QED
    BY <2>1, <1>3, PagerWriteDoes, PagerAssumption
<1>11. PICK x \in Nat : Grown(w, p, u, jr, Written(jr, new), x) /\ Fits(jr, new, x)
  BY <1>3, <1>5, <1>6, WriteSlots, PagerAssumption
<1>13. JournalOk("write", u, Written(jr, new), m, n)
  BY <1>3, <1>4, <1>5, <1>6, WriteJournal, PagerAssumption
<1>15. DbOk(u, db, Written(jr, new), m, n)
  BY <1>3, <1>5, <1>6, <1>10, <1>11, WriteDb
<1>16. MemOk("write", u, db, m, n)
  BY <1>3, <1>4, <1>6, <1>7, <1>8, <1>10, WriteMem, PagerAssumption
<1>17. SavepointOk(u, Written(jr, new), m, n)
  BY <1>3, <1>5, <1>6, <1>10, <1>11, WriteSavepoint, PagerAssumption
<1>18. u.orig = w.orig
  BY <1>10 DEF Wrote
<1>19. TxOk("write", u, db, Written(jr, new), m, n)
  BY <1>6, <1>13, <1>15, <1>16, <1>17, <1>18 DEF TxOk
<1>. QED
  BY <1>10, <1>11, <1>19 DEF Changed

\* A change of a page keeps the invariant.
LEMMA WriteKeeps ==
  ASSUME IInv0, NEW c \in Conn, NEW p \in Page, Write(c, p)
  PROVE  IInv0'
<1>. DEFINE new == PagerWrite(w, p).new
<1>1. pc[c] = "write" /\ w.owner = c
      /\ (p \in PagesOf(w.mem) \/ p = Cardinality(PagesOf(w.mem)) + 1)
  BY DEF Write
<1>2. w.state # "none"
  <2>1. w.state \in {"locked", "cachemod", "dbmod"}
    BY <1>1, AtWrite
  <2>. QED
    BY <2>1
<1>3. DbTypes /\ JrTypes
  BY DEF IInv0, TypeInv
<1>4. w' = PagerWrite(w, p).v /\ JournalWrite(new)
  BY DEF Write
<1>5. PICK k \in Nat : Changed(p, w', new, k)
  BY <1>1, <1>4, PageChanged
<1>6. JrTypes' /\ jr' = Written(jr, new)
  BY <1>3, <1>4, <1>5, JournalWriteDoes DEF Changed
<1>7. db' = db /\ DbTypes'
  BY <1>3 DEF Write, DbTypes
<1>8. /\ w' \in Locals /\ w'.owner = w.owner /\ w'.tx = w.tx /\ w'.ending = w.ending
      /\ w'.state = IF w.state = "locked" THEN "cachemod" ELSE w.state
  BY <1>5 DEF Changed, Wrote
<1>9. TxOk("write", w', db', jr', committed, SizeOf(committed))
  BY <1>5, <1>6, <1>7 DEF Changed
<1>10. UNCHANGED <<connVars, todo, histVars, faultVars>>
  BY DEF Write
<1>. QED
  BY <1>1, <1>2, <1>6, <1>7, <1>8, <1>9, <1>10, WriteStep

\* Opening a savepoint keeps the invariant.
LEMMA OpenSavepointKeeps ==
  ASSUME IInv0, NEW c \in Conn, OpenSavepoint(c)
  PROVE  IInv0'
<1>. DEFINE m == committed
            n == SizeOf(committed)
<1>1. pc[c] = "write" /\ w.owner = c
  BY DEF OpenSavepoint
<1>2. InTx(c) /\ TxOk("write", w, db, jr, m, n) /\ w.state # "none"
  <2>1. w.state \in {"locked", "cachemod", "dbmod"}
    BY <1>1, AtWrite
  <2>. QED
    BY <1>1, <2>1, AtWrite
<1>3. w \in Locals
  BY <1>2, TxFacts
<1>5. DbTypes /\ JrTypes /\ db \in Image /\ jr \in Journals
  BY DEF IInv0, TypeInv, DbTypes, JrTypes
<1>6. /\ w.orig >= n /\ JournalOk("write", w, jr, m, n) /\ DbOk(w, db, jr, m, n)
      /\ MemOk("write", w, db, m, n)
  BY <1>2 DEF TxOk, OpenPcs, WritePcs
<1>7. PICK k \in Page : Prefix(w.mem, k) /\ k >= n
  BY <1>6 DEF MemOk, OpenPcs, WritePcs
<1>8. Cardinality(PagesOf(w.mem)) = k /\ k \in 0..NPage /\ w.mem \in Image
  <2>1. w.mem \in Image /\ k \in 0..NPage
    BY <1>3, LocalsHave, PagerAssumption DEF Page
  <2>. QED
    BY <2>1, <1>7, PagesCount
<1>. DEFINE sp == [NoSavepoint EXCEPT !.open = TRUE, !.nOrig = k,
                     !.iOffset = IF w.off > 0 THEN w.off ELSE 1,
                     !.iSubRec = Len(w.sub), !.img = w.mem]
<1>9. w' = [w EXCEPT !.sp = sp]
  BY <1>8 DEF OpenSavepoint
<1>10. Len(w.sub) \in Nat /\ w.off \in Nat /\ w.sub \in Seq(SubRecs)
  BY <1>3, LocalsHave
<1>11. /\ sp \in Savepoints /\ sp.open = TRUE /\ sp.nOrig = k /\ sp.in = {}
       /\ sp.iOffset = (IF w.off > 0 THEN w.off ELSE 1) /\ sp.iHdrOffset = 0
       /\ sp.iSubRec = Len(w.sub) /\ sp.img = w.mem
  BY <1>8, <1>10 DEF Savepoints, NoSavepoint
<1>. HIDE DEF sp
<1>12. w' \in Locals /\ w'.sp = sp
  BY <1>3, <1>9, <1>11 DEF Locals
<1>13. /\ w'.owner = w.owner /\ w'.tx = w.tx /\ w'.ending = w.ending /\ w'.state = w.state
       /\ w'.mem = w.mem /\ w'.dirty = w.dirty /\ w'.needSync = w.needSync
       /\ w'.inJournal = w.inJournal /\ w'.orig = w.orig /\ w'.off = w.off
       /\ w'.hdr = w.hdr /\ w'.slot = w.slot /\ w'.goal = w.goal /\ w'.sub = w.sub
  BY <1>3, <1>9 DEF Locals
<1>14. jr' = jr /\ db' = db /\ DbTypes' /\ JrTypes'
  BY <1>5 DEF OpenSavepoint, fileVars, DbTypes, JrTypes
<1>15. JournalOk("write", w', jr, m, n)
  BY <1>6, <1>13 DEF JournalOk, StaleOk, LockedOk, SlotsOk, HeaderOk, SyncedOk, StateOk,
                     OwnSlot, RecordsOf
<1>16. DbOk(w', db, jr, m, n)
  BY <1>6, <1>13 DEF DbOk, Saved, RecordsOf
<1>17. MemOk("write", w', db, m, n)
  BY <1>6, <1>13 DEF MemOk
<1>18. w.off > 0 => OffOf(w) = w.off
  BY <1>6 DEF OffOf, JournalOk, LockedOk
<1>19. OffOf(w') = OffOf(w) /\ OffOf(w) \in Nat /\ OffOf(w) >= 1
  <2>1. CASE w.state = "locked"
    BY <2>1, <1>13 DEF OffOf
  <2>2. CASE w.state # "locked"
    <3>1. SlotsOk(w, jr, m, n) /\ jr \in Seq(Slot)
      BY <2>2, <1>5, <1>6 DEF JournalOk, SlotsOk, Journals
    <3>2. w.off \in 1..Len(jr)
      BY <3>1, <1>3, OwnSlots
    <3>. QED
      BY <3>2, <2>2, <1>10, <1>13 DEF OffOf
  <2>. QED
    BY <2>1, <2>2
<1>20. sp.iOffset = OffOf(w)
  <2>1. CASE w.state = "locked"
    BY <2>1, <1>6, <1>11 DEF OffOf, JournalOk, LockedOk
  <2>2. CASE w.state # "locked"
    BY <2>2, <1>11, <1>19 DEF OffOf
  <2>. QED
    BY <2>1, <2>2
<1>21. sp.iOffset >= w.off
  BY <1>10, <1>11
<1>22. SavepointOk(w', jr, m, n)
  <2>1. NewSlots(w', jr) = {} /\ \A i \in sp.iOffset + 1..w.off : FALSE
    BY <1>10, <1>11, <1>12, <1>13 DEF NewSlots, RecordsOf
  <2>2. NewSubs(w') = {}
    BY <1>10, <1>11, <1>12, <1>13 DEF NewSubs
  <2>3. \A q \in Page : w.mem[q] = m[q] \/ w.mem[q] \in Own(w.tx)
    BY <1>6 DEF MemOk, OpenPcs, WritePcs
  <2>4. \A q \in Page : q <= k => SavepointPage(w', jr, q)
    BY <1>7, <1>11, <1>12, <1>13 DEF SavepointPage, Prefix
  <2>5. sp.iOffset >= 1 /\ sp.iOffset <= OffOf(w') /\ sp.iSubRec <= Len(w'.sub)
        /\ sp.iHdrOffset <= w'.off
    BY <1>10, <1>11, <1>13, <1>19, <1>20
  <2>. QED
    BY <2>1, <2>2, <2>3, <2>4, <2>5, <1>7, <1>11, <1>12, <1>13 DEF SavepointOk
<1>23. TxOk("write", w', db', jr', m, n)
  BY <1>6, <1>13, <1>14, <1>15, <1>16, <1>17, <1>22 DEF TxOk
<1>24. UNCHANGED <<connVars, todo, histVars, faultVars>>
  BY DEF OpenSavepoint
<1>. QED
  BY <1>1, <1>12, <1>13, <1>14, <1>23, <1>24, WriteStep

-----------------------------------------------------------------------------
(* A rollback to the savepoint *)

\* What it reads of a page is the page at the start of the savepoint.
LEMMA SavepointReads ==
  ASSUME w \in Locals, jr \in Seq(Slot), jr # NoFile, NEW m, NEW n, w.sp.open,
         SlotsOk(w, jr, m, n), SavepointOk(w, jr, m, n), w.state # "locked"
  PROVE  /\ \A p \in SavepointPages :
              /\ p \in Page /\ p <= w.sp.nOrig
              /\ SavepointData(p) = w.sp.img[p]
              /\ p <= w.orig => p \in w.inJournal
              /\ SavepointSynced(p) /\ p <= w.orig => Saved(w, jr, p)
         /\ \A p \in Page : p <= w.sp.nOrig /\ p \in w.sp.in => p \in SavepointPages
<1>1. /\ w.off \in 1..Len(jr) /\ w.off \in Nat /\ w.hdr \in 0..w.off /\ Len(jr) \in Nat
      /\ w.sp \in Savepoints /\ w.sp.iOffset \in Nat /\ w.sp.iHdrOffset \in Nat
      /\ w.sp.iSubRec \in Nat /\ Len(w.sub) \in Nat /\ DOMAIN w.sub = 1..Len(w.sub)
  BY OwnSlots, LocalsHave DEF Savepoints
<1>2. /\ \A i \in NewSlots(w, jr) :
           jr[i].pg <= w.sp.nOrig => jr[i].data = w.sp.img[jr[i].pg]
      /\ \A i \in NewSubs(w) :
           /\ w.sub[i].pg \in w.sp.in /\ w.sub[i].pg <= w.sp.nOrig
           /\ w.sub[i].data = w.sp.img[w.sub[i].pg]
      /\ \A i \in w.sp.iOffset + 1..w.off :
           w.sp.iHdrOffset = 0 \/ i <= w.sp.iHdrOffset => jr[i].kind = "rec"
  BY DEF SavepointOk
<1>3. \A i \in SavepointSlots : i \in NewSlots(w, jr) /\ RecordAt(i) = jr[i]
  <2>. SUFFICES ASSUME NEW i \in SavepointSlots
                PROVE  i \in NewSlots(w, jr) /\ RecordAt(i) = jr[i]
    OBVIOUS
  <2>1. i \in w.sp.iOffset + 1..w.off /\ jr[i].kind = "rec"
    BY <1>1, <1>2 DEF SavepointSlots
  <2>2. i \in 1..w.off /\ i > w.sp.iOffset
    <3>1. w.sp.iOffset \in Nat /\ w.off \in Nat /\ i \in w.sp.iOffset + 1..w.off
      BY <1>1, <2>1
    <3>. QED
      BY <3>1
  <2>. QED
    BY <2>1, <2>2 DEF NewSlots, RecordsOf, RecordAt
<1>4. \A i \in NewSlots(w, jr) : i \in SavepointSlots
  BY <1>1 DEF SavepointSlots, NewSlots, RecordsOf
<1>5. ASSUME NEW p, InMain(p) # {}
      PROVE  Min(InMain(p)) \in NewSlots(w, jr) /\ jr[Min(InMain(p))].pg = p
             /\ RecordAt(Min(InMain(p))) = jr[Min(InMain(p))]
  <2>1. InMain(p) \subseteq Nat
    BY <1>1 DEF InMain, SavepointSlots
  <2>2. Min(InMain(p)) \in InMain(p)
    BY <2>1, <1>5, MinNat
  <2>. QED
    BY <2>2, <1>3 DEF InMain
<1>6. ASSUME NEW p, InSub(p) # {}
      PROVE  Min(InSub(p)) \in NewSubs(w) /\ w.sub[Min(InSub(p))].pg = p
  <2>1. InSub(p) \subseteq Nat
    BY <1>1 DEF InSub
  <2>2. Min(InSub(p)) \in InSub(p)
    BY <2>1, <1>6, MinNat
  <2>3. \A i \in w.sp.iSubRec + 1..Len(w.sub) : i \in NewSubs(w)
    BY <1>1 DEF NewSubs
  <2>. QED
    BY <2>2, <2>3 DEF InSub
<1>7. ASSUME NEW p \in SavepointPages
      PROVE  /\ p \in Page /\ p <= w.sp.nOrig
             /\ SavepointData(p) = w.sp.img[p]
             /\ p <= w.orig => p \in w.inJournal
             /\ SavepointSynced(p) /\ p <= w.orig => Saved(w, jr, p)
  <2>1. p \in Page /\ p <= w.sp.nOrig /\ (InMain(p) # {} \/ InSub(p) # {})
    BY DEF SavepointPages
  <2>2. CASE InMain(p) # {}
    <3>. DEFINE i == Min(InMain(p))
    <3>1. i \in NewSlots(w, jr) /\ jr[i].pg = p /\ RecordAt(i) = jr[i]
      BY <2>2, <1>5
    <3>2. SavepointData(p) = jr[i].data /\ (SavepointSynced(p) <=> i <= w.hdr)
      BY <2>2, <3>1 DEF SavepointData, SavepointSynced
    <3>. HIDE DEF i
    <3>3. i \in RecordsOf(w, jr) /\ i \in 1..w.off /\ jr[i].kind = "rec"
      BY <3>1 DEF NewSlots, RecordsOf
    <3>4. p \in w.inJournal
      BY <3>1, <3>3 DEF SlotsOk, OwnSlot
    <3>. QED
      BY <2>1, <3>1, <3>2, <3>3, <3>4, <1>2 DEF Saved
  <2>3. CASE InMain(p) = {}
    <3>. DEFINE i == Min(InSub(p))
    <3>1. i \in NewSubs(w) /\ w.sub[i].pg = p
      BY <2>1, <2>3, <1>6
    <3>2. SavepointData(p) = w.sub[i].data /\ (SavepointSynced(p) <=> p \notin w.needSync)
      BY <2>3 DEF SavepointData, SavepointSynced
    <3>. HIDE DEF i
    <3>3. p \in w.sp.in /\ w.sub[i].data = w.sp.img[p]
      BY <3>1, <1>2
    <3>4. p <= w.orig => p \in w.inJournal
      BY <2>1, <3>3 DEF SavepointOk, SavepointPage
    <3>5. p \in w.inJournal /\ p \notin w.needSync => Saved(w, jr, p)
      BY DEF SlotsOk, Saved
    <3>. QED
      BY <2>1, <3>2, <3>3, <3>4, <3>5
  <2>. QED
    BY <2>2, <2>3
<1>8. ASSUME NEW p \in Page, p <= w.sp.nOrig, p \in w.sp.in PROVE p \in SavepointPages
  <2>1. (\E i \in NewSlots(w, jr) : jr[i].pg = p) \/ (\E i \in NewSubs(w) : w.sub[i].pg = p)
    BY <1>8 DEF SavepointOk, SavepointPage
  <2>2. CASE \E i \in NewSlots(w, jr) : jr[i].pg = p
    <3>1. PICK i \in NewSlots(w, jr) : jr[i].pg = p
      BY <2>2
    <3>2. i \in InMain(p)
      BY <3>1, <1>3, <1>4 DEF InMain
    <3>. QED
      BY <3>2, <1>8 DEF SavepointPages
  <2>3. CASE \E i \in NewSubs(w) : w.sub[i].pg = p
    <3>1. PICK i \in NewSubs(w) : w.sub[i].pg = p
      BY <2>3
    <3>2. i \in InSub(p)
      BY <3>1, <1>1 DEF InSub, NewSubs
    <3>. QED
      BY <3>2, <1>8 DEF SavepointPages
  <2>. QED
    BY <2>1, <2>2, <2>3
<1>. QED
  BY <1>7, <1>8

\* The pages, in the cache or in the file, are those of the start again.
RolledBack(toFile) ==
  /\ toFile \subseteq SavepointPages
  /\ \A p \in toFile : w.state = "dbmod" /\ SavepointSynced(p)
  /\ w'.mem = w.sp.img
  /\ w'.dirty = (w.dirty \cup (SavepointPages \ toFile)) \cap 1..w.sp.nOrig
  /\ w' \in Locals /\ w'.sp = w.sp /\ w'.sub = w.sub /\ w'.owner = w.owner
  /\ w'.ending = w.ending /\ SameTx(w, w')
  /\ DbTypes' /\ \A p \in Page : db'[p] = IF p \in toFile THEN w.sp.img[p] ELSE db[p]

\* A rollback to the savepoint brings every page back to what it was then.
LEMMA RollbackToDoes ==
  ASSUME NEW c \in Conn, RollbackTo(c), w \in Locals, jr \in Seq(Slot), jr # NoFile,
         DbTypes, NEW m, NEW n, SlotsOk(w, jr, m, n), SavepointOk(w, jr, m, n),
         MemOk("write", w, db, m, n)
  PROVE  \E toFile \in SUBSET Page : RolledBack(toFile)
<1>. DEFINE toFile == {p \in SavepointPages : /\ w.state = "dbmod"
                                              /\ SavepointSynced(p)}
            after(p) == IF p \in toFile THEN SavepointData(p) ELSE db[p]
<1>1. w.sp.open /\ w.state # "locked"
  BY DEF RollbackTo
<1>2. /\ \A p \in SavepointPages :
              /\ p \in Page /\ p <= w.sp.nOrig
              /\ SavepointData(p) = w.sp.img[p]
      /\ \A p \in Page : p <= w.sp.nOrig /\ p \in w.sp.in => p \in SavepointPages
  BY <1>1, SavepointReads
<1>3. PICK inCache \in {w.dirty, Page} :
          LET cached == inCache \cup (SavepointPages \ toFile)
          IN /\ w' = [w EXCEPT
                   !.mem = [p \in Page |->
                      IF p > w.sp.nOrig THEN Absent
                      ELSE IF p \notin cached THEN after(p)
                      ELSE IF p \in SavepointPages THEN SavepointData(p)
                      ELSE w.mem[p]],
                   !.dirty = (@ \cup (SavepointPages \ toFile))
                             \cap 1..w.sp.nOrig]
             /\ DbWrite([p \in toFile |-> SavepointData(p)])
  BY DEF RollbackTo
<1>. DEFINE mm == [p \in Page |->
                      IF p > w.sp.nOrig THEN Absent
                      ELSE IF p \notin inCache \cup (SavepointPages \ toFile) THEN after(p)
                      ELSE IF p \in SavepointPages THEN SavepointData(p)
                      ELSE w.mem[p]]
            dd == (w.dirty \cup (SavepointPages \ toFile)) \cap 1..w.sp.nOrig
<1>4. w' = [w EXCEPT !.mem = mm, !.dirty = dd]
  BY <1>3
<1>5. /\ w.sp.img \in Image /\ w.sp.nOrig \in Nat /\ w.dirty \subseteq Page
      /\ w.mem \in Image /\ w.sp.in \subseteq Page /\ w.sp \in Savepoints
  BY LocalsHave DEF Savepoints
<1>6. toFile \subseteq SavepointPages
  OBVIOUS
<1>7. mm = w.sp.img
  <2>1. ASSUME NEW p \in Page PROVE mm[p] = w.sp.img[p]
    <3>1. CASE p > w.sp.nOrig
      <4>1. w.sp.img[p] = Absent
        BY <3>1, <1>1, <1>5, PagerAssumption DEF SavepointOk, Prefix, Page
      <4>. QED
        BY <3>1, <4>1
    <3>2. CASE ~(p > w.sp.nOrig)
      <4>1. p <= w.sp.nOrig
        BY <3>2, <1>5, PagerAssumption DEF Page
      <4>2. w.mem[p] # Absent /\ (p \notin w.sp.in => w.mem[p] = w.sp.img[p])
        BY <4>1, <1>1 DEF SavepointOk, SavepointPage
      <4>3. CASE p \in SavepointPages
        <5>1. SavepointData(p) = w.sp.img[p]
          BY <4>3, <1>2
        <5>. QED
          BY <3>2, <4>3, <5>1
      <4>4. CASE p \notin SavepointPages
        <5>1. w.mem[p] = w.sp.img[p]
          BY <4>1, <4>2, <4>4, <1>2
        <5>2. p \notin inCache => db[p] = w.mem[p]
          <6>1. p \notin inCache => p \notin w.dirty
            BY <1>3, <1>5
          <6>. QED
            BY <6>1, <4>2 DEF MemOk, OpenPcs, WritePcs
        <5>. QED
          BY <3>2, <4>4, <5>1, <5>2
      <4>. QED
        BY <4>3, <4>4
    <3>. QED
      BY <3>1, <3>2
  <2>. HIDE DEF toFile
  <2>. QED
    BY <2>1, <1>5 DEF Image
<1>8. /\ DbTypes'
      /\ \A p \in Page : db'[p] = IF p \in toFile THEN w.sp.img[p] ELSE db[p]
  <2>. DEFINE new == [p \in toFile |-> SavepointData(p)]
  <2>1. DOMAIN new = toFile /\ \A p \in DOMAIN new : new[p] = w.sp.img[p] /\ p \in Page
    BY <1>2
  <2>2. DbWrite(new)
    BY <1>3
  <2>. HIDE DEF new, toFile
  <2>3. \A p \in DOMAIN new : new[p] \in Content
    BY <2>1, <1>5 DEF Image
  <2>. QED
    BY <2>1, <2>2, <2>3, DbWriteDoes
<1>. HIDE DEF mm
<1>9. dd \subseteq Page
  BY <1>2, <1>5
<1>10. w' = [w EXCEPT !.mem = w.sp.img, !.dirty = dd]
  BY <1>4, <1>7
<1>11. toFile \in SUBSET Page /\ \A p \in toFile : w.state = "dbmod" /\ SavepointSynced(p)
  BY <1>2
<1>. HIDE DEF toFile, dd
<1>12. w' \in Locals
  BY <1>5, <1>9, <1>10 DEF Locals
<1>13. /\ w'.mem = w.sp.img /\ w'.dirty = dd
       /\ w'.sp = w.sp /\ w'.sub = w.sub /\ w'.owner = w.owner
       /\ w'.ending = w.ending /\ SameTx(w, w')
  BY <1>10 DEF Locals, SameTx
<1>14. RolledBack(toFile)
  BY <1>6, <1>8, <1>11, <1>12, <1>13 DEF RolledBack, dd
<1>. QED
  BY <1>11, <1>14

\* A rollback to the savepoint leaves a transaction that can still be rolled
\* back.
LEMMA RollbackToTx ==
  ASSUME w \in Locals, jr \in Journals, NEW m, NEW n \in Page,
         NEW toFile, RolledBack(toFile), w.sp.open, w.state # "locked",
         TxOk("write", w, db, jr, m, n)
  PROVE  TxOk("write", w', db', jr, m, n)
<1>1. /\ w.orig >= n /\ JournalOk("write", w, jr, m, n) /\ DbOk(w, db, jr, m, n)
      /\ MemOk("write", w, db, m, n) /\ SavepointOk(w, jr, m, n)
  BY DEF TxOk, OpenPcs, WritePcs
<1>2. SlotsOk(w, jr, m, n) /\ StateOk("write", w) /\ jr \in Seq(Slot) /\ jr # NoFile
  BY <1>1 DEF JournalOk, SlotsOk, Journals
<1>3. /\ \A p \in SavepointPages :
              /\ p \in Page /\ p <= w.sp.nOrig
              /\ SavepointData(p) = w.sp.img[p]
              /\ p <= w.orig => p \in w.inJournal
              /\ SavepointSynced(p) /\ p <= w.orig => Saved(w, jr, p)
      /\ \A p \in Page : p <= w.sp.nOrig /\ p \in w.sp.in => p \in SavepointPages
  BY <1>1, <1>2, SavepointReads
<1>4. /\ toFile \subseteq SavepointPages
      /\ \A p \in toFile : w.state = "dbmod" /\ SavepointSynced(p)
      /\ w'.mem = w.sp.img
      /\ w'.dirty = (w.dirty \cup (SavepointPages \ toFile)) \cap 1..w.sp.nOrig
      /\ w' \in Locals /\ w'.sp = w.sp /\ w'.sub = w.sub
      /\ SameTx(w, w')
      /\ \A p \in Page : db'[p] = IF p \in toFile THEN w.sp.img[p] ELSE db[p]
  BY DEF RolledBack
<1>5. /\ w'.tx = w.tx /\ w'.orig = w.orig /\ w'.state = w.state
      /\ w'.inJournal = w.inJournal /\ w'.needSync = w.needSync
      /\ w'.off = w.off /\ w'.hdr = w.hdr /\ w'.slot = w.slot
  BY <1>4 DEF SameTx
<1>6. /\ Prefix(w.sp.img, w.sp.nOrig) /\ w.sp.nOrig >= n
      /\ \A q \in Page : w.sp.img[q] = m[q] \/ w.sp.img[q] \in Own(w.tx)
      /\ \A q \in Page : q <= w.sp.nOrig => SavepointPage(w, jr, q)
  BY <1>1 DEF SavepointOk
<1>7. n \in Nat /\ w.orig \in Nat /\ w.sp.nOrig \in Nat /\ \A q \in Page : q \in Nat
  BY LocalsHave, PagerAssumption DEF Page, Savepoints
<1>8. JournalOk("write", w', jr, m, n)
  <2>1. StateOk("write", w')
    BY <1>2, <1>5 DEF StateOk, SyncPcs
  <2>. QED
    BY <2>1, <1>1, <1>4, JournalSame
<1>9. DbOk(w', db', jr, m, n)
  <2>1. ASSUME NEW p \in Page, p <= n PROVE db'[p] = m[p] \/ Saved(w, jr, p)
    <3>1. CASE p \in toFile
      <4>1. p \in SavepointPages /\ SavepointSynced(p) /\ p <= w.orig
        BY <3>1, <2>1, <1>1, <1>4, <1>7
      <4>. QED
        BY <4>1, <1>3
    <3>2. CASE p \notin toFile
      BY <3>2, <2>1, <1>1, <1>4 DEF DbOk
    <3>. QED
      BY <3>1, <3>2
  <2>. QED
    BY <2>1, <1>5 DEF DbOk, Saved, RecordsOf
<1>10. ASSUME NEW p \in Page, p <= w.sp.nOrig
       PROVE  w.mem[p] # Absent /\ (p \notin w.sp.in => w.mem[p] = w.sp.img[p])
              /\ (p \in w.sp.in /\ p <= w.orig => p \in w.inJournal)
  BY <1>6, <1>10 DEF SavepointPage
<1>11. MemOk("write", w', db', m, n)
  <2>1. ASSUME NEW p \in Page, p <= n, p \notin w.inJournal PROVE w.sp.img[p] = m[p]
    <3>1. p <= w.sp.nOrig /\ p <= w.orig
      BY <2>1, <1>1, <1>6, <1>7
    <3>2. p \notin w.sp.in /\ w.mem[p] = w.sp.img[p]
      BY <3>1, <2>1, <1>10
    <3>. QED
      BY <3>2, <2>1, <1>1 DEF MemOk
  <2>2. w.sp.nOrig \in Page
    BY <1>6 DEF Prefix
  <2>3. ASSUME NEW p \in Page, w.sp.img[p] # Absent, p \notin w'.dirty
        PROVE  db'[p] = w.sp.img[p]
    <3>1. p <= w.sp.nOrig /\ p \in 1..w.sp.nOrig
      BY <2>3, <1>6, <1>7, PagerAssumption DEF Prefix, Page
    <3>2. p \notin w.dirty /\ p \notin SavepointPages \ toFile
      BY <3>1, <2>3, <1>4
    <3>3. CASE p \in toFile
      BY <3>3, <1>4
    <3>4. CASE p \notin toFile
      <4>1. p \notin SavepointPages /\ p \notin w.sp.in
        BY <3>1, <3>2, <3>4, <1>3
      <4>2. db[p] = w.mem[p] /\ w.mem[p] = w.sp.img[p]
        BY <3>1, <3>2, <4>1, <1>1, <1>10 DEF MemOk, OpenPcs, WritePcs
      <4>. QED
        BY <4>2, <3>4, <1>4
    <3>. QED
      BY <3>3, <3>4
  <2>4. ASSUME NEW p \in w'.dirty, p <= w.orig PROVE p \in w.inJournal
    <3>1. p \in w.dirty \/ p \in SavepointPages
      BY <1>4
    <3>2. p \in w.dirty => p \in w.inJournal
      BY <2>4, <1>1 DEF MemOk, OpenPcs, WritePcs
    <3>. QED
      BY <3>1, <3>2, <2>4, <1>3
  <2>. QED
    BY <2>1, <2>2, <2>3, <2>4, <1>4, <1>5, <1>6 DEF MemOk
<1>12. SavepointOk(w', jr, m, n)
  <2>1. NewSlots(w', jr) = NewSlots(w, jr) /\ NewSubs(w') = NewSubs(w) /\ OffOf(w') = OffOf(w)
    BY <1>4, <1>5 DEF NewSlots, NewSubs, RecordsOf, OffOf
  <2>2. ASSUME NEW q \in Page, q <= w.sp.nOrig PROVE SavepointPage(w', jr, q)
    <3>1. SavepointPage(w, jr, q)
      BY <2>2, <1>6
    <3>2. w.sp.img[q] # Absent
      BY <2>2, <1>6 DEF Prefix
    <3>. QED
      BY <3>1, <3>2, <2>1, <1>4, <1>5 DEF SavepointPage
  <2>. QED
    BY <2>1, <2>2, <1>1, <1>4, <1>5 DEF SavepointOk
<1>. QED
  BY <1>1, <1>5, <1>8, <1>9, <1>11, <1>12 DEF TxOk

\* A rollback to the savepoint keeps the invariant, and memory is what it was
\* at the savepoint.
LEMMA RollbackToKeeps ==
  ASSUME IInv0, NEW c \in Conn, RollbackTo(c)
  PROVE  IInv0' /\ w'.mem = w.sp.img
<1>. DEFINE m == committed
            n == SizeOf(committed)
<1>1. pc[c] = "write" /\ w.owner = c /\ w.state # "locked" /\ w.sp.open
  BY DEF RollbackTo
<1>2. InTx(c) /\ TxOk("write", w, db, jr, m, n)
  BY <1>1, AtWrite
<1>3. w \in Locals /\ n \in Page
  BY <1>2, TxFacts, Started
<1>4. DbTypes /\ JrTypes /\ jr \in Journals
  BY DEF IInv0, TypeInv, JrTypes
<1>5. /\ JournalOk("write", w, jr, m, n)
      /\ MemOk("write", w, db, m, n) /\ SavepointOk(w, jr, m, n)
  BY <1>2 DEF TxOk, OpenPcs, WritePcs
<1>6. SlotsOk(w, jr, m, n) /\ jr \in Seq(Slot) /\ jr # NoFile
  BY <1>1, <1>4, <1>5 DEF JournalOk, SlotsOk, Journals
<1>7. PICK toFile \in SUBSET Page : RolledBack(toFile)
  BY <1>3, <1>4, <1>5, <1>6, RollbackToDoes
<1>8. TxOk("write", w', db', jr, m, n)
  BY <1>1, <1>2, <1>3, <1>4, <1>7, RollbackToTx
<1>9. /\ DbTypes' /\ w' \in Locals /\ w'.owner = w.owner /\ w'.tx = w.tx
      /\ w'.ending = w.ending /\ w'.state = w.state /\ w'.mem = w.sp.img
  BY <1>7 DEF RolledBack, SameTx
<1>10. UNCHANGED <<connVars, todo, histVars, faultVars>> /\ jr' = jr /\ JrTypes'
  BY <1>4 DEF RollbackTo, JrTypes
<1>11. IInv0'
  BY <1>1, <1>8, <1>9, <1>10, WriteStep
<1>. QED
  BY <1>9, <1>11

-----------------------------------------------------------------------------
(* A transaction that holds the exclusive lock *)

\* What holds inside a transaction that has not begun to end.
LEMMA AtOpen ==
  ASSUME IInv0, NEW c \in Conn, pc[c] \in OpenPcs
  PROVE  /\ InTx(c) /\ w.owner = c /\ w.ending = "none" /\ todo = {}
         /\ w.state \in {"locked", "cachemod", "dbmod"}
         /\ TxOk(pc[c], w, db, jr, committed, SizeOf(committed))
         /\ CommitOk(pc[c], w, info[w.tx], CtrOf(committed))
         /\ pc[c] # "write" => /\ held[c] = EXCLUSIVE_LOCK /\ w.state # "locked"
                               /\ \A d \in Conn \ {c} : held[d] = NO_LOCK
<1>1. Active(c) /\ pc[c] \in WritePcs \cup {"finish"}
  BY DEF Active, OpenPcs, EndPcs
<1>2. LockOf(c) /\ OwnerOf(c)
  BY DEF IInv0, ControlInv
<1>3. w.ending = "none" /\ todo = {} /\ w.state # "none" /\ w.owner = c
      /\ (w.state = "locked" => pc[c] = "write")
  BY <1>1, <1>2 DEF OwnerOf, WritePcs
<1>4. InTx(c)
  BY <1>3 DEF InTx
<1>5. w.state \in {"locked", "cachemod", "dbmod"}
  BY <1>3, LocalsHave DEF IInv0, TypeInv, WriteStates
<1>6. pc[c] # "write" => held[c] = EXCLUSIVE_LOCK
  BY <1>1, <1>2 DEF LockOf
<1>7. held[c] = EXCLUSIVE_LOCK => \A d \in Conn \ {c} : held[d] = NO_LOCK
  BY AloneExclusive DEF IInv0
<1>. QED
  BY <1>3, <1>4, <1>5, <1>6, <1>7 DEF IInv0, WorkInv, TxOfInv

\* A step under the exclusive lock keeps the invariant when it keeps what is
\* known of the transaction.
LEMMA ExclusiveStep ==
  ASSUME IInv0, NEW c \in Conn, pc[c] \in OpenPcs, NEW l, l \in OpenPcs,
         pc' = [pc EXCEPT ![c] = l], held' = [held EXCEPT ![c] = EXCLUSIVE_LOCK],
         \A d \in Conn \ {c} : held[d] = NO_LOCK,
         cache' = cache, todo' = todo,
         committed' = committed, maybe' = maybe \/ maybe' = {committed},
         nTx' = nTx, nDeaths' = nDeaths, nLosses' = nLosses,
         info' \in [1..MaxTx -> Infos],
         \A t \in 1..MaxTx : t # w.tx => info'[t] = info[t],
         DbTypes', JrTypes', w' \in Locals, w'.owner = w.owner, w'.tx = w.tx,
         w'.ending = w.ending, w'.state \in {"cachemod", "dbmod"},
         l = "write" => w'.state = "dbmod",
         TxOk(l, w', db', jr', committed, SizeOf(committed)),
         CommitOk(l, w', info'[w.tx], CtrOf(committed))
  PROVE  IInv0'
<1>1. InTx(c) /\ w.owner = c /\ w.ending = "none" /\ todo = {}
  BY AtOpen
<1>2. pc'[c] = l /\ held'[c] = EXCLUSIVE_LOCK
  BY DEF IInv0, TypeInv, ConnTypes
<1>3. l \in WritePcs \cup {"finish"} /\ l # "play" /\ l # "finalize"
  BY DEF OpenPcs, WritePcs
<1>4. LockOf(c)'
  BY <1>2, <1>3 DEF LockOf, RestPcs, WritePcs, EndPcs, EXCLUSIVE_LOCK, NO_LOCK, RESERVED_LOCK
<1>5. OwnerOf(c)'
  <2>1. w'.owner = c /\ w'.ending = "none" /\ w'.state # "none" /\ w'.state # "locked"
        /\ todo' = {} /\ "none" # "hot"
    BY <1>1
  <2>. QED
    BY <2>1, <1>2, <1>3 DEF OwnerOf, WritePcs
<1>6. EXCLUSIVE_LOCK \in RESERVED_LOCK..EXCLUSIVE_LOCK
  BY DEF EXCLUSIVE_LOCK, RESERVED_LOCK
<1>. QED
  BY <1>1, <1>3, <1>4, <1>5, <1>6, OpenStep

\* Nothing of the transaction has changed but what its journal tells.
SameRest(v, u) ==
  /\ u.mem = v.mem /\ u.sp = v.sp /\ u.sub = v.sub /\ u.ending = v.ending

\* What is known of memory does not depend on the place.
LEMMA MemMoves ==
  ASSUME NEW v, NEW u, NEW d, NEW m, NEW n, NEW at, NEW to, at \in OpenPcs,
         MemOk(at, v, d, m, n), u.mem = v.mem, u.inJournal = v.inJournal,
         u.tx = v.tx, u.orig = v.orig, u.dirty = v.dirty
  PROVE  MemOk(to, u, d, m, n)
BY DEF MemOk

\* What is known of the savepoint depends on the records, not on the headers.
LEMMA SavepointRecords ==
  ASSUME NEW v, NEW u, NEW j, NEW f, NEW m, NEW n, SavepointOk(v, j, m, n),
         u.mem = v.mem, u.sp = v.sp, u.sub = v.sub, u.off = v.off, u.tx = v.tx,
         u.orig = v.orig, u.inJournal = v.inJournal,
         v.state # "locked", u.state # "locked", v.off \in Nat, v.sp.iOffset \in Nat,
         RecordsOf(u, f) = RecordsOf(v, j), \A i \in RecordsOf(v, j) : f[i] = j[i]
  PROVE  SavepointOk(u, f, m, n)
<1>. SUFFICES ASSUME v.sp.open PROVE SavepointOk(u, f, m, n)
  BY DEF SavepointOk
<1>1. /\ NewSlots(u, f) = NewSlots(v, j) /\ NewSubs(u) = NewSubs(v) /\ OffOf(u) = OffOf(v)
      /\ \A i \in NewSlots(v, j) : f[i] = j[i]
  BY DEF NewSlots, NewSubs, OffOf
<1>2. \A q \in Page : q <= v.sp.nOrig => SavepointPage(u, f, q)
  BY <1>1 DEF SavepointOk, SavepointPage
<1>3. \A i \in v.sp.iOffset + 1..v.off :
        v.sp.iHdrOffset = 0 \/ i <= v.sp.iHdrOffset => f[i].kind = "rec"
  <2>. SUFFICES ASSUME NEW i \in v.sp.iOffset + 1..v.off,
                       v.sp.iHdrOffset = 0 \/ i <= v.sp.iHdrOffset
                PROVE  f[i].kind = "rec"
    OBVIOUS
  <2>1. j[i].kind = "rec" /\ i \in 1..v.off
    BY DEF SavepointOk
  <2>2. i \in RecordsOf(v, j)
    BY <2>1 DEF RecordsOf
  <2>. QED
    BY <2>1, <2>2
<1>. QED
  BY <1>1, <1>2, <1>3 DEF SavepointOk

\* Page p goes to the file: it is in the cache as it is there from now on.
LEMMA PageToFile ==
  ASSUME NEW v \in Locals, NEW u, NEW d, NEW e, NEW j \in Journals, NEW p \in v.dirty,
         NEW m, NEW n \in Page, NEW at, NEW to, at \in OpenPcs, to \in OpenPcs,
         v.state # "locked", v.orig >= n, p \notin v.needSync,
         JournalOk(at, v, j, m, n), DbOk(v, d, j, m, n), MemOk(at, v, d, m, n),
         SavepointOk(v, j, m, n), SameTx(v, u), SameRest(v, u),
         u.dirty = v.dirty \ {p},
         \A q \in Page : e[q] = IF q = p THEN v.mem[p] ELSE d[q]
  PROVE  DbOk(u, e, j, m, n) /\ MemOk(to, u, e, m, n) /\ SavepointOk(u, j, m, n)
<1>1. /\ u.tx = v.tx /\ u.orig = v.orig /\ u.state = v.state
      /\ u.inJournal = v.inJournal /\ u.off = v.off /\ u.hdr = v.hdr
      /\ u.mem = v.mem /\ u.sp = v.sp /\ u.sub = v.sub
  BY DEF SameTx, SameRest
<1>2. SlotsOk(v, j, m, n)
  BY DEF JournalOk
<1>3. v.orig \in Nat /\ n \in Nat /\ \A q \in Page : q \in Nat
  BY LocalsHave, PagerAssumption DEF Page
<1>4. DbOk(u, e, j, m, n)
  <2>1. ASSUME NEW q \in Page, q <= n PROVE e[q] = m[q] \/ Saved(v, j, q)
    <3>1. CASE q = p
      <4>1. p \in v.inJournal
        BY <2>1, <3>1, <1>3 DEF MemOk
      <4>. QED
        BY <4>1, <3>1, <1>2 DEF SlotsOk, Saved
    <3>2. CASE q # p
      BY <3>2, <2>1 DEF DbOk
    <3>. QED
      BY <3>1, <3>2
  <2>. QED
    BY <2>1, <1>1 DEF DbOk, Saved, RecordsOf
<1>5. MemOk(to, u, e, m, n)
  BY <1>1 DEF MemOk
<1>6. SavepointOk(u, j, m, n)
  <2>1. RecordsOf(u, j) = RecordsOf(v, j)
    BY <1>1 DEF RecordsOf
  <2>2. v.off \in Nat /\ v.sp.iOffset \in Nat
    BY LocalsHave DEF Savepoints
  <2>. QED
    BY <2>1, <2>2, <1>1, SavepointRecords
<1>. QED
  BY <1>4, <1>5, <1>6

\* Writing a page that the cache spills keeps the invariant.
LEMMA StressWriteKeeps ==
  ASSUME IInv0, NEW c \in Conn, NEW p \in Page, StressWrite(c, p)
  PROVE  IInv0'
<1>. DEFINE m == committed
            n == SizeOf(committed)
<1>1. pc[c] = "write" /\ w.owner = c /\ p \in w.dirty /\ p \notin w.needSync
      /\ w.state # "cachemod"
  BY DEF StressWrite, NeedsSync
<1>2. InTx(c) /\ TxOk("write", w, db, jr, m, n) /\ w.state \in {"locked", "cachemod", "dbmod"}
  BY <1>1, AtWrite
<1>3. w \in Locals /\ n \in Page
  BY <1>2, TxFacts, Started
<1>4. DbTypes /\ JrTypes /\ jr \in Journals
  BY DEF IInv0, TypeInv, JrTypes
<1>5. /\ w.orig >= n /\ JournalOk("write", w, jr, m, n) /\ DbOk(w, db, jr, m, n)
      /\ MemOk("write", w, db, m, n) /\ SavepointOk(w, jr, m, n)
  BY <1>2 DEF TxOk, OpenPcs, WritePcs
<1>6. w.state # "locked"
  BY <1>1, <1>5 DEF JournalOk, LockedOk
<1>7. w' = [w EXCEPT !.dirty = @ \ {p}] /\ DbWrite([q \in {p} |-> w.mem[q]])
      /\ UNCHANGED <<connVars, todo, histVars, faultVars>> /\ jr' = jr /\ JrTypes'
  BY <1>4 DEF StressWrite, JrTypes
<1>8. /\ w' \in Locals /\ SameTx(w, w') /\ SameRest(w, w') /\ w'.dirty = w.dirty \ {p}
      /\ w'.owner = w.owner /\ w'.tx = w.tx /\ w'.ending = w.ending /\ w'.state = w.state
      /\ w'.orig = w.orig
  BY <1>3, <1>7 DEF Locals, SameTx, SameRest
<1>9. DbTypes' /\ \A q \in Page : db'[q] = IF q = p THEN w.mem[p] ELSE db[q]
  <2>1. \A q \in DOMAIN [x \in {p} |-> w.mem[x]] : [x \in {p} |-> w.mem[x]][q] \in Content
    BY <1>3, LocalsHave DEF Image
  <2>. QED
    BY <2>1, <1>4, <1>7, DbWriteDoes
<1>10. "write" \in OpenPcs
  BY DEF OpenPcs, WritePcs
<1>11. DbOk(w', db', jr, m, n) /\ MemOk("write", w', db', m, n) /\ SavepointOk(w', jr, m, n)
  BY <1>1, <1>3, <1>4, <1>5, <1>6, <1>8, <1>9, <1>10, PageToFile
<1>12. JournalOk("write", w', jr, m, n)
  <2>1. StateOk("write", w')
    BY <1>5, <1>6, <1>8 DEF JournalOk, StateOk, SameTx, SyncPcs
  <2>. QED
    BY <2>1, <1>3, <1>4, <1>5, <1>6, <1>8, JournalSame
<1>13. TxOk("write", w', db', jr', m, n)
  BY <1>5, <1>7, <1>8, <1>11, <1>12 DEF TxOk
<1>. QED
  BY <1>1, <1>6, <1>7, <1>8, <1>9, <1>13, WriteStep

\* A commit that finds readers keeps the invariant.
LEMMA ExclusiveBusyKeeps ==
  ASSUME IInv0, NEW c \in Conn, ExclusiveBusy(c)
  PROVE  IInv0'
<1>. DEFINE m == committed
            n == SizeOf(committed)
<1>1. pc[c] = "write" /\ w.owner = c /\ w.dirty # {} /\ held[c] = RESERVED_LOCK
      /\ held' = [held EXCEPT ![c] = PENDING_LOCK]
  BY DEF ExclusiveBusy, Lock
<1>2. /\ pc' = pc /\ cache' = cache /\ todo' = todo /\ info' = info /\ w' = w
      /\ committed' = committed /\ maybe' = maybe /\ nTx' = nTx
      /\ nDeaths' = nDeaths /\ nLosses' = nLosses /\ db' = db /\ jr' = jr
      /\ dbDisk' = dbDisk /\ jrDisk' = jrDisk /\ jrOther' = jrOther
  BY DEF ExclusiveBusy, fileVars, histVars, faultVars
<1>3. /\ InTx(c) /\ w.ending = "none" /\ todo = {}
      /\ (held[c] = EXCLUSIVE_LOCK) <=> (w.state = "dbmod")
      /\ w.state \in {"locked", "cachemod", "dbmod"}
      /\ TxOk("write", w, db, jr, m, n)
  BY <1>1, AtWrite
<1>4. w.state = "cachemod"
  <2>1. w.state # "dbmod"
    BY <1>1, <1>3 DEF EXCLUSIVE_LOCK, RESERVED_LOCK
  <2>2. w.state # "locked"
    BY <1>1, <1>3 DEF TxOk, JournalOk, LockedOk
  <2>. QED
    BY <2>1, <2>2, <1>3
<1>5. ~Hot(jr)
  <2>1. JournalOk("write", w, jr, m, n)
    BY <1>3 DEF TxOk
  <2>. QED
    BY <2>1, <1>4, ColdUnsynced
<1>6. ConnTypes /\ HistTypes /\ DbTypes /\ JrTypes /\ w \in Locals /\ LockOf(c) /\ OwnerOf(c)
      /\ todo \subseteq DOMAIN SlotsOf(jr)
  BY DEF IInv0, TypeInv, ControlInv
<1>7. pc' = [pc EXCEPT ![c] = "write"] /\ held'[c] = PENDING_LOCK
  BY <1>1, <1>2, <1>6 DEF ConnTypes
<1>8. LockOf(c)'
  BY <1>1, <1>2, <1>4, <1>7 DEF LockOf, Active, RestPcs, WritePcs, EndPcs,
       PENDING_LOCK, RESERVED_LOCK, EXCLUSIVE_LOCK, NO_LOCK
<1>9. OwnerOf(c)'
  BY <1>2, <1>6 DEF OwnerOf, Active
<1>10. CommitOk("write", w', info'[w.tx], CtrOf(committed))
  BY <1>2, <1>3 DEF CommitOk, SyncPcs
<1>11. DbTypes' /\ JrTypes' /\ info' \in [1..MaxTx -> Infos]
       /\ todo' \subseteq DOMAIN SlotsOf(jr')
  BY <1>2, <1>6 DEF DbTypes, JrTypes, HistTypes
<1>12. PENDING_LOCK \in RESERVED_LOCK..EXCLUSIVE_LOCK /\ PENDING_LOCK # EXCLUSIVE_LOCK
       /\ "write" \in OpenPcs
  BY DEF PENDING_LOCK, RESERVED_LOCK, EXCLUSIVE_LOCK, OpenPcs, WritePcs
<1>13. w'.owner = c /\ w'.tx = w.tx /\ w'.state # "locked" /\ w' \in Locals
       /\ TxOk("write", w', db', jr', m, n) /\ ~Hot(jr')
  BY <1>1, <1>2, <1>3, <1>4, <1>5, <1>6
<1>. QED
  BY <1>1, <1>2, <1>3, <1>7, <1>8, <1>9, <1>10, <1>11, <1>12, <1>13, OpenStep

-----------------------------------------------------------------------------
(* The journal is about to be synced *)

\* The first write of syncJournal: new records, and the old header behind them
\* zeroed.
LEMMA SyncJournalDoes ==
  ASSUME JrTypes, NEW v \in Locals, NEW new, NEW k \in Nat, Fits(jr, new, k),
         \A i \in DOMAIN new : i <= v.off,
         JournalWrite([i \in DOMAIN new \cup StaleHeader(v.off) |->
                         IF i \in DOMAIN new THEN new[i]
                         ELSE [Slots[i] EXCEPT !.magic = FALSE]])
  PROVE  JrTypes' /\ Defaced(v, Written(jr, new), jr')
         /\ \A i \in 1..v.off : i <= k => jr'[i] = Written(jr, new)[i]
<1>. DEFINE f == Written(jr, new)
            S == StaleHeader(v.off)
            new2 == [i \in DOMAIN new \cup S |->
                         IF i \in DOMAIN new THEN new[i]
                         ELSE [Slots[i] EXCEPT !.magic = FALSE]]
<1>1. Slots = SlotsOf(jr) /\ jr \in Journals
  BY DEF Slots, SlotsOf, JrTypes
<1>2. \A i \in S : i = v.off + 1 /\ i \in DOMAIN SlotsOf(jr) /\ SlotsOf(jr)[i].kind = "hdr"
  BY <1>1 DEF StaleHeader
<1>3. \A i \in DOMAIN SlotsOf(jr) : i = v.off + 1 /\ SlotsOf(jr)[i].kind = "hdr" => i \in S
  BY <1>1 DEF StaleHeader
<1>4. ASSUME NEW i \in S
      PROVE  /\ [SlotsOf(jr)[i] EXCEPT !.magic = FALSE] \in Slot
             /\ [SlotsOf(jr)[i] EXCEPT !.magic = FALSE].kind = "hdr"
             /\ [SlotsOf(jr)[i] EXCEPT !.magic = FALSE].init = SlotsOf(jr)[i].init
             /\ [SlotsOf(jr)[i] EXCEPT !.magic = FALSE].magic = FALSE
  <2>. DEFINE s == SlotsOf(jr)[i]
  <2>1. s \in Slot /\ s.kind = "hdr"
    BY <1>1, <1>2, SlotsAre
  <2>2. s \in [kind : {"hdr"}, magic : BOOLEAN, n : Nat, init : 1..MaxTx, orig : 0..NPage]
    BY <2>1 DEF Slot, Zero, Torn
  <2>. HIDE DEF s
  <2>3. [s EXCEPT !.magic = FALSE] \in
          [kind : {"hdr"}, magic : BOOLEAN, n : Nat, init : 1..MaxTx, orig : 0..NPage]
    BY <2>2
  <2>4. [s EXCEPT !.magic = FALSE] \in Slot /\ [s EXCEPT !.magic = FALSE].kind = "hdr"
        /\ [s EXCEPT !.magic = FALSE].init = s.init
        /\ [s EXCEPT !.magic = FALSE].magic = FALSE
    BY <2>2, <2>3 DEF Slot
  <2>. QED
    BY <2>4 DEF s
<1>. HIDE DEF S
<1>5. /\ DOMAIN new2 = DOMAIN new \cup S
      /\ \A i \in DOMAIN new : new2[i] = new[i]
      /\ \A i \in S : i \notin DOMAIN new => new2[i] = [SlotsOf(jr)[i] EXCEPT !.magic = FALSE]
  BY <1>1
<1>6. JournalWrite(new2)
  BY DEF S
<1>. HIDE DEF new2
<1>7. Fits(jr, new2, k)
  <2>1. DOMAIN SlotsOf(jr) \cup DOMAIN new2 = 1..k
    BY <1>2, <1>5 DEF Fits
  <2>2. \A i \in DOMAIN new2 : new2[i] \in Slot
    BY <1>4, <1>5 DEF Fits
  <2>. QED
    BY <2>1, <2>2 DEF Fits
<1>8. JrTypes' /\ WrittenTo(jr, new2, jr', k)
  BY <1>6, <1>7, JournalWriteDoes
<1>9. WrittenTo(jr, new, f, k)
  BY <1>1, WrittenDoes
<1>10. /\ f \in Seq(Slot) /\ Len(f) = k /\ DOMAIN f = 1..k
       /\ jr' \in Seq(Slot) /\ Len(jr') = k /\ jr' # NoFile
       /\ \A i \in DOMAIN new : f[i] = new[i]
       /\ \A i \in DOMAIN SlotsOf(jr) : i \notin DOMAIN new => f[i] = SlotsOf(jr)[i]
       /\ \A i \in DOMAIN new2 : jr'[i] = new2[i]
       /\ \A i \in DOMAIN SlotsOf(jr) : i \notin DOMAIN new2 => jr'[i] = SlotsOf(jr)[i]
  BY <1>8, <1>9 DEF WrittenTo
<1>. HIDE DEF f
<1>11. v.off \in Nat
  BY LocalsHave
<1>12. ASSUME NEW i \in 1..k
       PROVE  IF i = v.off + 1 /\ f[i].kind = "hdr"
              THEN jr'[i].kind = "hdr" /\ jr'[i].init = f[i].init /\ ~jr'[i].magic
              ELSE jr'[i] = f[i]
  <2>1. i \in DOMAIN SlotsOf(jr) \/ i \in DOMAIN new
    BY DEF Fits
  <2>2. CASE i \in DOMAIN new
    <3>1. i # v.off + 1
      BY <2>2, <1>11
    <3>2. jr'[i] = f[i]
      BY <2>2, <1>5, <1>10
    <3>. QED
      BY <3>1, <3>2
  <2>3. CASE i \notin DOMAIN new /\ i \in S
    <3>1. f[i] = SlotsOf(jr)[i] /\ i = v.off + 1 /\ SlotsOf(jr)[i].kind = "hdr"
      BY <2>1, <2>3, <1>2, <1>10
    <3>2. jr'[i] = [SlotsOf(jr)[i] EXCEPT !.magic = FALSE]
      BY <2>3, <1>5, <1>10
    <3>3. jr'[i].kind = "hdr" /\ jr'[i].init = f[i].init /\ jr'[i].magic = FALSE
      BY <3>1, <3>2, <2>3, <1>4
    <3>. QED
      BY <3>1, <3>3
  <2>4. CASE i \notin DOMAIN new /\ i \notin S
    <3>1. jr'[i] = f[i] /\ f[i] = SlotsOf(jr)[i] /\ i \in DOMAIN SlotsOf(jr)
      BY <2>1, <2>4, <1>5, <1>10
    <3>2. ~(i = v.off + 1 /\ f[i].kind = "hdr")
      BY <3>1, <2>4, <1>3
    <3>. QED
      BY <3>1, <3>2
  <2>. QED
    BY <2>2, <2>3, <2>4
<1>13. Defaced(v, f, jr')
  BY <1>10, <1>12 DEF Defaced
<1>14. \A i \in 1..v.off : i <= k => jr'[i] = f[i]
  <2>1. \A i \in 1..v.off : i # v.off + 1 /\ (i <= k => i \in 1..k)
    BY <1>11
  <2>. QED
    BY <2>1, <1>12
<1>. QED
  BY <1>8, <1>13, <1>14 DEF f

\* The first step of a sync keeps the invariant.
LEMMA SyncStep ==
  ASSUME IInv0, NEW c \in Conn, pc[c] = "write", w.owner = c, NEW v \in Locals,
         NEW new, NEW goal \in 0..NPage, SyncJournal(c, v, new, goal),
         NEW k \in Nat, Fits(jr, new, k), \A i \in DOMAIN new : i <= v.off,
         v.owner = c, v.tx = w.tx, v.ending = w.ending, v.state \in {"cachemod", "dbmod"},
         TxOk("write", v, db, Written(jr, new), committed, SizeOf(committed)),
         UNCHANGED <<db, dbDisk, cache, todo, committed, maybe, nTx, faultVars>>,
         info' \in [1..MaxTx -> Infos],
         \A t \in 1..MaxTx : t # w.tx => info'[t] = info[t],
         goal = 0 => /\ v.mem[1] \in Own(v.tx)
                     /\ info'[w.tx].ctr = CtrOf(committed) + 1
                     /\ Prefix(v.mem, info'[w.tx].size)
  PROVE  IInv0'
<1>. DEFINE m == committed
            n == SizeOf(committed)
            f == Written(jr, new)
            l == IF fullSync(c) THEN "jsync" ELSE "jhdr"
<1>1. pc[c] \in OpenPcs /\ l \in OpenPcs /\ l \in {"jsync", "jhdr"} /\ l # "write"
  BY DEF OpenPcs, WritePcs
<1>2. w.ending = "none"
  BY AtWrite
<1>3. /\ pc' = [pc EXCEPT ![c] = l] /\ held' = [held EXCEPT ![c] = EXCLUSIVE_LOCK]
      /\ \A d \in Conn \ {c} : held[d] = NO_LOCK
      /\ w' = [v EXCEPT !.goal = goal]
      /\ JournalWrite([i \in DOMAIN new \cup StaleHeader(v.off) |->
                         IF i \in DOMAIN new THEN new[i]
                         ELSE [Slots[i] EXCEPT !.magic = FALSE]])
  BY DEF SyncJournal, Goto, Lock, Excludable, Others
<1>. HIDE DEF l
<1>4. DbTypes /\ JrTypes /\ jr \in Journals
  BY DEF IInv0, TypeInv, JrTypes
<1>5. JrTypes' /\ Defaced(v, f, jr') /\ \A i \in 1..v.off : i <= k => jr'[i] = f[i]
  BY <1>3, <1>4, SyncJournalDoes
<1>6. f \in Journals /\ Len(f) = k /\ f \in Seq(Slot)
  BY <1>4, WrittenDoes DEF WrittenTo
<1>7. /\ v.orig >= n /\ JournalOk("write", v, f, m, n) /\ DbOk(v, db, f, m, n)
      /\ MemOk("write", v, db, m, n) /\ SavepointOk(v, f, m, n)
  BY DEF TxOk, OpenPcs, WritePcs
<1>. HIDE DEF f
<1>8. w' \in Locals /\ SameTx(v, w') /\ SameRest(v, w') /\ w'.goal = goal
      /\ w'.dirty = v.dirty /\ w'.owner = v.owner
  BY <1>3 DEF Locals, SameTx, SameRest
<1>9. /\ w'.tx = v.tx /\ w'.orig = v.orig /\ w'.state = v.state
      /\ w'.inJournal = v.inJournal /\ w'.off = v.off /\ w'.hdr = v.hdr
      /\ w'.mem = v.mem /\ w'.sp = v.sp /\ w'.sub = v.sub /\ w'.ending = v.ending
  BY <1>8 DEF SameTx, SameRest
<1>10. JournalOk(l, w', jr', m, n)
  BY <1>1, <1>5, <1>6, <1>7, <1>8, DefacedJournal
<1>11. RecordsOf(w', jr') = RecordsOf(v, f) /\ \A i \in RecordsOf(v, f) : jr'[i] = f[i]
  <2>1. v.off \in 1..Len(f)
    BY <1>6, <1>7, OwnSlots DEF JournalOk
  <2>2. \A i \in 1..v.off : jr'[i] = f[i]
    <3>1. \A i \in 1..v.off : i <= k
      BY <2>1, <1>6
    <3>. QED
      BY <3>1, <1>5
  <2>. QED
    BY <2>2, <1>9, RecordsSame
<1>12. DbOk(w', db, jr', m, n)
  BY <1>7, <1>9, <1>11 DEF DbOk, Saved
<1>13. MemOk(l, w', db, m, n)
  <2>1. "write" \in OpenPcs
    BY DEF OpenPcs, WritePcs
  <2>. QED
    BY <2>1, <1>7, <1>8, <1>9, MemMoves
<1>14. SavepointOk(w', jr', m, n)
  <2>1. v.off \in Nat /\ v.sp.iOffset \in Nat
    BY LocalsHave DEF Savepoints
  <2>. QED
    BY <2>1, <1>7, <1>9, <1>11, SavepointRecords
<1>15. db' = db /\ DbTypes'
  BY <1>4 DEF DbTypes
<1>16. TxOk(l, w', db', jr', m, n)
  BY <1>7, <1>9, <1>10, <1>12, <1>13, <1>14, <1>15 DEF TxOk
<1>17. CommitOk(l, w', info'[w.tx], CtrOf(committed))
  <2>1. l \notin {"dbsync", "finish"} /\ w'.ending # "commit" /\ w'.goal = goal
    BY <1>1, <1>2, <1>8, <1>9
  <2>. QED
    BY <2>1, <1>9 DEF CommitOk
<1>. QED
  BY <1>1, <1>3, <1>5, <1>8, <1>9, <1>15, <1>16, <1>17, ExclusiveStep DEF faultVars

\* A spill that has to sync the journal first keeps the invariant.
LEMMA StressSyncKeeps ==
  ASSUME IInv0, NEW c \in Conn, NEW p \in Page, StressSync(c, p)
  PROVE  IInv0'
<1>. DEFINE new == [i \in {} |-> Zero]
            m == committed
            n == SizeOf(committed)
<1>1. /\ pc[c] = "write" /\ w.owner = c /\ p \in w.dirty
      /\ SyncJournal(c, w, new, p)
      /\ UNCHANGED <<db, dbDisk, cache, todo, histVars, faultVars>>
  BY DEF StressSync
<1>2. InTx(c) /\ TxOk("write", w, db, jr, m, n) /\ w.state \in {"locked", "cachemod", "dbmod"}
  BY <1>1, AtWrite
<1>3. w \in Locals
  BY <1>2, TxFacts
<1>4. w.state # "locked"
  BY <1>1, <1>2 DEF TxOk, JournalOk, LockedOk
<1>5. jr \in Seq(Slot) /\ jr # NoFile /\ SlotsOf(jr) = jr
  BY <1>2, <1>4 DEF TxOk, JournalOk, SlotsOk, SlotsOf, IInv0, TypeInv, JrTypes, Journals
<1>6. Len(jr) \in Nat /\ DOMAIN jr = 1..Len(jr)
  BY <1>5
<1>7. DOMAIN new = {}
  OBVIOUS
<1>. HIDE DEF new
<1>8. Fits(jr, new, Len(jr))
  BY <1>5, <1>6, <1>7 DEF Fits
<1>9. Written(jr, new) = jr
  <2>1. Written(jr, new) = [i \in 1..Len(jr) |-> jr[i]]
    BY <1>5, <1>6, <1>7 DEF Written
  <2>. QED
    BY <2>1, <1>5
<1>10. /\ info' \in [1..MaxTx -> Infos] /\ \A t \in 1..MaxTx : t # w.tx => info'[t] = info[t]
       /\ UNCHANGED <<db, dbDisk, cache, todo, committed, maybe, nTx, faultVars>>
  BY <1>1 DEF histVars, IInv0, TypeInv, HistTypes
<1>11. p \in 0..NPage /\ p # 0
  BY PagerAssumption DEF Page
<1>12. TxOk("write", w, db, Written(jr, new), m, n) /\ w.state \in {"cachemod", "dbmod"}
  BY <1>2, <1>4, <1>9
<1>. QED
  BY <1>1, <1>3, <1>6, <1>7, <1>8, <1>10, <1>11, <1>12, SyncStep

\* The start of a commit keeps the invariant: page 1 with its change counter is
\* journaled like any page.
LEMMA CommitPhaseOneKeeps ==
  ASSUME IInv0, NEW c \in Conn, CommitPhaseOne(c)
  PROVE  IInv0'
<1>. DEFINE u == PagerWrite(w, 1).v
            new == PagerWrite(w, 1).new
            m == committed
            n == SizeOf(committed)
            i == [ctr |-> cache[c].ctr + 1, size |-> Cardinality(PagesOf(w.mem))]
<1>1. /\ pc[c] = "write" /\ w.owner = c /\ w.state # "locked"
      /\ SyncJournal(c, u, new, 0) /\ info' = [info EXCEPT ![w.tx] = i]
      /\ UNCHANGED <<db, dbDisk, cache, todo, committed, maybe, nTx, faultVars>>
  BY DEF CommitPhaseOne
<1>2. InTx(c) /\ TxOk("write", w, db, jr, m, n) /\ w.state \in {"locked", "cachemod", "dbmod"}
      /\ w.ending = "none"
  BY <1>1, AtWrite
<1>3. w \in Locals /\ w.tx \in 1..MaxTx
  BY <1>2, TxFacts
<1>4. PICK k \in Page : Prefix(w.mem, k) /\ k >= n
  BY <1>2 DEF TxOk, MemOk, OpenPcs, WritePcs
<1>5. PagesOf(w.mem) = 1..k /\ Cardinality(PagesOf(w.mem)) = k /\ k \in Nat /\ k >= 1
  <2>1. w.mem \in Image /\ k \in Nat /\ k >= 1
    BY <1>3, LocalsHave, PagerAssumption DEF Page
  <2>. QED
    BY <2>1, <1>4, PagesCount
<1>6. 1 \in Page /\ 1 \in PagesOf(w.mem)
  BY <1>5, PagerAssumption DEF Page
<1>7. PICK x \in Nat : Changed(1, u, new, x)
  BY <1>1, <1>6, PageChanged
<1>. HIDE DEF u, new
<1>8. Wrote(w, 1, u, new) /\ Fits(jr, new, x)
      /\ TxOk("write", u, db, Written(jr, new), m, n)
  BY <1>7 DEF Changed
<1>9. /\ u \in Locals /\ u.owner = c /\ u.tx = w.tx /\ u.ending = w.ending
      /\ u.state \in {"cachemod", "dbmod"}
      /\ u.off = OffOf(w) + (IF NeedsRecord(w, 1) THEN 1 ELSE 0)
      /\ DOMAIN new = (IF w.state = "locked" THEN {1} ELSE {})
                  \cup (IF NeedsRecord(w, 1) THEN {OffOf(w) + 1} ELSE {})
      /\ \A q \in Page : u.mem[q] = IF q = 1 THEN 2 * w.tx + IF w.sp.open THEN 1 ELSE 0
                                ELSE w.mem[q]
  BY <1>1, <1>2, <1>8 DEF Wrote
<1>10. \A y \in DOMAIN new : y <= u.off
  <2>1. OffOf(w) \in Nat
    BY <1>3, LocalsHave DEF OffOf
  <2>. QED
    BY <2>1, <1>1, <1>9
<1>11. u.mem[1] \in Own(u.tx) /\ u.mem[1] # Absent
  <2>1. u.mem[1] = 2 * w.tx + IF w.sp.open THEN 1 ELSE 0
    BY <1>6, <1>9
  <2>. QED
    BY <2>1, <1>3, <1>9 DEF Own, Absent
<1>12. Prefix(u.mem, k)
  BY <1>4, <1>5, <1>6, <1>9, <1>11 DEF Prefix
<1>13. cache[c].ctr = CtrOf(committed) /\ cache[c].ctr \in Nat
  <2>1. CacheOf(c) /\ Active(c)
    BY <1>1 DEF IInv0, ReadInv, Active, WritePcs
  <2>. QED
    BY <2>1, <1>2 DEF CacheOf, IInv0, TypeInv, ConnTypes
<1>14. i \in Infos /\ i.ctr = CtrOf(committed) + 1 /\ i.size = k
  <2>1. k \in 0..NPage
    BY PagerAssumption DEF Page
  <2>. QED
    BY <2>1, <1>5, <1>13 DEF Infos
<1>. HIDE DEF i
<1>15. /\ info' \in [1..MaxTx -> Infos] /\ \A t \in 1..MaxTx : t # w.tx => info'[t] = info[t]
       /\ info'[w.tx] = i
  BY <1>1, <1>3, <1>14 DEF IInv0, TypeInv, HistTypes
<1>16. 0 \in 0..NPage
  BY PagerAssumption
<1>. QED
  BY <1>1, <1>8, <1>9, <1>10, <1>11, <1>12, <1>14, <1>15, <1>16, SyncStep

-----------------------------------------------------------------------------
(* The syncs, and the pages of a commit *)

\* The parts of the invariant inside a sync or a commit.
LEMMA AtParts ==
  ASSUME IInv0, NEW c \in Conn, pc[c] \in OpenPcs \ {"write"}
  PROVE  /\ InTx(c) /\ w.owner = c /\ w.ending = "none"
         /\ w.state \in {"cachemod", "dbmod"} /\ w \in Locals /\ w.tx \in 1..MaxTx
         /\ held' = held => held' = [held EXCEPT ![c] = EXCLUSIVE_LOCK]
         /\ \A d \in Conn \ {c} : held[d] = NO_LOCK
         /\ w.orig >= SizeOf(committed)
         /\ JournalOk(pc[c], w, jr, committed, SizeOf(committed))
         /\ DbOk(w, db, jr, committed, SizeOf(committed))
         /\ MemOk(pc[c], w, db, committed, SizeOf(committed))
         /\ SavepointOk(w, jr, committed, SizeOf(committed))
         /\ CommitOk(pc[c], w, info[w.tx], CtrOf(committed))
<1>1. /\ InTx(c) /\ w.owner = c /\ w.ending = "none"
      /\ w.state \in {"locked", "cachemod", "dbmod"}
      /\ TxOk(pc[c], w, db, jr, committed, SizeOf(committed))
      /\ CommitOk(pc[c], w, info[w.tx], CtrOf(committed))
      /\ held[c] = EXCLUSIVE_LOCK /\ w.state # "locked"
      /\ \A d \in Conn \ {c} : held[d] = NO_LOCK
  BY AtOpen
<1>2. w \in Locals /\ w.tx \in 1..MaxTx
  BY <1>1, TxFacts
<1>3. held' = held => held' = [held EXCEPT ![c] = EXCLUSIVE_LOCK]
  BY <1>1 DEF IInv0, TypeInv, ConnTypes
<1>. QED
  BY <1>1, <1>2, <1>3 DEF TxOk

\* The place changes, the transaction does not.
LEMMA TxMoves ==
  ASSUME w \in Locals, NEW at, NEW to, at \in OpenPcs, to \in OpenPcs, NEW d, jr \in Journals,
         NEW m, NEW n, w.state # "locked", (at = "jsync2") <=> (to = "jsync2"),
         to \in SyncPcs => at \in SyncPcs, StateOk(to, w), w.orig >= n,
         JournalOk(at, w, jr, m, n), DbOk(w, d, jr, m, n), MemOk(at, w, d, m, n),
         SavepointOk(w, jr, m, n)
  PROVE  TxOk(to, w, d, jr, m, n)
<1>1. SameTx(w, w)
  BY DEF SameTx
<1>2. JournalOk(to, w, jr, m, n)
  BY <1>1, JournalSame
<1>3. MemOk(to, w, d, m, n)
  BY MemMoves
<1>. QED
  BY <1>2, <1>3 DEF TxOk

\* The sync before the record count keeps the invariant.
LEMMA SyncRecordsKeeps ==
  ASSUME IInv0, NEW c \in Conn, SyncRecords(c)
  PROVE  IInv0'
<1>. DEFINE m == committed
            n == SizeOf(committed)
<1>1. /\ pc[c] = "jsync" /\ JournalSync /\ maybe' = {committed}
      /\ pc' = [pc EXCEPT ![c] = "jhdr"]
      /\ UNCHANGED <<db, dbDisk, held, cache, w, todo, info, committed, nTx, faultVars>>
  BY DEF SyncRecords, Goto
<1>2. pc[c] \in OpenPcs \ {"write"} /\ "jhdr" \in OpenPcs /\ "jhdr" \in SyncPcs
      /\ "jsync" \in SyncPcs /\ "jsync" \in OpenPcs
  BY <1>1 DEF OpenPcs, WritePcs, SyncPcs
<1>3. /\ w.state \in {"cachemod", "dbmod"} /\ w \in Locals
      /\ held' = [held EXCEPT ![c] = EXCLUSIVE_LOCK]
      /\ \A d \in Conn \ {c} : held[d] = NO_LOCK
      /\ w.orig >= n /\ JournalOk("jsync", w, jr, m, n) /\ DbOk(w, db, jr, m, n)
      /\ MemOk("jsync", w, db, m, n) /\ SavepointOk(w, jr, m, n)
      /\ CommitOk("jsync", w, info[w.tx], CtrOf(committed))
  BY <1>1, <1>2, AtParts
<1>4. DbTypes /\ JrTypes /\ jr \in Journals /\ HistTypes
  BY DEF IInv0, TypeInv, JrTypes
<1>5. JrTypes' /\ jr' = jr
  BY <1>1, <1>4, JournalSyncDoes
<1>6. StateOk("jhdr", w)
  BY <1>2, <1>3 DEF JournalOk, StateOk
<1>7. TxOk("jhdr", w, db, jr, m, n)
  BY <1>2, <1>3, <1>4, <1>6, TxMoves
<1>8. CommitOk("jhdr", w', info'[w.tx], CtrOf(committed))
  BY <1>1, <1>2, <1>3 DEF CommitOk
<1>9. DbTypes' /\ info' \in [1..MaxTx -> Infos]
  BY <1>1, <1>4 DEF DbTypes, HistTypes
<1>10. TxOk("jhdr", w', db', jr', m, n)
  BY <1>1, <1>5, <1>7
<1>. QED
  BY <1>1, <1>2, <1>3, <1>5, <1>8, <1>9, <1>10, ExclusiveStep DEF faultVars

\* Writing the record count keeps the invariant.
LEMMA WriteRecordCountKeeps ==
  ASSUME IInv0, NEW c \in Conn, WriteRecordCount(c)
  PROVE  IInv0'
<1>. DEFINE m == committed
            n == SizeOf(committed)
            new == [i \in {w.slot} |-> Header(TRUE, w.off - w.slot, w.tx, w.orig)]
<1>1. /\ pc[c] = "jhdr" /\ JournalWrite(new)
      /\ pc' = [pc EXCEPT ![c] = "jsync2"]
      /\ UNCHANGED <<db, dbDisk, held, cache, w, todo, histVars, faultVars>>
  BY DEF WriteRecordCount, Goto
<1>2. pc[c] \in OpenPcs \ {"write"} /\ "jsync2" \in OpenPcs /\ "jsync2" \in SyncPcs
      /\ "jhdr" \in SyncPcs /\ "jhdr" \in OpenPcs
  BY <1>1 DEF OpenPcs, WritePcs, SyncPcs
<1>3. /\ w.state \in {"cachemod", "dbmod"} /\ w \in Locals /\ w.tx \in 1..MaxTx
      /\ held' = [held EXCEPT ![c] = EXCLUSIVE_LOCK]
      /\ \A d \in Conn \ {c} : held[d] = NO_LOCK
      /\ w.orig >= n /\ JournalOk("jhdr", w, jr, m, n) /\ DbOk(w, db, jr, m, n)
      /\ MemOk("jhdr", w, db, m, n) /\ SavepointOk(w, jr, m, n)
      /\ CommitOk("jhdr", w, info[w.tx], CtrOf(committed))
  BY <1>1, <1>2, AtParts
<1>4. DbTypes /\ JrTypes /\ jr \in Journals /\ HistTypes
  BY DEF IInv0, TypeInv, JrTypes
<1>5. Counted(w, jr, Written(jr, new)) /\ Fits(jr, new, Len(jr))
  BY <1>3, <1>4, CountSlots, PagerAssumption
<1>6. jr \in Seq(Slot) /\ Len(jr) \in Nat
  BY <1>3, <1>4 DEF JournalOk, SlotsOk, Journals
<1>. HIDE DEF new
<1>7. JrTypes' /\ jr' = Written(jr, new)
  BY <1>1, <1>4, <1>5, <1>6, JournalWriteDoes
<1>8. /\ JournalOk("jsync2", w, jr', m, n)
      /\ RecordsOf(w, jr') = RecordsOf(w, jr)
      /\ \A i \in RecordsOf(w, jr) : jr'[i] = jr[i]
  BY <1>3, <1>4, <1>5, <1>7, CountJournal
<1>9. DbOk(w, db, jr', m, n)
  BY <1>3, <1>8 DEF DbOk, Saved
<1>10. MemOk("jsync2", w, db, m, n)
  BY <1>2, <1>3, MemMoves
<1>11. SavepointOk(w, jr', m, n)
  <2>1. w.off \in Nat /\ w.sp.iOffset \in Nat
    BY <1>3, LocalsHave DEF Savepoints
  <2>. QED
    BY <2>1, <1>3, <1>8, SavepointRecords
<1>12. TxOk("jsync2", w', db', jr', m, n)
  BY <1>1, <1>3, <1>8, <1>9, <1>10, <1>11 DEF TxOk
<1>13. /\ committed' = committed /\ maybe' = maybe /\ nTx' = nTx /\ info' = info
       /\ nDeaths' = nDeaths /\ nLosses' = nLosses
  BY <1>1 DEF histVars, faultVars
<1>14. CommitOk("jsync2", w', info'[w.tx], CtrOf(committed))
  BY <1>1, <1>2, <1>3, <1>13 DEF CommitOk
<1>15. DbTypes' /\ info' \in [1..MaxTx -> Infos]
  BY <1>1, <1>4, <1>13 DEF DbTypes, HistTypes
<1>. QED
  BY <1>1, <1>2, <1>3, <1>7, <1>12, <1>13, <1>14, <1>15, ExclusiveStep

\* The sync of the database file keeps the invariant.
LEMMA SyncDatabaseKeeps ==
  ASSUME IInv0, NEW c \in Conn, SyncDatabase(c)
  PROVE  IInv0'
<1>. DEFINE m == committed
            n == SizeOf(committed)
<1>1. /\ pc[c] = "dbsync" /\ DbSync
      /\ pc' = [pc EXCEPT ![c] = "finish"]
      /\ UNCHANGED <<jr, jrDisk, jrOther, held, cache, w, todo, histVars, faultVars>>
  BY DEF SyncDatabase, Goto
<1>2. pc[c] \in OpenPcs \ {"write"} /\ "finish" \in OpenPcs /\ "finish" \notin SyncPcs
      /\ "dbsync" \notin SyncPcs /\ "dbsync" \in OpenPcs
  BY <1>1 DEF OpenPcs, WritePcs, SyncPcs
<1>3. /\ w.state \in {"cachemod", "dbmod"} /\ w \in Locals
      /\ held' = [held EXCEPT ![c] = EXCLUSIVE_LOCK]
      /\ \A d \in Conn \ {c} : held[d] = NO_LOCK
      /\ w.orig >= n /\ JournalOk("dbsync", w, jr, m, n) /\ DbOk(w, db, jr, m, n)
      /\ MemOk("dbsync", w, db, m, n) /\ SavepointOk(w, jr, m, n)
      /\ CommitOk("dbsync", w, info[w.tx], CtrOf(committed))
  BY <1>1, <1>2, AtParts
<1>4. DbTypes /\ JrTypes /\ jr \in Journals /\ HistTypes
  BY DEF IInv0, TypeInv, JrTypes
<1>5. DbTypes' /\ db' = db
  BY <1>1, <1>4, DbSyncDoes
<1>6. StateOk("finish", w)
  BY <1>3 DEF JournalOk, StateOk, SyncPcs
<1>7. TxOk("finish", w, db, jr, m, n)
  BY <1>2, <1>3, <1>4, <1>6, TxMoves
<1>13. /\ committed' = committed /\ maybe' = maybe /\ nTx' = nTx /\ info' = info
       /\ nDeaths' = nDeaths /\ nLosses' = nLosses
  BY <1>1 DEF histVars, faultVars
<1>8. CommitOk("finish", w', info'[w.tx], CtrOf(committed))
  BY <1>1, <1>3, <1>13 DEF CommitOk
<1>9. JrTypes' /\ info' \in [1..MaxTx -> Infos]
  BY <1>1, <1>4, <1>13 DEF JrTypes, HistTypes
<1>10. TxOk("finish", w', db', jr', m, n)
  BY <1>1, <1>5, <1>7
<1>. QED
  BY <1>1, <1>2, <1>3, <1>5, <1>8, <1>9, <1>10, <1>13, ExclusiveStep

\* Writing a page of a commit keeps the invariant: its record is synced.
LEMMA WritePageKeeps ==
  ASSUME IInv0, NEW c \in Conn, NEW p \in Page, WritePage(c, p)
  PROVE  IInv0'
<1>. DEFINE m == committed
            n == SizeOf(committed)
            l == IF w.goal = p THEN "write" ELSE IF w.dirty = {p} THEN "dbsync" ELSE "flush"
<1>1. /\ pc[c] = "flush" /\ p \in w.dirty /\ w.goal \in {0, p}
      /\ DbWrite([q \in {p} |-> w.mem[q]])
      /\ w' = [w EXCEPT !.dirty = @ \ {p}, !.goal = 0]
      /\ pc' = [pc EXCEPT ![c] = l]
      /\ UNCHANGED <<jr, jrDisk, jrOther, held, cache, todo, histVars, faultVars>>
  BY DEF WritePage, Goto
<1>2. pc[c] \in OpenPcs \ {"write"} /\ l \in OpenPcs /\ "flush" \notin SyncPcs
      /\ l \notin SyncPcs /\ "flush" \in OpenPcs
  BY <1>1 DEF OpenPcs, WritePcs, SyncPcs
<1>a. p # 0
  BY PagerAssumption DEF Page
<1>b. /\ w.goal = p => l = "write"
      /\ l = "write" => w.goal = p
      /\ l = "dbsync" => w.goal = 0 /\ w.dirty = {p}
      /\ l = "flush" => w.goal = 0
      /\ l \in {"write", "dbsync", "flush"}
  BY <1>1, <1>a
<1>. HIDE DEF l
<1>3. /\ w.state \in {"cachemod", "dbmod"} /\ w \in Locals
      /\ held' = [held EXCEPT ![c] = EXCLUSIVE_LOCK] /\ w.ending = "none"
      /\ \A d \in Conn \ {c} : held[d] = NO_LOCK
      /\ w.orig >= n /\ JournalOk("flush", w, jr, m, n) /\ DbOk(w, db, jr, m, n)
      /\ MemOk("flush", w, db, m, n) /\ SavepointOk(w, jr, m, n)
      /\ CommitOk("flush", w, info[w.tx], CtrOf(committed))
  BY <1>1, <1>2, AtParts
<1>4. DbTypes /\ JrTypes /\ jr \in Journals /\ HistTypes
  BY DEF IInv0, TypeInv, JrTypes
<1>5. /\ w' \in Locals /\ SameTx(w, w') /\ SameRest(w, w') /\ w'.dirty = w.dirty \ {p}
      /\ w'.owner = w.owner /\ w'.tx = w.tx /\ w'.ending = w.ending /\ w'.state = w.state
      /\ w'.orig = w.orig /\ w'.goal = 0 /\ w'.mem = w.mem /\ w'.needSync = w.needSync
      /\ w'.slot = w.slot /\ w'.hdr = w.hdr
  <2>1. 0 \in 0..NPage /\ w.dirty \ {p} \in SUBSET Page
    BY <1>3, LocalsHave, PagerAssumption
  <2>. QED
    BY <2>1, <1>1, <1>3 DEF Locals, SameTx, SameRest
<1>6. DbTypes' /\ \A q \in Page : db'[q] = IF q = p THEN w.mem[p] ELSE db[q]
  <2>1. \A q \in DOMAIN [x \in {p} |-> w.mem[x]] : [x \in {p} |-> w.mem[x]][q] \in Content
    BY <1>3, LocalsHave DEF Image
  <2>. QED
    BY <2>1, <1>1, <1>4, DbWriteDoes
<1>7. StateOk("flush", w)
  BY <1>3 DEF JournalOk
<1>8. w.state = "dbmod" /\ w.needSync = {} /\ ((w.slot = 0) <=> (w.goal = 0))
  BY <1>7 DEF StateOk
<1>9. StateOk(l, w')
  BY <1>a, <1>b, <1>5, <1>7, <1>8 DEF StateOk, SyncPcs
<1>10. n \in Page
  BY Started
<1>11. DbOk(w', db', jr, m, n) /\ MemOk(l, w', db', m, n) /\ SavepointOk(w', jr, m, n)
  <2>1. /\ w \in Locals /\ jr \in Journals /\ p \in w.dirty /\ w.state # "locked"
        /\ p \notin w.needSync /\ "flush" \in OpenPcs /\ l \in OpenPcs
    BY <1>1, <1>2, <1>3, <1>4, <1>8
  <2>2. /\ w.orig >= n /\ JournalOk("flush", w, jr, m, n) /\ DbOk(w, db, jr, m, n)
        /\ MemOk("flush", w, db, m, n) /\ SavepointOk(w, jr, m, n)
    BY <1>3
  <2>3. /\ SameTx(w, w') /\ SameRest(w, w') /\ w'.dirty = w.dirty \ {p}
        /\ \A q \in Page : db'[q] = IF q = p THEN w.mem[p] ELSE db[q]
    BY <1>5, <1>6
  <2>. HIDE DEF n
  <2>. QED
    BY <2>1, <2>2, <2>3, <1>10, PageToFile
<1>12. JournalOk(l, w', jr, m, n)
  <2>1. l # "jsync2" /\ "flush" # "jsync2"
    BY <1>b
  <2>. QED
    BY <2>1, <1>2, <1>3, <1>4, <1>5, <1>9, JournalSame
<1>13. /\ committed' = committed /\ maybe' = maybe /\ nTx' = nTx /\ info' = info
       /\ nDeaths' = nDeaths /\ nLosses' = nLosses /\ jr' = jr
  BY <1>1 DEF histVars, faultVars
<1>14. TxOk(l, w', db', jr', m, n)
  BY <1>3, <1>5, <1>11, <1>12, <1>13 DEF TxOk
<1>15. CommitOk(l, w', info'[w.tx], CtrOf(committed))
  <2>1. l = "write" => CommitOk(l, w', info'[w.tx], CtrOf(committed))
    BY <1>3, <1>5 DEF CommitOk, SyncPcs
  <2>2. w.goal = 0 => /\ w.mem[1] \in Own(w.tx) /\ info[w.tx].ctr = CtrOf(committed) + 1
                      /\ Prefix(w.mem, info[w.tx].size)
    BY <1>3 DEF CommitOk
  <2>3. l = "dbsync" => w'.dirty = {}
    BY <1>b, <1>5
  <2>4. l # "write" => w.goal = 0
    BY <1>b
  <2>5. w'.ending # "commit" /\ l # "finish"
    BY <1>b, <1>3, <1>5
  <2>. QED
    BY <2>1, <2>2, <2>3, <2>4, <2>5, <1>5, <1>13 DEF CommitOk
<1>16. JrTypes' /\ info' \in [1..MaxTx -> Infos]
  BY <1>1, <1>4, <1>13 DEF JrTypes, HistTypes
<1>17. w'.state \in {"cachemod", "dbmod"} /\ (l = "write" => w'.state = "dbmod")
  BY <1>5, <1>8
<1>. QED
  BY <1>1, <1>2, <1>3, <1>5, <1>6, <1>13, <1>14, <1>15, <1>16, <1>17, ExclusiveStep

-----------------------------------------------------------------------------
(* The second sync of the journal, and the second phase of a commit *)

\* The savepoint outlives the sync: the first header behind its start is noted.
LEMMA SyncSavepoint ==
  ASSUME NEW v \in Locals, NEW u, NEW j, NEW f, NEW m, NEW n, SavepointOk(v, j, m, n),
         u.mem = v.mem, u.sub = v.sub, u.tx = v.tx, u.orig = v.orig,
         u.inJournal = v.inJournal, v.state # "locked", u.state # "locked",
         v.off \in Nat, v.off > 0,
         RecordsOf(u, f) = RecordsOf(v, j), \A i \in RecordsOf(v, j) : f[i] = j[i],
         \/ u.off = v.off /\ u.sp = v.sp
         \/ /\ u.off = v.off + 1
            /\ u.sp.open = v.sp.open /\ u.sp.nOrig = v.sp.nOrig /\ u.sp.img = v.sp.img
            /\ u.sp.iOffset = v.sp.iOffset /\ u.sp.iSubRec = v.sp.iSubRec
            /\ u.sp.in = v.sp.in
            /\ u.sp.iHdrOffset = IF v.sp.open /\ v.sp.iHdrOffset = 0
                                 THEN v.off ELSE v.sp.iHdrOffset
  PROVE  SavepointOk(u, f, m, n)
<1>1. v.sp.iOffset \in Nat /\ v.sp.iHdrOffset \in Nat
  BY LocalsHave DEF Savepoints
<1>2. CASE u.off = v.off /\ u.sp = v.sp
  BY <1>1, <1>2, SavepointRecords
<1>3. CASE /\ u.off = v.off + 1
           /\ u.sp.open = v.sp.open /\ u.sp.nOrig = v.sp.nOrig /\ u.sp.img = v.sp.img
           /\ u.sp.iOffset = v.sp.iOffset /\ u.sp.iSubRec = v.sp.iSubRec
           /\ u.sp.in = v.sp.in
           /\ u.sp.iHdrOffset = IF v.sp.open /\ v.sp.iHdrOffset = 0
                                THEN v.off ELSE v.sp.iHdrOffset
  <2>. SUFFICES ASSUME v.sp.open PROVE SavepointOk(u, f, m, n)
    BY <1>3 DEF SavepointOk
  <2>1. /\ NewSlots(u, f) = NewSlots(v, j) /\ NewSubs(u) = NewSubs(v)
        /\ \A i \in NewSlots(v, j) : f[i] = j[i]
    BY <1>3 DEF NewSlots, NewSubs
  <2>2. OffOf(u) = v.off + 1 /\ OffOf(v) = v.off
    BY <1>3 DEF OffOf
  <2>3. \A q \in Page : q <= v.sp.nOrig => SavepointPage(u, f, q)
    BY <2>1, <1>3 DEF SavepointOk, SavepointPage
  <2>4. u.sp.iHdrOffset \in Nat /\ u.sp.iHdrOffset # 0 /\ u.sp.iHdrOffset <= v.off
        /\ (u.sp.iHdrOffset = v.sp.iHdrOffset \/ v.sp.iHdrOffset = 0)
    BY <1>1, <1>3 DEF SavepointOk
  <2>5. \A i \in u.sp.iOffset + 1..u.off :
          u.sp.iHdrOffset = 0 \/ i <= u.sp.iHdrOffset => f[i].kind = "rec"
    <3>. SUFFICES ASSUME NEW i \in u.sp.iOffset + 1..u.off, i <= u.sp.iHdrOffset
                  PROVE  f[i].kind = "rec"
      BY <2>4
    <3>1. i \in v.sp.iOffset + 1..v.off /\ i \in 1..v.off
      BY <1>1, <1>3, <2>4
    <3>2. v.sp.iHdrOffset = 0 \/ i <= v.sp.iHdrOffset
      BY <2>4
    <3>3. j[i].kind = "rec"
      BY <3>1, <3>2 DEF SavepointOk
    <3>4. i \in RecordsOf(v, j)
      BY <3>1, <3>3 DEF RecordsOf
    <3>. QED
      BY <3>3, <3>4
  <2>6. v.sp.iOffset >= 1 /\ v.sp.iOffset <= v.off + 1 /\ v.sp.iSubRec <= Len(v.sub)
        /\ u.sp.iHdrOffset <= u.off
    BY <1>1, <1>3, <2>2, <2>4 DEF SavepointOk
  <2>7. /\ Prefix(v.sp.img, v.sp.nOrig) /\ v.sp.nOrig >= n
        /\ \A p \in Page : v.sp.img[p] = m[p] \/ v.sp.img[p] \in Own(v.tx)
        /\ \A i \in NewSlots(v, j) :
             j[i].pg <= v.sp.nOrig => j[i].data = v.sp.img[j[i].pg]
        /\ \A i \in NewSubs(v) :
             /\ v.sub[i].pg \in v.sp.in /\ v.sub[i].pg <= v.sp.nOrig
             /\ v.sub[i].data = v.sp.img[v.sub[i].pg]
    BY DEF SavepointOk
  <2>. QED
    BY <1>3, <2>1, <2>2, <2>3, <2>5, <2>6, <2>7 DEF SavepointOk
<1>. QED
  BY <1>2, <1>3

\* What the disk may hold after the sync is of the type of the journal.
LEMMA SyncedTypes ==
  ASSUME NEW j \in Seq(Slot), j # NoFile, NEW k \in Nat, DOMAIN j = 1..k,
         NEW e \in [1..k -> SUBSET Slot]
  PROVE  j \in Journals /\ e \in Seq(SUBSET Slot) /\ DOMAIN e = DOMAIN SlotsOf(j)
<1>1. e \in Seq(SUBSET Slot) /\ DOMAIN e = 1..k
  BY MakeSeq
<1>. QED
  BY <1>1 DEF Journals, SlotsOf

\* The sync after the record count keeps the invariant, when the records do not
\* end at a sector boundary before an old header.
LEMMA SyncHeaderKeeps ==
  ASSUME IInv0, NEW c \in Conn, SyncHeader(c), ~AlignedSegments
  PROVE  IInv0'
<1>. DEFINE m == committed
            n == SizeOf(committed)
            next == w.off + 1
            synced == [i \in DOMAIN jr |-> Kept({jr[i]})]
            h == Header(FALSE, 0, w.tx, w.orig)
            old == IF next \in DOMAIN jr THEN synced[next] ELSE {Zero}
            f == [i \in DOMAIN jr \cup {next} |-> IF i = next THEN h ELSE jr[i]]
<1>1. /\ pc[c] = "jsync2" /\ jrOther' = {} /\ maybe' = {committed}
      /\ pc' = [pc EXCEPT ![c] = "flush"]
      /\ UNCHANGED <<db, dbDisk, held, cache, todo, info, committed, nTx, faultVars>>
  BY DEF SyncHeader, Goto
<1>2. pc[c] \in OpenPcs \ {"write"} /\ "flush" \in OpenPcs
      /\ "jsync2" \in SyncPcs /\ "jsync2" \in OpenPcs
  BY <1>1 DEF OpenPcs, WritePcs, SyncPcs
<1>3. /\ w.state \in {"cachemod", "dbmod"} /\ w \in Locals /\ w.tx \in 1..MaxTx
      /\ held' = [held EXCEPT ![c] = EXCLUSIVE_LOCK] /\ w.ending = "none"
      /\ \A d \in Conn \ {c} : held[d] = NO_LOCK
      /\ w.orig >= n /\ JournalOk("jsync2", w, jr, m, n) /\ DbOk(w, db, jr, m, n)
      /\ MemOk("jsync2", w, db, m, n) /\ SavepointOk(w, jr, m, n)
      /\ CommitOk("jsync2", w, info[w.tx], CtrOf(committed))
  BY <1>1, <1>2, AtParts
<1>4. DbTypes /\ JrTypes /\ jr \in Journals /\ HistTypes
  BY DEF IInv0, TypeInv, JrTypes
<1>5. /\ jr \in Seq(Slot) /\ jr # NoFile /\ Len(jr) \in Nat /\ DOMAIN jr = 1..Len(jr)
      /\ w.off \in 1..Len(jr) /\ w.off \in Nat /\ w.hdr \in 0..w.off
  <2>1. SlotsOk(w, jr, m, n) /\ jr # NoFile
    BY <1>3 DEF JournalOk, SlotsOk
  <2>2. jr \in Seq(Slot)
    BY <1>4, <2>1 DEF Journals
  <2>. HIDE DEF n
  <2>. QED
    BY <2>1, <2>2, <1>3, OwnSlots
<1>6. \A i \in 1..Len(jr) : jr[i] \in Slot /\ Kept({jr[i]}) \subseteq Slot
  <2>1. \A i \in 1..Len(jr) : jr[i] \in Slot
    BY <1>5
  <2>. QED
    BY <2>1, KeptIn
<1>7. DbTypes' /\ info' \in [1..MaxTx -> Infos]
  BY <1>1, <1>4 DEF DbTypes, HistTypes
<1>8. CASE w.goal = 0
  <2>1. /\ jr' = jr /\ jrDisk' = synced
        /\ w' = [w EXCEPT !.hdr = w.off, !.needSync = {}, !.state = "dbmod",
                          !.slot = 0]
    BY <1>8 DEF SyncHeader
  <2>2. JrTypes'
    <3>1. jrDisk' \in [1..Len(jr) -> SUBSET Slot]
      BY <2>1, <1>5, <1>6
    <3>2. jrOther' = {}
      BY <1>1
    <3>3. jrDisk' \in Seq(SUBSET Slot) /\ DOMAIN jrDisk' = DOMAIN SlotsOf(jr)
      BY <3>1, <1>5, SyncedTypes
    <3>. QED
      BY <3>2, <3>3, <2>1, <1>4 DEF JrTypes
  <2>3. /\ w' \in Locals /\ w'.owner = w.owner /\ w'.tx = w.tx /\ w'.ending = w.ending
        /\ w'.state = "dbmod" /\ w'.orig = w.orig /\ w'.inJournal = w.inJournal
        /\ w'.off = w.off /\ w'.hdr = w.off /\ w'.needSync = {} /\ w'.slot = 0
        /\ w'.goal = 0 /\ w'.mem = w.mem /\ w'.sp = w.sp /\ w'.sub = w.sub
        /\ w'.dirty = w.dirty
    <3>1. {} \in SUBSET Page /\ 0 \in Nat /\ "dbmod" \in WriteStates /\ w.off \in Nat
      BY <1>5 DEF WriteStates
    <3>. QED
      BY <3>1, <2>1, <1>3, <1>8 DEF Locals
  <2>4. JournalOk("flush", w', jr, m, n)
    <3>1. w.state # "locked"
      BY <1>3
    <3>. HIDE DEF n
    <3>. QED
      BY <3>1, <1>3, <1>4, <1>8, <2>3, SyncedJournal
  <2>5. RecordsOf(w', jr) = RecordsOf(w, jr)
    BY <2>3 DEF RecordsOf
  <2>6. DbOk(w', db, jr, m, n)
    <3>1. \A i \in RecordsOf(w, jr) : i <= w.off
      BY DEF RecordsOf
    <3>. QED
      BY <3>1, <1>3, <2>3, <2>5 DEF DbOk, Saved
  <2>7. MemOk("flush", w', db, m, n)
    BY <1>2, <1>3, <2>3, MemMoves
  <2>8. SavepointOk(w', jr, m, n)
    <3>1. w.state # "locked" /\ w'.state # "locked" /\ w.off > 0 /\ w.off \in Nat
      BY <1>3, <1>5, <2>3
    <3>. HIDE DEF n
    <3>. QED
      BY <3>1, <1>3, <2>3, <2>5, SyncSavepoint
  <2>9. TxOk("flush", w', db', jr', m, n)
    BY <2>1, <1>1, <1>3, <2>3, <2>4, <2>6, <2>7, <2>8 DEF TxOk
  <2>10. CommitOk("flush", w', info'[w.tx], CtrOf(committed))
    BY <1>1, <1>2, <1>3, <1>8, <2>3 DEF CommitOk
  <2>11. w'.state \in {"cachemod", "dbmod"}
    BY <2>3
  <2>. QED
    BY <1>1, <1>2, <1>3, <1>7, <2>2, <2>3, <2>9, <2>10, <2>11, ExclusiveStep DEF faultVars
<1>9. CASE w.goal # 0
  <2>1. /\ jr' = f
        /\ jrDisk' = [i \in DOMAIN jr \cup {next} |->
                        IF i = next THEN Kept(old \cup {h, Torn}) ELSE synced[i]]
        /\ w' = [w EXCEPT !.hdr = w.off, !.off = next, !.slot = next,
                          !.needSync = {}, !.state = "dbmod",
                          !.sp.iHdrOffset = IF w.sp.open /\ @ = 0 THEN w.off ELSE @]
    BY <1>9 DEF SyncHeader
  <2>2. Headed(w, jr, jr')
    <3>. HIDE DEF n
    <3>. QED
      BY <2>1, <1>3, <1>5, HeadedDoes
  <2>3. /\ jr' \in Seq(Slot) /\ jr' # NoFile /\ Len(jr') \in Nat /\ DOMAIN jr' = 1..Len(jr')
        /\ DOMAIN jr' = DOMAIN jr \cup {next}
    <3>1. DOMAIN jr' = DOMAIN jr \cup {next}
      BY <2>1
    <3>2. jr' \in Seq(Slot) /\ jr' # NoFile /\ Len(jr') \in Nat /\ DOMAIN jr' = 1..Len(jr')
      BY <2>2 DEF Headed
    <3>. QED
      BY <3>1, <3>2
  <2>4. JrTypes'
    <3>. DEFINE e(i) == IF i = next THEN Kept(old \cup {h, Torn}) ELSE Kept({jr[i]})
    <3>1. jrDisk' = [i \in 1..Len(jr') |-> e(i)]
      BY <2>1, <2>3, <1>5
    <3>2. ASSUME NEW i \in 1..Len(jr') PROVE e(i) \subseteq Slot
      <4>1. h \in Slot /\ Torn \in Slot /\ Zero \in Slot
        <5>1. w.orig \in 0..NPage /\ FALSE \in BOOLEAN /\ 0 \in Nat
          BY <1>3, LocalsHave
        <5>. QED
          BY <5>1, <1>3, SlotMade
      <4>2. old \subseteq Slot
        BY <4>1, <1>5, <1>6
      <4>3. i # next => i \in 1..Len(jr)
        BY <2>3, <1>5
      <4>4. Kept(old \cup {h, Torn}) \subseteq Slot
        <5>1. old \cup {h, Torn} \subseteq Slot
          BY <4>1, <4>2
        <5>. HIDE DEF old, h
        <5>. QED
          BY <5>1, KeptIn
      <4>. QED
        BY <4>3, <4>4, <1>6
    <3>. HIDE DEF e
    <3>3. jrDisk' \in [1..Len(jr') -> SUBSET Slot]
      BY <3>1, <3>2
    <3>4. jrOther' = {}
      BY <1>1
    <3>5. /\ jr' \in Journals /\ jrDisk' \in Seq(SUBSET Slot)
          /\ DOMAIN jrDisk' = DOMAIN SlotsOf(jr')
      BY <3>3, <2>3, SyncedTypes
    <3>. QED
      BY <3>4, <3>5 DEF JrTypes
  <2>5. /\ w' \in Locals /\ w'.owner = w.owner /\ w'.tx = w.tx /\ w'.ending = w.ending
        /\ w'.state = "dbmod" /\ w'.orig = w.orig /\ w'.inJournal = w.inJournal
        /\ w'.off = w.off + 1 /\ w'.hdr = w.off /\ w'.needSync = {} /\ w'.slot = w.off + 1
        /\ w'.goal = w.goal /\ w'.mem = w.mem /\ w'.sub = w.sub /\ w'.dirty = w.dirty
        /\ w'.sp.open = w.sp.open /\ w'.sp.nOrig = w.sp.nOrig /\ w'.sp.img = w.sp.img
        /\ w'.sp.iOffset = w.sp.iOffset /\ w'.sp.iSubRec = w.sp.iSubRec
        /\ w'.sp.in = w.sp.in
        /\ w'.sp.iHdrOffset = IF w.sp.open /\ w.sp.iHdrOffset = 0
                              THEN w.off ELSE w.sp.iHdrOffset
    <3>. DEFINE x == IF w.sp.open /\ w.sp.iHdrOffset = 0 THEN w.off ELSE w.sp.iHdrOffset
                sp == [w.sp EXCEPT !.iHdrOffset = x]
    <3>1. {} \in SUBSET Page /\ next \in Nat /\ "dbmod" \in WriteStates /\ w.off \in Nat
      BY <1>5 DEF WriteStates
    <3>2. w.sp \in Savepoints /\ x \in Nat
      <4>1. w.sp \in Savepoints
        BY <1>3, LocalsHave
      <4>. QED
        BY <4>1, <3>1 DEF Savepoints
    <3>3. w' = [[[w EXCEPT !.hdr = w.off, !.off = next, !.slot = next] EXCEPT
                  !.needSync = {}, !.state = "dbmod"] EXCEPT !.sp = sp]
      BY <2>1, <1>3 DEF Locals
    <3>. HIDE DEF x
    <3>4. /\ sp \in Savepoints /\ sp.open = w.sp.open /\ sp.nOrig = w.sp.nOrig
          /\ sp.img = w.sp.img /\ sp.iOffset = w.sp.iOffset /\ sp.iSubRec = w.sp.iSubRec
          /\ sp.in = w.sp.in /\ sp.iHdrOffset = x
      BY <3>2 DEF Savepoints
    <3>. HIDE DEF sp
    <3>5. [w EXCEPT !.hdr = w.off, !.off = next, !.slot = next] \in Locals
      BY <3>1, <1>3 DEF Locals
    <3>6. [[w EXCEPT !.hdr = w.off, !.off = next, !.slot = next] EXCEPT
                  !.needSync = {}, !.state = "dbmod"] \in Locals
      BY <3>1, <3>5 DEF Locals
    <3>7. w' \in Locals
      BY <3>3, <3>4, <3>6 DEF Locals
    <3>8. w'.sp = sp
      BY <3>3, <3>6 DEF Locals
    <3>9. /\ w'.owner = w.owner /\ w'.tx = w.tx /\ w'.ending = w.ending
          /\ w'.state = "dbmod" /\ w'.orig = w.orig /\ w'.inJournal = w.inJournal
          /\ w'.off = w.off + 1 /\ w'.hdr = w.off /\ w'.needSync = {} /\ w'.slot = w.off + 1
          /\ w'.goal = w.goal /\ w'.mem = w.mem /\ w'.sub = w.sub /\ w'.dirty = w.dirty
      BY <3>3, <1>3 DEF Locals
    <3>. QED
      BY <3>4, <3>7, <3>8, <3>9 DEF x
  <2>6. /\ JournalOk("flush", w', jr', m, n)
        /\ RecordsOf(w', jr') = RecordsOf(w, jr)
        /\ \A i \in RecordsOf(w, jr) : jr'[i] = jr[i]
    <3>1. w.state # "locked"
      BY <1>3
    <3>2. w \in Locals /\ jr \in Journals /\ JournalOk("jsync2", w, jr, m, n)
      BY <1>3, <1>4
    <3>3. /\ w'.goal = w.goal /\ w'.tx = w.tx /\ w'.orig = w.orig
          /\ w'.inJournal = w.inJournal /\ w'.off = w.off + 1 /\ w'.hdr = w.off
          /\ w'.needSync = {} /\ w'.state = "dbmod" /\ w'.slot = w.off + 1
      BY <2>5
    <3>. HIDE DEF n
    <3>4. JournalOk("flush", w', jr', m, n) /\ SameRecords(w, jr, w', jr')
      BY <3>1, <3>2, <3>3, <1>9, <2>2, NextHeaderJournal
    <3>. QED
      BY <3>4 DEF SameRecords
  <2>7. DbOk(w', db, jr', m, n)
    <3>1. \A i \in RecordsOf(w, jr) : i <= w.off
      BY DEF RecordsOf
    <3>. QED
      BY <3>1, <1>3, <2>5, <2>6 DEF DbOk, Saved
  <2>8. MemOk("flush", w', db, m, n)
    BY <1>2, <1>3, <2>5, MemMoves
  <2>9. SavepointOk(w', jr', m, n)
    <3>1. w.state # "locked" /\ w'.state # "locked" /\ w.off > 0 /\ w.off \in Nat
      BY <1>3, <1>5, <2>5
    <3>. HIDE DEF n
    <3>. QED
      BY <3>1, <1>3, <2>5, <2>6, SyncSavepoint
  <2>10. TxOk("flush", w', db', jr', m, n)
    BY <1>1, <1>3, <2>5, <2>6, <2>7, <2>8, <2>9 DEF TxOk
  <2>11. CommitOk("flush", w', info'[w.tx], CtrOf(committed))
    BY <1>1, <1>2, <1>3, <1>9, <2>5 DEF CommitOk
  <2>12. w'.state \in {"cachemod", "dbmod"}
    BY <2>5
  <2>. QED
    BY <1>1, <1>2, <1>3, <1>7, <2>4, <2>5, <2>10, <2>11, <2>12, ExclusiveStep DEF faultVars
<1>. QED
  BY <1>8, <1>9

\* The step to the end of the commit keeps the invariant.
LEMMA CommitPhaseTwoKeeps ==
  ASSUME IInv0, NEW c \in Conn, CommitPhaseTwo(c)
  PROVE  IInv0'
<1>. DEFINE m == committed
            n == SizeOf(committed)
<1>1. /\ pc[c] = "finish" /\ w' = [w EXCEPT !.ending = "commit"]
      /\ pc' = [pc EXCEPT ![c] = "finalize"]
      /\ UNCHANGED <<fileVars, held, cache, todo, histVars, faultVars>>
  BY DEF CommitPhaseTwo, Goto
<1>2. pc[c] \in OpenPcs \ {"write"} /\ "finalize" \notin OpenPcs /\ "finish" \in OpenPcs
      /\ "finalize" \notin SyncPcs /\ "finish" \notin SyncPcs
  BY <1>1 DEF OpenPcs, WritePcs, SyncPcs
<1>3. /\ InTx(c) /\ w.owner = c /\ w.ending = "none"
      /\ w.state \in {"cachemod", "dbmod"} /\ w \in Locals
      /\ held' = [held EXCEPT ![c] = EXCLUSIVE_LOCK]
      /\ \A d \in Conn \ {c} : held[d] = NO_LOCK
      /\ w.orig >= n /\ JournalOk("finish", w, jr, m, n) /\ DbOk(w, db, jr, m, n)
      /\ MemOk("finish", w, db, m, n)
      /\ CommitOk("finish", w, info[w.tx], CtrOf(committed))
  BY <1>1, <1>2, AtParts
<1>4. DbTypes /\ JrTypes /\ jr \in Journals /\ HistTypes /\ todo \subseteq DOMAIN SlotsOf(jr)
  BY DEF IInv0, TypeInv, JrTypes
<1>5. /\ w' \in Locals /\ w'.owner = w.owner /\ w'.tx = w.tx /\ w'.ending = "commit"
      /\ w'.state = w.state /\ SameTx(w, w') /\ w'.orig = w.orig /\ w'.goal = w.goal
      /\ w'.mem = w.mem /\ w'.dirty = w.dirty /\ w'.inJournal = w.inJournal
  <2>1. "commit" \in Endings
    BY DEF Endings
  <2>. QED
    BY <2>1, <1>1, <1>3 DEF Locals, SameTx
<1>6. StateOk("finish", w) /\ w.state = "dbmod"
  <2>1. StateOk("finish", w)
    BY <1>3 DEF JournalOk
  <2>. QED
    BY <2>1 DEF StateOk
<1>7. StateOk("finalize", w')
  BY <1>5, <1>6 DEF StateOk, SyncPcs, SameTx
<1>8. JournalOk("finalize", w', jr, m, n)
  <2>1. w.state # "locked"
    BY <1>3
  <2>. HIDE DEF n
  <2>. QED
    BY <2>1, <1>2, <1>3, <1>4, <1>5, <1>7, JournalSame
<1>9. DbOk(w', db, jr, m, n)
  BY <1>3, <1>5, DbSame
<1>10. MemOk("finalize", w', db, m, n)
  BY <1>2, <1>3, <1>5, MemMoves
<1>11. /\ committed' = committed /\ maybe' = maybe /\ nTx' = nTx /\ info' = info
       /\ nDeaths' = nDeaths /\ nLosses' = nLosses
       /\ jr' = jr /\ db' = db /\ todo' = todo /\ cache' = cache
       /\ jrDisk' = jrDisk /\ jrOther' = jrOther /\ dbDisk' = dbDisk
  BY <1>1 DEF histVars, faultVars, fileVars
<1>12. TxOk("finalize", w', db', jr', m, n)
  BY <1>2, <1>3, <1>5, <1>8, <1>9, <1>10, <1>11 DEF TxOk
<1>13. CommitOk("finalize", w', info'[w.tx], CtrOf(committed))
  BY <1>3, <1>5, <1>11 DEF CommitOk
<1>14. DbTypes' /\ JrTypes' /\ info' \in [1..MaxTx -> Infos]
           /\ todo' \subseteq DOMAIN SlotsOf(jr')
  BY <1>4, <1>11 DEF DbTypes, JrTypes, HistTypes
<1>15. pc'[c] = "finalize" /\ held'[c] = EXCLUSIVE_LOCK
  BY <1>1, <1>3 DEF IInv0, TypeInv, ConnTypes
<1>16. "finalize" \in EndPcs /\ "finalize" \notin WritePcs
  BY DEF EndPcs, WritePcs
<1>17. LockOf(c)'
  BY <1>15, <1>16 DEF LockOf, RestPcs, EXCLUSIVE_LOCK, NO_LOCK, RESERVED_LOCK
<1>18. OwnerOf(c)'
  <2>1. todo = {}
    BY <1>2, AtOpen
  <2>2. w'.ending # "hot" /\ w'.ending # "none" /\ w'.state # "none" /\ w'.state # "locked"
        /\ w'.owner = c /\ w'.ending = "commit" /\ w'.state = "dbmod" /\ todo' = {}
    BY <2>1, <1>3, <1>5, <1>6, <1>11
  <2>. QED
    BY <2>2, <1>15, <1>16 DEF OwnerOf
<1>19. EXCLUSIVE_LOCK \in RESERVED_LOCK..EXCLUSIVE_LOCK
  BY DEF EXCLUSIVE_LOCK, RESERVED_LOCK
<1>20. w'.owner = c /\ w'.tx = w.tx /\ w'.state # "locked" /\ w'.ending # "rollback"
  BY <1>3, <1>5, <1>6
<1>. QED
  BY <1>1, <1>3, <1>5, <1>11, <1>12, <1>13, <1>14, <1>17, <1>18, <1>19, <1>20, OpenStep

-----------------------------------------------------------------------------
(* Steps of readers, and steps after which the locals are nobody's *)

\* The types of what says that there is nothing.
LEMMA NoWriteTypes ==
  /\ NoImage \in Image /\ NoSavepoint \in Savepoints /\ NoWrite \in Locals
  /\ NoCache \in [img : Image, ctr : Nat] /\ NoCache.ctr = 0
  /\ NoWrite.owner = NoConn /\ NoWrite.state = "none" /\ NoWrite.ending = "none"
<1>1. NoImage \in Image
  BY PagerAssumption DEF NoImage, Image, Content, Absent, Garbage
<1>2. NoSavepoint \in Savepoints
  <2>1. 0 \in 0..NPage /\ FALSE \in BOOLEAN /\ {} \in SUBSET Page
    BY PagerAssumption
  <2>. QED
    BY <1>1, <2>1 DEF NoSavepoint, Savepoints
<1>3. NoWrite \in Locals
  <2>1. /\ 0 \in 0..NPage /\ 0 \in 0..MaxTx /\ {} \in SUBSET Page /\ "none" \in WriteStates
        /\ "none" \in Endings /\ <<>> \in Seq(SubRecs)
    BY PagerAssumption DEF WriteStates, Endings
  <2>. QED
    BY <1>1, <1>2, <2>1 DEF NoWrite, Locals
<1>4. NoCache \in [img : Image, ctr : Nat] /\ NoCache.ctr = 0
  BY <1>1 DEF NoCache
<1>. QED
  BY <1>1, <1>2, <1>3, <1>4 DEF NoWrite

\* A step that leaves the journal alone and ends without RESERVED keeps the
\* invariant.
LEMMA QuietStep ==
  ASSUME IInv0, NEW c \in Conn, NEW l \in RestPcs \cup {"open"},
         NEW k \in {NO_LOCK, SHARED_LOCK}, (l = "open") <=> (k = NO_LOCK),
         pc' = [pc EXCEPT ![c] = l], held' = [held EXCEPT ![c] = k],
         k = SHARED_LOCK => \A d \in Conn \ {c} : held[d] # EXCLUSIVE_LOCK,
         cache' \in [Conn -> [img : Image, ctr : Nat]],
         \A d \in Conn \ {c} : cache'[d] = cache[d],
         jr' = jr, jrDisk' = jrDisk, jrOther' = jrOther,
         info' = info, committed' = committed, maybe' = maybe, nTx' = nTx,
         nDeaths' \in Nat, nLosses' \in Nat, DbTypes',
         db' = db \/ FileInv',
         \/ w' = w /\ todo' = todo /\ ~Active(c) /\ db' = db
         \/ w' = NoWrite /\ todo' = {} /\ \A d \in Conn \ {c} : ~Active(d),
         CacheOf(c)', ColdOf(c)'
  PROVE  IInv0'
<1>1. TypeInv /\ ControlInv /\ ImageInv /\ FileInv /\ ReadInv /\ InitInv /\ WorkInv
  BY DEF IInv0
<1>2. /\ \A d \in Conn \ {c} : pc'[d] = pc[d] /\ held'[d] = held[d]
      /\ pc'[c] = l /\ held'[c] = k /\ ConnTypes
      /\ held \in [Conn -> NO_LOCK..EXCLUSIVE_LOCK] /\ pc \in [Conn -> Pcs]
  BY <1>1 DEF TypeInv, ConnTypes
<1>3. l \in Pcs /\ l \notin WritePcs \cup EndPcs /\ k \in NO_LOCK..EXCLUSIVE_LOCK
      /\ k < RESERVED_LOCK /\ k # EXCLUSIVE_LOCK /\ l \notin LateEndPcs
  BY PcKinds DEF NO_LOCK, SHARED_LOCK, RESERVED_LOCK, EXCLUSIVE_LOCK
<1>4. TypeInv'
  <2>1. ConnTypes'
    BY <1>2, <1>3 DEF ConnTypes
  <2>2. HistTypes'
    BY <1>1 DEF TypeInv, HistTypes
  <2>3. JrTypes'
    BY <1>1 DEF TypeInv, JrTypes
  <2>4. w' \in Locals /\ todo' \subseteq DOMAIN SlotsOf(jr)
    BY <1>1, NoWriteTypes DEF TypeInv
  <2>. QED
    BY <2>1, <2>2, <2>3, <2>4 DEF TypeInv
<1>5. \A m \in maybe : SizeOf(m)' = SizeOf(m) /\ CtrOf(m)' = CtrOf(m)
  BY DEF SizeOf, CtrOf, InfoOf
<1>6. SizeOf(committed)' = SizeOf(committed) /\ CtrOf(committed)' = CtrOf(committed)
  BY DEF SizeOf, CtrOf, InfoOf
<1>7. ImageInv'
  BY <1>1, <1>5 DEF ImageInv, Whole
<1>8. FileInv'
  BY <1>1, <1>6 DEF FileInv
<1>9. InitInv'
  BY <1>1 DEF InitInv
<1>10. ControlInv'
  <2>1. \A d \in Conn \ {c} :
           /\ k >= RESERVED_LOCK => held[d] < RESERVED_LOCK
           /\ held[d] >= RESERVED_LOCK => k < RESERVED_LOCK
           /\ k = EXCLUSIVE_LOCK => held[d] = NO_LOCK
           /\ held[d] = EXCLUSIVE_LOCK => k = NO_LOCK
    BY <1>3 DEF NO_LOCK, SHARED_LOCK, RESERVED_LOCK
  <2>2. ~(Active(c)')
    BY <1>2, <1>3 DEF Active
  <2>3. LockOf(c)'
    <3>1. l # "write" /\ l \notin (WritePcs \ {"write"}) \cup {"finish"} /\ l \notin EndPcs
      BY <1>3 DEF WritePcs, EndPcs
    <3>2. l \in RestPcs => l # "open"
      BY DEF RestPcs
    <3>. QED
      BY <3>1, <3>2, <2>2, <1>2 DEF LockOf
  <2>4. OwnerOf(c)'
    BY <2>2 DEF OwnerOf
  <2>. QED
    BY <2>1, <2>3, <2>4, <1>1, <1>2, <1>3, ControlStep
<1>11. ReadInv'
  <2>1. ASSUME NEW d \in Conn \ {c} PROVE CacheOf(d)' /\ ColdOf(d)'
    <3>1. CacheOf(d) /\ ColdOf(d)
      BY <1>1 DEF ReadInv
    <3>2. ColdOf(d)'
      BY <3>1, <1>2 DEF ColdOf
    <3>3. (Active(d)') <=> Active(d)
      BY <1>2 DEF Active
    <3>a. /\ cache'[d] = cache[d] /\ pc'[d] = pc[d] /\ committed' = committed
          /\ CtrOf(committed)' = CtrOf(committed)
      BY <1>2, <1>6
    <3>b. CacheOf(d)
      BY <3>1
    <3>4. CASE w' = w
      BY <3>a, <3>b, <3>2, <3>3, <3>4 DEF CacheOf
    <3>5. CASE ~Active(d)
      BY <3>a, <3>b, <3>2, <3>3, <3>5 DEF CacheOf
    <3>. QED
      BY <3>2, <3>4, <3>5
  <2>. QED
    BY <2>1 DEF ReadInv
<1>12. WorkInv'
  <2>1. ASSUME NEW d \in Conn, ~(Active(d)') PROVE TxOfInv(d)' /\ HotInv(d)' /\ LateInv(d)'
    <3>1. pc'[d] \notin OpenPcs \cup {"play", "finalize"} \cup LateEndPcs
      BY <2>1, PcKinds DEF Active
    <3>. QED
      BY <2>1, <3>1 DEF TxOfInv, HotInv, LateInv, InTx
  <2>2. ~(Active(c)')
    BY <1>2, <1>3 DEF Active
  <2>3. CASE w' = w /\ todo' = todo /\ ~Active(c) /\ db' = db
    <3>1. ASSUME NEW d \in Conn \ {c} PROVE TxOfInv(d)' /\ HotInv(d)' /\ LateInv(d)'
      <4>1. TxOfInv(d) /\ HotInv(d) /\ LateInv(d) /\ pc'[d] = pc[d]
        BY <1>1, <1>2 DEF WorkInv
      <4>2. TxOfInv(d)'
        BY <4>1, <2>3, <1>6 DEF TxOfInv, InTx
      <4>3. HotInv(d)'
        BY <4>1, <2>3, <1>6 DEF HotInv, Active
      <4>4. LateInv(d)'
        BY <4>1, <2>3, <1>6 DEF LateInv
      <4>. QED
        BY <4>2, <4>3, <4>4
    <3>. QED
      BY <3>1, <2>1, <2>2 DEF WorkInv
  <2>4. CASE \A d \in Conn \ {c} : ~Active(d)
    <3>1. \A d \in Conn : ~(Active(d)')
      BY <2>2, <2>4, <1>2 DEF Active
    <3>. QED
      BY <3>1, <2>1 DEF WorkInv
  <2>. QED
    BY <2>3, <2>4
<1>. QED
  BY <1>4, <1>7, <1>8, <1>9, <1>10, <1>11, <1>12 DEF IInv0

\* What a step of a reader that changes no file leaves alone.
LEMMA ReaderStep ==
  ASSUME IInv0, NEW c \in Conn, pc[c] \in RestPcs \cup {"open"},
         NEW l \in RestPcs \cup {"open"},
         NEW k \in {NO_LOCK, SHARED_LOCK}, (l = "open") <=> (k = NO_LOCK),
         pc' = [pc EXCEPT ![c] = l], held' = [held EXCEPT ![c] = k],
         k = SHARED_LOCK => \A d \in Conn \ {c} : held[d] # EXCLUSIVE_LOCK,
         UNCHANGED <<fileVars, w, todo, histVars, faultVars>>,
         cache' = cache, l # "reader", l = "validate" => ~Hot(jr)
  PROVE  IInv0'
<1>1. /\ TypeInv /\ ConnTypes /\ DbTypes /\ HistTypes /\ CacheOf(c)
  BY DEF IInv0, TypeInv, ReadInv
<1>2. pc'[c] = l /\ held'[c] = k
  BY <1>1 DEF ConnTypes
<1>3. ~Active(c) /\ ~(Active(c)')
  BY <1>2, PcKinds DEF Active
<1>4. /\ db' = db /\ jr' = jr /\ jrDisk' = jrDisk /\ jrOther' = jrOther /\ dbDisk' = dbDisk
      /\ info' = info /\ committed' = committed /\ maybe' = maybe /\ nTx' = nTx
      /\ nDeaths' = nDeaths /\ nLosses' = nLosses /\ w' = w /\ todo' = todo
  BY DEF fileVars, histVars, faultVars
<1>5. CacheOf(c)'
  <2>1. CtrOf(committed)' = CtrOf(committed)
    BY <1>4 DEF CtrOf, InfoOf
  <2>. QED
    BY <2>1, <1>1, <1>2, <1>3, <1>4 DEF CacheOf
<1>6. ColdOf(c)'
  <2>1. k \notin {RESERVED_LOCK, PENDING_LOCK} /\ l \notin LateEndPcs
    BY DEF NO_LOCK, SHARED_LOCK, RESERVED_LOCK, PENDING_LOCK, RestPcs, LateEndPcs
  <2>. QED
    BY <2>1, <1>2, <1>4 DEF ColdOf
<1>7. DbTypes' /\ nDeaths' \in Nat /\ nLosses' \in Nat
      /\ cache' \in [Conn -> [img : Image, ctr : Nat]]
  BY <1>1, <1>4 DEF DbTypes, HistTypes, ConnTypes
<1>8. \A d \in Conn \ {c} : cache'[d] = cache[d]
  OBVIOUS
<1>. QED
  BY <1>3, <1>4, <1>5, <1>6, <1>7, <1>8, QuietStep

\* A reader holds a shared lock, so that nobody holds an exclusive one.
LEMMA AtRest ==
  ASSUME IInv0, NEW c \in Conn, pc[c] \in RestPcs
  PROVE  /\ held' = held => held' = [held EXCEPT ![c] = SHARED_LOCK]
         /\ \A d \in Conn \ {c} : held[d] # EXCLUSIVE_LOCK
<1>1. held[c] = SHARED_LOCK /\ held \in [Conn -> NO_LOCK..EXCLUSIVE_LOCK]
  BY DEF IInv0, ControlInv, LockOf, TypeInv, ConnTypes
<1>2. \A d \in Conn \ {c} : held[d] # EXCLUSIVE_LOCK
  BY <1>1 DEF IInv0, ControlInv, LockInv, NO_LOCK, SHARED_LOCK
<1>. QED
  BY <1>1, <1>2

\* Taking SHARED keeps the invariant.
LEMMA SharedLockKeeps ==
  ASSUME IInv0, NEW c \in Conn, SharedLock(c)
  PROVE  IInv0'
<1>1. /\ pc[c] = "open" /\ held' = [held EXCEPT ![c] = SHARED_LOCK]
      /\ pc' = [pc EXCEPT ![c] = "exists"]
      /\ UNCHANGED <<fileVars, cache, w, todo, histVars, faultVars>>
  BY DEF SharedLock, Lock, Goto
<1>2. \A d \in Conn \ {c} : held[d] # EXCLUSIVE_LOCK
  BY DEF SharedLock, Shareable, Others, PENDING_LOCK, EXCLUSIVE_LOCK
<1>3. "exists" \in RestPcs /\ SHARED_LOCK # NO_LOCK
  BY DEF RestPcs, SHARED_LOCK, NO_LOCK
<1>. QED
  BY <1>1, <1>2, <1>3, ReaderStep

\* Looking for a journal keeps the invariant.
LEMMA JournalExistsKeeps ==
  ASSUME IInv0, NEW c \in Conn, JournalExists(c)
  PROVE  IInv0'
<1>. DEFINE l == IF jr = NoFile THEN "validate" ELSE "reserved"
<1>1. /\ pc[c] = "exists" /\ pc' = [pc EXCEPT ![c] = l]
      /\ UNCHANGED <<fileVars, held, cache, w, todo, histVars, faultVars>>
  BY DEF JournalExists, Goto
<1>2. pc[c] \in RestPcs /\ l \in RestPcs /\ SHARED_LOCK # NO_LOCK /\ l # "open" /\ l # "reader"
  BY <1>1 DEF RestPcs, SHARED_LOCK, NO_LOCK
<1>3. l = "validate" => ~Hot(jr)
  BY DEF Hot
<1>. QED
  BY <1>1, <1>2, <1>3, AtRest, ReaderStep

\* Looking for a RESERVED lock keeps the invariant.
LEMMA CheckReservedKeeps ==
  ASSUME IInv0, NEW c \in Conn, CheckReserved(c)
  PROVE  IInv0'
<1>. DEFINE l == IF ReservedElsewhere(c) THEN "validate" ELSE "first"
<1>1. /\ pc[c] = "reserved" /\ pc' = [pc EXCEPT ![c] = l]
      /\ UNCHANGED <<fileVars, held, cache, w, todo, histVars, faultVars>>
  BY DEF CheckReserved, Goto
<1>2. pc[c] \in RestPcs /\ l \in RestPcs /\ SHARED_LOCK # NO_LOCK /\ l # "open" /\ l # "reader"
  BY <1>1 DEF RestPcs, SHARED_LOCK, NO_LOCK
<1>3. l = "validate" => ~Hot(jr)
  <2>. SUFFICES ASSUME ReservedElsewhere(c) PROVE ~Hot(jr)
    OBVIOUS
  <2>1. PICK d \in Conn : held[d] \in {RESERVED_LOCK, PENDING_LOCK}
    BY DEF ReservedElsewhere, Others
  <2>. QED
    BY <2>1 DEF IInv0, ReadInv, ColdOf
<1>. QED
  BY <1>1, <1>2, <1>3, AtRest, ReaderStep

\* Reading the first byte of the journal keeps the invariant.
LEMMA ReadFirstByteKeeps ==
  ASSUME IInv0, NEW c \in Conn, ReadFirstByte(c)
  PROVE  IInv0'
<1>. DEFINE l == IF jr = NoFile \/ FirstByte(jr) THEN "exclusive" ELSE "validate"
<1>1. /\ pc[c] = "first" /\ pc' = [pc EXCEPT ![c] = l]
      /\ UNCHANGED <<fileVars, held, cache, w, todo, histVars, faultVars>>
  BY DEF ReadFirstByte, Goto
<1>2. pc[c] \in RestPcs /\ l \in RestPcs /\ SHARED_LOCK # NO_LOCK /\ l # "open" /\ l # "reader"
  BY <1>1 DEF RestPcs, SHARED_LOCK, NO_LOCK
<1>3. l = "validate" => ~Hot(jr)
  <2>. SUFFICES ASSUME Hot(jr) PROVE FirstByte(jr)
    OBVIOUS
  <2>1. jr # NoFile /\ 1 <= Len(jr) /\ jr[1].kind = "hdr" /\ jr[1].magic
    BY DEF Hot, IsHeader
  <2>2. jr # <<>>
    BY <2>1
  <2>3. jr[1] # Zero
    BY <2>1, SlotFields
  <2>. QED
    BY <2>1, <2>2, <2>3 DEF FirstByte
<1>. QED
  BY <1>1, <1>2, <1>3, AtRest, ReaderStep

\* A reader that does not get EXCLUSIVE for a recovery keeps the invariant.
LEMMA HotBusyKeeps ==
  ASSUME IInv0, NEW c \in Conn, HotBusy(c)
  PROVE  IInv0'
<1>1. /\ pc[c] = "exclusive" /\ held' = [held EXCEPT ![c] = NO_LOCK]
      /\ pc' = [pc EXCEPT ![c] = "open"]
      /\ UNCHANGED <<fileVars, cache, w, todo, histVars, faultVars>>
  BY DEF HotBusy, Lock, Goto
<1>2. pc[c] \in RestPcs /\ SHARED_LOCK # NO_LOCK
  BY <1>1 DEF RestPcs, SHARED_LOCK, NO_LOCK
<1>. QED
  BY <1>1, <1>2, ReaderStep

\* A reader that finds the hot journal gone keeps the invariant.
LEMMA HotGoneKeeps ==
  ASSUME IInv0, NEW c \in Conn, HotGone(c)
  PROVE  IInv0'
<1>1. /\ pc[c] = "exclusive" /\ pc' = [pc EXCEPT ![c] = "validate"] /\ jr = NoFile
      /\ UNCHANGED <<fileVars, held, cache, w, todo, histVars, faultVars>>
  BY DEF HotGone, Goto
<1>2. pc[c] \in RestPcs /\ "validate" \in RestPcs /\ SHARED_LOCK # NO_LOCK
  BY <1>1 DEF RestPcs, SHARED_LOCK, NO_LOCK
<1>3. ~Hot(jr)
  BY <1>1 DEF Hot
<1>. QED
  BY <1>1, <1>2, <1>3, AtRest, ReaderStep

\* The end of a read keeps the invariant.
LEMMA UnlockKeeps ==
  ASSUME IInv0, NEW c \in Conn, Unlock(c)
  PROVE  IInv0'
<1>1. /\ pc[c] = "reader" /\ held' = [held EXCEPT ![c] = NO_LOCK]
      /\ pc' = [pc EXCEPT ![c] = "open"]
      /\ UNCHANGED <<fileVars, cache, w, todo, histVars, faultVars>>
  BY DEF Unlock, Lock, Goto
<1>2. pc[c] \in RestPcs /\ SHARED_LOCK # NO_LOCK
  BY <1>1 DEF RestPcs, SHARED_LOCK, NO_LOCK
<1>. QED
  BY <1>1, <1>2, ReaderStep

\* A database file without a hot journal holds the last committed image.
LEMMA ColdFile ==
  ASSUME IInv0, ~Hot(jr)
  PROVE  /\ Agree(db, committed, SizeOf(committed))
         /\ InfoOf(db[1]).ctr = CtrOf(committed) /\ InfoOf(db[1]).size = SizeOf(committed)
         /\ ImageIn(db) = committed
<1>. DEFINE n == SizeOf(committed)
<1>1. n \in Page /\ Prefix(committed, n) /\ committed \in Image /\ db \in Image
  BY Started DEF IInv0, TypeInv, DbTypes
<1>2. \A p \in Page : p <= n => db[p] = committed[p]
  BY DEF IInv0, FileInv, Covers, Undoes
<1>3. db[1] = committed[1]
  <2>1. 1 \in Page /\ 1 <= n
    BY <1>1, PagerAssumption DEF Page
  <2>. QED
    BY <2>1, <1>2
<1>4. InfoOf(db[1]).size = n /\ InfoOf(db[1]).ctr = CtrOf(committed)
  BY <1>3 DEF SizeOf, CtrOf
<1>5. ImageIn(db) = [p \in Page |-> IF p <= n THEN db[p] ELSE Absent]
  BY <1>4 DEF ImageIn
<1>6. \A p \in Page : committed[p] = IF p <= n THEN db[p] ELSE Absent
  BY <1>1, <1>2 DEF Prefix
<1>7. ImageIn(db) = committed
  <2>1. committed = [p \in Page |-> committed[p]]
    BY <1>1 DEF Image
  <2>. HIDE DEF n
  <2>. QED
    BY <2>1, <1>5, <1>6
<1>. QED
  BY <1>2, <1>4, <1>7 DEF Agree

\* A reader that compares its cache with the change counter keeps the
\* invariant.
LEMMA ValidateKeeps ==
  ASSUME IInv0, NEW c \in Conn, Validate(c)
  PROVE  IInv0'
<1>. DEFINE new == [img |-> ImageIn(db), ctr |-> InfoOf(db[1]).ctr]
<1>1. /\ pc[c] = "validate" /\ pc' = [pc EXCEPT ![c] = "reader"]
      /\ cache' = IF CacheValid(c) THEN cache ELSE [cache EXCEPT ![c] = new]
      /\ UNCHANGED <<fileVars, held, w, todo, histVars, faultVars>>
  BY DEF Validate, Goto
<1>2. pc[c] \in RestPcs /\ "reader" \in RestPcs /\ SHARED_LOCK # NO_LOCK
  BY <1>1 DEF RestPcs, SHARED_LOCK, NO_LOCK
<1>3. CacheOf(c) /\ ColdOf(c) /\ TypeInv
  BY DEF IInv0, ReadInv
<1>4. ~Hot(jr)
  BY <1>1, <1>3 DEF ColdOf
<1>5. InfoOf(db[1]).ctr = CtrOf(committed) /\ ImageIn(db) = committed
  BY <1>4, ColdFile
<1>6. CtrOf(committed) \in Nat /\ CtrOf(committed) > 0 /\ committed \in Image
  BY Started
<1>7. new \in [img : Image, ctr : Nat] /\ new.img = committed /\ new.ctr = CtrOf(committed)
  BY <1>5, <1>6
<1>. HIDE DEF new
<1>8. CacheValid(c) => cache[c].img = committed /\ cache[c].ctr = CtrOf(committed)
  BY <1>3, <1>5 DEF CacheValid, CacheOf
<1>9. /\ cache' \in [Conn -> [img : Image, ctr : Nat]]
      /\ \A d \in Conn \ {c} : cache'[d] = cache[d]
      /\ cache'[c].img = committed /\ cache'[c].ctr = CtrOf(committed)
  BY <1>1, <1>3, <1>7, <1>8 DEF TypeInv, ConnTypes
<1>10. /\ db' = db /\ jr' = jr /\ jrDisk' = jrDisk /\ jrOther' = jrOther /\ dbDisk' = dbDisk
      /\ info' = info /\ committed' = committed /\ maybe' = maybe /\ nTx' = nTx
      /\ nDeaths' = nDeaths /\ nLosses' = nLosses /\ w' = w /\ todo' = todo
  BY <1>1 DEF fileVars, histVars, faultVars
<1>11. CacheOf(c)'
  <2>1. CtrOf(committed)' = CtrOf(committed)
    BY <1>10 DEF CtrOf, InfoOf
  <2>. QED
    BY <2>1, <1>6, <1>9, <1>10 DEF CacheOf
<1>12. ColdOf(c)'
  BY <1>4, <1>10 DEF ColdOf
<1>13. DbTypes' /\ nDeaths' \in Nat /\ nLosses' \in Nat /\ ~Active(c)
  BY <1>2, <1>3, <1>10, PcKinds DEF DbTypes, HistTypes, TypeInv, Active
<1>14. /\ held' = [held EXCEPT ![c] = SHARED_LOCK]
       /\ \A d \in Conn \ {c} : held[d] # EXCLUSIVE_LOCK
  BY <1>1, <1>2, AtRest
<1>. QED
  BY <1>1, <1>2, <1>9, <1>10, <1>11, <1>12, <1>13, <1>14, QuietStep

-----------------------------------------------------------------------------
(* A process dies; a transaction begins, or ends before it has a journal *)

\* Whoever has the locals is at work.
LEMMA OwnerActive ==
  ASSUME ControlInv, NEW c \in Conn, w.owner = c
  PROVE  Active(c)
<1>1. NoConn # c
  BY PagerAssumption
<1>2. \E d \in Conn : Active(d)
  BY <1>1, NoWriteTypes DEF ControlInv, IdleInv
<1>3. PICK d \in Conn : Active(d)
  BY <1>2
<1>4. w.owner \in {d, NoConn}
  BY <1>3 DEF ControlInv, OwnerOf
<1>. QED
  BY <1>1, <1>3, <1>4

\* Working and Active say the same.
LEMMA WorkingActive ==
  ASSUME ControlInv, NEW c \in Conn
  PROVE  Working(c) <=> Active(c)
<1>1. ASSUME Active(c) PROVE Working(c)
  <2>1. CASE pc[c] \in EndPcs
    BY <2>1 DEF Working
  <2>2. CASE pc[c] \in WritePcs
    <3>1. w.ending = "none"
      BY <1>1, <2>2 DEF ControlInv, OwnerOf
    <3>2. w.owner = c
      BY <1>1, <3>1 DEF ControlInv, OwnerOf
    <3>. QED
      BY <3>2 DEF Working
  <2>. QED
    BY <1>1, <2>1, <2>2 DEF Active
<1>2. ASSUME Working(c) PROVE Active(c)
  BY <1>2, OwnerActive DEF Working, Active
<1>. QED
  BY <1>1, <1>2

\* The death of a process keeps the invariant: the journal recovers the image
\* that the transaction started from.
LEMMA DieKeeps ==
  ASSUME IInv0, NEW c \in Conn, Die(c)
  PROVE  IInv0'
<1>1. /\ nDeaths' = nDeaths + 1 /\ held' = [held EXCEPT ![c] = NO_LOCK]
      /\ pc' = [pc EXCEPT ![c] = "open"] /\ cache' = [cache EXCEPT ![c] = NoCache]
      /\ w' = IF Working(c) THEN NoWrite ELSE w
      /\ todo' = IF Working(c) THEN {} ELSE todo
      /\ UNCHANGED <<fileVars, histVars, nLosses>>
  BY DEF Die, Lock, Goto
<1>2. ControlInv /\ TypeInv /\ ConnTypes /\ HistTypes /\ DbTypes
  BY DEF IInv0, TypeInv
<1>3. /\ db' = db /\ jr' = jr /\ jrDisk' = jrDisk /\ jrOther' = jrOther /\ dbDisk' = dbDisk
      /\ info' = info /\ committed' = committed /\ maybe' = maybe /\ nTx' = nTx
      /\ nLosses' = nLosses
  BY <1>1 DEF fileVars, histVars
<1>4. /\ cache' \in [Conn -> [img : Image, ctr : Nat]]
      /\ \A d \in Conn \ {c} : cache'[d] = cache[d]
      /\ cache'[c] = NoCache /\ pc'[c] = "open" /\ held'[c] = NO_LOCK
  BY <1>1, <1>2, NoWriteTypes DEF ConnTypes
<1>5. CacheOf(c)'
  <2>1. ~(Active(c)')
    BY <1>4 DEF Active, WritePcs, EndPcs
  <2>. QED
    BY <2>1, <1>4 DEF CacheOf
<1>6. ColdOf(c)'
  BY <1>4 DEF ColdOf, LateEndPcs, NO_LOCK, RESERVED_LOCK, PENDING_LOCK
<1>7. nDeaths' \in Nat /\ nLosses' \in Nat /\ DbTypes'
  BY <1>1, <1>2, <1>3 DEF HistTypes, DbTypes
<1>8. \/ w' = w /\ todo' = todo /\ ~Active(c) /\ db' = db
      \/ w' = NoWrite /\ todo' = {} /\ \A d \in Conn \ {c} : ~Active(d)
  BY <1>1, <1>2, <1>3, WorkingActive, OneActive
<1>9. NO_LOCK # SHARED_LOCK
  BY DEF NO_LOCK, SHARED_LOCK
<1>. QED
  BY <1>1, <1>3, <1>4, <1>5, <1>6, <1>7, <1>8, <1>9, QuietStep

\* The end of a transaction that has changed nothing keeps the invariant.
LEMMA RollbackNothingKeeps ==
  ASSUME IInv0, NEW c \in Conn, RollbackNothing(c)
  PROVE  IInv0'
<1>1. /\ pc[c] = "write" /\ w.owner = c /\ w.state = "locked" /\ w' = NoWrite
      /\ held' = [held EXCEPT ![c] = SHARED_LOCK]
      /\ pc' = [pc EXCEPT ![c] = "reader"]
      /\ UNCHANGED <<fileVars, cache, todo, histVars, faultVars>>
  BY DEF RollbackNothing, Lock, Goto
<1>2. ControlInv /\ TypeInv /\ ConnTypes /\ HistTypes /\ DbTypes /\ CacheOf(c) /\ ColdOf(c)
  BY DEF IInv0, TypeInv, ReadInv
<1>3. /\ db' = db /\ jr' = jr /\ jrDisk' = jrDisk /\ jrOther' = jrOther /\ dbDisk' = dbDisk
      /\ info' = info /\ committed' = committed /\ maybe' = maybe /\ nTx' = nTx
      /\ nDeaths' = nDeaths /\ nLosses' = nLosses
  BY <1>1 DEF fileVars, histVars, faultVars
<1>4. w.ending = "none" /\ todo = {} /\ held[c] \in {RESERVED_LOCK, PENDING_LOCK} /\ InTx(c)
  <2>1. /\ w.ending = "none" /\ todo = {} /\ (held[c] = EXCLUSIVE_LOCK => w.state = "dbmod")
        /\ held[c] \in RESERVED_LOCK..EXCLUSIVE_LOCK /\ InTx(c)
    BY <1>1, AtWrite
  <2>. QED
    BY <2>1, <1>1 DEF RESERVED_LOCK, PENDING_LOCK, EXCLUSIVE_LOCK
<1>5. Active(c) /\ \A d \in Conn \ {c} : ~Active(d) /\ held[d] < RESERVED_LOCK
  BY <1>4, TxFacts
<1>6. pc'[c] = "reader" /\ held'[c] = SHARED_LOCK /\ cache' = cache
  BY <1>1, <1>2 DEF ConnTypes
<1>7. CacheOf(c)'
  <2>1. cache[c].img = committed /\ cache[c].ctr = CtrOf(committed)
    BY <1>2, <1>4, <1>5 DEF CacheOf
  <2>2. CtrOf(committed)' = CtrOf(committed)
    BY <1>3 DEF CtrOf, InfoOf
  <2>3. CtrOf(committed) \in Nat /\ CtrOf(committed) > 0
    BY Started
  <2>. QED
    BY <2>1, <2>2, <2>3, <1>3, <1>6 DEF CacheOf
<1>8. ColdOf(c)'
  BY <1>2, <1>3, <1>4 DEF ColdOf
<1>9. nDeaths' \in Nat /\ nLosses' \in Nat /\ DbTypes' /\ todo' = {}
      /\ cache' \in [Conn -> [img : Image, ctr : Nat]]
  BY <1>1, <1>2, <1>3, <1>4, <1>6 DEF HistTypes, DbTypes, ConnTypes
<1>10. "reader" \in RestPcs /\ NO_LOCK # SHARED_LOCK
      /\ \A d \in Conn \ {c} : held[d] # EXCLUSIVE_LOCK
  BY <1>5 DEF NO_LOCK, SHARED_LOCK, RestPcs, RESERVED_LOCK, EXCLUSIVE_LOCK
<1>11. (\A d \in Conn \ {c} : cache'[d] = cache[d]) /\ (\A d \in Conn \ {c} : ~Active(d))
  BY <1>5, <1>6
<1>. QED
  BY <1>1, <1>3, <1>7, <1>8, <1>9, <1>10, <1>11, QuietStep

\* The start of a transaction keeps the invariant.
LEMMA PagerBeginKeeps ==
  ASSUME IInv0, NEW c \in Conn, PagerBegin(c)
  PROVE  IInv0'
<1>. DEFINE m == committed
            n == SizeOf(committed)
<1>1. /\ pc[c] = "reader" /\ nTx < MaxTx /\ nTx' = nTx + 1
      /\ \A d \in Conn \ {c} : held[d] < RESERVED_LOCK
      /\ held' = [held EXCEPT ![c] = RESERVED_LOCK]
      /\ pc' = [pc EXCEPT ![c] = "write"]
      /\ w' = [NoWrite EXCEPT !.owner = c, !.state = "locked", !.tx = nTx + 1,
                              !.mem = cache[c].img, !.orig = PagesIn(db)]
      /\ UNCHANGED <<fileVars, cache, todo, info, committed, maybe, faultVars>>
  BY DEF PagerBegin, Lock, Goto, Others
<1>2. /\ TypeInv /\ ControlInv /\ ImageInv /\ FileInv /\ ReadInv /\ InitInv /\ WorkInv
      /\ ConnTypes /\ HistTypes /\ DbTypes /\ JrTypes
  BY DEF IInv0, TypeInv
<1>3. /\ db' = db /\ jr' = jr /\ jrDisk' = jrDisk /\ jrOther' = jrOther /\ dbDisk' = dbDisk
      /\ info' = info /\ committed' = committed /\ maybe' = maybe /\ cache' = cache
      /\ nDeaths' = nDeaths /\ nLosses' = nLosses /\ todo' = todo
  BY <1>1 DEF fileVars, faultVars
<1>4. /\ pc'[c] = "write" /\ held'[c] = RESERVED_LOCK
      /\ \A d \in Conn \ {c} : pc'[d] = pc[d] /\ held'[d] = held[d]
  BY <1>1, <1>2 DEF ConnTypes
<1>5. \A d \in Conn : ~Active(d)
  <2>1. ~Active(c)
    BY <1>1 DEF Active, WritePcs, EndPcs
  <2>2. \A d \in Conn \ {c} : ~(held[d] >= RESERVED_LOCK)
    BY <1>1, <1>2 DEF ConnTypes, NO_LOCK, RESERVED_LOCK, EXCLUSIVE_LOCK
  <2>. QED
    BY <2>1, <2>2, <1>2 DEF ControlInv, LockOf
<1>6. w = NoWrite /\ todo = {}
  BY <1>2, <1>5 DEF ControlInv, IdleInv
<1>7. ~Hot(jr) /\ cache[c].img = committed /\ cache[c].ctr = CtrOf(committed)
  BY <1>1, <1>2 DEF ReadInv, ColdOf, CacheOf
<1>8. /\ n \in Page /\ Prefix(m, n) /\ m \in Image /\ m \in maybe
      /\ CtrOf(m) \in Nat /\ CtrOf(m) > 0
  BY Started
<1>9. \A p \in Page : p <= n => db[p] = m[p]
  BY <1>7, ColdFile DEF Agree
<1>10. PagesIn(db) \in 0..NPage /\ PagesIn(db) >= n
  <2>1. {0} \cup PagesOf(db) \subseteq 0..NPage
    BY PagerAssumption DEF PagesOf, Page
  <2>2. NPage \in Nat
    BY PagerAssumption
  <2>3. {0} \cup PagesOf(db) \subseteq Nat /\ {0} \cup PagesOf(db) # {}
        /\ \A x \in {0} \cup PagesOf(db) : x <= NPage
    BY <2>1, <2>2
  <2>4. PagesIn(db) \in {0} \cup PagesOf(db)
        /\ \A x \in {0} \cup PagesOf(db) : x <= PagesIn(db)
    BY <2>2, <2>3, MaxNat DEF PagesIn
  <2>5. n \in PagesOf(db)
    <3>1. db[n] = m[n] /\ m[n] # Absent
      <4>1. n \in Nat
        BY <1>8 DEF Page
      <4>. QED
        BY <4>1, <1>8, <1>9 DEF Prefix
    <3>. QED
      BY <3>1, <1>8 DEF PagesOf
  <2>6. n \in {0} \cup PagesOf(db)
    BY <2>5
  <2>. HIDE DEF n
  <2>. QED
    BY <2>1, <2>4, <2>6
<1>11. /\ w' \in Locals /\ w'.owner = c /\ w'.state = "locked" /\ w'.tx = nTx + 1
       /\ w'.mem = m /\ w'.orig = PagesIn(db) /\ w'.ending = "none" /\ w'.off = 0 /\ w'.hdr = 0
       /\ w'.slot = 0 /\ w'.sub = <<>> /\ w'.inJournal = {} /\ w'.dirty = {}
       /\ w'.needSync = {} /\ w'.sp.open = FALSE
  <2>1. nTx + 1 \in 0..MaxTx /\ "locked" \in WriteStates /\ c \in Conn \cup {NoConn}
    BY <1>1, <1>2, PagerAssumption DEF HistTypes, WriteStates
  <2>2. w' = [[NoWrite EXCEPT !.owner = c, !.state = "locked", !.tx = nTx + 1] EXCEPT
                !.mem = m, !.orig = PagesIn(db)]
    BY <1>1, <1>7, NoWriteTypes DEF Locals
  <2>3. [NoWrite EXCEPT !.owner = c, !.state = "locked", !.tx = nTx + 1] \in Locals
    BY <2>1, NoWriteTypes DEF Locals
  <2>4. w' \in Locals
    BY <2>2, <2>3, <1>8, <1>10 DEF Locals
  <2>5. /\ w'.owner = c /\ w'.state = "locked" /\ w'.tx = nTx + 1
        /\ w'.mem = m /\ w'.orig = PagesIn(db) /\ w'.ending = NoWrite.ending
        /\ w'.off = NoWrite.off /\ w'.hdr = NoWrite.hdr
        /\ w'.slot = NoWrite.slot /\ w'.sub = NoWrite.sub /\ w'.inJournal = NoWrite.inJournal
        /\ w'.dirty = NoWrite.dirty /\ w'.needSync = NoWrite.needSync
        /\ w'.sp = NoWrite.sp
    BY <2>2, NoWriteTypes DEF Locals
  <2>. QED
    BY <2>4, <2>5 DEF NoWrite, NoSavepoint
<1>12. \A x \in maybe : SizeOf(x)' = SizeOf(x) /\ CtrOf(x)' = CtrOf(x)
  BY <1>3 DEF SizeOf, CtrOf, InfoOf
<1>13. SizeOf(committed)' = n /\ CtrOf(committed)' = CtrOf(committed)
  BY <1>3 DEF SizeOf, CtrOf, InfoOf
<1>14. TypeInv'
  <2>1. ConnTypes'
    <3>1. "write" \in Pcs /\ RESERVED_LOCK \in NO_LOCK..EXCLUSIVE_LOCK
      BY DEF Pcs, WritePcs, NO_LOCK, RESERVED_LOCK, EXCLUSIVE_LOCK
    <3>. QED
      BY <3>1, <1>1, <1>2, <1>3 DEF ConnTypes
  <2>2. HistTypes'
    <3>1. nTx' \in 1..MaxTx
      BY <1>1, <1>2, PagerAssumption DEF HistTypes
    <3>2. HistTypes
      BY <1>2
    <3>. QED
      BY <3>1, <3>2, <1>3 DEF HistTypes
  <2>3. DbTypes' /\ JrTypes'
    BY <1>2, <1>3 DEF DbTypes, JrTypes
  <2>4. todo' \subseteq DOMAIN SlotsOf(jr')
    BY <1>3, <1>6
  <2>. QED
    BY <2>1, <2>2, <2>3, <2>4, <1>11 DEF TypeInv
<1>15. ImageInv'
  <2>1. ASSUME NEW x \in maybe PROVE Whole(x)'
    <3>1. Whole(x)
      BY <1>2 DEF ImageInv
    <3>2. \A p \in Page : x[p] \in Nat
      BY <1>2, PagerAssumption DEF HistTypes, Image, Content, Absent, Garbage
    <3>3. \A p \in Page : x[p] <= 2 * nTx' + 1
      BY <3>1, <3>2, <1>1, <1>2 DEF Whole, HistTypes
    <3>4. Prefix(x, SizeOf(x)) /\ CtrOf(x) > 0
      BY <3>1 DEF Whole
    <3>. QED
      BY <3>3, <3>4, <1>12 DEF Whole
  <2>. QED
    BY <2>1, <1>2, <1>3 DEF ImageInv
<1>16. FileInv'
  BY <1>2, <1>3, <1>13 DEF FileInv
<1>17. \A i \in DOMAIN SlotsOf(jr) :
         SlotsOf(jr)[i].kind \in {"hdr", "rec"} => SlotsOf(jr)[i].init < nTx + 1
  <2>. SUFFICES ASSUME NEW i \in DOMAIN SlotsOf(jr), SlotsOf(jr)[i].kind \in {"hdr", "rec"}
                PROVE  SlotsOf(jr)[i].init < nTx + 1
    OBVIOUS
  <2>1. SlotsOf(jr)[i] \in Slot
    BY <1>2, SlotsAre DEF JrTypes
  <2>2. SlotsOf(jr)[i].init \in Nat
    BY <2>1, SlotKinds
  <2>3. SlotsOf(jr)[i].init <= nTx
    BY <1>2 DEF InitInv
  <2>. QED
    BY <2>2, <2>3, <1>2 DEF HistTypes
<1>18. InitInv'
  <2>1. \A i \in DOMAIN SlotsOf(jr) :
         SlotsOf(jr)[i].kind \in {"hdr", "rec"} => SlotsOf(jr)[i].init <= nTx + 1
    <3>. SUFFICES ASSUME NEW i \in DOMAIN SlotsOf(jr), SlotsOf(jr)[i].kind \in {"hdr", "rec"}
                  PROVE  SlotsOf(jr)[i].init <= nTx + 1
      OBVIOUS
    <3>1. SlotsOf(jr)[i] \in Slot
      BY <1>2, SlotsAre DEF JrTypes
    <3>2. SlotsOf(jr)[i].init \in Nat
      BY <3>1, SlotKinds
    <3>. QED
      BY <3>2, <1>17, <1>2 DEF HistTypes
  <2>. QED
    BY <2>1, <1>1, <1>3 DEF InitInv
<1>19. LockOf(c)'
  <2>1. "write" \notin RestPcs /\ "write" \in WritePcs /\ "write" \notin EndPcs
        /\ "write" \notin (WritePcs \ {"write"}) \cup {"finish"}
    BY DEF RestPcs, WritePcs, EndPcs
  <2>. QED
    BY <2>1, <1>4, <1>11 DEF LockOf, NO_LOCK, RESERVED_LOCK, EXCLUSIVE_LOCK
<1>20. OwnerOf(c)'
  <2>1. w'.ending # "hot" /\ w'.owner = c /\ w'.state # "none" /\ todo' = {}
        /\ w'.ending = "none"
    BY <1>3, <1>6, <1>11
  <2>. QED
    BY <2>1, <1>4 DEF OwnerOf
<1>21. ControlInv'
  <2>1. \A d \in Conn \ {c} :
           /\ RESERVED_LOCK >= RESERVED_LOCK => held[d] < RESERVED_LOCK
           /\ held[d] >= RESERVED_LOCK => RESERVED_LOCK < RESERVED_LOCK
           /\ RESERVED_LOCK = EXCLUSIVE_LOCK => held[d] = NO_LOCK
           /\ held[d] = EXCLUSIVE_LOCK => RESERVED_LOCK = NO_LOCK
    BY <1>1, <1>2 DEF ConnTypes, NO_LOCK, RESERVED_LOCK, EXCLUSIVE_LOCK
  <2>2. "write" \in WritePcs \cup EndPcs
    BY DEF WritePcs
  <2>. QED
    BY <2>1, <2>2, <1>1, <1>2, <1>5, <1>19, <1>20, ControlStep
<1>22. ReadInv'
  <2>1. ASSUME NEW d \in Conn PROVE CacheOf(d)'
    <3>1. CacheOf(d) /\ ~Active(d)
      BY <1>2, <1>5 DEF ReadInv
    <3>2. CASE d = c
      BY <3>1, <3>2, <1>3, <1>7, <1>13 DEF CacheOf
    <3>3. CASE d # c
      <4>1. ~(Active(d)') /\ pc'[d] = pc[d]
        BY <3>1, <3>3, <1>4 DEF Active
      <4>. QED
        BY <3>1, <4>1, <1>3, <1>13 DEF CacheOf
    <3>. QED
      BY <3>2, <3>3
  <2>2. \A d \in Conn : ColdOf(d)'
    BY <1>3, <1>7 DEF ColdOf
  <2>. QED
    BY <2>1, <2>2 DEF ReadInv
<1>23. TxOk("write", w', db', jr', m, n)
  <2>1. StaleOk(w', jr)
    BY <1>11, <1>17 DEF StaleOk
  <2>2. JournalOk("write", w', jr, m, n)
    BY <2>1, <1>11 DEF JournalOk, LockedOk
  <2>3. DbOk(w', db, jr, m, n)
    BY <1>9 DEF DbOk
  <2>4. MemOk("write", w', db, m, n)
    <3>1. \A p \in Page : m[p] # Absent => db[p] = m[p]
      BY <1>8, <1>9 DEF Prefix
    <3>2. n >= n
      BY <1>8 DEF Page
    <3>. QED
      BY <3>1, <3>2, <1>8, <1>11 DEF MemOk
  <2>5. SavepointOk(w', jr, m, n)
    BY <1>11 DEF SavepointOk
  <2>. QED
    BY <2>2, <2>3, <2>4, <2>5, <1>3, <1>10, <1>11 DEF TxOk
<1>24. CommitOk("write", w', info'[w'.tx], CtrOf(committed))
  BY <1>11 DEF CommitOk, SyncPcs
<1>25. \A x \in maybe : \A p \in Page : x[p] < 2 * w'.tx
  <2>. SUFFICES ASSUME NEW x \in maybe, NEW p \in Page PROVE x[p] < 2 * w'.tx
    OBVIOUS
  <2>1. x[p] \in Nat
    BY <1>2, PagerAssumption DEF HistTypes, Image, Content, Absent, Garbage
  <2>2. x[p] <= 2 * nTx + 1
    BY <1>2 DEF ImageInv, Whole
  <2>3. w'.tx = nTx + 1 /\ nTx \in Nat
    BY <1>2, <1>11 DEF HistTypes
  <2>. QED
    BY <2>1, <2>2, <2>3
<1>26. TxOfInv(c)'
  <2>1. w'.tx = nTx'
    BY <1>1, <1>11
  <2>. QED
    BY <2>1, <1>3, <1>4, <1>13, <1>23, <1>24, <1>25 DEF TxOfInv
<1>27. HotInv(c)' /\ LateInv(c)'
  <2>1. w'.ending # "hot"
    BY <1>11
  <2>. QED
    BY <2>1, <1>4 DEF HotInv, LateInv, LateEndPcs
<1>28. WorkInv'
  BY <1>1, <1>2, <1>5, <1>26, <1>27, WorkStep
<1>. QED
  BY <1>14, <1>15, <1>16, <1>18, <1>21, <1>22, <1>28 DEF IInv0

-----------------------------------------------------------------------------
(* The rollback of a transaction *)

\* The start of a rollback keeps the invariant.
LEMMA RollbackKeeps ==
  ASSUME IInv0, NEW c \in Conn, Rollback(c)
  PROVE  IInv0'
<1>. DEFINE m == committed
            n == SizeOf(committed)
            k == held[c]
<1>1. /\ pc[c] \in {"write", "finish"} /\ w.owner = c /\ w.state # "locked"
      /\ todo' = Playback(jr, w.slot)
      /\ pc' = [pc EXCEPT ![c] = "play"]
      /\ w.state = "dbmod" => DbWrite(Cut(w.orig))
      /\ w.state # "dbmod" => UNCHANGED <<db, dbDisk>>
      /\ UNCHANGED <<jr, jrDisk, jrOther, held, cache, histVars, faultVars>>
  BY DEF Rollback, Goto
<1>2. PICK inCache \in {w.dirty, Page} :
        w' = [w EXCEPT !.ending = "rollback", !.inCache = inCache,
                 !.mem = [p \in Page |-> IF p > w.orig THEN Absent ELSE @[p]]]
  BY DEF Rollback
<1>3. pc[c] \in OpenPcs /\ "play" \notin OpenPcs /\ "play" \notin SyncPcs
      /\ pc[c] # "jsync2" /\ "play" # "jsync2" /\ pc[c] \notin SyncPcs
  BY <1>1 DEF OpenPcs, WritePcs, SyncPcs
<1>4. /\ InTx(c) /\ w.ending = "none" /\ w.state \in {"cachemod", "dbmod"}
      /\ TxOk(pc[c], w, db, jr, m, n)
      /\ (pc[c] # "write" => held[c] = EXCLUSIVE_LOCK)
  BY <1>1, <1>3, AtOpen
<1>5. /\ w.orig >= n /\ JournalOk(pc[c], w, jr, m, n) /\ DbOk(w, db, jr, m, n)
      /\ MemOk(pc[c], w, db, m, n)
  BY <1>4 DEF TxOk
<1>6. DbTypes /\ JrTypes /\ jr \in Journals /\ HistTypes /\ ConnTypes /\ w \in Locals
  BY DEF IInv0, TypeInv, JrTypes
<1>7. /\ SlotsOk(w, jr, m, n) /\ HeaderOk(pc[c], w, jr) /\ SyncedOk(w, jr) /\ StaleOk(w, jr)
      /\ StateOk(pc[c], w) /\ jr # NoFile
  BY <1>1, <1>5 DEF JournalOk, SlotsOk
<1>8. jr \in Seq(Slot) /\ w.off \in 1..Len(jr) /\ DOMAIN jr = 1..Len(jr) /\ SlotsOf(jr) = jr
      /\ Len(jr) \in Nat
  <2>1. jr \in Seq(Slot)
    BY <1>6, <1>7 DEF Journals
  <2>2. SlotsOf(jr) = jr
    BY <1>7 DEF SlotsOf
  <2>. HIDE DEF n
  <2>. QED
    BY <2>1, <2>2, <1>6, <1>7, OwnSlots
<1>9. Playback(jr, w.slot) = RecordsOf(w, jr)
  <2>. HIDE DEF n
  <2>. QED
    BY <1>3, <1>6, <1>7, <1>8, RollbackPlayback
<1>10. n \in Page /\ n \in Nat
  BY Started
<1>11. w.orig \in Nat /\ w.mem \in Image /\ w.dirty \in SUBSET Page
  BY <1>6, LocalsHave
<1>12. /\ w' \in Locals /\ w'.owner = c /\ w'.tx = w.tx /\ w'.ending = "rollback"
       /\ w'.state = w.state /\ SameTx(w, w') /\ w'.orig = w.orig /\ w'.goal = w.goal
       /\ w'.mem = [p \in Page |-> IF p > w.orig THEN Absent ELSE w.mem[p]]
       /\ w'.inJournal = w.inJournal
  <2>1. "rollback" \in Endings /\ inCache \in SUBSET Page
    BY <1>11 DEF Endings
  <2>. DEFINE mem == [p \in Page |-> IF p > w.orig THEN Absent ELSE w.mem[p]]
  <2>2. mem \in Image
    BY <1>11, PagerAssumption DEF Image, Content, Absent, Garbage
  <2>3. w' = [w EXCEPT !.ending = "rollback", !.inCache = inCache, !.mem = mem]
    BY <1>2
  <2>. HIDE DEF mem
  <2>4. w' \in Locals
    BY <2>1, <2>2, <2>3, <1>6 DEF Locals
  <2>5. w'.mem = mem
    BY <2>3, <1>6 DEF Locals
  <2>6. /\ w'.owner = c /\ w'.tx = w.tx /\ w'.ending = "rollback"
        /\ w'.state = w.state /\ SameTx(w, w') /\ w'.orig = w.orig /\ w'.goal = w.goal
        /\ w'.inJournal = w.inJournal
    BY <2>3, <1>1, <1>6 DEF Locals, SameTx
  <2>. QED
    BY <2>4, <2>5, <2>6 DEF mem
<1>13. DbTypes' /\ \A p \in Page : p <= n => db'[p] = db[p]
  <2>1. CASE w.state = "dbmod"
    <3>1. DbWrite(Cut(w.orig))
      BY <2>1, <1>1
    <3>2. DbTypes' /\ \A p \in Page : db'[p] = IF p > w.orig THEN Absent ELSE db[p]
      BY <3>1, <1>6, CutDoes
    <3>3. \A p \in Page : p <= n => ~(p > w.orig)
      BY <1>5, <1>10, <1>11 DEF Page
    <3>. QED
      BY <3>2, <3>3
  <2>2. CASE w.state # "dbmod"
    BY <2>2, <1>1, <1>6 DEF DbTypes
  <2>. QED
    BY <2>1, <2>2
<1>14. /\ committed' = committed /\ maybe' = maybe /\ nTx' = nTx /\ info' = info
       /\ nDeaths' = nDeaths /\ nLosses' = nLosses
       /\ jr' = jr /\ cache' = cache /\ held' = held
       /\ jrDisk' = jrDisk /\ jrOther' = jrOther
  BY <1>1 DEF histVars, faultVars
<1>15. StateOk("play", w')
  BY <1>3, <1>7, <1>12 DEF StateOk, SyncPcs, SameTx
<1>16. JournalOk("play", w', jr, m, n)
  <2>. HIDE DEF n
  <2>. QED
    BY <1>1, <1>3, <1>5, <1>6, <1>12, <1>15, JournalSame
<1>17. DbOk(w', db', jr, m, n)
  <2>1. DbOk(w', db, jr, m, n)
    BY <1>5, <1>12, DbSame
  <2>. QED
    BY <2>1, <1>13 DEF DbOk
<1>18. MemOk("play", w', db', m, n)
  <2>1. \A p \in Page : p <= n => ~(p > w.orig)
    BY <1>5, <1>10, <1>11 DEF Page
  <2>2. \A p \in Page : p <= n /\ p \notin w.inJournal => w.mem[p] = m[p]
    BY <1>5 DEF MemOk
  <2>3. w'.ending # "commit"
    BY <1>12
  <2>. QED
    BY <2>1, <2>2, <2>3, <1>3, <1>12 DEF MemOk
<1>19. TxOk("play", w', db', jr', m, n)
  BY <1>3, <1>5, <1>12, <1>14, <1>16, <1>17, <1>18 DEF TxOk
<1>20. CommitOk("play", w', info'[w.tx], CtrOf(committed))
  <2>1. w'.ending # "commit"
    BY <1>12
  <2>. QED
    BY <2>1 DEF CommitOk, SyncPcs
<1>21. PlayOk(w', db', jr', m, n, todo')
  <2>1. RecordsOf(w', jr) = RecordsOf(w, jr)
    BY <1>12 DEF RecordsOf, SameTx
  <2>. QED
    BY <2>1, <1>1, <1>9, <1>14 DEF PlayOk
<1>22. JrTypes' /\ info' \in [1..MaxTx -> Infos] /\ todo' \subseteq DOMAIN SlotsOf(jr')
  <2>1. RecordsOf(w, jr) \subseteq DOMAIN jr
    BY <1>8 DEF RecordsOf
  <2>. QED
    BY <2>1, <1>1, <1>6, <1>8, <1>9, <1>14 DEF JrTypes, HistTypes
<1>23. /\ k \in RESERVED_LOCK..EXCLUSIVE_LOCK /\ held' = [held EXCEPT ![c] = k]
       /\ (w.state = "dbmod" => k = EXCLUSIVE_LOCK)
       /\ k = EXCLUSIVE_LOCK => \A d \in Conn \ {c} : held[d] = NO_LOCK
  <2>1. k >= RESERVED_LOCK /\ k \in NO_LOCK..EXCLUSIVE_LOCK
    BY <1>4, <1>6, TxFacts DEF ConnTypes
  <2>2. k \in RESERVED_LOCK..EXCLUSIVE_LOCK
    BY <2>1 DEF NO_LOCK, RESERVED_LOCK, EXCLUSIVE_LOCK
  <2>3. held' = [held EXCEPT ![c] = k]
    BY <1>6, <1>14 DEF ConnTypes
  <2>4. w.state = "dbmod" => k = EXCLUSIVE_LOCK
    BY <1>1, <1>4, AtWrite
  <2>5. k = EXCLUSIVE_LOCK => \A d \in Conn \ {c} : held[d] = NO_LOCK
    BY AloneExclusive DEF IInv0
  <2>. QED
    BY <2>2, <2>3, <2>4, <2>5
<1>24. k = EXCLUSIVE_LOCK \/ ~Hot(jr)
  <2>. SUFFICES ASSUME k # EXCLUSIVE_LOCK PROVE ~Hot(jr)
    OBVIOUS
  <2>1. w.state = "cachemod" /\ pc[c] = "write"
    BY <1>1, <1>4, <1>23
  <2>. QED
    BY <2>1, <1>5, ColdUnsynced
<1>25. pc'[c] = "play" /\ held'[c] = k
  BY <1>1, <1>6, <1>14 DEF ConnTypes
<1>26. LockOf(c)'
  <2>1. "play" \in EndPcs /\ "play" \notin RestPcs /\ "play" \notin WritePcs
    BY DEF EndPcs, RestPcs, WritePcs
  <2>2. k >= RESERVED_LOCK /\ k # NO_LOCK
    BY <1>23 DEF NO_LOCK, RESERVED_LOCK, EXCLUSIVE_LOCK
  <2>3. w'.state = w.state
    BY <1>12
  <2>. QED
    BY <2>1, <2>2, <2>3, <1>23, <1>25 DEF LockOf
<1>27. OwnerOf(c)'
  <2>1. w'.owner = c /\ w'.ending = "rollback" /\ w'.state # "none" /\ w'.state # "locked"
        /\ "rollback" # "hot" /\ "rollback" # "commit"
    BY <1>4, <1>12
  <2>. QED
    BY <2>1, <1>25 DEF OwnerOf, WritePcs
<1>28. w'.state # "locked"
  BY <1>1, <1>12
<1>. QED
  BY <1>1, <1>4, <1>12, <1>13, <1>14, <1>19, <1>20, <1>21, <1>22, <1>23, <1>24, <1>26, <1>27,
     <1>28, OpenStep

\* A rollback or a recovery at work.
LEMMA AtPlay ==
  ASSUME IInv0, NEW c \in Conn, pc[c] \in {"play", "finalize"}
  PROVE  /\ Active(c) /\ w \in Locals /\ w.state \in {"cachemod", "dbmod"}
         /\ w.ending \in {"commit", "rollback", "hot"}
         /\ w.ending # "hot" => /\ InTx(c) /\ w.owner = c
                                /\ TxOk(pc[c], w, db, jr, committed, SizeOf(committed))
         /\ w.ending = "hot" => w.state = "dbmod" /\ w.owner = NoConn
         /\ held[c] \in RESERVED_LOCK..EXCLUSIVE_LOCK
         /\ w.state = "dbmod" => held[c] = EXCLUSIVE_LOCK
         /\ held[c] = EXCLUSIVE_LOCK => \A d \in Conn \ {c} : held[d] = NO_LOCK
         /\ held[c] = EXCLUSIVE_LOCK \/ ~Hot(jr)
         /\ \A d \in Conn \ {c} : ~Active(d)
         /\ pc[c] = "finalize" => todo = {}
<1>1. Active(c) /\ pc[c] \in EndPcs
  BY DEF Active, EndPcs
<1>2. LockOf(c) /\ OwnerOf(c) /\ ColdOf(c) /\ w \in Locals /\ ConnTypes
  BY DEF IInv0, ControlInv, ReadInv, TypeInv
<1>3. /\ w.owner = IF w.ending = "hot" THEN NoConn ELSE c
      /\ w.ending = "hot" => w.state = "dbmod"
      /\ w.state # "none" /\ w.state # "locked" /\ w.ending # "none"
      /\ (pc[c] = "finalize" => todo = {})
  BY <1>1, <1>2 DEF OwnerOf
<1>4. w.state \in {"cachemod", "dbmod"} /\ w.ending \in {"commit", "rollback", "hot"}
  BY <1>2, <1>3, LocalsHave DEF WriteStates, Endings
<1>5. held[c] >= RESERVED_LOCK /\ (w.state = "dbmod" => held[c] = EXCLUSIVE_LOCK)
  BY <1>1, <1>2 DEF LockOf
<1>6. held[c] \in RESERVED_LOCK..EXCLUSIVE_LOCK
      /\ (held[c] # EXCLUSIVE_LOCK => held[c] \in {RESERVED_LOCK, PENDING_LOCK})
  BY <1>2, <1>5 DEF ConnTypes, NO_LOCK, RESERVED_LOCK, PENDING_LOCK, EXCLUSIVE_LOCK
<1>7. held[c] = EXCLUSIVE_LOCK \/ ~Hot(jr)
  BY <1>2, <1>6 DEF ColdOf
<1>8. held[c] = EXCLUSIVE_LOCK => \A d \in Conn \ {c} : held[d] = NO_LOCK
  BY AloneExclusive DEF IInv0
<1>9. \A d \in Conn \ {c} : ~Active(d)
  BY <1>1, <1>2, OneActive DEF IInv0
<1>10. w.ending # "hot" => InTx(c) /\ TxOk(pc[c], w, db, jr, committed, SizeOf(committed))
  <2>. SUFFICES ASSUME w.ending # "hot"
                PROVE  InTx(c) /\ TxOk(pc[c], w, db, jr, committed, SizeOf(committed))
    OBVIOUS
  <2>1. InTx(c)
    BY <1>3 DEF InTx
  <2>2. TxOfInv(c)
    BY DEF IInv0, WorkInv
  <2>. QED
    BY <2>1, <2>2 DEF TxOfInv
<1>. QED
  BY <1>1, <1>2, <1>3, <1>4, <1>5, <1>6, <1>7, <1>8, <1>9, <1>10

\* A step of the rollback from "play" to "play" or "finalize".
LEMMA RollbackStep ==
  ASSUME IInv0, NEW c \in Conn, pc[c] = "play", w.ending = "rollback",
         NEW l \in {"play", "finalize"}, pc' = [pc EXCEPT ![c] = l],
         held' = held, cache' = cache, UNCHANGED <<jr, jrDisk, jrOther, histVars, faultVars>>,
         DbTypes', w' \in Locals, w'.owner = w.owner, w'.tx = w.tx, w'.ending = w.ending,
         w'.state = w.state, todo' \subseteq todo, l = "finalize" => todo' = {},
         TxOk(l, w', db', jr, committed, SizeOf(committed)),
         l = "play" => PlayOk(w', db', jr, committed, SizeOf(committed), todo'),
         l = "finalize" =>
           w'.mem = committed /\ Agree(db', committed, SizeOf(committed))
  PROVE  IInv0'
<1>. DEFINE k == held[c]
<1>1. /\ InTx(c) /\ w.owner = c /\ w.state \in {"cachemod", "dbmod"}
      /\ k \in RESERVED_LOCK..EXCLUSIVE_LOCK
      /\ (w.state = "dbmod" => k = EXCLUSIVE_LOCK)
      /\ k = EXCLUSIVE_LOCK => \A d \in Conn \ {c} : held[d] = NO_LOCK
  BY AtPlay
<1>1a. k = EXCLUSIVE_LOCK \/ ~Hot(jr)
  BY AtPlay
<1>2. JrTypes /\ HistTypes /\ ConnTypes /\ todo \subseteq DOMAIN SlotsOf(jr)
  BY DEF IInv0, TypeInv
<1>3. /\ committed' = committed /\ maybe' = maybe /\ nTx' = nTx /\ info' = info
      /\ nDeaths' = nDeaths /\ nLosses' = nLosses
      /\ jr' = jr /\ jrDisk' = jrDisk /\ jrOther' = jrOther
  BY DEF histVars, faultVars
<1>4. JrTypes' /\ info' \in [1..MaxTx -> Infos] /\ todo' \subseteq DOMAIN SlotsOf(jr')
  BY <1>2, <1>3 DEF JrTypes, HistTypes
<1>5. pc'[c] = l /\ held'[c] = k /\ held' = [held EXCEPT ![c] = k]
  BY <1>2 DEF ConnTypes
<1>6. l \in EndPcs /\ l \notin RestPcs /\ l \notin WritePcs /\ l # "finish" /\ l # "open"
  BY DEF EndPcs, RestPcs, WritePcs
<1>7. LockOf(c)'
  <2>1. k >= RESERVED_LOCK /\ k # NO_LOCK
    BY <1>1 DEF NO_LOCK, RESERVED_LOCK, EXCLUSIVE_LOCK
  <2>2. l # "write"
    OBVIOUS
  <2>3. w'.state = "dbmod" => k = EXCLUSIVE_LOCK
    BY <1>1
  <2>. QED
    BY <2>1, <2>2, <2>3, <1>5, <1>6 DEF LockOf
<1>8. OwnerOf(c)'
  <2>1. w'.owner = c /\ w'.ending = "rollback" /\ w'.state # "none" /\ w'.state # "locked"
        /\ "rollback" # "hot" /\ "rollback" # "commit"
    BY <1>1
  <2>. QED
    BY <2>1, <1>5, <1>6 DEF OwnerOf
<1>9. CommitOk(l, w', info'[w.tx], CtrOf(committed))
  BY DEF CommitOk, SyncPcs
<1>10. w'.state # "locked" /\ w'.owner = c
  BY <1>1
<1>11. TxOk(l, w', db', jr', committed, SizeOf(committed))
  BY <1>3
<1>12. l = "play" => PlayOk(w', db', jr', committed, SizeOf(committed), todo')
  BY <1>3
<1>13. k = EXCLUSIVE_LOCK \/ ~Hot(jr')
  BY <1>1a, <1>3
<1>. QED
  BY <1>1, <1>3, <1>4, <1>5, <1>7, <1>8, <1>9, <1>10, <1>11, <1>12, <1>13, OpenStep

-----------------------------------------------------------------------------
(* A record is played back into the page *)

\* What one record does to the file and to the cache.
Played(i) ==
  /\ i \in todo /\ todo' = todo \ {i}
  /\ DbTypes' /\ w' \in Locals
  /\ \A p \in Page : db'[p] = IF w.state = "dbmod" /\ i <= w.hdr /\ p = jr[i].pg
                              THEN jr[i].data ELSE db[p]
  /\ \A p \in Page : w'.mem[p] = IF p = jr[i].pg /\ p \in w.inCache
                                 THEN jr[i].data ELSE w.mem[p]
  /\ w'.owner = w.owner /\ w'.tx = w.tx /\ w'.ending = w.ending
  /\ w'.state = w.state /\ SameTx(w, w') /\ w'.inCache = w.inCache

\* What playing one record back changes.
LEMMA PlayPageDoes ==
  ASSUME NEW c \in Conn, PlayPage(c), DbTypes, w \in Locals, jr \in Seq(Slot),
         \A i \in todo : i \in 1..Len(jr) /\ jr[i].kind = "rec"
  PROVE  \E i \in todo : Played(i)
<1>. DEFINE i == Min(todo)
            p == jr[i].pg
            x == jr[i].data
<1>1. i \in todo
  <2>1. todo \subseteq Nat /\ todo # {}
    BY DEF PlayPage
  <2>. QED
    BY <2>1, MinNat
<1>. HIDE DEF i
<1>2. p \in Page /\ x \in Content
  <2>1. i \in 1..Len(jr) /\ jr[i].kind = "rec"
    BY <1>1
  <2>2. jr[i] \in Slot
    BY <2>1
  <2>. QED
    BY <2>1, <2>2, SlotKinds
<1>. HIDE DEF p, x
<1>3. /\ w.state = "dbmod" /\ i <= w.hdr => DbWrite([q \in {p} |-> x])
      /\ ~(w.state = "dbmod" /\ i <= w.hdr) => UNCHANGED <<db, dbDisk>>
      /\ w' = IF p \in w.inCache THEN [w EXCEPT !.mem[p] = x] ELSE w
      /\ todo' = todo \ {i}
  BY DEF PlayPage, i, p, x
<1>4. /\ DbTypes'
      /\ \A q \in Page : db'[q] = IF w.state = "dbmod" /\ i <= w.hdr /\ q = p THEN x ELSE db[q]
  <2>1. CASE w.state = "dbmod" /\ i <= w.hdr
    <3>1. DbWrite([q \in {p} |-> x])
      BY <2>1, <1>3
    <3>2. \A q \in DOMAIN [y \in {p} |-> x] : [y \in {p} |-> x][q] \in Content
      BY <1>2
    <3>3. DbTypes' /\ \A q \in Page : db'[q] = IF q \in DOMAIN [y \in {p} |-> x]
                                               THEN [y \in {p} |-> x][q] ELSE db[q]
      BY <3>1, <3>2, DbWriteDoes
    <3>. QED
      BY <3>3, <2>1
  <2>2. CASE ~(w.state = "dbmod" /\ i <= w.hdr)
    BY <2>2, <1>3 DEF DbTypes
  <2>. QED
    BY <2>1, <2>2
<1>5. /\ w' \in Locals /\ w'.owner = w.owner /\ w'.tx = w.tx /\ w'.ending = w.ending
      /\ w'.state = w.state /\ SameTx(w, w') /\ w'.inCache = w.inCache
      /\ \A q \in Page : w'.mem[q] = IF q = p /\ q \in w.inCache THEN x ELSE w.mem[q]
  <2>1. CASE p \in w.inCache
    <3>1. w.mem \in Image
      BY LocalsHave
    <3>. DEFINE mem == [w.mem EXCEPT ![p] = x]
    <3>2. mem \in Image /\ \A q \in Page : mem[q] = IF q = p THEN x ELSE w.mem[q]
      BY <3>1, <1>2 DEF Image
    <3>3. w' = [w EXCEPT !.mem = mem]
      BY <2>1, <1>3
    <3>. HIDE DEF mem
    <3>4. w' \in Locals /\ w'.mem = mem
      BY <3>2, <3>3 DEF Locals
    <3>5. /\ w'.owner = w.owner /\ w'.tx = w.tx /\ w'.ending = w.ending
          /\ w'.state = w.state /\ SameTx(w, w') /\ w'.inCache = w.inCache
      BY <3>3 DEF Locals, SameTx
    <3>. QED
      BY <2>1, <3>2, <3>4, <3>5
  <2>2. CASE p \notin w.inCache
    BY <2>2, <1>3 DEF SameTx
  <2>. QED
    BY <2>1, <2>2
<1>6. Played(i)
  BY <1>1, <1>3, <1>4, <1>5 DEF Played, p, x
<1>. QED
  BY <1>1, <1>6

\* A rollback that plays one record back keeps the invariant.
LEMMA RollbackPageKeeps ==
  ASSUME IInv0, NEW c \in Conn, PlayPage(c), w.ending = "rollback"
  PROVE  IInv0'
<1>. DEFINE m == committed
            n == SizeOf(committed)
<1>1. /\ pc[c] = "play"
      /\ UNCHANGED <<jr, jrDisk, jrOther, connVars, histVars, faultVars>>
  BY DEF PlayPage
<1>2. "play" \notin OpenPcs /\ "play" # "jsync2" /\ "play" \notin SyncPcs
  BY DEF OpenPcs, WritePcs, SyncPcs
<1>3. /\ InTx(c) /\ w \in Locals /\ w.state \in {"cachemod", "dbmod"}
      /\ TxOk("play", w, db, jr, m, n)
  BY <1>1, AtPlay
<1>4. PlayOk(w, db, jr, m, n, todo)
  BY <1>1, <1>3 DEF IInv0, WorkInv, TxOfInv
<1>5. /\ w.orig >= n /\ JournalOk("play", w, jr, m, n) /\ DbOk(w, db, jr, m, n)
      /\ MemOk("play", w, db, m, n)
  BY <1>3 DEF TxOk
<1>6. SlotsOk(w, jr, m, n) /\ StateOk("play", w) /\ w.state # "locked"
  BY <1>3, <1>5 DEF JournalOk
<1>7. DbTypes /\ ConnTypes /\ HistTypes /\ jr \in Journals
  BY DEF IInv0, TypeInv, JrTypes
<1>8. jr \in Seq(Slot) /\ \A i \in 1..w.off : i \in 1..Len(jr) /\ OwnSlot(w, jr[i], m, n)
  <2>1. jr \in Seq(Slot)
    BY <1>6, <1>7 DEF SlotsOk, Journals
  <2>. HIDE DEF n
  <2>2. w.off \in 1..Len(jr) /\ Len(jr) \in Nat /\ \A i \in 1..w.off : OwnSlot(w, jr[i], m, n)
    BY <2>1, <1>3, <1>6, OwnSlots
  <2>. QED
    BY <2>1, <2>2
<1>9. \A i \in RecordsOf(w, jr) : /\ i \in 1..Len(jr) /\ jr[i].kind = "rec"
                                  /\ jr[i].pg \in w.inJournal
                                  /\ jr[i].pg <= n => jr[i].data = m[jr[i].pg]
  BY <1>8 DEF RecordsOf, OwnSlot
<1>10. \A i \in todo : i \in 1..Len(jr) /\ jr[i].kind = "rec"
  BY <1>4, <1>9 DEF PlayOk
<1>11. PICK i \in todo : Played(i)
  BY <1>3, <1>7, <1>8, <1>10, PlayPageDoes
<1>12. /\ todo' = todo \ {i} /\ DbTypes' /\ w' \in Locals
       /\ \A p \in Page : db'[p] = IF w.state = "dbmod" /\ i <= w.hdr /\ p = jr[i].pg
                                   THEN jr[i].data ELSE db[p]
       /\ \A p \in Page : w'.mem[p] = IF p = jr[i].pg /\ p \in w.inCache
                                      THEN jr[i].data ELSE w.mem[p]
       /\ w'.owner = w.owner /\ w'.tx = w.tx /\ w'.ending = w.ending
       /\ w'.state = w.state /\ SameTx(w, w') /\ w'.inCache = w.inCache
  BY <1>11 DEF Played
<1>13. i \in RecordsOf(w, jr)
  BY <1>4 DEF PlayOk
<1>14. StateOk("play", w')
  BY <1>6, <1>12 DEF StateOk, SyncPcs, SameTx
<1>15. JournalOk("play", w', jr, m, n)
  <2>. HIDE DEF n
  <2>. QED
    BY <1>2, <1>3, <1>5, <1>6, <1>7, <1>12, <1>14, JournalSame
<1>16. DbOk(w', db', jr, m, n)
  <2>1. DbOk(w', db, jr, m, n)
    BY <1>5, <1>12, DbSame
  <2>2. ASSUME NEW p \in Page, p <= n PROVE db'[p] = m[p] \/ Saved(w', jr, p)
    <3>1. CASE p = jr[i].pg /\ w.state = "dbmod" /\ i <= w.hdr
      BY <3>1, <2>2, <1>9, <1>12, <1>13
    <3>2. CASE ~(p = jr[i].pg /\ w.state = "dbmod" /\ i <= w.hdr)
      <4>1. db'[p] = db[p]
        BY <3>2, <1>12
      <4>. QED
        BY <4>1, <2>1, <2>2 DEF DbOk
    <3>. QED
      BY <3>1, <3>2
  <2>. QED
    BY <2>2 DEF DbOk
<1>17. MemOk("play", w', db', m, n)
  <2>1. \A p \in Page : p <= n /\ p \notin w.inJournal => w'.mem[p] = m[p]
    BY <1>5, <1>9, <1>12, <1>13 DEF MemOk
  <2>2. w'.inJournal = w.inJournal /\ w'.ending # "commit"
    BY <1>12 DEF SameTx
  <2>. QED
    BY <2>1, <2>2, <1>2 DEF MemOk
<1>18. TxOk("play", w', db', jr, m, n)
  <2>1. w'.orig = w.orig
    BY <1>12 DEF SameTx
  <2>. QED
    BY <2>1, <1>2, <1>5, <1>15, <1>16, <1>17 DEF TxOk
<1>19. PlayOk(w', db', jr, m, n, todo')
  <2>1. RecordsOf(w', jr) = RecordsOf(w, jr) /\ w'.hdr = w.hdr
    BY <1>12 DEF RecordsOf, SameTx
  <2>2. todo' \subseteq RecordsOf(w, jr)
    BY <1>4, <1>12 DEF PlayOk
  <2>3. ASSUME NEW g \in RecordsOf(w, jr) \ todo', jr[g].pg <= n
        PROVE  /\ w.state = "dbmod" /\ g <= w.hdr => db'[jr[g].pg] = m[jr[g].pg]
               /\ jr[g].pg \in w.inCache => w'.mem[jr[g].pg] = m[jr[g].pg]
    <3>0. jr[g].pg \in Page
      <4>1. g \in 1..Len(jr) /\ jr[g].kind = "rec"
        BY <1>9
      <4>2. jr[g] \in Slot
        BY <4>1, <1>8
      <4>. QED
        BY <4>1, <4>2, SlotKinds
    <3>1. CASE jr[g].pg = jr[i].pg
      <4>1. jr[i].data = m[jr[i].pg]
        BY <3>1, <2>3, <1>9, <1>13
      <4>2. g # i => /\ w.state = "dbmod" /\ g <= w.hdr => db[jr[g].pg] = m[jr[g].pg]
                     /\ jr[g].pg \in w.inCache => w.mem[jr[g].pg] = m[jr[g].pg]
        BY <2>3, <1>4, <1>12 DEF PlayOk
      <4>3. CASE g # i
        BY <3>0, <3>1, <4>1, <4>2, <4>3, <1>12
      <4>4. CASE g = i
        BY <3>0, <4>1, <4>4, <1>12
      <4>. QED
        BY <4>3, <4>4
    <3>2. CASE jr[g].pg # jr[i].pg
      <4>1. g # i
        BY <3>2
      <4>2. /\ w.state = "dbmod" /\ g <= w.hdr => db[jr[g].pg] = m[jr[g].pg]
            /\ jr[g].pg \in w.inCache => w.mem[jr[g].pg] = m[jr[g].pg]
        BY <4>1, <2>3, <1>4, <1>12 DEF PlayOk
      <4>. QED
        BY <3>0, <3>2, <4>2, <1>12
    <3>. QED
      BY <3>1, <3>2
  <2>. QED
    BY <2>1, <2>2, <2>3, <1>12 DEF PlayOk
<1>20. pc' = [pc EXCEPT ![c] = "play"] /\ held' = held /\ cache' = cache
  BY <1>1, <1>7 DEF connVars, ConnTypes
<1>21. todo' \subseteq todo
  BY <1>12
<1>. QED
  BY <1>1, <1>12, <1>18, <1>19, <1>20, <1>21, RollbackStep

\* At the end of the rollback the file and the cache hold the image it began with.
LEMMA RolledBackAgree ==
  ASSUME NEW v \in Locals, NEW d \in Image, NEW j, NEW m \in Image, NEW n \in Page,
         Prefix(m, n), v.orig >= n, DbOk(v, d, j, m, n), MemOk("play", v, d, m, n),
         PlayOk(v, d, j, m, n, {}), StateOk("play", v), SlotsOk(v, j, m, n)
  PROVE  /\ Agree(d, m, n)
         /\ \A p \in Page : p <= n /\ p \in v.inCache => v.mem[p] = m[p]
<1>1. ASSUME NEW p \in Page, p <= n PROVE d[p] = m[p]
  <2>1. CASE Saved(v, j, p)
    <3>1. PICK i \in RecordsOf(v, j) : i <= v.hdr /\ j[i].pg = p
      BY <2>1 DEF Saved
    <3>2. v.state = "dbmod"
      <4>1. v.hdr > 0
        BY <3>1, LocalsHave DEF RecordsOf
      <4>. QED
        BY <4>1 DEF StateOk
    <3>. QED
      BY <1>1, <3>1, <3>2 DEF PlayOk
  <2>. QED
    BY <1>1, <2>1 DEF DbOk
<1>2. ASSUME NEW p \in Page, p <= n, p \in v.inCache PROVE v.mem[p] = m[p]
  <2>1. CASE p \in v.inJournal
    <3>1. PICK i \in RecordsOf(v, j) : j[i].pg = p
      BY <2>1 DEF SlotsOk
    <3>. QED
      BY <1>2, <3>1 DEF PlayOk
  <2>2. CASE p \notin v.inJournal
    BY <1>2, <2>2 DEF MemOk
  <2>. QED
    BY <2>1, <2>2
<1>. QED
  BY <1>1, <1>2 DEF Agree

\* The sync at the end of a rollback keeps the invariant.
LEMMA RollbackSyncKeeps ==
  ASSUME IInv0, NEW c \in Conn, PlaySync(c), w.ending = "rollback"
  PROVE  IInv0'
<1>. DEFINE m == committed
            n == SizeOf(committed)
            mem == [p \in Page |-> IF p > InfoOf(db[1]).size THEN Absent
                                   ELSE IF p \in w.inCache THEN w.mem[p] ELSE db[p]]
<1>1. /\ pc[c] = "play" /\ todo = {} /\ w' = [w EXCEPT !.mem = mem]
      /\ w.state = "dbmod" => DbSync
      /\ w.state # "dbmod" => UNCHANGED <<db, dbDisk>>
      /\ pc' = [pc EXCEPT ![c] = "finalize"]
      /\ UNCHANGED <<jr, jrDisk, jrOther, held, cache, todo, histVars, faultVars>>
  BY DEF PlaySync, Goto
<1>2. "play" \notin OpenPcs /\ "play" # "jsync2" /\ "play" \notin SyncPcs
      /\ "finalize" \notin OpenPcs /\ "finalize" # "jsync2" /\ "finalize" \notin SyncPcs
  BY DEF OpenPcs, WritePcs, SyncPcs
<1>3. /\ InTx(c) /\ w \in Locals /\ w.state \in {"cachemod", "dbmod"}
      /\ TxOk("play", w, db, jr, m, n)
  BY <1>1, AtPlay
<1>4. PlayOk(w, db, jr, m, n, {})
  BY <1>1, <1>3 DEF IInv0, WorkInv, TxOfInv
<1>5. /\ w.orig >= n /\ JournalOk("play", w, jr, m, n) /\ DbOk(w, db, jr, m, n)
      /\ MemOk("play", w, db, m, n)
  BY <1>3 DEF TxOk
<1>6. SlotsOk(w, jr, m, n) /\ StateOk("play", w) /\ w.state # "locked"
  BY <1>3, <1>5 DEF JournalOk
<1>7. DbTypes /\ db \in Image /\ jr \in Journals
  BY DEF IInv0, TypeInv, DbTypes, JrTypes
<1>8. n \in Page /\ Prefix(m, n) /\ m \in Image
  BY Started
<1>9. /\ Agree(db, m, n)
      /\ \A p \in Page : p <= n /\ p \in w.inCache => w.mem[p] = m[p]
  <2>. HIDE DEF n
  <2>. QED
    BY <1>3, <1>4, <1>5, <1>6, <1>7, <1>8, RolledBackAgree
<1>10. DbTypes' /\ db' = db
  <2>1. CASE w.state = "dbmod"
    BY <2>1, <1>1, <1>7, DbSyncDoes
  <2>2. CASE w.state # "dbmod"
    BY <2>2, <1>1, <1>7 DEF DbTypes
  <2>. QED
    BY <2>1, <2>2
<1>11. mem = m
  <2>1. InfoOf(db[1]).size = n
    <3>1. 1 \in Page /\ 1 <= n
      BY <1>8, PagerAssumption DEF Page
    <3>2. db[1] = m[1]
      BY <3>1, <1>9 DEF Agree
    <3>. QED
      BY <3>2 DEF SizeOf
  <2>2. ASSUME NEW p \in Page PROVE mem[p] = m[p]
    <3>1. CASE p > n
      <4>1. ~(p <= n)
        BY <3>1, <1>8 DEF Page
      <4>. QED
        BY <3>1, <4>1, <2>1, <1>8 DEF Prefix
    <3>2. CASE ~(p > n)
      <4>1. p <= n
        BY <3>2, <1>8 DEF Page
      <4>. QED
        BY <3>2, <4>1, <2>1, <1>9 DEF Agree
    <3>. QED
      BY <3>1, <3>2
  <2>3. mem = [p \in Page |-> mem[p]] /\ m = [p \in Page |-> m[p]]
    BY <1>8 DEF Image
  <2>. HIDE DEF mem
  <2>. QED
    BY <2>2, <2>3
<1>. HIDE DEF mem
<1>12. /\ w' \in Locals /\ w'.owner = w.owner /\ w'.tx = w.tx /\ w'.ending = w.ending
       /\ w'.state = w.state /\ SameTx(w, w') /\ w'.orig = w.orig
       /\ w'.mem = m /\ w'.inJournal = w.inJournal
  BY <1>1, <1>3, <1>8, <1>11 DEF Locals, SameTx
<1>13. StateOk("finalize", w')
  BY <1>6, <1>12 DEF StateOk, SyncPcs, SameTx
<1>14. JournalOk("finalize", w', jr, m, n)
  <2>. HIDE DEF n
  <2>. QED
    BY <1>2, <1>3, <1>5, <1>6, <1>7, <1>12, <1>13, JournalSame
<1>15. DbOk(w', db', jr, m, n)
  BY <1>5, <1>10, <1>12, DbSame
<1>16. MemOk("finalize", w', db', m, n)
  BY <1>2, <1>12 DEF MemOk
<1>17. TxOk("finalize", w', db', jr, m, n)
  BY <1>2, <1>5, <1>12, <1>14, <1>15, <1>16 DEF TxOk
<1>18. todo' = {} /\ todo' \subseteq todo /\ Agree(db', m, n)
  BY <1>1, <1>9, <1>10
<1>. QED
  BY <1>1, <1>10, <1>12, <1>17, <1>18, RollbackStep

-----------------------------------------------------------------------------
(* The recovery of a hot journal *)

\* A step of the recovery, to "play" or to "finalize".
LEMMA HotStep ==
  ASSUME IInv0, NEW c \in Conn, NEW l \in {"play", "finalize"},
         \A d \in Conn \ {c} : held[d] = NO_LOCK,
         pc' = [pc EXCEPT ![c] = l], held' = [held EXCEPT ![c] = EXCLUSIVE_LOCK],
         jr' = jr, DbTypes', JrTypes', UNCHANGED <<histVars, faultVars>>,
         w' \in Locals, w'.owner = NoConn, w'.ending = "hot", w'.state = "dbmod",
         todo' \subseteq DOMAIN SlotsOf(jr), l = "finalize" => todo' = {},
         cache' = cache \/ cache' = [cache EXCEPT ![c] = NoCache],
         Covers(db', jr, committed, SizeOf(committed)), HotInv(c)'
  PROVE  IInv0'
<1>1. TypeInv /\ ControlInv /\ ImageInv /\ ReadInv /\ InitInv /\ ConnTypes /\ HistTypes
  BY DEF IInv0, TypeInv
<1>2. /\ committed' = committed /\ maybe' = maybe /\ nTx' = nTx /\ info' = info
      /\ nDeaths' = nDeaths /\ nLosses' = nLosses
  BY DEF histVars, faultVars
<1>3. /\ \A d \in Conn \ {c} : pc'[d] = pc[d] /\ held'[d] = held[d]
      /\ pc'[c] = l /\ held'[c] = EXCLUSIVE_LOCK
  BY <1>1 DEF ConnTypes
<1>4. \A d \in Conn \ {c} : pc[d] = "open" /\ ~Active(d)
  <2>1. \A d \in Conn \ {c} : pc[d] = "open"
    BY <1>1 DEF ControlInv, LockOf
  <2>. QED
    BY <2>1, PcKinds DEF Active
<1>5. /\ l \in EndPcs /\ l \in Pcs /\ l \notin WritePcs /\ l \notin RestPcs
             /\ l \notin LateEndPcs
      /\ l # "open" /\ l # "finish" /\ l # "write" /\ l \notin {"validate", "reader"}
  BY DEF EndPcs, Pcs, WritePcs, RestPcs, LateEndPcs
<1>6. TypeInv'
  <2>1. EXCLUSIVE_LOCK \in NO_LOCK..EXCLUSIVE_LOCK
    BY DEF NO_LOCK, EXCLUSIVE_LOCK
  <2>2. cache' \in [Conn -> [img : Image, ctr : Nat]]
    BY <1>1, NoWriteTypes DEF ConnTypes
  <2>3. ConnTypes'
    BY <2>1, <2>2, <1>1, <1>5 DEF ConnTypes
  <2>4. HistTypes'
    BY <1>1, <1>2 DEF HistTypes
  <2>. QED
    BY <2>3, <2>4 DEF TypeInv
<1>7. \A m \in maybe : SizeOf(m)' = SizeOf(m) /\ CtrOf(m)' = CtrOf(m)
  BY <1>2 DEF SizeOf, CtrOf, InfoOf
<1>8. SizeOf(committed)' = SizeOf(committed) /\ CtrOf(committed)' = CtrOf(committed)
  BY <1>2 DEF SizeOf, CtrOf, InfoOf
<1>9. ImageInv'
  BY <1>1, <1>2, <1>7 DEF ImageInv, Whole
<1>10. FileInv' /\ InitInv'
  BY <1>1, <1>2, <1>8 DEF FileInv, InitInv
<1>11. LockOf(c)' /\ OwnerOf(c)'
  <2>1. LockOf(c)'
    <3>1. EXCLUSIVE_LOCK # NO_LOCK /\ EXCLUSIVE_LOCK >= RESERVED_LOCK
      BY DEF NO_LOCK, EXCLUSIVE_LOCK, RESERVED_LOCK
    <3>. QED
      BY <3>1, <1>3, <1>5 DEF LockOf
  <2>2. OwnerOf(c)'
    BY <1>3, <1>5 DEF OwnerOf
  <2>. QED
    BY <2>1, <2>2
<1>12. ControlInv'
  <2>1. \A d \in Conn \ {c} :
           /\ EXCLUSIVE_LOCK >= RESERVED_LOCK => held[d] < RESERVED_LOCK
           /\ held[d] >= RESERVED_LOCK => EXCLUSIVE_LOCK < RESERVED_LOCK
           /\ EXCLUSIVE_LOCK = EXCLUSIVE_LOCK => held[d] = NO_LOCK
           /\ held[d] = EXCLUSIVE_LOCK => EXCLUSIVE_LOCK = NO_LOCK
    BY DEF EXCLUSIVE_LOCK, RESERVED_LOCK, NO_LOCK
  <2>. QED
    BY <2>1, <1>1, <1>4, <1>5, <1>11, ControlStep
<1>13. ReadInv'
  <2>1. ASSUME NEW d \in Conn PROVE CacheOf(d)'
    <3>1. CacheOf(d)
      BY <1>1 DEF ReadInv
    <3>2. pc'[d] # "reader" /\ (Active(d)' => d = c)
      BY <1>3, <1>4, <1>5 DEF Active
    <3>3. cache'[d] # NoCache => cache'[d] = cache[d] /\ cache[d] # NoCache
      BY <1>1 DEF ConnTypes
    <3>4. cache'[d] # NoCache =>
            /\ 0 < cache'[d].ctr /\ cache'[d].ctr <= CtrOf(committed)
            /\ cache'[d].ctr = CtrOf(committed) => cache'[d].img = committed
      BY <3>1, <3>3 DEF CacheOf
    <3>. QED
      BY <3>2, <3>4, <1>2, <1>8 DEF CacheOf
  <2>2. ASSUME NEW d \in Conn PROVE ColdOf(d)'
    <3>1. held'[d] \notin {RESERVED_LOCK, PENDING_LOCK}
      BY <1>3 DEF NO_LOCK, RESERVED_LOCK, PENDING_LOCK, EXCLUSIVE_LOCK
    <3>2. pc'[d] \notin {"validate", "reader"} \cup LateEndPcs
      BY <1>3, <1>4, <1>5 DEF LateEndPcs
    <3>. QED
      BY <3>1, <3>2 DEF ColdOf
  <2>. QED
    BY <2>1, <2>2 DEF ReadInv
<1>14. WorkInv'
  <2>1. TxOfInv(c)'
    BY PagerAssumption DEF TxOfInv, InTx
  <2>2. LateInv(c)'
    BY <1>3, <1>5 DEF LateInv
  <2>. QED
    BY <2>1, <2>2, <1>1, <1>4, WorkStep
<1>. QED
  BY <1>6, <1>9, <1>10, <1>12, <1>13, <1>14 DEF IInv0

\* What a file and a journal give: the pages that have been played are right.
LEMMA HarmlessPage ==
  ASSUME NEW j \in Seq(Slot), NEW m, NEW n, Harmless(j, m, n), Playback(j, 0) # {}
  PROVE  /\ Hot(j)
         /\ \A i \in Playback(j, 0) :
              /\ i \in 1..Len(j) /\ j[i].kind = "rec" /\ j[i].pg \in Page
              /\ j[i].pg <= n => j[i].data = m[j[i].pg]
<1>1. PICK i \in Playback(j, 0) : TRUE
  OBVIOUS
<1>2. \A k \in 1..i : Readable(j, k, 0)
  BY PlaybackIn
<1>3. i \in 1..Len(j) /\ Len(j) \in Nat
  BY PlaybackIn, SeqParts
<1>4. 1 \in 1..i
  BY <1>3
<1>5. Readable(j, 1, 0)
  BY <1>2, <1>4
<1>6. j # NoFile
  BY NoFileIsNoJournal
<1>7. Hot(j)
  BY <1>5, <1>6 DEF Readable, Hot
<1>8. \A g \in Playback(j, 0) : g \in 1..Len(j) /\ j[g].kind = "rec" /\ j[g].pg \in Page
  <2>. SUFFICES ASSUME NEW g \in Playback(j, 0)
                PROVE  g \in 1..Len(j) /\ j[g].kind = "rec" /\ j[g].pg \in Page
    OBVIOUS
  <2>1. g \in 1..Len(j) /\ j[g].kind = "rec"
    BY PlaybackIn
  <2>2. j[g] \in Slot
    BY <2>1
  <2>. QED
    BY <2>1, <2>2, SlotKinds
<1>. QED
  BY <1>7, <1>8 DEF Harmless

\* The start of a recovery keeps the invariant.
LEMMA HotPlaybackKeeps ==
  ASSUME IInv0, NEW c \in Conn, HotPlayback(c)
  PROVE  IInv0'
<1>. DEFINE n == SizeOf(committed)
            valid == jr # <<>> /\ IsHeader(jr, 1, 0)
            off == IF valid THEN 1 ELSE 0
<1>1. /\ pc[c] = "exclusive" /\ Excludable(c) /\ jr # NoFile
      /\ held' = [held EXCEPT ![c] = EXCLUSIVE_LOCK] /\ pc' = [pc EXCEPT ![c] = "play"]
      /\ JournalSync
      /\ w' = [NoWrite EXCEPT !.ending = "hot", !.state = "dbmod",
                 !.hdr = Len(jr), !.off = off]
      /\ todo' = Playback(jr, 0)
      /\ valid => DbWrite(Cut(jr[1].orig))
      /\ ~valid => UNCHANGED <<db, dbDisk>>
      /\ cache' = [cache EXCEPT ![c] = NoCache]
      /\ UNCHANGED <<histVars, faultVars>>
  BY DEF HotPlayback, Lock, Goto, SyncHotJournal
<1>2. JrTypes /\ DbTypes /\ jr \in Seq(Slot) /\ Len(jr) \in Nat /\ SlotsOf(jr) = jr
      /\ DOMAIN jr = 1..Len(jr) /\ FileInv
  BY <1>1, SeqParts DEF IInv0, TypeInv, JrTypes, Journals, SlotsOf
<1>3. JrTypes' /\ jr' = jr
  BY <1>1, <1>2, JournalSyncDoes
<1>4. (valid <=> Hot(jr)) /\ (valid => jr[1].orig \in 0..NPage)
  <2>1. IsHeader(jr, 1, 0) => jr # <<>> /\ 1 \in 1..Len(jr) /\ jr[1].kind = "hdr"
    BY <1>2 DEF IsHeader
  <2>2. IsHeader(jr, 1, 0) => jr[1].orig \in 0..NPage
    BY <2>1, <1>2, SlotKinds
  <2>. QED
    BY <2>1, <2>2, <1>1 DEF Hot
<1>5. n \in Page /\ n \in Nat
  BY Started
<1>6. Harmless(jr, committed, n) /\ Covers(db, jr, committed, n)
  BY <1>2 DEF FileInv, Covers
<1>7. DbTypes' /\ \A p \in Page : p <= n => db'[p] = db[p]
  <2>1. CASE valid
    <3>1. DbTypes' /\ \A p \in Page : db'[p] = IF p > jr[1].orig THEN Absent ELSE db[p]
      BY <2>1, <1>1, <1>2, CutDoes
    <3>2. jr[1].orig >= n /\ jr[1].orig \in Nat
      BY <2>1, <1>4, <1>6, PagerAssumption DEF Harmless
    <3>3. \A p \in Page : p <= n => ~(p > jr[1].orig)
      BY <3>2, <1>5 DEF Page
    <3>. QED
      BY <3>1, <3>3
  <2>2. CASE ~valid
    BY <2>2, <1>1, <1>2 DEF DbTypes
  <2>. QED
    BY <2>1, <2>2
<1>8. Covers(db', jr, committed, n)
  BY <1>6, <1>7 DEF Covers
<1>9. off \in Nat /\ (off = IF Hot(jr) THEN 1 ELSE 0)
  BY <1>4
<1>. HIDE DEF off, valid
<1>10. /\ w' \in Locals /\ w'.owner = NoConn /\ w'.ending = "hot" /\ w'.state = "dbmod"
       /\ w'.hdr = Len(jr) /\ w'.off = off
  <2>1. "hot" \in Endings /\ "dbmod" \in WriteStates
    BY DEF Endings, WriteStates
  <2>2. w' \in Locals
    BY <2>1, <1>1, <1>2, <1>9, NoWriteTypes DEF Locals
  <2>3. /\ w'.owner = NoConn /\ w'.ending = "hot" /\ w'.state = "dbmod"
        /\ w'.hdr = Len(jr) /\ w'.off = off
    BY <1>1 DEF NoWrite
  <2>. QED
    BY <2>2, <2>3
<1>11. todo' \subseteq DOMAIN SlotsOf(jr)
  BY <1>1, <1>2, PlaybackIn
<1>12. HotInv(c)'
  <2>1. pc'[c] = "play"
    BY <1>1 DEF IInv0, TypeInv, ConnTypes
  <2>2. todo' = Playback(jr', 0) /\ jr' # NoFile
    BY <1>1, <1>3
  <2>. QED
    BY <2>1, <2>2, <1>3, <1>9, <1>10 DEF HotInv
<1>13. \A d \in Conn \ {c} : held[d] = NO_LOCK
  BY <1>1 DEF Excludable, Others
<1>. QED
  BY <1>1, <1>3, <1>7, <1>8, <1>10, <1>11, <1>12, <1>13, HotStep

\* A recovery that plays one record back keeps the invariant.
LEMMA HotPageKeeps ==
  ASSUME IInv0, NEW c \in Conn, PlayPage(c), w.ending = "hot"
  PROVE  IInv0'
<1>. DEFINE n == SizeOf(committed)
<1>1. /\ pc[c] = "play" /\ todo # {}
      /\ UNCHANGED <<jr, jrDisk, jrOther, connVars, histVars, faultVars>>
  BY DEF PlayPage
<1>2. /\ Active(c) /\ w \in Locals /\ w.state = "dbmod" /\ w.owner = NoConn
      /\ held[c] = EXCLUSIVE_LOCK /\ \A d \in Conn \ {c} : held[d] = NO_LOCK
  BY <1>1, AtPlay
<1>3. HotInv(c) /\ JrTypes /\ DbTypes /\ ConnTypes /\ FileInv
      /\ todo \subseteq DOMAIN SlotsOf(jr)
  BY DEF IInv0, WorkInv, TypeInv
<1>4. /\ jr # NoFile /\ w.hdr = Len(jr) /\ w.off = IF Hot(jr) THEN 1 ELSE 0
      /\ todo \subseteq Playback(jr, 0)
      /\ \A i \in Playback(jr, 0) \ todo :
           jr[i].pg <= n => db[jr[i].pg] = committed[jr[i].pg]
  BY <1>1, <1>2, <1>3 DEF HotInv
<1>5. jr \in Seq(Slot) /\ Len(jr) \in Nat
  BY <1>3, <1>4, SeqParts DEF JrTypes, Journals
<1>6. Harmless(jr, committed, n) /\ Covers(db, jr, committed, n)
  BY <1>3 DEF FileInv, Covers
<1>7. /\ Hot(jr)
      /\ \A i \in Playback(jr, 0) :
           /\ i \in 1..Len(jr) /\ jr[i].kind = "rec" /\ jr[i].pg \in Page
           /\ jr[i].pg <= n => jr[i].data = committed[jr[i].pg]
  <2>1. Playback(jr, 0) # {}
    BY <1>1, <1>4
  <2>. HIDE DEF n
  <2>. QED
    BY <2>1, <1>5, <1>6, HarmlessPage
<1>8. PICK i \in todo : Played(i)
  <2>1. \A i \in todo : i \in 1..Len(jr) /\ jr[i].kind = "rec"
    BY <1>4, <1>7
  <2>. QED
    BY <2>1, <1>2, <1>3, <1>5, PlayPageDoes
<1>9. /\ todo' = todo \ {i} /\ DbTypes' /\ w' \in Locals
      /\ \A p \in Page : db'[p] = IF p = jr[i].pg THEN jr[i].data ELSE db[p]
      /\ w'.owner = w.owner /\ w'.ending = w.ending /\ w'.state = w.state
      /\ w'.hdr = w.hdr /\ w'.off = w.off
  <2>1. i <= w.hdr
    BY <1>4, <1>7
  <2>. QED
    BY <2>1, <1>2, <1>8 DEF Played, SameTx
<1>10. i \in Playback(jr, 0)
  BY <1>4
<1>11. Covers(db', jr, committed, n)
  <2>1. ASSUME NEW p \in Page, p <= n PROVE db'[p] = committed[p] \/ Undoes(jr, p)
    <3>1. CASE p = jr[i].pg
      BY <3>1, <2>1, <1>7, <1>9, <1>10
    <3>2. CASE p # jr[i].pg
      BY <3>2, <2>1, <1>6, <1>9 DEF Covers
    <3>. QED
      BY <3>1, <3>2
  <2>. QED
    BY <2>1, <1>6 DEF Covers
<1>12. \A g \in Playback(jr, 0) \ todo' :
         jr[g].pg <= n => db'[jr[g].pg] = committed[jr[g].pg]
  <2>. SUFFICES ASSUME NEW g \in Playback(jr, 0) \ todo', jr[g].pg <= n
                PROVE  db'[jr[g].pg] = committed[jr[g].pg]
    OBVIOUS
  <2>1. jr[g].pg \in Page
    BY <1>7
  <2>2. CASE jr[g].pg = jr[i].pg
    BY <2>1, <2>2, <1>7, <1>9, <1>10
  <2>3. CASE jr[g].pg # jr[i].pg
    <3>1. g \notin todo
      BY <2>3, <1>9
    <3>2. db[jr[g].pg] = committed[jr[g].pg]
      BY <3>1, <1>4
    <3>. QED
      BY <2>1, <2>3, <3>2, <1>9
  <2>. QED
    BY <2>2, <2>3
<1>13. /\ pc' = [pc EXCEPT ![c] = "play"] /\ pc'[c] = "play"
       /\ held' = [held EXCEPT ![c] = EXCLUSIVE_LOCK] /\ cache' = cache /\ jr' = jr
  BY <1>1, <1>2, <1>3 DEF connVars, ConnTypes
<1>14. HotInv(c)'
  <2>1. committed' = committed /\ SizeOf(committed)' = n /\ todo' \subseteq Playback(jr, 0)
    BY <1>1, <1>4, <1>9 DEF histVars, SizeOf, InfoOf
  <2>. QED
    BY <2>1, <1>4, <1>9, <1>12, <1>13 DEF HotInv
<1>15. JrTypes' /\ todo' \subseteq DOMAIN SlotsOf(jr)
  BY <1>1, <1>3, <1>9 DEF JrTypes
<1>. QED
  BY <1>1, <1>2, <1>9, <1>11, <1>13, <1>14, <1>15, HotStep

\* The sync at the end of a recovery keeps the invariant.
LEMMA HotSyncKeeps ==
  ASSUME IInv0, NEW c \in Conn, PlaySync(c), w.ending = "hot"
  PROVE  IInv0'
<1>. DEFINE n == SizeOf(committed)
<1>1. /\ pc[c] = "play" /\ todo = {} /\ w' = w
      /\ w.state = "dbmod" => DbSync
      /\ pc' = [pc EXCEPT ![c] = "finalize"]
      /\ UNCHANGED <<jr, jrDisk, jrOther, held, cache, todo, histVars, faultVars>>
  BY DEF PlaySync, Goto
<1>2. /\ Active(c) /\ w \in Locals /\ w.state = "dbmod" /\ w.owner = NoConn
      /\ held[c] = EXCLUSIVE_LOCK /\ \A d \in Conn \ {c} : held[d] = NO_LOCK
  BY <1>1, AtPlay
<1>3. HotInv(c) /\ JrTypes /\ DbTypes /\ ConnTypes /\ FileInv
  BY DEF IInv0, WorkInv, TypeInv
<1>4. /\ jr # NoFile /\ w.hdr = Len(jr) /\ w.off = IF Hot(jr) THEN 1 ELSE 0
      /\ \A i \in Playback(jr, 0) :
           jr[i].pg <= n => db[jr[i].pg] = committed[jr[i].pg]
  BY <1>1, <1>2, <1>3 DEF HotInv
<1>5. DbTypes' /\ db' = db
  BY <1>1, <1>2, <1>3, DbSyncDoes
<1>6. Covers(db, jr, committed, n)
  BY <1>3 DEF FileInv
<1>7. Agree(db, committed, n)
  <2>. SUFFICES ASSUME NEW p \in Page, p <= n PROVE db[p] = committed[p]
    BY DEF Agree
  <2>1. db[p] = committed[p] \/ Undoes(jr, p)
    BY <1>6 DEF Covers
  <2>. QED
    BY <2>1, <1>4 DEF Undoes
<1>8. /\ pc'[c] = "finalize" /\ held' = [held EXCEPT ![c] = EXCLUSIVE_LOCK] /\ jr' = jr
      /\ cache' = cache /\ todo' = {}
  BY <1>1, <1>2, <1>3 DEF ConnTypes
<1>9. HotInv(c)'
  <2>1. committed' = committed /\ SizeOf(committed)' = n
    BY <1>1 DEF histVars, SizeOf, InfoOf
  <2>2. Agree(db, committed, n)'
    BY <2>1, <1>5, <1>7 DEF Agree
  <2>3. w'.off = IF Hot(jr)' THEN 1 ELSE 0
    BY <1>1, <1>4, <1>8 DEF Hot
  <2>. QED
    BY <2>1, <2>2, <2>3, <1>1, <1>4, <1>7, <1>8, <1>5 DEF HotInv
<1>10. JrTypes' /\ Covers(db', jr, committed, n)
  BY <1>1, <1>3, <1>5, <1>6 DEF JrTypes
<1>. QED
  BY <1>1, <1>2, <1>5, <1>8, <1>9, <1>10, HotStep

\* Playing one record back keeps the invariant.
LEMMA PlayPageKeeps ==
  ASSUME IInv0, NEW c \in Conn, PlayPage(c)
  PROVE  IInv0'
<1>1. pc[c] = "play" /\ Active(c)
  BY DEF PlayPage, Active, EndPcs
<1>2. w.ending \in {"rollback", "hot"}
  BY <1>1 DEF IInv0, ControlInv, OwnerOf
<1>. QED
  BY <1>2, RollbackPageKeeps, HotPageKeeps

\* The sync at the end of a playback keeps the invariant.
LEMMA PlaySyncKeeps ==
  ASSUME IInv0, NEW c \in Conn, PlaySync(c)
  PROVE  IInv0'
<1>1. pc[c] = "play" /\ Active(c)
  BY DEF PlaySync, Active, EndPcs
<1>2. w.ending \in {"rollback", "hot"}
  BY <1>1 DEF IInv0, ControlInv, OwnerOf
<1>. QED
  BY <1>2, RollbackSyncKeeps, HotSyncKeeps

-----------------------------------------------------------------------------
(* The end of a transaction *)

\* A step of the end of a transaction, after which its journal is not hot.
LEMMA LateStep ==
  ASSUME IInv0, NEW c \in Conn, pc[c] \in {"finalize", "finalSync"}, NEW l \in LateEndPcs,
         pc' = [pc EXCEPT ![c] = l], held' = held, cache' = cache, w' = w, todo' = todo,
         info' = info, nTx' = nTx, nDeaths' = nDeaths, nLosses' = nLosses,
         DbTypes', JrTypes', InitInv', ~Hot(jr'),
         committed' \in Image, maybe' \subseteq Image, ImageInv',
         Agree(db', committed', SizeOf(committed)'),
         \A d \in Conn : CacheOf(d)', LateInv(c)'
  PROVE  IInv0'
<1>1. TypeInv /\ ControlInv /\ ConnTypes /\ HistTypes
  BY DEF IInv0, TypeInv
<1>2. /\ l \in EndPcs /\ l \in Pcs /\ l \notin WritePcs /\ l \notin RestPcs
      /\ l \notin {"open", "finish", "write", "play", "finalize"} /\ pc[c] \in EndPcs
      /\ pc[c] \in {"finalize", "finalSync", "endTx"} /\ l \in {"finalSync", "endTx"}
      /\ l \notin OpenPcs
  BY DEF EndPcs, Pcs, WritePcs, RestPcs, LateEndPcs, OpenPcs
<1>3. Active(c) /\ pc'[c] = l /\ \A d \in Conn \ {c} : ~Active(d)
  <2>1. Active(c)
    BY <1>2 DEF Active
  <2>2. pc'[c] = l
    BY <1>1 DEF ConnTypes
  <2>. QED
    BY <2>1, <2>2, <1>1, OneActive
<1>4. TypeInv'
  <2>1. ConnTypes'
    BY <1>1, <1>2 DEF ConnTypes
  <2>2. HistTypes'
    BY <1>1 DEF HistTypes
  <2>3. todo = {}
    BY <1>1, <1>2, <1>3 DEF ControlInv, OwnerOf
  <2>. QED
    BY <2>1, <2>2, <2>3, <1>1 DEF TypeInv
<1>5. ControlInv'
  <2>1. LockOf(c)'
    <3>1. LockOf(c)
      BY <1>1 DEF ControlInv
    <3>2. held[c] # NO_LOCK
      BY <3>1, <1>2 DEF LockOf, EndPcs
    <3>. QED
      BY <3>1, <3>2, <1>2, <1>3 DEF LockOf
  <2>2. OwnerOf(c)'
    <3>1. OwnerOf(c)
      BY <1>1 DEF ControlInv
    <3>2. pc'[c] \notin WritePcs \cup {"finish"} /\ pc'[c] # "play" /\ pc'[c] # "write"
      BY <1>2, <1>3
    <3>3. w.ending # "none" /\ w.state # "locked" /\ todo = {}
      BY <3>1, <1>2, <1>3 DEF OwnerOf
    <3>. QED
      BY <3>1, <3>2, <3>3, <1>3 DEF OwnerOf
  <2>3. held' = [held EXCEPT ![c] = held[c]]
    BY <1>1 DEF ConnTypes
  <2>4. \A d \in Conn \ {c} :
           /\ held[c] >= RESERVED_LOCK => held[d] < RESERVED_LOCK
           /\ held[d] >= RESERVED_LOCK => held[c] < RESERVED_LOCK
           /\ held[c] = EXCLUSIVE_LOCK => held[d] = NO_LOCK
           /\ held[d] = EXCLUSIVE_LOCK => held[c] = NO_LOCK
    BY <1>1 DEF ControlInv, LockInv
  <2>. QED
    BY <2>1, <2>2, <2>3, <2>4, <1>1, <1>2, <1>3, ControlStep
<1>6. FileInv'
  BY DEF FileInv, Covers, Harmless, Agree
<1>7. ReadInv'
  BY DEF ReadInv, ColdOf
<1>8. TxOfInv(c)' /\ HotInv(c)'
  BY <1>2, <1>3 DEF TxOfInv, HotInv, InTx
<1>9. WorkInv'
  BY <1>1, <1>3, <1>8, WorkStep
<1>. QED
  BY <1>4, <1>5, <1>6, <1>7, <1>9 DEF IInv0

\* The image of a transaction whose commit is about to take effect.
LEMMA CommitImage ==
  ASSUME IInv0, NEW c \in Conn, pc[c] = "finalize", w.ending = "commit"
  PROVE  /\ w.mem \in Image /\ Whole(w.mem) /\ Agree(db, w.mem, SizeOf(w.mem))
         /\ CtrOf(w.mem) = CtrOf(committed) + 1
         /\ info[w.tx].size = SizeOf(w.mem) /\ info[w.tx].ctr = CtrOf(w.mem)
<1>. DEFINE m == committed
            n == SizeOf(committed)
            i == info[w.tx]
<1>1. InTx(c) /\ w \in Locals /\ TxOk("finalize", w, db, jr, m, n)
  BY AtPlay
<1>2. /\ w.tx = nTx /\ \A x \in maybe : \A p \in Page : x[p] < 2 * w.tx
      /\ CommitOk("finalize", w, i, CtrOf(m))
  BY <1>1 DEF IInv0, WorkInv, TxOfInv
<1>3. /\ w.tx \in 1..MaxTx /\ info \in [1..MaxTx -> Infos] /\ w.mem \in Image /\ MaxTx \in Nat
  BY <1>1, <1>2, LocalsHave, PagerAssumption DEF IInv0, TypeInv, HistTypes
<1>4. i \in Infos /\ w.tx \in Nat /\ 1 \in Page
  BY <1>3, PagerAssumption DEF Page
<1>5. /\ w.mem[1] \in Own(w.tx) /\ i.ctr = CtrOf(m) + 1 /\ Prefix(w.mem, i.size)
      /\ w.dirty = {}
  BY <1>2 DEF CommitOk
<1>6. InfoOf(w.mem[1]) = i
  <2>1. TxOf(w.mem[1]) = w.tx
    BY <1>4, <1>5 DEF Own, TxOf
  <2>2. TxOf(w.mem[1]) \in DOMAIN info
    BY <2>1, <1>3
  <2>. QED
    BY <2>1, <2>2 DEF InfoOf
<1>. HIDE DEF i
<1>7. SizeOf(w.mem) = i.size /\ CtrOf(w.mem) = i.ctr
  BY <1>6 DEF SizeOf, CtrOf
<1>8. CtrOf(m) \in Nat /\ CtrOf(m) > 0 /\ m \in maybe /\ m \in Image
  BY Started
<1>9. /\ \A p \in Page : w.mem[p] = m[p] \/ w.mem[p] \in Own(w.tx)
      /\ \A p \in Page : w.mem[p] # Absent => db[p] = w.mem[p]
  <2>1. MemOk("finalize", w, db, m, n)
    BY <1>1 DEF TxOk
  <2>. QED
    BY <2>1, <1>5 DEF MemOk
<1>10. \A p \in Page : w.mem[p] <= 2 * nTx + 1
  <2>. SUFFICES ASSUME NEW p \in Page PROVE w.mem[p] <= 2 * w.tx + 1
    BY <1>2
  <2>1. m[p] < 2 * w.tx /\ m[p] \in Nat
    BY <1>2, <1>8, PagerAssumption DEF Image, Content, Absent, Garbage
  <2>2. CASE w.mem[p] = m[p]
    BY <2>1, <2>2, <1>4
  <2>3. CASE w.mem[p] \in Own(w.tx)
    BY <2>3, <1>4 DEF Own
  <2>. QED
    BY <2>2, <2>3, <1>9
<1>11. Whole(w.mem)
  <2>1. CtrOf(w.mem) > 0
    BY <1>5, <1>7, <1>8
  <2>. QED
    BY <2>1, <1>5, <1>7, <1>10 DEF Whole
<1>12. Agree(db, w.mem, SizeOf(w.mem))
  BY <1>5, <1>7, <1>9 DEF Agree, Prefix
<1>. QED
  BY <1>3, <1>5, <1>7, <1>11, <1>12 DEF i

\* What is left of the journal is not hot.
LEMMA FinalizeJournal ==
  ASSUME IInv0, NEW c \in Conn, Finalize(c)
  PROVE  JrTypes' /\ ~Hot(jr') /\ InitInv'
<1>. DEFINE zeros == [i \in {1} |-> Zero]
<1>a. pc[c] = "finalize" /\ nTx' = nTx
  BY DEF Finalize
<1>b. \/ journalMode[c] = "DELETE" /\ JournalReplace(NoFile)
      \/ journalMode[c] # "DELETE" /\ w.off = 0 /\ UNCHANGED <<jr, jrDisk, jrOther>>
      \/ journalMode[c] = "TRUNCATE" /\ w.off > 0 /\ JournalReplace(<<>>)
      \/ journalMode[c] = "PERSIST" /\ w.off > 0 /\ JournalWrite(zeros)
  BY DEF Finalize
<1>. HIDE DEF zeros
<1>c. w.off \in Nat
  <2>1. w \in Locals
    BY DEF IInv0, TypeInv
  <2>. QED
    BY <2>1, LocalsHave
<1>1. /\ pc[c] = "finalize" /\ nTx' = nTx
      /\ journalMode[c] = "DELETE" => JournalReplace(NoFile)
      /\ journalMode[c] # "DELETE" /\ w.off = 0 => UNCHANGED <<jr, jrDisk, jrOther>>
      /\ journalMode[c] = "TRUNCATE" /\ w.off > 0 => JournalReplace(<<>>)
      /\ journalMode[c] = "PERSIST" /\ w.off > 0 => JournalWrite(zeros)
  <2>1. ASSUME journalMode[c] = "DELETE" PROVE JournalReplace(NoFile)
    BY <2>1, <1>b, <1>c
  <2>2. ASSUME journalMode[c] # "DELETE", w.off = 0 PROVE UNCHANGED <<jr, jrDisk, jrOther>>
    BY <2>2, <1>b, <1>c
  <2>3. ASSUME journalMode[c] = "TRUNCATE", w.off > 0 PROVE JournalReplace(<<>>)
    BY <2>3, <1>b, <1>c
  <2>4. ASSUME journalMode[c] = "PERSIST", w.off > 0 PROVE JournalWrite(zeros)
    BY <2>4, <1>b, <1>c
  <2>. QED
    BY <1>a, <2>1, <2>2, <2>3, <2>4
<1>2. Active(c) /\ w \in Locals /\ w.off \in Nat
      /\ journalMode[c] \in {"DELETE", "TRUNCATE", "PERSIST"}
  BY <1>1, AtPlay, LocalsHave, PagerAssumption
<1>3. JrTypes /\ InitInv /\ jr \in Journals
  BY DEF IInv0, TypeInv, JrTypes
<1>4. ASSUME NEW new \in {NoFile, <<>>}, JournalReplace(new)
      PROVE  JrTypes' /\ ~Hot(jr') /\ InitInv'
  <2>1. JrTypes' /\ jr' = new /\ DOMAIN SlotsOf(jr') = {}
    BY <1>3, <1>4, JournalReplaceDoes
  <2>2. ~Hot(jr')
    <3>1. CASE new = NoFile
      BY <3>1, <2>1 DEF Hot
    <3>2. CASE new = <<>>
      <4>1. ~(1 <= Len(<<>>))
        OBVIOUS
      <4>. QED
        BY <3>2, <4>1, <2>1 DEF Hot, IsHeader
    <3>. QED
      BY <3>1, <3>2
  <2>. QED
    BY <2>1, <2>2 DEF InitInv
<1>5. jr # NoFile /\ (w.off = 0 => ~Hot(jr)) /\ (w.off > 0 => 1 \in DOMAIN jr)
  <2>1. CASE w.ending = "hot"
    <3>1. jr # NoFile /\ w.off = IF Hot(jr) THEN 1 ELSE 0
      BY <2>1, <1>1, <1>2 DEF IInv0, WorkInv, HotInv
    <3>2. Hot(jr) => 1 \in DOMAIN jr
      BY <3>1, <1>3, SeqParts DEF Hot, IsHeader, Journals
    <3>. QED
      BY <3>1, <3>2
  <2>2. CASE w.ending # "hot"
    <3>1. TxOk("finalize", w, db, jr, committed, SizeOf(committed)) /\ w.state # "locked"
      BY <2>2, <1>1, AtPlay
    <3>2. SlotsOk(w, jr, committed, SizeOf(committed))
      BY <3>1 DEF TxOk, JournalOk
    <3>3. jr # NoFile /\ w.off \in DOMAIN jr
      BY <3>2 DEF SlotsOk
    <3>4. jr \in Seq(Slot)
      BY <3>3, <1>3 DEF Journals
    <3>5. DOMAIN jr = 1..Len(jr) /\ Len(jr) \in Nat
      BY <3>4, SeqParts
    <3>. QED
      BY <3>3, <3>5
  <2>. QED
    BY <2>1, <2>2
<1>6. CASE journalMode[c] = "DELETE"
  BY <1>1, <1>4, <1>6
<1>7. CASE journalMode[c] # "DELETE" /\ w.off = 0
  BY <1>1, <1>3, <1>5, <1>7 DEF JrTypes, InitInv
<1>8. CASE journalMode[c] = "TRUNCATE" /\ w.off > 0
  BY <1>1, <1>4, <1>8
<1>9. CASE journalMode[c] = "PERSIST" /\ w.off > 0
  <2>. DEFINE new == zeros
  <2>1. JournalWrite(new)
    BY <1>1, <1>9
  <2>2. SlotsOf(jr) = jr /\ jr \in Seq(Slot)
    BY <1>3, <1>5 DEF SlotsOf, Journals
  <2>3. DOMAIN jr = 1..Len(jr) /\ Len(jr) \in Nat /\ 1 \in DOMAIN jr
    BY <2>2, <1>5, <1>9, SeqParts
  <2>4. /\ DOMAIN new = {1} /\ \A i \in DOMAIN new : new[i] = Zero
        /\ \A i \in DOMAIN new : new[i] \in Slot
    BY SlotMade DEF zeros
  <2>. HIDE DEF new
  <2>5. Fits(jr, new, Len(jr))
    BY <2>2, <2>3, <2>4 DEF Fits
  <2>6. JrTypes' /\ WrittenTo(jr, new, jr', Len(jr))
    BY <2>1, <2>3, <2>5, <1>3, JournalWriteDoes
  <2>7. /\ jr' \in Seq(Slot) /\ jr' # NoFile /\ Len(jr') = Len(jr) /\ jr'[1] = Zero
        /\ \A i \in 1..Len(jr) : i # 1 => jr'[i] = jr[i]
    BY <2>2, <2>3, <2>4, <2>6 DEF WrittenTo
  <2>8. jr'[1].kind = "zero"
    BY <2>7, SlotFields
  <2>9. ~Hot(jr')
    BY <2>8 DEF Hot, IsHeader
  <2>10. SlotsOf(jr') = jr' /\ DOMAIN jr' = 1..Len(jr)
    BY <2>7, SeqParts DEF SlotsOf
  <2>11. ASSUME NEW i \in DOMAIN jr', jr'[i].kind \in {"hdr", "rec"}
         PROVE  jr'[i].init <= nTx
    <3>1. i # 1 /\ i \in 1..Len(jr) /\ i \in DOMAIN jr
      BY <2>3, <2>8, <2>10, <2>11
    <3>2. jr'[i] = jr[i]
      BY <3>1, <2>7
    <3>. QED
      BY <3>1, <3>2, <2>2, <2>11, <1>3 DEF InitInv
  <2>. QED
    BY <2>6, <2>9, <2>10, <2>11, <1>1 DEF InitInv
<1>. QED
  BY <1>2, <1>6, <1>7, <1>8, <1>9

\* Finalising the journal keeps the invariant: it is what commits.
LEMMA FinalizeKeeps ==
  ASSUME IInv0, NEW c \in Conn, Finalize(c)
  PROVE  IInv0'
<1>. DEFINE l == IF FinalSynced(c) THEN "finalSync" ELSE "endTx"
<1>1. /\ pc[c] = "finalize" /\ pc' = [pc EXCEPT ![c] = l]
      /\ w.ending = "commit" => committed' = w.mem /\ maybe' = {committed, w.mem}
      /\ w.ending # "commit" => committed' = committed /\ maybe' = maybe
      /\ UNCHANGED <<db, dbDisk, held, cache, w, todo, info, nTx, faultVars>>
  BY DEF Finalize, Goto
<1>2. l \in LateEndPcs
  BY DEF LateEndPcs
<1>. HIDE DEF l
<1>3. JrTypes' /\ ~Hot(jr') /\ InitInv'
  BY FinalizeJournal
<1>4. /\ Active(c) /\ w.ending \in {"commit", "rollback", "hot"}
      /\ (w.ending \in {"commit", "hot"} => held[c] = EXCLUSIVE_LOCK)
      /\ (w.ending # "hot" => InTx(c)) /\ \A d \in Conn \ {c} : ~Active(d)
  <2>1. OwnerOf(c) /\ Active(c)
    BY <1>1, AtPlay DEF IInv0, ControlInv
  <2>. QED
    BY <1>1, <2>1, AtPlay DEF OwnerOf
<1>5. DbTypes' /\ info' = info /\ nTx' = nTx /\ nDeaths' = nDeaths /\ nLosses' = nLosses
  BY <1>1 DEF IInv0, TypeInv, DbTypes, faultVars
<1>6. /\ committed \in Image /\ committed \in maybe /\ maybe \subseteq Image
      /\ CtrOf(committed) \in Nat /\ ImageInv /\ ReadInv
  BY Started DEF IInv0
<1>7. \A m \in Image : /\ SizeOf(m)' = SizeOf(m) /\ CtrOf(m)' = CtrOf(m)
                       /\ (Whole(m)' <=> Whole(m))
  BY <1>5 DEF SizeOf, CtrOf, InfoOf, Whole
<1>8. pc'[c] = l /\ \A d \in Conn \ {c} : pc'[d] = pc[d]
  BY <1>1 DEF IInv0, TypeInv, ConnTypes
<1>9. l \notin {"play", "finalize", "reader"} /\ pc[c] \notin LateEndPcs
  BY <1>1, <1>2 DEF LateEndPcs
<1>10. \A d \in Conn \ {c} : ~(Active(d)')
  BY <1>4, <1>8 DEF Active
<1>11. CASE w.ending = "commit"
  <2>1. /\ w.mem \in Image /\ Whole(w.mem) /\ Agree(db, w.mem, SizeOf(w.mem))
        /\ CtrOf(w.mem) = CtrOf(committed) + 1
        /\ info[w.tx].size = SizeOf(w.mem) /\ info[w.tx].ctr = CtrOf(w.mem)
    BY <1>1, <1>11, CommitImage
  <2>2. committed' = w.mem /\ maybe' = {committed, w.mem}
    BY <1>1, <1>11
  <2>3. SizeOf(committed)' = SizeOf(w.mem) /\ CtrOf(committed)' = CtrOf(w.mem)
    BY <2>2, <1>5 DEF SizeOf, CtrOf, InfoOf
  <2>4. ImageInv'
    <3>1. Whole(committed)
      BY <1>6 DEF ImageInv
    <3>2. Whole(committed)' /\ committed' \in maybe'
      BY <2>1, <2>2, <2>3, <1>5 DEF Whole
    <3>3. \A m \in maybe' : m = committed \/ m = w.mem
      BY <2>2
    <3>4. \A m \in Image : Whole(m) => Whole(m)'
      BY <1>7
    <3>. QED
      BY <3>1, <3>2, <3>3, <3>4, <2>1, <1>6 DEF ImageInv
  <2>5. Agree(db', committed', SizeOf(committed)')
    BY <2>1, <2>2, <2>3, <1>1
  <2>6. ASSUME NEW d \in Conn PROVE CacheOf(d)'
    <3>1. pc'[d] # "reader"
      <4>1. CASE d = c
        BY <4>1, <1>8, <1>9
      <4>2. CASE d # c
        <5>1. pc[d] = "open"
          BY <4>2, <1>4, <1>11, AloneExclusive DEF IInv0
        <5>. QED
          BY <4>2, <5>1, <1>8
      <4>. QED
        BY <4>1, <4>2
    <3>2. ~(Active(d)' /\ ~(pc'[d] \in LateEndPcs))
      <4>1. CASE d = c
        BY <4>1, <1>2, <1>8
      <4>2. CASE d # c
        BY <4>2, <1>10
      <4>. QED
        BY <4>1, <4>2
    <3>3. cache[d] # NoCache => 0 < cache[d].ctr /\ cache[d].ctr <= CtrOf(committed)
      BY <1>6 DEF ReadInv, CacheOf
    <3>4. cache[d].ctr \in Nat
      BY DEF IInv0, TypeInv, ConnTypes
    <3>5. cache[d] # NoCache => cache[d].ctr < CtrOf(w.mem)
      BY <3>3, <3>4, <2>1, <1>6
    <3>6. cache[d] # NoCache =>
            /\ 0 < cache[d].ctr /\ cache[d].ctr <= CtrOf(w.mem)
            /\ cache[d].ctr # CtrOf(w.mem)
      BY <3>3, <3>4, <3>5, <2>1, <1>6
    <3>7. w' = w /\ cache' = cache
      BY <1>1
    <3>. QED
      BY <3>1, <3>2, <3>6, <3>7, <2>3, <1>11 DEF CacheOf
  <2>7. LateInv(c)'
    BY <2>1, <2>2, <2>3, <1>1 DEF LateInv
  <2>8. committed' \in Image /\ maybe' \subseteq Image
    BY <2>1, <2>2, <1>6
  <2>. QED
    BY <2>4, <2>5, <2>6, <2>7, <2>8, <1>1, <1>2, <1>3, <1>5, LateStep
<1>12. CASE w.ending # "commit"
  <2>1. committed' = committed /\ maybe' = maybe
    BY <1>1, <1>12
  <2>2. SizeOf(committed)' = SizeOf(committed) /\ CtrOf(committed)' = CtrOf(committed)
    BY <2>1, <1>5 DEF SizeOf, CtrOf, InfoOf
  <2>3. ImageInv'
    <3>1. \A m \in Image : Whole(m) => Whole(m)'
      BY <1>7
    <3>. QED
      BY <3>1, <2>1, <1>6 DEF ImageInv
  <2>4. /\ Agree(db, committed, SizeOf(committed))
        /\ w.ending = "rollback" => w.mem = committed
    <3>1. CASE w.ending = "rollback"
      BY <3>1, <1>1, <1>4 DEF IInv0, WorkInv, TxOfInv
    <3>2. CASE w.ending = "hot"
      BY <3>2, <1>1, <1>4 DEF IInv0, WorkInv, HotInv
    <3>. QED
      BY <3>1, <3>2, <1>4, <1>12
  <2>5. Agree(db', committed', SizeOf(committed)')
    BY <2>1, <2>2, <2>4, <1>1
  <2>6. ASSUME NEW d \in Conn PROVE CacheOf(d)'
    <3>1. CacheOf(d) /\ w' = w /\ cache' = cache
      BY <1>1, <1>6 DEF ReadInv
    <3>2. CASE d = c
      BY <3>1, <3>2, <2>1, <2>2, <1>4, <1>8, <1>9, <1>12 DEF CacheOf
    <3>3. CASE d # c
      BY <3>1, <3>3, <2>1, <2>2, <1>8, <1>10 DEF CacheOf
    <3>. QED
      BY <3>2, <3>3
  <2>7. LateInv(c)'
    BY <2>1, <2>4, <1>1, <1>12 DEF LateInv
  <2>8. committed' \in Image /\ maybe' \subseteq Image
    BY <2>1, <1>6
  <2>. QED
    BY <2>3, <2>5, <2>6, <2>7, <2>8, <1>1, <1>2, <1>3, <1>5, LateStep
<1>. QED
  BY <1>11, <1>12

\* The sync after the journal is finalised keeps the invariant.
LEMMA FinalSyncKeeps ==
  ASSUME IInv0, NEW c \in Conn, FinalSync(c)
  PROVE  IInv0'
<1>1. /\ pc[c] = "finalSync" /\ pc' = [pc EXCEPT ![c] = "endTx"]
      /\ jr = NoFile => jrOther' = {NoFile} /\ UNCHANGED <<jr, jrDisk>>
      /\ jr # NoFile => JournalSync
      /\ maybe' = {committed}
      /\ UNCHANGED <<db, dbDisk, held, cache, w, todo, info, committed, nTx, faultVars>>
  BY DEF FinalSync, Goto
<1>2. JrTypes' /\ jr' = jr
  <2>1. JrTypes
    BY DEF IInv0, TypeInv
  <2>2. CASE jr = NoFile
    BY <2>1, <2>2, <1>1 DEF JrTypes, Journals
  <2>3. CASE jr # NoFile
    BY <2>1, <2>3, <1>1, JournalSyncDoes
  <2>. QED
    BY <2>2, <2>3
<1>3. "endTx" \in LateEndPcs /\ pc[c] \in LateEndPcs /\ "endTx" # "reader" /\ Active(c)
  BY <1>1 DEF LateEndPcs, Active, EndPcs
<1>4. ReadInv /\ ImageInv /\ InitInv /\ LateInv(c)
  BY DEF IInv0, WorkInv
<1>5. ~Hot(jr)
  BY <1>3, <1>4 DEF ReadInv, ColdOf
<1>6. Agree(db, committed, SizeOf(committed))
  BY <1>5, ColdFile
<1>7. /\ DbTypes' /\ info' = info /\ nTx' = nTx /\ nDeaths' = nDeaths /\ nLosses' = nLosses
      /\ InitInv' /\ ~Hot(jr')
  BY <1>1, <1>2, <1>4, <1>5 DEF IInv0, TypeInv, DbTypes, faultVars, InitInv
<1>8. SizeOf(committed)' = SizeOf(committed) /\ CtrOf(committed)' = CtrOf(committed)
  BY <1>1 DEF SizeOf, CtrOf, InfoOf
<1>9. ImageInv'
  <2>1. Whole(committed)'
    BY <1>1, <1>4, <1>8 DEF ImageInv, Whole
  <2>2. \A m \in maybe' : m = committed'
    BY <1>1
  <2>3. committed' \in maybe'
    BY <1>1
  <2>. QED
    BY <2>1, <2>2, <2>3 DEF ImageInv, Whole, SizeOf, CtrOf, InfoOf
<1>10. Agree(db', committed', SizeOf(committed)')
  BY <1>1, <1>6, <1>8
<1>11. ASSUME NEW d \in Conn PROVE CacheOf(d)'
  <2>1. CacheOf(d) /\ w' = w /\ cache' = cache /\ committed' = committed
    BY <1>1, <1>4 DEF ReadInv
  <2>2. pc'[c] = "endTx" /\ \A e \in Conn \ {c} : pc'[e] = pc[e]
    BY <1>1 DEF IInv0, TypeInv, ConnTypes
  <2>3. CASE d = c
    BY <2>1, <2>2, <2>3, <1>3, <1>8 DEF CacheOf
  <2>4. CASE d # c
    <3>1. (Active(d)') <=> Active(d)
      BY <2>2, <2>4 DEF Active
    <3>. QED
      BY <2>1, <2>2, <2>4, <3>1, <1>8 DEF CacheOf
  <2>. QED
    BY <2>3, <2>4
<1>12. LateInv(c)'
  BY <1>1, <1>3, <1>4, <1>8 DEF LateInv
<1>13. committed' \in Image /\ maybe' \subseteq Image
  BY <1>1, Started
<1>. QED
  BY <1>1, <1>2, <1>3, <1>7, <1>9, <1>10, <1>11, <1>12, <1>13, LateStep

\* Giving the lock back keeps the invariant.
LEMMA EndTransactionKeeps ==
  ASSUME IInv0, NEW c \in Conn, EndTransaction(c)
  PROVE  IInv0'
<1>. DEFINE n == SizeOf(committed)
            l == IF w.ending = "hot" THEN "validate" ELSE "reader"
<1>1. /\ pc[c] = "endTx" /\ pc' = [pc EXCEPT ![c] = l]
      /\ held' = [held EXCEPT ![c] = SHARED_LOCK] /\ w' = NoWrite /\ todo' = {}
      /\ w.ending = "commit" => /\ DbWrite(Cut(info[w.tx].size))
                                /\ cache' = [cache EXCEPT ![c] = [img |-> w.mem,
                                                                  ctr |-> info[w.tx].ctr]]
      /\ w.ending # "commit" => UNCHANGED <<db, dbDisk>>
      /\ w.ending = "rollback" => cache' = [cache EXCEPT ![c].img = w.mem]
      /\ w.ending = "hot" => cache' = cache
      /\ UNCHANGED <<jr, jrDisk, jrOther, histVars, faultVars>>
  BY DEF EndTransaction, Goto, Lock
<1>2. Active(c) /\ pc[c] \in LateEndPcs /\ l \in RestPcs /\ SHARED_LOCK # NO_LOCK
      /\ l # "open" /\ l \notin LateEndPcs
  BY <1>1 DEF Active, EndPcs, LateEndPcs, RestPcs, SHARED_LOCK, NO_LOCK
<1>3. /\ TypeInv /\ ConnTypes /\ DbTypes /\ HistTypes /\ CacheOf(c) /\ ColdOf(c) /\ LateInv(c)
      /\ OwnerOf(c) /\ w \in Locals
  BY DEF IInv0, TypeInv, ReadInv, WorkInv, ControlInv
<1>4. w.ending \in {"commit", "rollback", "hot"}
  <2>1. w.ending # "none"
    BY <1>1, <1>2, <1>3 DEF OwnerOf
  <2>2. w.ending \in Endings
    BY <1>3, LocalsHave
  <2>. QED
    BY <2>1, <2>2 DEF Endings
<1>5. \A d \in Conn \ {c} : ~Active(d) /\ held[d] # EXCLUSIVE_LOCK
  BY <1>2, OneActive DEF IInv0, TypeInv, EXCLUSIVE_LOCK, RESERVED_LOCK
<1>6. ~Hot(jr)
  BY <1>2, <1>3 DEF ColdOf
<1>7. Agree(db, committed, n)
  BY <1>6, ColdFile
<1>8. /\ w.ending \in {"commit", "rollback"} => w.mem = committed
      /\ w.ending = "commit" => info[w.tx].size = n /\ info[w.tx].ctr = CtrOf(committed)
  BY <1>2, <1>3 DEF LateInv
<1>9. n \in Nat /\ committed \in Image /\ CtrOf(committed) \in Nat /\ CtrOf(committed) > 0
  BY Started
<1>10. /\ jr' = jr /\ jrDisk' = jrDisk /\ jrOther' = jrOther
       /\ info' = info /\ committed' = committed /\ maybe' = maybe /\ nTx' = nTx
       /\ nDeaths' = nDeaths /\ nLosses' = nLosses
       /\ nDeaths' \in Nat /\ nLosses' \in Nat
  BY <1>1, <1>3 DEF histVars, faultVars, HistTypes
<1>11. SizeOf(committed)' = n /\ CtrOf(committed)' = CtrOf(committed)
  BY <1>10 DEF SizeOf, CtrOf, InfoOf
<1>12. DbTypes' /\ \A p \in Page : p <= n => db'[p] = db[p]
  <2>1. CASE w.ending = "commit"
    <3>1. DbTypes' /\ \A p \in Page : db'[p] = IF p > n THEN Absent ELSE db[p]
      BY <2>1, <1>1, <1>3, <1>8, CutDoes
    <3>2. \A p \in Page : p <= n => ~(p > n)
      BY <1>9 DEF Page
    <3>. QED
      BY <3>1, <3>2
  <2>2. CASE w.ending # "commit"
    BY <2>2, <1>1, <1>3 DEF DbTypes
  <2>. QED
    BY <2>1, <2>2
<1>13. FileInv'
  BY <1>6, <1>7, <1>10, <1>11, <1>12 DEF FileInv, Covers, Harmless, Agree
<1>14. pc'[c] = l
  BY <1>1, <1>3 DEF ConnTypes
<1>15. ColdOf(c)'
  BY <1>6, <1>10 DEF ColdOf
<1>16. ~(Active(c)')
  BY <1>2, <1>14, PcKinds DEF Active
<1>17. /\ cache' \in [Conn -> [img : Image, ctr : Nat]]
       /\ \A d \in Conn \ {c} : cache'[d] = cache[d]
       /\ w.ending # "hot" => cache'[c].img = committed /\ cache'[c].ctr = CtrOf(committed)
       /\ w.ending = "hot" => cache' = cache
  <2>1. CASE w.ending = "commit"
    <3>. DEFINE new == [img |-> w.mem, ctr |-> info[w.tx].ctr]
    <3>1. new \in [img : Image, ctr : Nat] /\ new.img = committed /\ new.ctr = CtrOf(committed)
      BY <2>1, <1>8, <1>9
    <3>2. cache' = [cache EXCEPT ![c] = new]
      BY <2>1, <1>1
    <3>. HIDE DEF new
    <3>. QED
      BY <2>1, <3>1, <3>2, <1>3 DEF ConnTypes
  <2>2. CASE w.ending = "rollback"
    <3>1. cache' = [cache EXCEPT ![c].img = committed]
      BY <2>2, <1>1, <1>8
    <3>2. cache[c].ctr = CtrOf(committed)
      BY <2>2, <1>2, <1>3 DEF CacheOf
    <3>. QED
      BY <2>2, <3>1, <3>2, <1>3, <1>9 DEF ConnTypes
  <2>3. CASE w.ending = "hot"
    BY <2>3, <1>1, <1>3 DEF ConnTypes
  <2>. QED
    BY <2>1, <2>2, <2>3, <1>4
<1>18. CacheOf(c)'
  <2>1. CASE w.ending # "hot"
    BY <2>1, <1>9, <1>10, <1>11, <1>14, <1>16, <1>17 DEF CacheOf
  <2>2. CASE w.ending = "hot"
    <3>1. pc'[c] # "reader"
      BY <2>2, <1>14
    <3>. QED
      BY <2>2, <3>1, <1>3, <1>10, <1>11, <1>16, <1>17 DEF CacheOf
  <2>. QED
    BY <2>1, <2>2
<1>. HIDE DEF l
<1>. QED
  BY <1>1, <1>2, <1>5, <1>10, <1>12, <1>13, <1>15, <1>17, <1>18, QuietStep

-----------------------------------------------------------------------------
(* The invariant holds at first and every step of a connection keeps it *)

\* The initial states satisfy the invariant.
LEMMA InitHolds ==
  ASSUME Init
  PROVE  IInv0
<1>. USE PagerAssumption
<1>1. /\ db = NewImage /\ dbDisk = [p \in Page |-> {db[p]}]
      /\ jr = NoFile /\ jrDisk = <<>> /\ jrOther = {NoFile}
      /\ held = [c \in Conn |-> NO_LOCK] /\ pc = [c \in Conn |-> "open"]
      /\ cache = [c \in Conn |-> NoCache] /\ w = NoWrite /\ todo = {}
      /\ info = [t \in 1..MaxTx |-> [ctr |-> 1, size |-> NInit]]
      /\ committed = NewImage /\ maybe = {NewImage}
      /\ nTx = 1 /\ nDeaths = 0 /\ nLosses = 0
  BY DEF Init
<1>2. NewImage \in Image /\ \A p \in Page : NewImage[p] = IF p <= NInit THEN 2 ELSE Absent
  <2>1. 2 \in Content /\ Absent \in Content
    BY DEF Content, Absent, Garbage
  <2>. QED
    BY <2>1 DEF NewImage, Image
<1>3. /\ NInit \in Page /\ NInit \in Nat /\ NInit \in 0..NPage /\ 1 \in Page /\ 1 <= NInit
      /\ MaxTx \in Nat /\ 1 \in 1..MaxTx
  BY DEF Page
<1>4. SlotsOf(jr) = <<>> /\ DOMAIN SlotsOf(jr) = {}
  BY <1>1 DEF SlotsOf
<1>5. TypeInv
  <2>1. DbTypes
    BY <1>1, <1>2 DEF DbTypes, Image
  <2>2. JrTypes
    <3>1. <<>> \in Seq(SUBSET Slot) /\ DOMAIN <<>> = {}
      OBVIOUS
    <3>. QED
      BY <3>1, <1>1, <1>4 DEF JrTypes, Journals
  <2>3. ConnTypes
    <3>1. "open" \in Pcs /\ NO_LOCK \in NO_LOCK..EXCLUSIVE_LOCK
      BY DEF Pcs, NO_LOCK, EXCLUSIVE_LOCK
    <3>. QED
      BY <3>1, <1>1, NoWriteTypes DEF ConnTypes
  <2>4. HistTypes
    <3>1. [ctr |-> 1, size |-> NInit] \in Infos
      BY <1>3 DEF Infos
    <3>. QED
      BY <3>1, <1>1, <1>2, <1>3 DEF HistTypes
  <2>. QED
    BY <2>1, <2>2, <2>3, <2>4, <1>1, NoWriteTypes DEF TypeInv
<1>6. \A c \in Conn : ~Active(c)
  BY <1>1, PcKinds DEF Active
<1>7. ControlInv
  <2>1. LockInv
    BY <1>1 DEF LockInv, NO_LOCK, RESERVED_LOCK, EXCLUSIVE_LOCK
  <2>2. IdleInv
    BY <1>1 DEF IdleInv
  <2>3. ASSUME NEW c \in Conn PROVE LockOf(c) /\ OwnerOf(c)
    <3>1. pc[c] = "open" /\ held[c] = NO_LOCK
      BY <1>1
    <3>2. "open" \notin RestPcs \cup WritePcs \cup EndPcs
      BY DEF RestPcs, WritePcs, EndPcs
    <3>. QED
      BY <3>1, <3>2, <1>6 DEF LockOf, OwnerOf
  <2>. QED
    BY <2>1, <2>2, <2>3 DEF ControlInv
<1>8. SizeOf(committed) = NInit /\ CtrOf(committed) = 1
  <2>1. committed[1] = 2
    BY <1>1, <1>2, <1>3
  <2>2. TxOf(2) = 1
    BY DEF TxOf
  <2>3. InfoOf(2) = [ctr |-> 1, size |-> NInit]
    BY <2>2, <1>1, <1>3 DEF InfoOf
  <2>. QED
    BY <2>1, <2>3 DEF SizeOf, CtrOf
<1>9. ImageInv
  <2>1. Prefix(committed, NInit)
    BY <1>1, <1>2, <1>3 DEF Prefix, Absent
  <2>2. \A p \in Page : committed[p] <= 2 * nTx + 1
    BY <1>1, <1>2 DEF Absent
  <2>3. Whole(committed)
    BY <2>1, <2>2, <1>8 DEF Whole
  <2>. QED
    BY <2>3, <1>1 DEF ImageInv
<1>10. ~Hot(jr)
  BY <1>1 DEF Hot
<1>11. FileInv
  BY <1>1, <1>10 DEF FileInv, Covers, Harmless
<1>12. ReadInv
  <2>. SUFFICES ASSUME NEW c \in Conn PROVE CacheOf(c)
    BY <1>10 DEF ReadInv, ColdOf
  <2>1. cache[c] = NoCache /\ pc[c] # "reader"
    BY <1>1
  <2>. QED
    BY <2>1, <1>6 DEF CacheOf
<1>13. InitInv
  BY <1>4 DEF InitInv
<1>14. WorkInv
  <2>. SUFFICES ASSUME NEW c \in Conn PROVE TxOfInv(c) /\ HotInv(c) /\ LateInv(c)
    BY DEF WorkInv
  <2>1. pc[c] = "open" /\ "open" \notin OpenPcs \cup {"play", "finalize"} \cup LateEndPcs
    BY <1>1, PcKinds
  <2>. QED
    BY <2>1, <1>6 DEF TxOfInv, HotInv, LateInv, InTx
<1>. QED
  BY <1>5, <1>7, <1>9, <1>11, <1>12, <1>13, <1>14 DEF IInv0

\* A step of a reader keeps the invariant.
LEMMA ReaderKeeps ==
  ASSUME IInv0, NEW c \in Conn, Reader(c)
  PROVE  IInv0'
<1>1. CASE SharedLock(c) \/ JournalExists(c) \/ CheckReserved(c) \/ ReadFirstByte(c)
  BY <1>1, SharedLockKeeps, JournalExistsKeeps, CheckReservedKeeps, ReadFirstByteKeeps
<1>2. CASE HotBusy(c) \/ HotGone(c) \/ HotPlayback(c) \/ Validate(c) \/ Unlock(c)
  BY <1>2, HotBusyKeeps, HotGoneKeeps, HotPlaybackKeeps, ValidateKeeps, UnlockKeeps
<1>. QED
  BY <1>1, <1>2 DEF Reader

\* A step of a writer keeps the invariant.
LEMMA WriterKeeps ==
  ASSUME ~AlignedSegments, IInv0, NEW c \in Conn, Writer(c)
  PROVE  IInv0'
<1>1. CASE PagerBegin(c) \/ OpenSavepoint(c) \/ RollbackTo(c) \/ ExclusiveBusy(c)
  BY <1>1, PagerBeginKeeps, OpenSavepointKeeps, RollbackToKeeps, ExclusiveBusyKeeps
<1>2. CASE CommitPhaseOne(c) \/ SyncRecords(c) \/ WriteRecordCount(c)
  BY <1>2, CommitPhaseOneKeeps, SyncRecordsKeeps, WriteRecordCountKeeps
<1>3. CASE SyncHeader(c) \/ SyncDatabase(c) \/ CommitPhaseTwo(c)
  BY <1>3, SyncHeaderKeeps, SyncDatabaseKeeps, CommitPhaseTwoKeeps
<1>4. ASSUME NEW p \in Page, Write(c, p) \/ StressSync(c, p) \/ StressWrite(c, p)
          \/ WritePage(c, p)
      PROVE  IInv0'
  BY <1>4, WriteKeeps, StressSyncKeeps, StressWriteKeeps, WritePageKeeps
<1>. QED
  BY <1>1, <1>2, <1>3, <1>4 DEF Writer

\* A step of the end of a transaction keeps the invariant.
LEMMA EndingKeeps ==
  ASSUME IInv0, NEW c \in Conn, Ending(c)
  PROVE  IInv0'
<1>1. CASE RollbackNothing(c) \/ Rollback(c) \/ PlayPage(c) \/ PlaySync(c)
  BY <1>1, RollbackNothingKeeps, RollbackKeeps, PlayPageKeeps, PlaySyncKeeps
<1>2. CASE Finalize(c) \/ FinalSync(c) \/ EndTransaction(c)
  BY <1>2, FinalizeKeeps, FinalSyncKeeps, EndTransactionKeeps
<1>. QED
  BY <1>1, <1>2 DEF Ending

\* A step that changes nothing keeps the invariant.
LEMMA StutterKeeps ==
  ASSUME IInv0, UNCHANGED vars
  PROVE  IInv0'
<1>. USE DEF vars, fileVars, connVars, histVars, faultVars
<1>1. TypeInv'
  BY DEF IInv0, TypeInv, DbTypes, JrTypes, ConnTypes, HistTypes
<1>2. ControlInv'
  BY DEF IInv0, ControlInv, LockInv, IdleInv, LockOf, OwnerOf, Active
<1>3. /\ committed' = committed /\ maybe' = maybe /\ nTx' = nTx /\ info' = info
      /\ jr' = jr /\ db' = db /\ w' = w /\ todo' = todo /\ pc' = pc /\ held' = held
      /\ cache' = cache
  OBVIOUS
<1>4. /\ SizeOf(committed)' = SizeOf(committed) /\ CtrOf(committed)' = CtrOf(committed)
      /\ \A m \in maybe : SizeOf(m)' = SizeOf(m) /\ CtrOf(m)' = CtrOf(m)
  BY <1>3 DEF SizeOf, CtrOf, InfoOf
<1>5. ImageInv'
  BY <1>3, <1>4 DEF IInv0, ImageInv, Whole
<1>6. FileInv' /\ InitInv'
  BY <1>3, <1>4 DEF IInv0, FileInv, InitInv
<1>7. ReadInv'
  BY <1>3, <1>4 DEF IInv0, ReadInv, CacheOf, ColdOf, Active
<1>8. WorkInv'
  <2>. SUFFICES ASSUME NEW c \in Conn PROVE TxOfInv(c)' /\ HotInv(c)' /\ LateInv(c)'
    BY DEF WorkInv
  <2>1. TxOfInv(c) /\ HotInv(c) /\ LateInv(c)
    BY DEF IInv0, WorkInv
  <2>2. TxOfInv(c)'
    BY <2>1, <1>3, <1>4 DEF TxOfInv, InTx
  <2>3. HotInv(c)'
    BY <2>1, <1>3, <1>4 DEF HotInv, Active
  <2>4. LateInv(c)'
    BY <2>1, <1>3, <1>4 DEF LateInv
  <2>. QED
    BY <2>2, <2>3, <2>4
<1>. QED
  BY <1>1, <1>2, <1>5, <1>6, <1>7, <1>8 DEF IInv0

-----------------------------------------------------------------------------
(* The pages that pInJournal records *)

JournaledInv == w.inJournal \subseteq 1..w.orig

\* A transaction under way journals no page beyond its start.
LEMMA JournaledInTx == IInv0 /\ (\E c \in Conn : InTx(c)) => JournaledInv
<1>. SUFFICES ASSUME IInv0, NEW c \in Conn, InTx(c)
              PROVE  JournaledInv
  OBVIOUS
<1>. DEFINE n == SizeOf(committed)
<1>1. w \in Locals /\ TxOk(pc[c], w, db, jr, committed, n)
  BY TxFacts DEF IInv0, WorkInv, TxOfInv
<1>2. w.orig \in Nat /\ w.inJournal \in SUBSET Page
  BY <1>1, LocalsHave, PagerAssumption
<1>. SUFFICES ASSUME NEW p \in w.inJournal PROVE p <= w.orig
  BY <1>2, PagerAssumption DEF JournaledInv, Page
<1>3. w.state # "locked" /\ SlotsOk(w, jr, committed, n)
  BY <1>1 DEF TxOk, JournalOk, LockedOk
<1>4. PICK i \in RecordsOf(w, jr) : jr[i].pg = p
  BY <1>3 DEF SlotsOk
<1>5. OwnSlot(w, jr[i], committed, n) /\ jr[i].kind = "rec"
  BY <1>3, <1>4 DEF SlotsOk, RecordsOf
<1>. QED
  BY <1>4, <1>5 DEF OwnSlot

\* The same of the next state.
LEMMA JournaledNext == (IInv0 /\ (\E c \in Conn : InTx(c)) => JournaledInv)'
BY JournaledInTx, PTL

\* A step of a transaction leaves it in progress.
LEMMA StillInTx ==
  ASSUME IInv0', NEW c \in Conn, pc'[c] \in WritePcs
  PROVE  JournaledInv'
<1>1. (Active(c) /\ pc[c] \in OpenPcs /\ w.ending = "none" /\ w.owner = c)'
  BY DEF IInv0, ControlInv, OwnerOf, Active, OpenPcs, EndPcs
<1>2. (\E d \in Conn : InTx(d))'
  BY <1>1 DEF InTx
<1>. QED
  BY <1>2, JournaledNext

\* The step of a connection keeps JournaledInv.
LEMMA JournaledKeeps ==
  ASSUME IInv0, IInv0', JournaledInv, NEW c \in Conn,
         Reader(c) \/ Writer(c) \/ Ending(c) \/ Die(c)
  PROVE  JournaledInv'
<1>1. /\ NoWrite.inJournal = {} /\ w \in Locals /\ pc \in [Conn -> Pcs]
  BY DEF NoWrite, IInv0, TypeInv, ConnTypes
<1>2. CASE w' = w
  BY <1>2 DEF JournaledInv
<1>3. CASE w' = NoWrite
  BY <1>1, <1>3 DEF JournaledInv
<1>4. CASE Reader(c)
  <2>1. CASE HotPlayback(c)
    <3>1. w'.inJournal = {}
      BY <2>1 DEF HotPlayback, NoWrite
    <3>. QED
      BY <3>1 DEF JournaledInv
  <2>2. CASE ~HotPlayback(c)
    <3>1. w' = w
      BY <1>4, <2>2 DEF Reader, SharedLock, JournalExists, CheckReserved, ReadFirstByte,
                        HotBusy, HotGone, Validate, Unlock
    <3>. QED
      BY <3>1, <1>2
  <2>. QED
    BY <2>1, <2>2
<1>5. CASE Writer(c)
  <2>1. CASE PagerBegin(c)
    <3>1. pc'[c] \in WritePcs
      BY <2>1, <1>1 DEF PagerBegin, Goto, WritePcs
    <3>. QED
      BY <3>1, StillInTx
  <2>2. CASE CommitPhaseOne(c)
    <3>1. pc'[c] \in WritePcs
      BY <2>2, <1>1 DEF CommitPhaseOne, SyncJournal, Goto, WritePcs
    <3>. QED
      BY <3>1, StillInTx
  <2>3. CASE OpenSavepoint(c) \/ RollbackTo(c) \/ ExclusiveBusy(c)
             \/ \E p \in Page : Write(c, p) \/ StressWrite(c, p)
    <3>1. pc[c] = "write" /\ pc' = pc
      BY <2>3 DEF OpenSavepoint, RollbackTo, ExclusiveBusy, Write, StressWrite, connVars
    <3>. QED
      BY <3>1, StillInTx DEF WritePcs
  <2>4. CASE \E p \in Page : StressSync(c, p)
    <3>1. pc'[c] \in WritePcs
      BY <2>4, <1>1 DEF StressSync, SyncJournal, Goto, WritePcs
    <3>. QED
      BY <3>1, StillInTx
  <2>5. CASE \E p \in Page : WritePage(c, p)
    <3>1. pc'[c] \in WritePcs
      BY <2>5, <1>1 DEF WritePage, Goto, WritePcs
    <3>. QED
      BY <3>1, StillInTx
  <2>6. CASE SyncRecords(c) \/ WriteRecordCount(c) \/ SyncDatabase(c)
    <3>1. w' = w
      BY <2>6 DEF SyncRecords, WriteRecordCount, SyncDatabase
    <3>. QED
      BY <3>1, <1>2
  <2>7. CASE SyncHeader(c)
    <3>1. pc'[c] \in WritePcs
      BY <2>7, <1>1 DEF SyncHeader, Goto, WritePcs
    <3>. QED
      BY <3>1, StillInTx
  <2>8. CASE CommitPhaseTwo(c)
    <3>1. w'.inJournal = w.inJournal /\ w'.orig = w.orig
      BY <2>8, <1>1 DEF CommitPhaseTwo, Locals
    <3>. QED
      BY <3>1 DEF JournaledInv
  <2>. QED
    BY <1>5, <2>1, <2>2, <2>3, <2>4, <2>5, <2>6, <2>7, <2>8 DEF Writer
<1>6. CASE Ending(c)
  <2>1. CASE RollbackNothing(c) \/ EndTransaction(c)
    BY <2>1, <1>3 DEF RollbackNothing, EndTransaction
  <2>2. CASE Finalize(c) \/ FinalSync(c)
    BY <2>2, <1>2 DEF Finalize, FinalSync
  <2>3. CASE Rollback(c)
    <3>1. w'.inJournal = w.inJournal /\ w'.orig = w.orig
      BY <2>3, <1>1 DEF Rollback, Locals
    <3>. QED
      BY <3>1 DEF JournaledInv
  <2>4. CASE PlayPage(c)
    <3>1. \/ w' = w
          \/ \E p, x : w' = [w EXCEPT !.mem[p] = x]
      BY <2>4 DEF PlayPage
    <3>2. w'.inJournal = w.inJournal /\ w'.orig = w.orig
      BY <3>1, <1>1 DEF Locals
    <3>. QED
      BY <3>2 DEF JournaledInv
  <2>5. CASE PlaySync(c)
    <3>1. \/ w' = w
          \/ \E x : w' = [w EXCEPT !.mem = x]
      BY <2>5 DEF PlaySync
    <3>2. w'.inJournal = w.inJournal /\ w'.orig = w.orig
      BY <3>1, <1>1 DEF Locals
    <3>. QED
      BY <3>2 DEF JournaledInv
  <2>. QED
    BY <1>6, <2>1, <2>2, <2>3, <2>4, <2>5 DEF Ending
<1>7. CASE Die(c)
  BY <1>7, <1>2, <1>3 DEF Die
<1>. QED
  BY <1>4, <1>5, <1>6, <1>7

-----------------------------------------------------------------------------
(* What the invariant says *)

\* The invariant implies TypeOK.
LEMMA InvTypes ==
  ASSUME IInv0, JournaledInv
  PROVE  TypeOK
<1>1. DbTypes /\ ConnTypes /\ HistTypes /\ w \in Locals
  BY DEF IInv0, TypeInv
<1>2. w.owner \in Conn \cup {NoConn} /\ w.mem \in Image
          /\ w.needSync \cup w.dirty \subseteq Page
  BY <1>1, LocalsHave
<1>. QED
  BY <1>1, <1>2 DEF TypeOK, DbTypes, ConnTypes, HistTypes, JournaledInv

\* The invariant implies RecoveryIsExact.
LEMMA InvRecovery ==
  ASSUME IInv0
  PROVE  RecoveryIsExact
<1>1. db \in Image /\ jr \in Journals /\ committed \in Image
      /\ Prefix(committed, SizeOf(committed))
  BY Started DEF IInv0, TypeInv, DbTypes, JrTypes
<1>2. Covers(db, jr, committed, SizeOf(committed))
  BY DEF IInv0, FileInv
<1>. QED
  BY <1>1, <1>2, RecoveredIs, PagerAssumption DEF RecoveryIsExact

\* The invariant implies ReaderSeesCommitted and PowerLossIsAtomic.
LEMMA InvReaders ==
  ASSUME IInv0
  PROVE  ReaderSeesCommitted /\ PowerLossIsAtomic
BY DEF IInv0, ReadInv, CacheOf, ImageInv, ReaderSeesCommitted, PowerLossIsAtomic
=============================================================================
