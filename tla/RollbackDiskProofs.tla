------------------------- MODULE RollbackDiskProofs -------------------------
(***************************************************************************)
(* What a power loss may leave of the files of RollbackPager. DiskInv says *)
(* what the disk may hold beside what the processes have written: which    *)
(* images a recovery of it may end with, and how far the synced part of    *)
(* the journal can undo what has reached the database file. With IInv0 it  *)
(* is inductive under the hypothesis Sound, and implies the properties of  *)
(* the runs.                                                               *)
(*                                                                         *)
(* Then the refinement of SnapshotStore: what the connections see and      *)
(* commit, through deaths, power losses, spills and savepoints, is what    *)
(* they would see and commit in a store that knows only snapshots.         *)
(***************************************************************************)
EXTENDS RollbackPagerProofs

-----------------------------------------------------------------------------
(* The hypothesis *)

\* The records of a commit do not end at a sector boundary (see SyncHeader).  If
\* the power may fail, every connection has synchronous FULL or EXTRA, and a
\* commit that others may have seen is not lost because the end of its journal
\* was never synced (see PowerLoss).
Sound == /\ ~AlignedSegments
         /\ MaxPowerLoss > 0 => ~LoseUnsynced /\ \A c \in Conn : fullSync(c)

-----------------------------------------------------------------------------
(* What a power loss may leave of the files: e is what the disk may hold of    *)
(* the database, f of the journal, o what else its name may lead to.           *)

\* A slot that ends the records of transaction t, and one that a recovery of
\* m may read as one of its own.
Quiet(s, t) == /\ s.kind = "hdr" => ~s.magic
               /\ s.kind = "rec" => s.init # t
Mild(s, t, m, n) == /\ s.kind = "hdr" /\ s.magic => s.init = t /\ s.orig >= n
                    /\ s.kind = "rec" /\ s.init = t /\ s.pg <= n => s.data = m[s.pg]
\* Whatever the disk keeps, the first k slots are mild and a recovery stops there.
Fence(f, t, k, m, n) ==
  \A i \in DOMAIN f : \A s \in f[i] : /\ i <= k => Mild(s, t, m, n)
                                      /\ i = k + 1 => Quiet(s, t)
Fenced(f, T, m, n) == \E t \in T, k \in Nat : Fence(f, t, k, m, n)
Single(j) == [i \in DOMAIN j |-> {j[i]}]
\* The transactions that have begun, and one that never will.
Begun == 0..nTx \cup {MaxTx + 1}

SyncedTo(f, j, k) == \A i \in DOMAIN f : i <= k => f[i] = {j[i]}
AllSynced(f, o, j) == o = {} /\ \A i \in DOMAIN f : f[i] = {j[i]}
SyncedUndo(f, j, p) ==
  Hot(j) /\ \E i \in Playback(j, 0) : j[i].pg = p /\ SyncedTo(f, j, i)
Clean(e, m, n) == \A p \in Page : p <= n => e[p] = {m[p]}
Undone(e, f, o, j, m, n) ==
  \A p \in Page : p <= n => e[p] = {m[p]} \/ (o = {} /\ SyncedUndo(f, j, p))
Durable(e, f, o, j, m, n, T) ==
  /\ Fenced(f, T, m, n)
  /\ \A g \in o : g # NoFile => Fenced(Single(g), T, m, n)
  /\ Undone(e, f, o, j, m, n)

\* The disk holds the files, and nothing of a transaction that has not begun.
InitOk(s) == s.kind \in {"hdr", "rec"} => s.init <= nTx
DiskHolds ==
  /\ \A p \in Page : db[p] \in dbDisk[p]
  /\ \A i \in DOMAIN jrDisk : SlotsOf(jr)[i] \in jrDisk[i] /\ \A s \in jrDisk[i] : InitOk(s)
  /\ \A g \in jrOther : g # NoFile => \A i \in DOMAIN g : InitOk(g[i])
Sure == maybe = {committed}
SureInv ==
  /\ Sure \/ \E x \in maybe : maybe = {committed, x}
  /\ Sure => Durable(dbDisk, jrDisk, jrOther, jr, committed, SizeOf(committed), Begun)
  /\ ~Sure => ~Hot(jr) /\ Clean(dbDisk, committed, SizeOf(committed))
\* The transaction under way.
TxDisk(sure, at, v, d, e, f, o, j, m, n, T) ==
  /\ sure /\ v.hdr = 0 /\ at \in {"write", "jsync", "play", "finalize"} =>
       Fenced(f, T \ {v.tx}, m, n)
  /\ v.hdr > 0 => o = {} /\ SyncedTo(f, j, v.hdr)
  /\ v.hdr > 0 /\ at # "jsync2" /\ v.hdr + 1 \in DOMAIN f =>
       \A s \in f[v.hdr + 1] : Quiet(s, v.tx)
  /\ at = "jhdr" => sure /\ AllSynced(f, o, j)
  /\ at = "jsync2" =>
       /\ sure /\ o = {} /\ \A i \in DOMAIN f : i # v.slot => f[i] = {j[i]}
       /\ \A s \in f[v.slot] : s = j[v.slot] \/ Quiet(s, v.tx)
  /\ (at = "flush" /\ v.goal = 0) \/ at \in {"dbsync", "finish"} \/ v.ending = "commit" =>
       AllSynced(f, o, j)
  /\ at = "finish" \/ v.ending = "commit" => \A p \in Page : e[p] = {d[p]}
  /\ at = "finalize" /\ v.ending = "rollback" => Clean(e, m, n)
TxDiskInv(c) ==
  InTx(c) => TxDisk(Sure, pc[c], w, db, dbDisk, jrDisk, jrOther, jr, committed,
                    SizeOf(committed), Begun)
HotDiskInv(c) ==
  pc[c] \in {"play", "finalize"} /\ w.ending = "hot" =>
    /\ AllSynced(jrDisk, jrOther, jr)
    /\ pc[c] = "finalize" => Clean(dbDisk, committed, SizeOf(committed))
\* The journal has been finalised, and what the disk keeps of that decides.
Reverts(j) ==
  \E m \in maybe : /\ Covers(db, j, m, SizeOf(m))
                   /\ Fenced(Single(j), Begun, m, SizeOf(m))
FinalDiskInv(c) ==
  pc[c] = "finalSync" /\ w.ending = "commit" =>
    /\ \A p \in Page : dbDisk[p] = {db[p]}
    /\ \A j \in JournalOnDisk : Hot(j) => Reverts(j)
DiskOf(c) == TxDiskInv(c) /\ HotDiskInv(c) /\ FinalDiskInv(c)
DiskInv0 == DiskHolds /\ SureInv /\ \A c \in Conn : DiskOf(c)
DiskInv == nLosses < MaxPowerLoss => DiskInv0

-----------------------------------------------------------------------------
(* What a fence does *)

\* A slot that ends a recovery is one that it may read.
LEMMA QuietIsMild ==
  ASSUME NEW s, NEW t, NEW m, NEW n, Quiet(s, t)
  PROVE  Mild(s, t, m, n)
BY DEF Quiet, Mild

\* Neither a zero slot nor a torn one is read by a recovery.
LEMMA QuietMarks == \A t : Quiet(Zero, t) /\ Quiet(Torn, t)
BY DEF Quiet, Zero, Torn

\* What holds of all that the disk may hold holds of a part of it.
LEMMA FencedPart ==
  ASSUME NEW f, NEW g, DOMAIN g \subseteq DOMAIN f,
         \A i \in DOMAIN g : g[i] \subseteq f[i],
         NEW T, NEW m, NEW n, Fenced(f, T, m, n)
  PROVE  Fenced(g, T, m, n)
<1>1. PICK t \in T, k \in Nat : Fence(f, t, k, m, n)
  BY DEF Fenced
<1>2. Fence(g, t, k, m, n)
  BY <1>1 DEF Fence
<1>. QED
  BY <1>2 DEF Fenced

\* A fence for some transactions is one for more of them.
LEMMA FencedMore ==
  ASSUME NEW f, NEW S, NEW T, S \subseteq T, NEW m, NEW n, Fenced(f, S, m, n)
  PROVE  Fenced(f, T, m, n)
BY DEF Fenced

\* The disk that holds one journal only.
LEMMA SingleOf ==
  ASSUME NEW j
  PROVE  /\ DOMAIN Single(j) = DOMAIN j
         /\ \A i \in DOMAIN j : Single(j)[i] = {j[i]}
BY DEF Single

\* A journal of a fenced disk is fenced.
LEMMA FencedSingle ==
  ASSUME NEW f, NEW j, DOMAIN j = DOMAIN f, \A i \in DOMAIN f : j[i] \in f[i],
         NEW T, NEW m, NEW n, Fenced(f, T, m, n)
  PROVE  Fenced(Single(j), T, m, n)
<1>1. /\ DOMAIN Single(j) = DOMAIN f
      /\ \A i \in DOMAIN f : Single(j)[i] \subseteq f[i]
  BY SingleOf
<1>. QED
  BY <1>1, FencedPart

\* A header that has been read has the magic.
LEMMA ReadHeader ==
  ASSUME NEW j, NEW i, Readable(j, i, 0), i # 0, j[i].kind = "hdr"
  PROVE  j[i].magic
<1>1. IsHeader(j, i, 0) \/ \E h \in 1..i - 1 : IsRecord(j, i, h)
  BY DEF Readable
<1>. QED
  BY <1>1 DEF IsHeader, IsRecord

\* A recovery that starts to read the journal stops at the fence.
LEMMA FenceStops ==
  ASSUME NEW j \in Seq(Slot), NEW t, NEW k \in Nat, NEW m, NEW n,
         Fence(Single(j), t, k, m, n), Hot(j)
  PROVE  /\ 1 <= k /\ j[1].init = t /\ j[1].orig >= n
         /\ \A i \in Playback(j, 0) : i <= k
<1>1. DOMAIN j = 1..Len(j) /\ Len(j) \in Nat
  BY SeqParts
<1>2. 1 \in DOMAIN j /\ j[1].kind = "hdr" /\ j[1].magic
  BY <1>1 DEF Hot, IsHeader
<1>3. \A i \in DOMAIN j : /\ i <= k => Mild(j[i], t, m, n)
                          /\ i = k + 1 => Quiet(j[i], t)
  BY SingleOf DEF Fence
<1>4. k # 0
  BY <1>2, <1>3 DEF Quiet
<1>5. Mild(j[1], t, m, n)
  BY <1>2, <1>3, <1>4
<1>6. ASSUME NEW i \in Playback(j, 0), i > k
      PROVE  FALSE
  <2>1. i \in 1..Len(j) /\ \A x \in 1..i : Readable(j, x, 0)
    BY PlaybackIn
  <2>2. k + 1 \in DOMAIN j /\ k + 1 # 1 /\ Readable(j, k + 1, 0)
    BY <2>1, <1>1, <1>4, <1>6
  <2>3. Quiet(j[k + 1], t)
    BY <2>2, <1>3
  <2>4. ~IsHeader(j, k + 1, 0)
    BY <2>3 DEF Quiet, IsHeader
  <2>5. PICK h \in 1..k : Heads(j, h, k + 1) /\ IsRecord(j, k + 1, h)
    BY <2>2, <2>4 DEF Readable
  <2>6. j[h].kind = "hdr" /\ Readable(j, h, 0) /\ h \in DOMAIN j
    BY <2>1, <2>5, <1>1, <1>6 DEF Heads
  <2>7. j[h].magic
    BY <2>6, ReadHeader
  <2>8. j[h].init = t
    BY <2>5, <2>6, <2>7, <1>3 DEF Mild
  <2>. QED
    BY <2>3, <2>5, <2>8 DEF Quiet, IsRecord
<1>7. \A i \in Playback(j, 0) : i <= k
  BY <1>6, PlaybackIn, <1>1
<1>. QED
  BY <1>2, <1>4, <1>5, <1>7 DEF Mild

\* A fenced journal plays back nothing that is not in the image.
LEMMA FencedHarmless ==
  ASSUME NEW j \in Seq(Slot), NEW T, NEW m, NEW n, Fenced(Single(j), T, m, n)
  PROVE  Harmless(j, m, n)
<1>. SUFFICES ASSUME Hot(j)
              PROVE  /\ j[1].orig >= n
                     /\ \A i \in Playback(j, 0) : j[i].pg <= n => j[i].data = m[j[i].pg]
  BY DEF Harmless
<1>1. PICK t \in T, k \in Nat : Fence(Single(j), t, k, m, n)
  BY DEF Fenced
<1>2. /\ 1 <= k /\ j[1].orig >= n
      /\ \A i \in Playback(j, 0) : i <= k
  BY <1>1, FenceStops
<1>3. \A i \in DOMAIN j : i <= k => Mild(j[i], t, m, n)
  BY <1>1, SingleOf DEF Fence
<1>4. ASSUME NEW i \in Playback(j, 0), j[i].pg <= n
      PROVE  j[i].data = m[j[i].pg]
  <2>1. /\ i \in 1..Len(j) /\ j[i].kind = "rec" /\ Readable(j, i, 0)
        /\ \A x \in 1..i : Readable(j, x, 0)
    BY PlaybackIn
  <2>2. i \in DOMAIN j /\ i # 1 /\ DOMAIN j = 1..Len(j) /\ Len(j) \in Nat
    BY <2>1, SeqParts DEF Hot, IsHeader
  <2>3. PICK h \in 1..i - 1 : Heads(j, h, i) /\ IsRecord(j, i, h)
    BY <2>1, <2>2 DEF Readable, IsHeader
  <2>4. j[h].kind = "hdr" /\ Readable(j, h, 0) /\ h \in DOMAIN j /\ h # 0
    BY <2>1, <2>2, <2>3 DEF Heads
  <2>5. j[h].magic
    BY <2>4, ReadHeader
  <2>6. h <= k
    BY <2>3, <2>2, <1>2
  <2>7. j[h].init = t
    BY <2>4, <2>5, <2>6, <1>3 DEF Mild
  <2>8. j[i].init = t
    BY <2>3, <2>7 DEF IsRecord
  <2>. QED
    BY <2>1, <2>2, <2>8, <1>2, <1>3, <1>4 DEF Mild
<1>. QED
  BY <1>2, <1>4

\* A journal that is not hot needs no fence: nobody begins to read it.
LEMMA ColdFenced ==
  ASSUME NEW j \in Journals, ~Hot(j), PagerAssumption, NEW T, MaxTx + 1 \in T,
         NEW m, NEW n
  PROVE  Fenced(Single(SlotsOf(j)), T, m, n)
<1>1. /\ DOMAIN SlotsOf(j) = 1..Len(SlotsOf(j)) /\ Len(SlotsOf(j)) \in Nat
      /\ \A i \in DOMAIN SlotsOf(j) : SlotsOf(j)[i] \in Slot
      /\ j # NoFile => SlotsOf(j) = j
      /\ j = NoFile => DOMAIN SlotsOf(j) = {}
  BY SlotsAre
<1>2. ASSUME 1 \in DOMAIN SlotsOf(j)
      PROVE  Quiet(SlotsOf(j)[1], MaxTx + 1)
  <2>1. j # NoFile /\ SlotsOf(j) = j /\ 1 <= Len(j) /\ j[1] \in Slot
    BY <1>1, <1>2
  <2>2. j[1].kind = "hdr" => ~j[1].magic
    BY <2>1 DEF Hot, IsHeader
  <2>3. j[1].kind = "rec" => j[1].init # MaxTx + 1
    BY <2>1, SlotKinds, PagerAssumption
  <2>. QED
    BY <2>1, <2>2, <2>3 DEF Quiet
<1>3. Fence(Single(SlotsOf(j)), MaxTx + 1, 0, m, n)
  BY <1>1, <1>2, SingleOf DEF Fence
<1>. QED
  BY <1>3 DEF Fenced

-----------------------------------------------------------------------------
(* What is synced *)

\* A synced record is played back from whatever the disk keeps of the journal.
LEMMA SyncedUndone ==
  ASSUME NEW j \in Seq(Slot), NEW g \in Seq(Slot), NEW f, DOMAIN j = DOMAIN f,
         DOMAIN g = DOMAIN f, \A i \in DOMAIN f : g[i] \in f[i],
         NEW p, SyncedUndo(f, j, p)
  PROVE  Undoes(g, p)
<1>1. PICK i \in Playback(j, 0) : j[i].pg = p /\ SyncedTo(f, j, i)
  BY DEF SyncedUndo
<1>2. /\ DOMAIN j = 1..Len(j) /\ Len(j) \in Nat /\ DOMAIN g = 1..Len(g) /\ Len(g) \in Nat
      /\ Len(g) = Len(j)
  BY SeqParts
<1>3. /\ i \in 1..Len(j) /\ j[i].kind = "rec" /\ \A x \in 1..i : Readable(j, x, 0)
  BY PlaybackIn
<1>4. \A x \in 1..i : g[x] = j[x]
  <2>. SUFFICES ASSUME NEW x \in 1..i PROVE g[x] = j[x]
    OBVIOUS
  <2>1. x \in DOMAIN f /\ x <= i
    BY <1>2, <1>3
  <2>2. f[x] = {j[x]}
    BY <2>1, <1>1 DEF SyncedTo
  <2>. QED
    BY <2>1, <2>2
<1>5. \A x \in 1..i : Readable(g, x, 0)
  <2>. SUFFICES ASSUME NEW x \in 1..i PROVE Readable(g, x, 0)
    OBVIOUS
  <2>1. /\ x \in Nat /\ x >= 1 /\ x <= Len(j) /\ x <= Len(g)
        /\ \A y \in 1..x : j[y] = g[y]
    BY <1>2, <1>3, <1>4
  <2>. QED
    BY <2>1, <1>3, ReadableSame
<1>6. i \in Playback(g, 0) /\ g[i].pg = p
  BY <1>1, <1>2, <1>3, <1>4, <1>5, PlaybackIn
<1>7. Hot(g)
  <2>1. IsHeader(j, 1, 0) /\ 1 <= Len(g) /\ g[1] = j[1]
    BY <1>2, <1>3, <1>4 DEF SyncedUndo, Hot
  <2>2. g # NoFile
    BY NoFileIsNoJournal
  <2>. QED
    BY <2>1, <2>2 DEF Hot, IsHeader
<1>. QED
  BY <1>6, <1>7 DEF Undoes

\* It stays synced when nothing is written to the slots that are read.
LEMMA SyncedUndoKept ==
  ASSUME NEW j \in Seq(Slot), NEW k \in Seq(Slot), NEW f, NEW g, NEW h \in Nat,
         Len(j) <= Len(k), DOMAIN f = DOMAIN j, DOMAIN g = DOMAIN k,
         \A x \in DOMAIN j : x <= h => j[x] = k[x] /\ (g[x] = f[x] \/ g[x] = {k[x]}),
         \A i \in Playback(j, 0) : i <= h,
         NEW p, SyncedUndo(f, j, p)
  PROVE  SyncedUndo(g, k, p)
<1>1. PICK i \in Playback(j, 0) : j[i].pg = p /\ SyncedTo(f, j, i)
  BY DEF SyncedUndo
<1>2. /\ DOMAIN j = 1..Len(j) /\ Len(j) \in Nat /\ DOMAIN k = 1..Len(k) /\ Len(k) \in Nat
  BY SeqParts
<1>3. /\ i \in 1..Len(j) /\ i <= h /\ j[i].kind = "rec" /\ \A x \in 1..i : Readable(j, x, 0)
  BY PlaybackIn
<1>4. \A x \in 1..i : x \in DOMAIN j /\ k[x] = j[x] /\ (g[x] = f[x] \/ g[x] = {k[x]})
  BY <1>2, <1>3
<1>5. \A x \in 1..i : Readable(k, x, 0)
  <2>. SUFFICES ASSUME NEW x \in 1..i PROVE Readable(k, x, 0)
    OBVIOUS
  <2>1. /\ x \in Nat /\ x >= 1 /\ x <= Len(j) /\ x <= Len(k)
        /\ \A y \in 1..x : j[y] = k[y]
    BY <1>2, <1>3, <1>4
  <2>. QED
    BY <2>1, <1>3, ReadableSame
<1>6. i \in Playback(k, 0) /\ k[i].pg = p
  BY <1>1, <1>2, <1>3, <1>4, <1>5, PlaybackIn
<1>7. Hot(k)
  <2>1. IsHeader(j, 1, 0) /\ 1 <= Len(k) /\ k[1] = j[1]
    BY <1>2, <1>3, <1>4 DEF SyncedUndo, Hot
  <2>2. k # NoFile
    BY NoFileIsNoJournal
  <2>. QED
    BY <2>1, <2>2 DEF Hot, IsHeader
<1>8. SyncedTo(g, k, i)
  <2>. SUFFICES ASSUME NEW x \in DOMAIN g, x <= i PROVE g[x] = {k[x]}
    BY DEF SyncedTo
  <2>1. x \in 1..i
    BY <1>2, <1>3
  <2>2. f[x] = {j[x]}
    BY <2>1, <1>1, <1>4 DEF SyncedTo
  <2>. QED
    BY <2>1, <2>2, <1>4
<1>. QED
  BY <1>6, <1>7, <1>8 DEF SyncedUndo

\* The pages that a transaction may change in the file.
LEMMA OwnUndo ==
  ASSUME NEW v \in Locals, NEW j \in Seq(Slot), NEW m, NEW n, NEW at,
         SlotsOk(v, j, m, n), HeaderOk(at, v, j), SyncedOk(v, j),
         NEW f, SyncedTo(f, j, v.hdr), NEW p, Saved(v, j, p)
  PROVE  SyncedUndo(f, j, p)
<1>1. PICK i \in RecordsOf(v, j) : i <= v.hdr /\ j[i].pg = p
  BY DEF Saved
<1>2. i \in Playback(j, 0) /\ i \in Nat /\ v.hdr \in Nat /\ i >= 1
  BY <1>1, OwnPlayback, OwnSlots DEF RecordsOf
<1>3. Hot(j)
  BY <1>1, <1>2, OwnPlayback
<1>4. SyncedTo(f, j, i)
  <2>. SUFFICES ASSUME NEW x \in DOMAIN f, x <= i PROVE f[x] = {j[x]}
    BY DEF SyncedTo
  <2>1. Playback(j, 0) \subseteq Nat
    BY PlaybackIn, SeqParts
  <2>. QED
    BY <1>1, <1>2 DEF SyncedTo
<1>. QED
  BY <1>1, <1>2, <1>3, <1>4 DEF SyncedUndo

\* A transaction that has synced its journal is its own fence.
LEMMA OwnFence ==
  ASSUME NEW v \in Locals, NEW j \in Seq(Slot), NEW m, NEW n, SlotsOk(v, j, m, n),
         v.orig >= n, NEW f, DOMAIN f = DOMAIN j, SyncedTo(f, j, v.hdr),
         v.hdr + 1 \in DOMAIN f => \A s \in f[v.hdr + 1] : Quiet(s, v.tx)
  PROVE  Fence(f, v.tx, v.hdr, m, n)
<1>1. /\ DOMAIN j = 1..Len(j) /\ Len(j) \in Nat /\ v.hdr \in 0..v.off /\ v.off \in Nat
      /\ \A i \in 1..v.off : OwnSlot(v, j[i], m, n)
  BY OwnSlots
<1>2. ASSUME NEW i \in DOMAIN f, NEW s \in f[i], i <= v.hdr
      PROVE  Mild(s, v.tx, m, n)
  <2>1. s = j[i] /\ i \in 1..v.off
    BY <1>1, <1>2 DEF SyncedTo
  <2>2. OwnSlot(v, s, m, n)
    BY <2>1, <1>1
  <2>. QED
    BY <2>2 DEF OwnSlot, Mild
<1>. QED
  BY <1>2 DEF Fence

\* While the header of its journal is being written the fence is behind it.
LEMMA HeadFence ==
  ASSUME NEW v \in Locals, NEW j \in Seq(Slot), NEW m, NEW n, SlotsOk(v, j, m, n),
         v.orig >= n, HeaderOk("jsync2", v, j), StaleOk(v, j), v.slot # 0, NEW f,
         DOMAIN f = DOMAIN j, \A i \in DOMAIN f : i # v.slot => f[i] = {j[i]},
         \A s \in f[v.slot] : s = j[v.slot] \/ Quiet(s, v.tx)
  PROVE  Fence(f, v.tx, v.off, m, n)
<1>1. /\ DOMAIN j = 1..Len(j) /\ Len(j) \in Nat /\ v.off \in Nat /\ v.off \in 1..Len(j)
      /\ \A i \in 1..v.off : j[i] \in Slot /\ OwnSlot(v, j[i], m, n)
      /\ v.slot \in Nat
  BY OwnSlots
<1>2. v.slot <= v.off /\ ~IsHeader(j, v.off + 1, 0)
  BY DEF HeaderOk, SyncPcs
<1>3. \A i \in 1..v.off : Mild(j[i], v.tx, m, n)
  BY <1>1 DEF OwnSlot, Mild
<1>4. ASSUME NEW i \in DOMAIN f, NEW s \in f[i], i <= v.off
      PROVE  Mild(s, v.tx, m, n)
  BY <1>1, <1>3, <1>4, QuietIsMild
<1>5. ASSUME v.off + 1 \in DOMAIN f, NEW s \in f[v.off + 1]
      PROVE  Quiet(s, v.tx)
  <2>1. s = j[v.off + 1] /\ v.off + 1 \in DOMAIN j
    BY <1>1, <1>2, <1>5
  <2>2. SlotsOf(j) = j
    BY NoFileIsNoJournal DEF SlotsOf
  <2>3. s.kind = "rec" => s.init < v.tx
    BY <2>1, <2>2, <1>1 DEF StaleOk
  <2>4. s.kind = "hdr" => ~s.magic
    BY <2>1, <1>1, <1>2 DEF IsHeader
  <2>5. s \in Slot /\ v.tx \in Int
    BY <2>1, LocalsHave, PagerAssumption, SeqParts
  <2>6. s.kind = "rec" => s.init \in Int
    BY <2>5, SlotKinds, PagerAssumption
  <2>. QED
    BY <2>3, <2>4, <2>5, <2>6 DEF Quiet
<1>. QED
  BY <1>4, <1>5 DEF Fence

-----------------------------------------------------------------------------
(* A transaction and the disk *)

Size == SizeOf(committed)
TxIs(c) ==
  /\ w \in Locals /\ w.orig >= Size /\ Size \in Nat /\ w.hdr \in Nat /\ w.tx \in 1..MaxTx
  /\ w.tx = nTx /\ jr \in Journals /\ jrDisk \in Seq(SUBSET Slot)
  /\ DOMAIN jrDisk = DOMAIN SlotsOf(jr)
  /\ w.state = "locked" => w.hdr = 0 /\ pc[c] = "write"
  /\ w.state # "locked" =>
       /\ SlotsOk(w, jr, committed, Size) /\ HeaderOk(pc[c], w, jr) /\ SyncedOk(w, jr)
       /\ StaleOk(w, jr) /\ StateOk(pc[c], w)
       /\ jr \in Seq(Slot) /\ SlotsOf(jr) = jr
       /\ w.off \in Nat /\ w.hdr <= w.off
  /\ w.hdr > 0 => Hot(jr) /\ w.state = "dbmod"
  /\ w.hdr = 0 => /\ w.ending # "commit"
                  /\ pc[c] \in {"write", "jsync", "jhdr", "jsync2", "play", "finalize"}
                  /\ pc[c] # "jsync2" => ~Hot(jr)
                  /\ w.state # "dbmod"

\* The transaction under way is the last one that has begun.
LEMMA TxKnown == \A c \in Conn : IInv0 /\ InTx(c) => TxIs(c)
<1>. SUFFICES ASSUME IInv0, NEW c \in Conn, InTx(c) PROVE TxIs(c)
  OBVIOUS
<1>1. Active(c) /\ w.tx = nTx /\ w.tx \in 1..MaxTx /\ w \in Locals
  BY TxFacts
<1>2. Size \in Nat
  BY Started DEF Size
<1>3. jr \in Journals /\ jrDisk \in Seq(SUBSET Slot) /\ DOMAIN jrDisk = DOMAIN SlotsOf(jr)
  BY DEF IInv0, TypeInv, JrTypes
<1>4. TxOk(pc[c], w, db, jr, committed, Size)
  BY DEF IInv0, WorkInv, TxOfInv, Size
<1>5. w.orig >= Size /\ JournalOk(pc[c], w, jr, committed, Size)
  BY <1>4 DEF TxOk
<1>6. w.hdr \in Nat /\ w.off \in Nat
  BY <1>1, LocalsHave
<1>7. /\ w.state = "locked" => pc[c] = "write"
      /\ w.ending = "commit" => w.state = "dbmod"
      /\ pc[c] \in WritePcs \cup {"finish"} => w.ending = "none"
  BY <1>1 DEF IInv0, ControlInv, OwnerOf
<1>8. w.state = "locked" => w.hdr = 0 /\ w.off = 0
  BY <1>5 DEF JournalOk, LockedOk
<1>9. w.state # "locked" =>
       /\ SlotsOk(w, jr, committed, Size) /\ HeaderOk(pc[c], w, jr) /\ SyncedOk(w, jr)
       /\ StaleOk(w, jr) /\ StateOk(pc[c], w)
  BY <1>5 DEF JournalOk
<1>10. w.state # "locked" => jr \in Seq(Slot) /\ SlotsOf(jr) = jr /\ w.hdr <= w.off
  <2>1. w.state # "locked" => jr # NoFile /\ w.hdr <= w.off
    BY <1>9 DEF SlotsOk
  <2>. QED
    BY <2>1, <1>3, SlotsAre
<1>11. w.state # "locked" => ((w.state = "dbmod") <=> (w.hdr > 0))
  BY <1>9 DEF StateOk
<1>12. ASSUME w.hdr > 0
       PROVE  Hot(jr) /\ w.state = "dbmod"
  <2>1. w.state # "locked"
    BY <1>8, <1>12
  <2>2. Hot(jr)
    BY <2>1, <1>1, <1>9, <1>10, <1>12, OwnPlayback
  <2>. QED
    BY <2>1, <2>2, <1>11, <1>12
<1>13. ASSUME w.hdr = 0
       PROVE  /\ w.ending # "commit" /\ w.state # "dbmod"
              /\ pc[c] \in {"write", "jsync", "jhdr", "jsync2", "play", "finalize"}
  <2>1. w.state # "dbmod"
    BY <1>11, <1>13
  <2>2. w.ending # "commit"
    BY <2>1, <1>7
  <2>3. pc[c] \notin {"flush", "dbsync", "finish"}
    BY <2>1, <1>7, <1>9 DEF StateOk
  <2>. QED
    BY <2>1, <2>2, <2>3 DEF InTx, OpenPcs, WritePcs
<1>14. ASSUME w.hdr = 0, pc[c] # "jsync2"
       PROVE  ~Hot(jr)
  <2>1. CASE w.state = "locked"
    <3>1. pc[c] = "write" /\ LockOf(c) /\ held[c] \in NO_LOCK..EXCLUSIVE_LOCK /\ ColdOf(c)
      BY <2>1, <1>7 DEF IInv0, ControlInv, TypeInv, ConnTypes, ReadInv
    <3>2. held[c] \in {RESERVED_LOCK, PENDING_LOCK}
      BY <3>1, <2>1, <1>1
         DEF LockOf, NO_LOCK, RESERVED_LOCK, PENDING_LOCK, EXCLUSIVE_LOCK
    <3>. QED
      BY <3>1, <3>2 DEF ColdOf
  <2>2. CASE w.state # "locked"
    <3>1. w.slot \in {0, 1}
      BY <2>2, <1>9, <1>14 DEF HeaderOk
    <3>2. CASE w.slot = 1
      BY <3>2, <2>2, <1>9, <1>14 DEF HeaderOk, Hot, IsHeader
    <3>3. CASE w.slot = 0
      <4>1. w.off = 0
        BY <3>3, <2>2, <1>9, <1>14 DEF HeaderOk
      <4>2. w.off \in 1..Len(jr) /\ Len(jr) \in Nat
        BY <2>2, <1>1, <1>9, <1>10, OwnSlots
      <4>. QED
        BY <4>1, <4>2
    <3>. QED
      BY <3>1, <3>2, <3>3
  <2>. QED
    BY <2>1, <2>2
<1>. HIDE DEF Size
<1>15. w.hdr > 0 => Hot(jr) /\ w.state = "dbmod"
  BY <1>12
<1>16. w.hdr = 0 => /\ w.ending # "commit" /\ w.state # "dbmod"
                    /\ pc[c] \in {"write", "jsync", "jhdr", "jsync2", "play", "finalize"}
                    /\ (pc[c] # "jsync2" => ~Hot(jr))
  BY <1>13, <1>14
<1>. QED
  BY <1>1, <1>2, <1>3, <1>5, <1>6, <1>7, <1>8, <1>9, <1>10, <1>15, <1>16 DEF TxIs

\* The same of the next state.
LEMMA TxKnownNext == (\A c \in Conn : IInv0 /\ InTx(c) => TxIs(c))'
BY TxKnown, PTL

\* What is known of the disk: the fence.
LEMMA TxFence ==
  \A c \in Conn :
    TxIs(c) /\ TxDiskInv(c) /\ InTx(c) /\ Sure /\ pc[c] # "jhdr"
      => Fenced(jrDisk, Begun, committed, Size)
<1>. SUFFICES ASSUME NEW c \in Conn, TxIs(c), TxDiskInv(c), InTx(c), Sure, pc[c] # "jhdr"
              PROVE  Fenced(jrDisk, Begun, committed, Size)
  OBVIOUS
<1>1. TxDisk(Sure, pc[c], w, db, dbDisk, jrDisk, jrOther, jr, committed, Size, Begun)
  BY DEF TxDiskInv, Size
<1>2. w.tx \in Begun
  BY PagerAssumption DEF TxIs, Begun
<1>3. CASE pc[c] = "jsync2"
  <2>1. /\ \A i \in DOMAIN jrDisk : i # w.slot => jrDisk[i] = {jr[i]}
        /\ \A s \in jrDisk[w.slot] : s = jr[w.slot] \/ Quiet(s, w.tx)
    BY <1>1, <1>3 DEF TxDisk
  <2>2. /\ w.state # "locked" /\ w \in Locals /\ jr \in Seq(Slot)
        /\ SlotsOk(w, jr, committed, Size) /\ w.orig >= Size
        /\ HeaderOk("jsync2", w, jr) /\ StaleOk(w, jr)
        /\ DOMAIN jrDisk = DOMAIN jr /\ w.off \in Nat
    BY <1>3 DEF TxIs
  <2>3. w.slot # 0
    BY <1>3, <2>2 DEF TxIs, StateOk, SyncPcs
  <2>4. Fence(jrDisk, w.tx, w.off, committed, Size)
    BY <2>1, <2>2, <2>3, HeadFence
  <2>. QED
    BY <2>4, <2>2, <1>2 DEF Fenced
<1>4. CASE w.hdr > 0 /\ pc[c] # "jsync2"
  <2>1. /\ SyncedTo(jrDisk, jr, w.hdr)
        /\ w.hdr + 1 \in DOMAIN jrDisk => \A s \in jrDisk[w.hdr + 1] : Quiet(s, w.tx)
    BY <1>1, <1>4 DEF TxDisk
  <2>2. /\ w \in Locals /\ jr \in Seq(Slot)
        /\ SlotsOk(w, jr, committed, Size) /\ w.orig >= Size
        /\ DOMAIN jrDisk = DOMAIN jr /\ w.hdr \in Nat
    BY <1>4 DEF TxIs
  <2>3. Fence(jrDisk, w.tx, w.hdr, committed, Size)
    BY <2>1, <2>2, OwnFence
  <2>. QED
    BY <2>2, <2>3, <1>2 DEF Fenced
<1>5. CASE w.hdr = 0 /\ pc[c] # "jsync2"
  <2>1. pc[c] \in {"write", "jsync", "play", "finalize"}
    BY <1>5 DEF TxIs
  <2>2. Fenced(jrDisk, Begun \ {w.tx}, committed, Size)
    BY <2>1, <1>1, <1>5 DEF TxDisk
  <2>. QED
    BY <2>2, FencedMore
<1>6. w.hdr \in Nat
  BY DEF TxIs
<1>. QED
  BY <1>3, <1>4, <1>5, <1>6

\* What is known of the disk in a transaction fences its journal, except just
\* after the first sync.
LEMMA TxFenceNext ==
  (\A c \in Conn :
    TxIs(c) /\ TxDiskInv(c) /\ InTx(c) /\ Sure /\ pc[c] # "jhdr"
      => Fenced(jrDisk, Begun, committed, Size))'
BY TxFence, PTL

-----------------------------------------------------------------------------
(* What the operations on the files do to what the disk may hold *)

Powered == nLosses < MaxPowerLoss

\* The slots of new are written, and may reach the disk or not.
DiskWrote(new) ==
  /\ DOMAIN jrDisk' = DOMAIN SlotsOf(jr') /\ DOMAIN jrDisk \subseteq DOMAIN jrDisk'
  /\ \A i \in DOMAIN jrDisk' \ DOMAIN new : i \in DOMAIN jrDisk /\ jrDisk'[i] = jrDisk[i]
  /\ \A i \in DOMAIN new :
       /\ i \in DOMAIN jrDisk' /\ new[i] \in jrDisk'[i]
       /\ \A s \in jrDisk'[i] : \/ s = new[i] \/ s = Torn \/ s = Zero
                                \/ i \in DOMAIN jrDisk /\ s \in jrDisk[i]
  /\ jrOther' = jrOther

\* What the disk may hold after a write of the journal.
LEMMA DiskWroteDoes ==
  ASSUME JrTypes, Powered, NEW new, NEW k \in Nat, Fits(jr, new, k), JournalWrite(new)
  PROVE  DiskWrote(new)
<1>1. JrTypes' /\ WrittenTo(jr, new, jr', k) /\ jrOther' = jrOther
  BY JournalWriteDoes DEF JournalWrite
<1>2. Slots = SlotsOf(jr) /\ DOMAIN jrDisk = DOMAIN SlotsOf(jr)
  BY DEF Slots, SlotsOf, JrTypes
<1>3. \A X : Kept(X) = X
  BY DEF Kept, KeptAfter, Powered
<1>. DEFINE e(i) == (IF i \in DOMAIN SlotsOf(jr) THEN jrDisk[i] ELSE {Zero})
                    \cup (IF i \in DOMAIN new THEN {new[i], Torn} ELSE {})
<1>4. jrDisk' = [i \in DOMAIN SlotsOf(jr) \cup DOMAIN new |-> Kept(e(i))]
  BY <1>2 DEF JournalWrite
<1>5. \A i \in DOMAIN SlotsOf(jr) \cup DOMAIN new : jrDisk'[i] = e(i)
  <2>. HIDE DEF e
  <2>. QED
    BY <1>3, <1>4
<1>6. DOMAIN jrDisk' = DOMAIN SlotsOf(jr) \cup DOMAIN new
  BY <1>4
<1>7. DOMAIN jrDisk' = DOMAIN SlotsOf(jr')
  BY <1>1 DEF JrTypes
<1>8. \A i \in DOMAIN jrDisk' \ DOMAIN new : i \in DOMAIN jrDisk /\ jrDisk'[i] = jrDisk[i]
  BY <1>2, <1>5, <1>6
<1>9. ASSUME NEW i \in DOMAIN new
      PROVE  /\ i \in DOMAIN jrDisk' /\ new[i] \in jrDisk'[i]
             /\ \A s \in jrDisk'[i] : \/ s = new[i] \/ s = Torn \/ s = Zero
                                      \/ i \in DOMAIN jrDisk /\ s \in jrDisk[i]
  BY <1>2, <1>5, <1>6
<1>10. DOMAIN jrDisk \subseteq DOMAIN jrDisk'
  BY <1>2, <1>6
<1>. QED
  BY <1>1, <1>7, <1>8, <1>9, <1>10 DEF DiskWrote

\* A write of quiet slots keeps a fence.
LEMMA WriteFenced ==
  ASSUME NEW new, DiskWrote(new), NEW t, NEW k, NEW m, NEW n, Fence(jrDisk, t, k, m, n),
         \A i \in DOMAIN new : Quiet(new[i], t)
  PROVE  Fence(jrDisk', t, k, m, n)
<1>1. ASSUME NEW i \in DOMAIN jrDisk', NEW s \in jrDisk'[i]
      PROVE  (i <= k => Mild(s, t, m, n)) /\ (i = k + 1 => Quiet(s, t))
  <2>1. CASE i \in DOMAIN jrDisk /\ s \in jrDisk[i]
    BY <2>1 DEF Fence
  <2>2. CASE ~(i \in DOMAIN jrDisk /\ s \in jrDisk[i])
    <3>1. i \in DOMAIN new
      BY <2>2 DEF DiskWrote
    <3>2. s = new[i] \/ s = Torn \/ s = Zero
      BY <2>2, <3>1 DEF DiskWrote
    <3>3. Quiet(s, t)
      BY <3>1, <3>2, QuietMarks
    <3>. QED
      BY <3>3, QuietIsMild
  <2>. QED
    BY <2>1, <2>2
<1>. QED
  BY <1>1 DEF Fence

\* The same for the fences of several transactions.
LEMMA WriteKeepsFence ==
  ASSUME NEW new, DiskWrote(new), NEW T, NEW m, NEW n, Fenced(jrDisk, T, m, n),
         \A t \in T : \A i \in DOMAIN new : Quiet(new[i], t)
  PROVE  Fenced(jrDisk', T, m, n)
<1>1. PICK t \in T, k \in Nat : Fence(jrDisk, t, k, m, n)
  BY DEF Fenced
<1>2. Fence(jrDisk', t, k, m, n)
  BY <1>1, WriteFenced
<1>. QED
  BY <1>2 DEF Fenced

\* After a write the disk may hold the journal as it is.
LEMMA WriteHolds ==
  ASSUME DiskHolds, NEW new, NEW k \in Nat, DiskWrote(new), WrittenTo(jr, new, jr', k),
         DOMAIN jrDisk = DOMAIN SlotsOf(jr), \A i \in DOMAIN new : InitOk(new[i]),
         UNCHANGED <<db, dbDisk, nTx>>
  PROVE  DiskHolds'
<1>1. SlotsOf(jr') = jr'
  BY DEF WrittenTo, SlotsOf
<1>2. \A s : InitOk(s)' <=> InitOk(s)
  BY DEF InitOk
<1>3. ASSUME NEW i \in DOMAIN jrDisk'
      PROVE  jr'[i] \in jrDisk'[i] /\ \A s \in jrDisk'[i] : InitOk(s)
  <2>1. CASE i \in DOMAIN new
    <3>1. jr'[i] = new[i] /\ new[i] \in jrDisk'[i]
      BY <2>1 DEF WrittenTo, DiskWrote
    <3>2. ASSUME NEW s \in jrDisk'[i]
          PROVE  InitOk(s)
      <4>1. \/ s = new[i] \/ s = Torn \/ s = Zero
            \/ i \in DOMAIN jrDisk /\ s \in jrDisk[i]
        BY <2>1, <3>2 DEF DiskWrote
      <4>2. InitOk(Torn) /\ InitOk(Zero)
        BY DEF InitOk, Torn, Zero
      <4>3. i \in DOMAIN jrDisk /\ s \in jrDisk[i] => InitOk(s)
        BY DEF DiskHolds
      <4>. QED
        BY <2>1, <4>1, <4>2, <4>3
    <3>. QED
      BY <3>1, <3>2
  <2>2. CASE i \notin DOMAIN new
    <3>1. i \in DOMAIN jrDisk /\ jrDisk'[i] = jrDisk[i]
      BY <2>2 DEF DiskWrote
    <3>2. jr'[i] = SlotsOf(jr)[i]
      BY <2>2, <3>1 DEF WrittenTo
    <3>. QED
      BY <3>1, <3>2 DEF DiskHolds
  <2>. QED
    BY <2>1, <2>2
<1>4. \A g \in jrOther' : g # NoFile => \A i \in DOMAIN g : InitOk(g[i])
  BY DEF DiskHolds, DiskWrote
<1>5. \A p \in Page : db'[p] \in dbDisk'[p]
  BY DEF DiskHolds
<1>. QED
  BY <1>1, <1>2, <1>3, <1>4, <1>5 DEF DiskHolds

\* A write behind the slots that a recovery plays back keeps what it can undo.
LEMMA WriteUndone ==
  ASSUME NEW e, NEW m, NEW n, Undone(e, jrDisk, jrOther, jr, m, n),
         NEW new, NEW k \in Nat, DiskWrote(new), WrittenTo(jr, new, jr', k), jr \in Journals,
         DOMAIN jrDisk = DOMAIN SlotsOf(jr),
         NEW h \in Nat, \A i \in DOMAIN new : i > h,
         Hot(jr) => \A i \in Playback(jr, 0) : i <= h
  PROVE  Undone(e, jrDisk', jrOther', jr', m, n)
<1>1. ASSUME NEW p \in Page, SyncedUndo(jrDisk, jr, p)
      PROVE  SyncedUndo(jrDisk', jr', p)
  <2>1. Hot(jr)
    BY <1>1 DEF SyncedUndo
  <2>2. jr \in Seq(Slot) /\ SlotsOf(jr) = jr
    BY <2>1, SlotsAre DEF Hot
  <2>3. jr' \in Seq(Slot) /\ SlotsOf(jr') = jr'
    BY DEF WrittenTo, SlotsOf
  <2>4. DOMAIN jrDisk = DOMAIN jr /\ DOMAIN jrDisk' = DOMAIN jr'
            /\ DOMAIN jr \subseteq DOMAIN jr'
    BY <2>2, <2>3 DEF DiskWrote
  <2>5. Len(jr) <= Len(jr') /\ DOMAIN jr = 1..Len(jr) /\ Len(jr) \in Nat /\ Len(jr') \in Nat
        /\ DOMAIN jr' = 1..Len(jr')
    <3>1. DOMAIN jr = 1..Len(jr) /\ Len(jr) \in Nat /\ Len(jr') \in Nat
              /\ DOMAIN jr' = 1..Len(jr')
      BY <2>2, <2>3, SeqParts
    <3>2. Len(jr) = 0 \/ Len(jr) \in 1..Len(jr')
      BY <3>1, <2>4
    <3>. QED
      BY <3>1, <3>2
  <2>6. \A x \in DOMAIN jr :
          x <= h => jr[x] = jr'[x] /\ (jrDisk'[x] = jrDisk[x] \/ jrDisk'[x] = {jr'[x]})
    <3>. SUFFICES ASSUME NEW x \in DOMAIN jr, x <= h
                  PROVE  jr[x] = jr'[x] /\ jrDisk'[x] = jrDisk[x]
      OBVIOUS
    <3>1. x \in Nat
      BY <2>5
    <3>2. DOMAIN new \cap {x} = {}
      <4>. SUFFICES ASSUME x \in DOMAIN new PROVE FALSE
        OBVIOUS
      <4>. QED
        BY <3>1
    <3>. QED
      BY <2>2, <2>4, <3>2 DEF WrittenTo, DiskWrote
  <2>7. \A i \in Playback(jr, 0) : i <= h
    BY <2>1
  <2>. QED
    BY <1>1, <2>2, <2>3, <2>4, <2>5, <2>6, <2>7, SyncedUndoKept
<1>2. jrOther' = jrOther
  BY DEF DiskWrote
<1>. QED
  BY <1>1, <1>2 DEF Undone

\* After a sync the disk holds the journal and nothing else.
LEMMA JournalDiskSynced ==
  ASSUME JrTypes, Powered, JournalSync
  PROVE  /\ jr' = jr /\ jrOther' = {} /\ DOMAIN jrDisk' = DOMAIN SlotsOf(jr)
         /\ \A i \in DOMAIN jrDisk' : jrDisk'[i] = {SlotsOf(jr)[i]}
<1>1. Slots = SlotsOf(jr)
  BY DEF Slots, SlotsOf
<1>2. \A X : Kept(X) = X
  BY DEF Kept, KeptAfter, Powered
<1>. QED
  BY <1>1, <1>2 DEF JournalSync

\* What the disk may hold after a write of the database file.
LEMMA DbDiskWrote ==
  ASSUME DbTypes, Powered, NEW new, DbWrite(new)
  PROVE  /\ \A p \in Page \ DOMAIN new : dbDisk'[p] = dbDisk[p]
         /\ (\A p \in Page : db[p] \in dbDisk[p]) => \A p \in Page : db'[p] \in dbDisk'[p]
<1>1. \A X : Kept(X) = X
  BY DEF Kept, KeptAfter, Powered
<1>. DEFINE e(p) == dbDisk[p] \cup (IF p \notin DOMAIN new THEN {}
                                    ELSE IF new[p] = Absent THEN {Absent}
                                    ELSE {new[p], Garbage})
<1>2. dbDisk' = [p \in Page |-> Kept(e(p))]
  BY DEF DbWrite
<1>3. \A p \in Page : dbDisk'[p] = e(p)
  <2>. HIDE DEF e
  <2>. QED
    BY <1>1, <1>2
<1>4. \A p \in Page : db'[p] = IF p \in DOMAIN new THEN new[p] ELSE db[p]
  BY DEF DbWrite
<1>. QED
  BY <1>3, <1>4

\* After a sync the disk holds the database file and nothing else.
LEMMA DbDiskSynced ==
  ASSUME Powered, DbSync
  PROVE  db' = db /\ \A p \in Page : dbDisk'[p] = {db[p]}
<1>1. \A X : Kept(X) = X
  BY DEF Kept, KeptAfter, Powered
<1>. QED
  BY <1>1 DEF DbSync

-----------------------------------------------------------------------------
(* Putting it together *)

\* Without a hot journal the disk holds the image in the database file.
LEMMA UndoneCold ==
  ASSUME NEW e, NEW f, NEW o, NEW j, NEW m, NEW n, Undone(e, f, o, j, m, n), ~Hot(j)
  PROVE  Clean(e, m, n)
BY DEF Undone, SyncedUndo, Clean

\* A disk that holds the image in the database file has nothing to undo.
LEMMA CleanUndone ==
  ASSUME NEW e, NEW f, NEW o, NEW j, NEW m, NEW n, Clean(e, m, n)
  PROVE  Undone(e, f, o, j, m, n)
BY DEF Undone, Clean

\* A connection that neither writes nor recovers.
LEMMA RestDisk == \A c \in Conn : ~Active(c) => DiskOf(c)
<1>. SUFFICES ASSUME NEW c \in Conn, ~Active(c) PROVE DiskOf(c)
  OBVIOUS
<1>1. pc[c] \notin OpenPcs \cup {"play", "finalize", "finalSync"}
  BY PcKinds DEF Active, LateEndPcs
<1>. QED
  BY <1>1 DEF DiskOf, TxDiskInv, HotDiskInv, FinalDiskInv, InTx

\* The connection at work is the only one that the disk invariant says
\* something of.
LEMMA OnlyActive ==
  \A c \in Conn : IInv0 /\ Active(c) /\ DiskHolds /\ SureInv /\ DiskOf(c) => DiskInv0
<1>. SUFFICES ASSUME NEW c \in Conn, IInv0, Active(c), DiskHolds, SureInv, DiskOf(c)
              PROVE  DiskInv0
  OBVIOUS
<1>1. \A d \in Conn \ {c} : ~Active(d)
  BY OneActive DEF IInv0, TypeInv
<1>2. \A d \in Conn : DiskOf(d)
  BY <1>1, RestDisk
<1>. QED
  BY <1>2 DEF DiskInv0

\* The same of the next state.
LEMMA OnlyActiveNext ==
  (\A c \in Conn : IInv0 /\ Active(c) /\ DiskHolds /\ SureInv /\ DiskOf(c) => DiskInv0)'
BY OnlyActive, PTL

\* With no connection at work the disk invariant speaks of the files alone.
LEMMA NoneActive ==
  (\A c \in Conn : ~Active(c)) /\ DiskHolds /\ SureInv => DiskInv0
BY RestDisk DEF DiskInv0

\* The same of the next state.
LEMMA NoneActiveNext ==
  ((\A c \in Conn : ~Active(c)) /\ DiskHolds /\ SureInv => DiskInv0)'
BY NoneActive, PTL

\* In a transaction the disk invariant speaks of the files and of that
\* transaction.
LEMMA OnlyTx ==
  \A c \in Conn : IInv0 /\ InTx(c) /\ DiskHolds /\ SureInv /\ TxDiskInv(c) => DiskInv0
<1>. SUFFICES ASSUME NEW c \in Conn, IInv0, InTx(c), DiskHolds, SureInv, TxDiskInv(c)
              PROVE  DiskInv0
  OBVIOUS
<1>1. Active(c) /\ w.ending # "hot" /\ pc[c] # "finalSync"
  BY TxFacts DEF LateEndPcs
<1>2. DiskOf(c)
  BY <1>1 DEF DiskOf, HotDiskInv, FinalDiskInv
<1>. QED
  BY <1>1, <1>2, OnlyActive

\* The same of the next state.
LEMMA OnlyTxNext ==
  (\A c \in Conn : IInv0 /\ InTx(c) /\ DiskHolds /\ SureInv /\ TxDiskInv(c) => DiskInv0)'
BY OnlyTx, PTL

\* A step of a transaction that syncs nothing of the journal.
LEMMA TxSure ==
  ASSUME IInv0, IInv0', SureInv, NEW c \in Conn, InTx(c), InTx(c)',
         pc'[c] \notin {"jhdr", "jsync2"}, committed' = committed, maybe' = maybe,
         SizeOf(committed)' = SizeOf(committed), nTx' = nTx, w'.hdr = w.hdr,
         jrOther' = jrOther, TxDiskInv(c)',
         Undone(dbDisk, jrDisk, jrOther, jr, committed, SizeOf(committed))
           => Undone(dbDisk', jrDisk', jrOther', jr', committed, SizeOf(committed))
  PROVE  SureInv'
<1>1. TxIs(c) /\ TxIs(c)'
  BY TxKnown, TxKnownNext
<1>2. Sure' <=> Sure
  BY DEF Sure
<1>3. Begun' = Begun
  BY DEF Begun
<1>4. Sure' \/ \E x \in maybe' : maybe' = {committed', x}
  BY <1>2 DEF SureInv
<1>5. ASSUME Sure
      PROVE  Durable(dbDisk', jrDisk', jrOther', jr', committed, SizeOf(committed), Begun)
  <2>1. Durable(dbDisk, jrDisk, jrOther, jr, committed, SizeOf(committed), Begun)
    BY <1>5 DEF SureInv
  <2>2. Fenced(jrDisk', Begun', committed', Size')
    BY <1>1, <1>2, <1>5, TxFenceNext
  <2>3. Fenced(jrDisk', Begun, committed, SizeOf(committed))
    BY <2>2, <1>3 DEF Size
  <2>. QED
    BY <2>1, <2>3 DEF Durable
<1>6. ASSUME ~Sure
      PROVE  ~Hot(jr') /\ Clean(dbDisk', committed, SizeOf(committed))
  <2>1. ~Hot(jr) /\ Clean(dbDisk, committed, SizeOf(committed))
    BY <1>6 DEF SureInv
  <2>2. w'.hdr = 0
    BY <2>1, <1>1 DEF TxIs
  <2>3. ~Hot(jr')
    BY <2>2, <1>1 DEF TxIs
  <2>4. Undone(dbDisk', jrDisk', jrOther', jr', committed, SizeOf(committed))
    BY <2>1, CleanUndone
  <2>. QED
    BY <2>3, <2>4, UndoneCold
<1>. QED
  BY <1>2, <1>3, <1>4, <1>5, <1>6 DEF SureInv

-----------------------------------------------------------------------------
(* The journal grows *)

\* What is played back of a journal that is being written ends where it is synced.
LEMMA PlaybackSynced ==
  ASSUME NEW v \in Locals, NEW j \in Seq(Slot), NEW at, at # "jsync2", v.hdr > 0,
         v.slot # 0, HeaderOk(at, v, j), SyncedOk(v, j)
  PROVE  \A i \in Playback(j, 0) : i <= v.hdr
<1>1. v.hdr \in Nat
  BY LocalsHave
<1>2. PICK h \in 1..v.hdr : Heads(j, h, v.hdr + 1) /\ j[h].n = v.hdr - h
  BY DEF SyncedOk
<1>3. v.slot = v.hdr + 1 /\ ~j[v.hdr + 1].magic
  BY DEF HeaderOk
<1>4. ~IsHeader(j, v.hdr + 1, 0) /\ v.hdr + 1 # 1
  BY <1>1, <1>3 DEF IsHeader
<1>5. RecordsAfter(j, h, 0) = v.hdr - h
  BY <1>1, <1>2 DEF RecordsAfter
<1>6. ~((v.hdr + 1) - h <= RecordsAfter(j, h, 0))
  BY <1>1, <1>5
<1>7. v.hdr + 1 \in Nat /\ h \in 1..(v.hdr + 1) - 1
  BY <1>1
<1>8. ~Readable(j, v.hdr + 1, 0)
  <2>. DEFINE e == v.hdr + 1
  <2>1. /\ e \in Nat /\ h \in 1..e - 1 /\ Heads(j, h, e) /\ ~IsHeader(j, e, 0)
        /\ ~(e - h <= RecordsAfter(j, h, 0))
    BY <1>2, <1>4, <1>6, <1>7
  <2>. HIDE DEF e
  <2>2. ~Readable(j, e, 0)
    BY <2>1, ReadableBehind
  <2>. QED
    BY <2>2 DEF e
<1>9. \A i \in Playback(j, 0) : i \in 1..v.hdr
  BY <1>1, <1>8, PlaybackEnd
<1>. QED
  BY <1>1, <1>9

\* A slot as the transaction writes it before it writes the header.
Bland(s) == /\ s.kind = "hdr" => ~s.magic
            /\ s.kind = "rec" => s.init = w.tx
            /\ InitOk(s)

\* What a transaction writes before it syncs ends a recovery of any other
\* transaction.
LEMMA BlandQuiet ==
  ASSUME NEW s, Bland(s), NEW t, t # w.tx
  PROVE  Quiet(s, t)
BY DEF Bland, Quiet

\* A write to the journal behind what is synced keeps the disk invariant.
LEMMA JournalGrows ==
  ASSUME IInv0, IInv0', DiskInv0, Powered, NEW c \in Conn, pc[c] = "write", w.owner = c,
         InTx(c)', pc'[c] \in {"write", "jsync"},
         NEW new, NEW k \in Nat, Fits(jr, new, k), JournalWrite(new),
         \A i \in DOMAIN new : Bland(new[i]) /\ i > w.hdr /\ (w.hdr > 0 => i > w.hdr + 1),
         w'.hdr = w.hdr, w'.tx = w.tx, w'.ending = "none",
         UNCHANGED <<db, dbDisk, committed, maybe, nTx>>,
         SizeOf(committed)' = SizeOf(committed)
  PROVE  DiskInv0'
<1>. DEFINE m == committed
            n == SizeOf(committed)
<1>1. InTx(c)
  BY AtWrite
<1>2. TxIs(c)
  BY <1>1, TxKnown
<1>3. JrTypes /\ jr \in Journals
  BY DEF IInv0, TypeInv, JrTypes
<1>4. WrittenTo(jr, new, jr', k) /\ DiskWrote(new)
  BY <1>3, JournalWriteDoes, DiskWroteDoes
<1>5. DOMAIN jrDisk = DOMAIN SlotsOf(jr)
  BY <1>3 DEF JrTypes
<1>6. DiskHolds'
  <2>1. \A i \in DOMAIN new : InitOk(new[i])
    BY DEF Bland
  <2>2. DiskHolds
    BY DEF DiskInv0
  <2>. QED
    BY <2>1, <2>2, <1>4, <1>5, WriteHolds
<1>7. TxDisk(Sure, "write", w, db, dbDisk, jrDisk, jrOther, jr, m, n, Begun)
  BY <1>1 DEF DiskInv0, DiskOf, TxDiskInv
<1>8. SlotsOf(jr') = jr' /\ w.hdr \in Nat
  BY <1>2, <1>4 DEF TxIs, WrittenTo, SlotsOf
<1>9. ASSUME w.hdr > 0
      PROVE  /\ jrOther' = {} /\ SyncedTo(jrDisk', jr', w.hdr)
             /\ w.hdr + 1 \in DOMAIN jrDisk' => \A s \in jrDisk'[w.hdr + 1] : Quiet(s, w.tx)
  <2>1. /\ jrOther = {} /\ SyncedTo(jrDisk, jr, w.hdr)
        /\ w.hdr + 1 \in DOMAIN jrDisk => \A s \in jrDisk[w.hdr + 1] : Quiet(s, w.tx)
    BY <1>7, <1>9 DEF TxDisk
  <2>2. jrOther' = {}
    BY <2>1, <1>4 DEF DiskWrote
  <2>3. jr \in Seq(Slot) /\ SlotsOf(jr) = jr
    BY <1>2, <1>9 DEF TxIs
  <2>4. ASSUME NEW i \in DOMAIN jrDisk', i <= w.hdr + 1
        PROVE  i \in DOMAIN jrDisk /\ jrDisk'[i] = jrDisk[i] /\ jr'[i] = jr[i]
    <3>1. i \in Nat
      BY <1>4, <1>8 DEF DiskWrote, WrittenTo
    <3>2. i \notin DOMAIN new
      BY <3>1, <2>4, <1>8, <1>9
    <3>3. i \in DOMAIN jrDisk /\ jrDisk'[i] = jrDisk[i]
      BY <3>2, <2>4, <1>4 DEF DiskWrote
    <3>. QED
      BY <3>2, <3>3, <2>3, <1>4, <1>5 DEF WrittenTo
  <2>5. SyncedTo(jrDisk', jr', w.hdr)
    <3>. SUFFICES ASSUME NEW i \in DOMAIN jrDisk', i <= w.hdr
                  PROVE  jrDisk'[i] = {jr'[i]}
      BY DEF SyncedTo
    <3>1. i \in Nat
      BY <1>4, <1>8 DEF DiskWrote, WrittenTo
    <3>2. i <= w.hdr + 1
      BY <3>1, <1>8
    <3>. QED
      BY <3>2, <2>1, <2>4 DEF SyncedTo
  <2>6. w.hdr + 1 \in DOMAIN jrDisk' => \A s \in jrDisk'[w.hdr + 1] : Quiet(s, w.tx)
    <3>. SUFFICES ASSUME w.hdr + 1 \in DOMAIN jrDisk'
                  PROVE  \A s \in jrDisk'[w.hdr + 1] : Quiet(s, w.tx)
      OBVIOUS
    <3>1. w.hdr + 1 \in DOMAIN jrDisk /\ jrDisk'[w.hdr + 1] = jrDisk[w.hdr + 1]
      BY <2>4, <1>8
    <3>. QED
      BY <3>1, <2>1
  <2>. QED
    BY <2>2, <2>5, <2>6
<1>10. ASSUME Sure, w.hdr = 0
       PROVE  Fenced(jrDisk', Begun \ {w.tx}, m, n)
  <2>1. Fenced(jrDisk, Begun \ {w.tx}, m, n)
    BY <1>7, <1>10 DEF TxDisk
  <2>2. \A t \in Begun \ {w.tx} : \A i \in DOMAIN new : Quiet(new[i], t)
    BY BlandQuiet
  <2>. HIDE DEF m, n
  <2>. QED
    BY <2>1, <2>2, <1>4, WriteKeepsFence
<1>11. TxDiskInv(c)'
  <2>1. (Sure' <=> Sure) /\ Begun' = Begun
    BY DEF Sure, Begun
  <2>2. TxDisk(Sure', pc'[c], w', db', dbDisk', jrDisk', jrOther', jr', m, n, Begun)
    BY <2>1, <1>8, <1>9, <1>10 DEF TxDisk
  <2>. QED
    BY <2>1, <2>2 DEF TxDiskInv
<1>12. Undone(dbDisk, jrDisk, jrOther, jr, m, n)
           => Undone(dbDisk', jrDisk', jrOther', jr', m, n)
  <2>. SUFFICES ASSUME Undone(dbDisk, jrDisk, jrOther, jr, m, n)
                PROVE  Undone(dbDisk', jrDisk', jrOther', jr', m, n)
    OBVIOUS
  <2>1. Hot(jr) => \A i \in Playback(jr, 0) : i <= w.hdr
    <3>. SUFFICES ASSUME Hot(jr) PROVE \A i \in Playback(jr, 0) : i <= w.hdr
      OBVIOUS
    <3>1. w.hdr > 0 /\ w.state # "locked"
      BY <1>2, <1>8 DEF TxIs
    <3>2. /\ w \in Locals /\ jr \in Seq(Slot) /\ HeaderOk("write", w, jr)
          /\ SyncedOk(w, jr) /\ StateOk("write", w)
      BY <3>1, <1>2 DEF TxIs
    <3>3. w.slot # 0
      BY <3>2 DEF StateOk
    <3>. QED
      BY <3>1, <3>2, <3>3, PlaybackSynced
  <2>2. \A i \in DOMAIN new : i > w.hdr
    OBVIOUS
  <2>. HIDE DEF m, n
  <2>3. Undone(dbDisk, jrDisk', jrOther', jr', m, n)
    BY <2>1, <2>2, <1>3, <1>4, <1>5, <1>8, WriteUndone
  <2>. QED
    BY <2>3
<1>13. SureInv'
  BY <1>1, <1>11, <1>12, <1>4, TxSure DEF DiskInv0, DiskWrote
<1>. QED
  BY <1>6, <1>11, <1>13, OnlyTxNext

\* The committed size when nothing is committed.
LEMMA SizeSame ==
  ASSUME UNCHANGED <<committed, info>>
  PROVE  SizeOf(committed)' = SizeOf(committed)
BY DEF SizeOf, InfoOf

\* The committed size when only a newer transaction learns its own.
LEMMA SizeKept ==
  ASSUME committed \in Image, committed' = committed,
         info \in [1..MaxTx -> Infos], info' \in [1..MaxTx -> Infos], NEW t \in Nat,
         \A u \in 1..MaxTx : u # t => info'[u] = info[u], committed[1] < 2 * t
  PROVE  SizeOf(committed)' = SizeOf(committed)
<1>1. PICK m \in Image : m = committed
  OBVIOUS
<1>2. SizeOf(m)' = SizeOf(m)
  BY <1>1, InfoSame
<1>3. SizeOf(committed)' = SizeOf(m)'
  BY <1>1 DEF SizeOf
<1>. QED
  BY <1>1, <1>2, <1>3

\* Where a transaction that writes puts its next slot.
LEMMA NextSlot ==
  ASSUME IInv0, NEW c \in Conn, pc[c] = "write", InTx(c)
  PROVE  /\ w.hdr \in Nat /\ OffOf(w) \in Nat /\ w.off \in Nat /\ OffOf(w) + 1 > w.hdr
         /\ w.hdr > 0 => OffOf(w) + 1 > w.hdr + 1
         /\ w.state = "locked" => w.hdr = 0
<1>1. TxIs(c)
  BY TxKnown
<1>2. w.hdr \in Nat /\ OffOf(w) \in Nat /\ w.off \in Nat
  BY <1>1, LocalsHave DEF TxIs, OffOf
<1>3. w.state = "locked" => w.hdr = 0
  BY <1>1 DEF TxIs
<1>4. ASSUME w.state # "locked"
      PROVE  OffOf(w) = w.off /\ w.off > w.hdr
  <2>1. HeaderOk("write", w, jr) /\ StateOk("write", w)
    BY <1>1, <1>4 DEF TxIs
  <2>2. w.slot # 0
    BY <2>1 DEF StateOk
  <2>3. w.slot = w.hdr + 1 /\ w.slot <= w.off
    BY <2>1, <2>2 DEF HeaderOk
  <2>. QED
    BY <2>3, <1>2, <1>4 DEF OffOf
<1>. QED
  BY <1>2, <1>3, <1>4

\* pager_write writes records of its transaction, and a header without a count,
\* behind what is synced.
LEMMA WroteBland ==
  ASSUME IInv0, NEW c \in Conn, pc[c] = "write", InTx(c), NEW p, NEW u, NEW new,
         Wrote(w, p, u, new)
  PROVE  \A i \in DOMAIN new : Bland(new[i]) /\ i > w.hdr /\ (w.hdr > 0 => i > w.hdr + 1)
<1>. SUFFICES ASSUME NEW i \in DOMAIN new
              PROVE  Bland(new[i]) /\ i > w.hdr /\ (w.hdr > 0 => i > w.hdr + 1)
  OBVIOUS
<1>1. /\ (w.state = "locked" /\ i = 1) \/ i = OffOf(w) + 1
      /\ \/ new[i] = Record(p, Old(w, p), w.tx)
         \/ new[i] = Header(FALSE, 0, w.tx, w.orig)
  BY DEF Wrote
<1>2. w.tx = nTx /\ w.tx \in Nat
  BY TxFacts, PagerAssumption
<1>3. Bland(new[i])
  BY <1>1, <1>2 DEF Bland, InitOk, Record, Header
<1>. QED
  BY <1>1, <1>3, NextSlot

\* A change of a page keeps the disk invariant.
LEMMA WriteDisk ==
  ASSUME IInv0, DiskInv0, Powered, NEW c \in Conn, NEW p \in Page, Write(c, p)
  PROVE  DiskInv0'
<1>. DEFINE new == PagerWrite(w, p).new
<1>1. /\ pc[c] = "write" /\ w.owner = c
      /\ (p \in PagesOf(w.mem) \/ p = Cardinality(PagesOf(w.mem)) + 1)
      /\ w' = PagerWrite(w, p).v /\ JournalWrite(new)
      /\ UNCHANGED <<db, dbDisk, pc, info, committed, maybe, nTx>>
  BY DEF Write, connVars, histVars
<1>2. IInv0'
  BY WriteKeeps
<1>3. InTx(c) /\ w.ending = "none"
  BY <1>1, AtWrite
<1>4. PICK k \in Nat : Changed(p, w', new, k)
  BY <1>1, PageChanged
<1>. HIDE DEF new
<1>5. Wrote(w, p, w', new) /\ Fits(jr, new, k)
  BY <1>4 DEF Changed
<1>6. w'.owner = w.owner /\ w'.hdr = w.hdr /\ w'.tx = w.tx /\ w'.ending = "none"
  BY <1>3, <1>5 DEF Wrote
<1>7. InTx(c)' /\ pc'[c] \in {"write", "jsync"}
  BY <1>1, <1>3, <1>6 DEF InTx
<1>8. \A i \in DOMAIN new : Bland(new[i]) /\ i > w.hdr /\ (w.hdr > 0 => i > w.hdr + 1)
  BY <1>1, <1>3, <1>5, WroteBland
<1>9. SizeOf(committed)' = SizeOf(committed)
  BY <1>1, SizeSame
<1>. QED
  BY <1>1, <1>2, <1>5, <1>6, <1>7, <1>8, <1>9, JournalGrows

\* A header that is defaced.
LEMMA DefacedHeader ==
  ASSUME NEW s \in Slot, s.kind = "hdr"
  PROVE  /\ [s EXCEPT !.magic = FALSE] \in Slot
         /\ [s EXCEPT !.magic = FALSE].kind = "hdr"
         /\ [s EXCEPT !.magic = FALSE].init = s.init
         /\ [s EXCEPT !.magic = FALSE].magic = FALSE
<1>1. s \in [kind : {"hdr"}, magic : BOOLEAN, n : Nat, init : 1..MaxTx, orig : 0..NPage]
  BY DEF Slot, Zero, Torn
<1>2. [s EXCEPT !.magic = FALSE] \in
        [kind : {"hdr"}, magic : BOOLEAN, n : Nat, init : 1..MaxTx, orig : 0..NPage]
  BY <1>1
<1>. QED
  BY <1>1, <1>2 DEF Slot

\* The first write of syncJournal keeps the disk invariant.
LEMMA SyncDisk ==
  ASSUME Sound, IInv0, IInv0', DiskInv0, Powered, NEW c \in Conn, pc[c] = "write",
         w.owner = c, NEW v \in Locals, NEW new, NEW goal, SyncJournal(c, v, new, goal),
         NEW k \in Nat, Fits(jr, new, k), v.owner = c, v.hdr = w.hdr, v.tx = w.tx,
         v.ending = "none",
         v.off + 1 > w.hdr, w.hdr > 0 => v.off + 1 > w.hdr + 1,
         \A i \in DOMAIN new : Bland(new[i]) /\ i > w.hdr /\ (w.hdr > 0 => i > w.hdr + 1),
         UNCHANGED <<db, dbDisk, committed, maybe, nTx>>,
         SizeOf(committed)' = SizeOf(committed)
  PROVE  DiskInv0'
<1>. DEFINE S == StaleHeader(v.off)
            new2 == [i \in DOMAIN new \cup S |->
                         IF i \in DOMAIN new THEN new[i]
                         ELSE [Slots[i] EXCEPT !.magic = FALSE]]
<1>1. Slots = SlotsOf(jr) /\ jr \in Journals /\ InitInv
  BY DEF Slots, SlotsOf, IInv0, TypeInv, JrTypes
<1>2. \A i \in S : i = v.off + 1 /\ i \in DOMAIN SlotsOf(jr) /\ SlotsOf(jr)[i].kind = "hdr"
  BY <1>1 DEF StaleHeader
<1>3. /\ JournalWrite(new2) /\ w' = [v EXCEPT !.goal = goal]
      /\ pc' = [pc EXCEPT ![c] = IF fullSync(c) THEN "jsync" ELSE "jhdr"]
  BY DEF SyncJournal, Goto
<1>4. fullSync(c)
  <2>1. MaxPowerLoss > 0
    BY PagerAssumption DEF Powered, IInv0, TypeInv, HistTypes
  <2>. QED
    BY <2>1 DEF Sound
<1>. HIDE DEF S
<1>5. /\ DOMAIN new2 = DOMAIN new \cup S
      /\ \A i \in DOMAIN new : new2[i] = new[i]
      /\ \A i \in S : i \notin DOMAIN new => new2[i] = [SlotsOf(jr)[i] EXCEPT !.magic = FALSE]
  BY <1>1
<1>. HIDE DEF new2
<1>6. ASSUME NEW i \in S, i \notin DOMAIN new
      PROVE  new2[i] \in Slot /\ Bland(new2[i])
  <2>. DEFINE s == SlotsOf(jr)[i]
  <2>1. s \in Slot /\ s.kind = "hdr" /\ s.init <= nTx
    BY <1>1, <1>2, <1>6, SlotsAre DEF InitInv
  <2>2. new2[i] = [s EXCEPT !.magic = FALSE]
    BY <1>5, <1>6
  <2>. HIDE DEF s
  <2>. QED
    BY <2>1, <2>2, DefacedHeader DEF Bland, InitOk
<1>7. Fits(jr, new2, k)
  <2>1. DOMAIN SlotsOf(jr) \cup DOMAIN new2 = 1..k
    BY <1>2, <1>5 DEF Fits
  <2>2. \A i \in DOMAIN new2 : new2[i] \in Slot
    BY <1>5, <1>6 DEF Fits
  <2>. QED
    BY <2>1, <2>2 DEF Fits
<1>8. \A i \in DOMAIN new2 : Bland(new2[i]) /\ i > w.hdr /\ (w.hdr > 0 => i > w.hdr + 1)
  BY <1>2, <1>5, <1>6
<1>9. w'.owner = c /\ w'.hdr = w.hdr /\ w'.tx = w.tx /\ w'.ending = "none"
  BY <1>3 DEF Locals
<1>10. pc'[c] = "jsync"
  BY <1>3, <1>4 DEF IInv0, TypeInv, ConnTypes
<1>11. InTx(c)'
  BY <1>9, <1>10 DEF InTx, OpenPcs, WritePcs
<1>. QED
  BY <1>3, <1>7, <1>8, <1>9, <1>10, <1>11, JournalGrows

\* A spill that has to sync the journal first keeps the disk invariant.
LEMMA StressSyncDisk ==
  ASSUME Sound, IInv0, DiskInv0, Powered, NEW c \in Conn, NEW p \in Page, StressSync(c, p)
  PROVE  DiskInv0'
<1>. DEFINE new == [i \in {} |-> Zero]
<1>1. /\ pc[c] = "write" /\ w.owner = c /\ p \in w.dirty /\ SyncJournal(c, w, new, p)
      /\ UNCHANGED <<db, dbDisk, committed, maybe, nTx, info>>
  BY DEF StressSync, histVars
<1>2. IInv0'
  BY StressSyncKeeps
<1>3. InTx(c) /\ w.ending = "none" /\ w \in Locals
  BY <1>1, AtWrite, TxFacts
<1>4. w.state # "locked"
  BY <1>1, <1>3 DEF IInv0, WorkInv, TxOfInv, TxOk, JournalOk, LockedOk
<1>5. /\ w.off + 1 > w.hdr /\ (w.hdr > 0 => w.off + 1 > w.hdr + 1)
  BY <1>1, <1>3, <1>4, NextSlot DEF OffOf
<1>6. jr \in Seq(Slot) /\ SlotsOf(jr) = jr
  BY <1>3, <1>4, TxKnown DEF TxIs
<1>7. Len(jr) \in Nat /\ DOMAIN jr = 1..Len(jr)
  BY <1>6
<1>8. DOMAIN new = {}
  OBVIOUS
<1>. HIDE DEF new
<1>9. Fits(jr, new, Len(jr))
  BY <1>6, <1>7, <1>8 DEF Fits
<1>10. SizeOf(committed)' = SizeOf(committed)
  BY <1>1, SizeSame
<1>11. \A i \in DOMAIN new : Bland(new[i]) /\ i > w.hdr /\ (w.hdr > 0 => i > w.hdr + 1)
  BY <1>8
<1>. QED
  BY <1>1, <1>2, <1>3, <1>5, <1>7, <1>9, <1>10, <1>11, SyncDisk

\* The start of a commit keeps the disk invariant.
LEMMA CommitPhaseOneDisk ==
  ASSUME Sound, IInv0, DiskInv0, Powered, NEW c \in Conn, CommitPhaseOne(c)
  PROVE  DiskInv0'
<1>. DEFINE u == PagerWrite(w, 1).v
            new == PagerWrite(w, 1).new
            i == [ctr |-> cache[c].ctr + 1, size |-> Cardinality(PagesOf(w.mem))]
<1>1. /\ pc[c] = "write" /\ w.owner = c /\ w.state # "locked"
      /\ SyncJournal(c, u, new, 0) /\ info' = [info EXCEPT ![w.tx] = i]
      /\ UNCHANGED <<db, dbDisk, committed, maybe, nTx>>
  BY DEF CommitPhaseOne
<1>2. IInv0'
  BY CommitPhaseOneKeeps
<1>3. InTx(c) /\ w.ending = "none" /\ w \in Locals /\ w.tx \in 1..MaxTx
  BY <1>1, AtWrite, TxFacts
<1>4. 1 \in Page /\ 1 \in PagesOf(w.mem)
  <2>1. PICK k \in Page : Prefix(w.mem, k)
    BY <1>1, <1>3 DEF IInv0, WorkInv, TxOfInv, TxOk, MemOk, OpenPcs, WritePcs
  <2>. QED
    BY <2>1, PagerAssumption DEF Page, Prefix, PagesOf
<1>5. PICK k \in Nat : Changed(1, u, new, k)
  BY <1>1, <1>4, PageChanged
<1>. HIDE DEF u, new, i
<1>6. Wrote(w, 1, u, new) /\ Fits(jr, new, k)
  BY <1>5 DEF Changed
<1>7. /\ u \in Locals /\ u.owner = c /\ u.hdr = w.hdr /\ u.tx = w.tx /\ u.ending = "none"
      /\ u.off = OffOf(w) + (IF NeedsRecord(w, 1) THEN 1 ELSE 0)
  BY <1>1, <1>3, <1>6 DEF Wrote
<1>8. u.off + 1 > w.hdr /\ (w.hdr > 0 => u.off + 1 > w.hdr + 1)
  <2>1. /\ w.hdr \in Nat /\ OffOf(w) \in Nat /\ OffOf(w) + 1 > w.hdr
        /\ w.hdr > 0 => OffOf(w) + 1 > w.hdr + 1
    BY <1>1, <1>3, NextSlot
  <2>. QED
    BY <2>1, <1>7
<1>9. \A x \in DOMAIN new : Bland(new[x]) /\ x > w.hdr /\ (w.hdr > 0 => x > w.hdr + 1)
  BY <1>1, <1>3, <1>6, WroteBland
<1>10. SizeOf(committed)' = SizeOf(committed)
  <2>1. committed \in Image /\ committed \in maybe
    BY Started
  <2>2. committed[1] < 2 * w.tx
    BY <1>3, <1>4, <2>1 DEF IInv0, WorkInv, TxOfInv
  <2>3. info \in [1..MaxTx -> Infos] /\ info' \in [1..MaxTx -> Infos] /\ w.tx \in Nat
    BY <1>2, <1>3, PagerAssumption DEF IInv0, TypeInv, HistTypes
  <2>4. \A t \in 1..MaxTx : t # w.tx => info'[t] = info[t]
    BY <1>1, <2>3
  <2>. QED
    BY <1>1, <2>1, <2>2, <2>3, <2>4, SizeKept
<1>. QED
  BY <1>1, <1>2, <1>6, <1>7, <1>8, <1>9, <1>10, SyncDisk

-----------------------------------------------------------------------------
(* The journal stays as it is *)

\* The disk may hold the files when the journal is left alone.
LEMMA DbHolds ==
  ASSUME DiskHolds, JrTypes, UNCHANGED <<jr, jrDisk, jrOther>>,
         nTx \in Nat, nTx' \in Nat, nTx' >= nTx,
         \A p \in Page : db'[p] \in dbDisk'[p]
  PROVE  DiskHolds'
<1>1. ASSUME NEW s \in Slot, InitOk(s)
      PROVE  InitOk(s)'
  <2>1. s.kind \in {"hdr", "rec"} => s.init \in Int /\ s.init <= nTx
    BY <1>1, SlotKinds, PagerAssumption DEF InitOk
  <2>. QED
    BY <2>1 DEF InitOk
<1>2. \A i \in DOMAIN jrDisk : \A s \in jrDisk[i] : s \in Slot
  BY DEF JrTypes
<1>3. \A g \in jrOther : g # NoFile => \A i \in DOMAIN g : g[i] \in Slot
  BY SeqParts DEF JrTypes, Journals
<1>4. \A i \in DOMAIN jrDisk' :
        SlotsOf(jr)'[i] \in jrDisk'[i] /\ \A s \in jrDisk'[i] : InitOk(s)'
  BY <1>1, <1>2 DEF DiskHolds
<1>5. \A g \in jrOther' : g # NoFile => \A i \in DOMAIN g : InitOk(g[i])'
  BY <1>1, <1>3 DEF DiskHolds
<1>. QED
  BY <1>4, <1>5 DEF DiskHolds

\* A step of a transaction that leaves the journal alone keeps the disk
\* invariant.
LEMMA MoveDisk ==
  ASSUME IInv0, IInv0', DiskInv0, NEW c \in Conn, InTx(c), InTx(c)',
         pc[c] \notin {"jhdr", "jsync2"}, pc'[c] \notin {"jhdr", "jsync2"},
         UNCHANGED <<jr, jrDisk, jrOther, histVars>>, w'.hdr = w.hdr, w'.tx = w.tx,
         \A p \in Page : db'[p] \in dbDisk'[p],
         Undone(dbDisk, jrDisk, jrOther, jr, committed, SizeOf(committed))
           => Undone(dbDisk', jrDisk, jrOther, jr, committed, SizeOf(committed)),
         (pc'[c] = "flush" /\ w'.goal = 0) \/ pc'[c] \in {"dbsync", "finish"}
           \/ w'.ending = "commit" => AllSynced(jrDisk, jrOther, jr),
         pc'[c] = "finish" \/ w'.ending = "commit" =>
           \A p \in Page : dbDisk'[p] = {db'[p]},
         pc'[c] = "finalize" /\ w'.ending = "rollback" =>
           Clean(dbDisk', committed, SizeOf(committed))
  PROVE  DiskInv0'
<1>. DEFINE m == committed
            n == SizeOf(committed)
<1>1. TxIs(c) /\ UNCHANGED <<info, committed, maybe, nTx>> /\ nTx \in Nat
  BY TxKnown, PagerAssumption DEF histVars, IInv0, TypeInv, HistTypes
<1>2. SizeOf(committed)' = SizeOf(committed)
  BY <1>1, SizeSame
<1>3. (Sure' <=> Sure) /\ Begun' = Begun
  BY <1>1 DEF Sure, Begun
<1>4. DiskHolds'
  BY <1>1, DbHolds DEF DiskInv0, IInv0, TypeInv
<1>5. TxDisk(Sure, pc[c], w, db, dbDisk, jrDisk, jrOther, jr, m, n, Begun)
  BY DEF DiskInv0, DiskOf, TxDiskInv
<1>. HIDE DEF m, n
<1>6. w.hdr = 0 => pc[c] \in {"write", "jsync", "play", "finalize"}
  BY <1>1 DEF TxIs
<1>7. TxDisk(Sure, pc'[c], w', db', dbDisk', jrDisk, jrOther, jr, m, n, Begun)
  <2>1. Sure /\ w.hdr = 0 => Fenced(jrDisk, Begun \ {w.tx}, m, n)
    BY <1>5, <1>6 DEF TxDisk
  <2>2. w.hdr > 0 => /\ jrOther = {} /\ SyncedTo(jrDisk, jr, w.hdr)
                     /\ w.hdr + 1 \in DOMAIN jrDisk =>
                          \A s \in jrDisk[w.hdr + 1] : Quiet(s, w.tx)
    BY <1>5 DEF TxDisk
  <2>. QED
    BY <2>1, <2>2 DEF TxDisk, m, n
<1>8. TxDiskInv(c)'
  BY <1>1, <1>2, <1>3, <1>7 DEF TxDiskInv, m, n
<1>9. SureInv'
  BY <1>1, <1>2, <1>8, TxSure DEF DiskInv0
<1>. QED
  BY <1>4, <1>8, <1>9, OnlyTxNext

-----------------------------------------------------------------------------
(* A page is written to the file *)

\* The record of a page that may be overwritten is on disk.
LEMMA SavedUndo ==
  ASSUME IInv0, DiskInv0, NEW c \in Conn, InTx(c), NEW p, Saved(w, jr, p)
  PROVE  jrOther = {} /\ SyncedUndo(jrDisk, jr, p)
<1>1. TxIs(c)
  BY TxKnown
<1>2. PICK i \in 1..w.off : i <= w.hdr
  BY DEF Saved, RecordsOf
<1>3. w.hdr > 0 /\ w.state # "locked"
  BY <1>1, <1>2 DEF TxIs
<1>4. /\ w \in Locals /\ jr \in Seq(Slot) /\ SlotsOk(w, jr, committed, Size)
      /\ HeaderOk(pc[c], w, jr) /\ SyncedOk(w, jr)
  BY <1>1, <1>3 DEF TxIs
<1>5. jrOther = {} /\ SyncedTo(jrDisk, jr, w.hdr)
  BY <1>3 DEF DiskInv0, DiskOf, TxDiskInv, TxDisk
<1>. HIDE DEF Size
<1>6. SyncedUndo(jrDisk, jr, p)
  BY <1>4, <1>5, OwnUndo
<1>. QED
  BY <1>5, <1>6

\* A page whose record is synced may reach the disk at any time.
LEMMA PagesWritten ==
  ASSUME IInv0, DiskInv0, Powered, NEW c \in Conn, InTx(c), NEW new, DbWrite(new),
         \A p \in DOMAIN new : p <= SizeOf(committed) => Saved(w, jr, p)
  PROVE  /\ \A p \in Page : db'[p] \in dbDisk'[p]
         /\ Undone(dbDisk, jrDisk, jrOther, jr, committed, SizeOf(committed))
              => Undone(dbDisk', jrDisk, jrOther, jr, committed, SizeOf(committed))
<1>1. /\ \A p \in Page \ DOMAIN new : dbDisk'[p] = dbDisk[p]
      /\ \A p \in Page : db'[p] \in dbDisk'[p]
  BY DbDiskWrote DEF IInv0, TypeInv, DiskInv0, DiskHolds
<1>2. \A p \in DOMAIN new : p <= SizeOf(committed)
                              => jrOther = {} /\ SyncedUndo(jrDisk, jr, p)
  BY SavedUndo
<1>. QED
  BY <1>1, <1>2 DEF Undone

\* A page that may go to the file has its record behind a header that is synced.
LEMMA PageSaved ==
  ASSUME IInv0, NEW c \in Conn, pc[c] \in OpenPcs, NEW p \in w.dirty, p \notin w.needSync,
         p <= SizeOf(committed)
  PROVE  Saved(w, jr, p)
<1>1. /\ InTx(c) /\ TxOk(pc[c], w, db, jr, committed, SizeOf(committed))
  BY AtOpen
<1>2. w \in Locals
  BY <1>1, TxFacts
<1>3. p \in Page /\ w.orig \in Nat /\ SizeOf(committed) \in Nat /\ w.orig >= SizeOf(committed)
  BY <1>1, <1>2, LocalsHave, Started, PagerAssumption DEF TxOk
<1>4. p <= w.orig /\ p \in Nat
  BY <1>3, PagerAssumption DEF Page
<1>5. p \in w.inJournal
  BY <1>1, <1>4 DEF TxOk, MemOk
<1>6. w.state # "locked"
  BY <1>1 DEF TxOk, JournalOk, LockedOk
<1>7. SlotsOk(w, jr, committed, SizeOf(committed))
  BY <1>1, <1>6 DEF TxOk, JournalOk
<1>. QED
  BY <1>5, <1>7 DEF SlotsOk, Saved

\* Writing a page that the cache spills keeps the disk invariant.
LEMMA StressWriteDisk ==
  ASSUME IInv0, DiskInv0, Powered, NEW c \in Conn, NEW p \in Page, StressWrite(c, p)
  PROVE  DiskInv0'
<1>1. /\ pc[c] = "write" /\ w.owner = c /\ p \in w.dirty /\ ~NeedsSync(p)
      /\ DbWrite([q \in {p} |-> w.mem[q]]) /\ w' = [w EXCEPT !.dirty = @ \ {p}]
      /\ UNCHANGED <<jr, jrDisk, jrOther, pc, histVars>>
  BY DEF StressWrite, connVars
<1>2. IInv0'
  BY StressWriteKeeps
<1>3. InTx(c) /\ w.ending = "none" /\ w \in Locals /\ pc[c] \in OpenPcs
  BY <1>1, AtWrite, TxFacts DEF OpenPcs, WritePcs
<1>4. /\ w'.owner = w.owner /\ w'.hdr = w.hdr /\ w'.tx = w.tx /\ w'.ending = "none"
  BY <1>1, <1>3 DEF Locals
<1>5. InTx(c)' /\ pc'[c] = "write"
  BY <1>1, <1>3, <1>4 DEF InTx
<1>6. p <= SizeOf(committed) => Saved(w, jr, p)
  BY <1>1, <1>3, PageSaved DEF NeedsSync
<1>. DEFINE new == [q \in {p} |-> w.mem[q]]
<1>7. DbWrite(new) /\ \A q \in DOMAIN new : q <= SizeOf(committed) => Saved(w, jr, q)
  BY <1>1, <1>6
<1>. HIDE DEF new
<1>8. /\ \A q \in Page : db'[q] \in dbDisk'[q]
      /\ Undone(dbDisk, jrDisk, jrOther, jr, committed, SizeOf(committed))
           => Undone(dbDisk', jrDisk, jrOther, jr, committed, SizeOf(committed))
  BY <1>3, <1>7, PagesWritten
<1>. QED
  BY <1>1, <1>2, <1>3, <1>4, <1>5, <1>8, MoveDisk

\* Writing a page of a commit keeps the disk invariant.
LEMMA WritePageDisk ==
  ASSUME IInv0, DiskInv0, Powered, NEW c \in Conn, NEW p \in Page, WritePage(c, p)
  PROVE  DiskInv0'
<1>1. /\ pc[c] = "flush" /\ p \in w.dirty /\ w.goal \in {0, p}
      /\ DbWrite([q \in {p} |-> w.mem[q]])
      /\ w' = [w EXCEPT !.dirty = @ \ {p}, !.goal = 0]
      /\ pc' = [pc EXCEPT ![c] = IF w.goal = p THEN "write"
                                 ELSE IF w.dirty = {p} THEN "dbsync" ELSE "flush"]
      /\ UNCHANGED <<jr, jrDisk, jrOther, histVars>>
  BY DEF WritePage, Goto
<1>2. IInv0'
  BY WritePageKeeps
<1>3. /\ InTx(c) /\ w.ending = "none" /\ w \in Locals
      /\ pc[c] \in OpenPcs \ {"write"} /\ pc[c] \in OpenPcs
      /\ JournalOk("flush", w, jr, committed, SizeOf(committed))
  BY <1>1, AtParts DEF OpenPcs, WritePcs
<1>4. w'.owner = w.owner /\ w'.hdr = w.hdr /\ w'.tx = w.tx /\ w'.ending = "none" /\ w'.goal = 0
  BY <1>1, <1>3 DEF Locals
<1>5. /\ pc'[c] \in {"write", "dbsync", "flush"} /\ (pc'[c] # "write" => w.goal = 0)
      /\ pc'[c] \in OpenPcs
  BY <1>1 DEF IInv0, TypeInv, ConnTypes, OpenPcs, WritePcs
<1>6. InTx(c)'
  BY <1>3, <1>4, <1>5 DEF InTx
<1>7. w.needSync = {}
  BY <1>3 DEF JournalOk, LockedOk, StateOk
<1>8. p <= SizeOf(committed) => Saved(w, jr, p)
  BY <1>1, <1>3, <1>7, PageSaved
<1>. DEFINE new == [q \in {p} |-> w.mem[q]]
<1>9. DbWrite(new) /\ \A q \in DOMAIN new : q <= SizeOf(committed) => Saved(w, jr, q)
  BY <1>1, <1>8
<1>. HIDE DEF new
<1>10. /\ \A q \in Page : db'[q] \in dbDisk'[q]
       /\ Undone(dbDisk, jrDisk, jrOther, jr, committed, SizeOf(committed))
            => Undone(dbDisk', jrDisk, jrOther, jr, committed, SizeOf(committed))
  BY <1>3, <1>9, PagesWritten
<1>11. w.goal = 0 => AllSynced(jrDisk, jrOther, jr)
  BY <1>1, <1>3 DEF DiskInv0, DiskOf, TxDiskInv, TxDisk
<1>12. pc[c] \notin {"jhdr", "jsync2"}
           /\ pc'[c] \notin {"jhdr", "jsync2", "finish", "finalize"}
  BY <1>1, <1>5
<1>13. (pc'[c] = "flush" /\ w'.goal = 0) \/ pc'[c] \in {"dbsync", "finish"}
           \/ w'.ending = "commit" => AllSynced(jrDisk, jrOther, jr)
  BY <1>4, <1>5, <1>11
<1>. QED
  BY <1>1, <1>2, <1>3, <1>4, <1>6, <1>10, <1>12, <1>13, MoveDisk

\* The sync of the database file keeps the disk invariant.
LEMMA SyncDatabaseDisk ==
  ASSUME IInv0, DiskInv0, Powered, NEW c \in Conn, SyncDatabase(c)
  PROVE  DiskInv0'
<1>1. /\ pc[c] = "dbsync" /\ DbSync /\ pc' = [pc EXCEPT ![c] = "finish"] /\ w' = w
      /\ UNCHANGED <<jr, jrDisk, jrOther, histVars>>
  BY DEF SyncDatabase, Goto
<1>2. IInv0'
  BY SyncDatabaseKeeps
<1>3. InTx(c) /\ w.ending = "none"
  BY <1>1, AtParts DEF OpenPcs, WritePcs
<1>4. pc'[c] = "finish" /\ InTx(c)'
  BY <1>1, <1>3 DEF InTx, IInv0, TypeInv, ConnTypes, OpenPcs
<1>5. db' = db /\ \A p \in Page : dbDisk'[p] = {db[p]}
  BY <1>1, DbDiskSynced
<1>6. AllSynced(jrDisk, jrOther, jr)
  BY <1>1, <1>3 DEF DiskInv0, DiskOf, TxDiskInv, TxDisk
<1>7. Undone(dbDisk, jrDisk, jrOther, jr, committed, SizeOf(committed))
           => Undone(dbDisk', jrDisk, jrOther, jr, committed, SizeOf(committed))
  BY <1>5 DEF DiskInv0, DiskHolds, Undone
<1>. QED
  BY <1>1, <1>2, <1>3, <1>4, <1>5, <1>6, <1>7, MoveDisk

-----------------------------------------------------------------------------
(* Steps that write nothing, or restore what was there *)

\* The database file left alone can be undone as before.
LEMMA FilesKept ==
  ASSUME DiskInv0, UNCHANGED <<db, dbDisk>>
  PROVE  /\ \A p \in Page : db'[p] \in dbDisk'[p]
         /\ Undone(dbDisk, jrDisk, jrOther, jr, committed, SizeOf(committed))
              => Undone(dbDisk', jrDisk, jrOther, jr, committed, SizeOf(committed))
BY DEF DiskInv0, DiskHolds

\* Opening a savepoint keeps the disk invariant.
LEMMA OpenSavepointDisk ==
  ASSUME IInv0, DiskInv0, NEW c \in Conn, OpenSavepoint(c)
  PROVE  DiskInv0'
<1>. DEFINE sp == [NoSavepoint EXCEPT
             !.open = TRUE, !.nOrig = Cardinality(PagesOf(w.mem)),
             !.iOffset = IF w.off > 0 THEN w.off ELSE 1,
             !.iSubRec = Len(w.sub), !.img = w.mem]
<1>1. /\ pc[c] = "write" /\ w.owner = c /\ w' = [w EXCEPT !.sp = sp]
      /\ UNCHANGED <<db, dbDisk, jr, jrDisk, jrOther, pc, histVars>>
  BY DEF OpenSavepoint, connVars, fileVars
<1>. HIDE DEF sp
<1>2. IInv0'
  BY OpenSavepointKeeps
<1>3. InTx(c) /\ w.ending = "none" /\ w \in Locals
  BY <1>1, AtWrite, TxFacts
<1>4. w'.owner = w.owner /\ w'.hdr = w.hdr /\ w'.tx = w.tx /\ w'.ending = "none"
  BY <1>1, <1>3 DEF Locals
<1>5. InTx(c)' /\ pc'[c] = "write"
  BY <1>1, <1>3, <1>4 DEF InTx
<1>6. /\ \A p \in Page : db'[p] \in dbDisk'[p]
      /\ Undone(dbDisk, jrDisk, jrOther, jr, committed, SizeOf(committed))
           => Undone(dbDisk', jrDisk, jrOther, jr, committed, SizeOf(committed))
  BY <1>1, FilesKept
<1>. QED
  BY <1>1, <1>2, <1>3, <1>4, <1>5, <1>6, MoveDisk

\* A commit that finds readers keeps the disk invariant.
LEMMA ExclusiveBusyDisk ==
  ASSUME IInv0, DiskInv0, NEW c \in Conn, ExclusiveBusy(c)
  PROVE  DiskInv0'
<1>1. /\ pc[c] = "write" /\ w.owner = c /\ w' = w
      /\ UNCHANGED <<db, dbDisk, jr, jrDisk, jrOther, pc, histVars>>
  BY DEF ExclusiveBusy, fileVars
<1>2. IInv0'
  BY ExclusiveBusyKeeps
<1>3. InTx(c) /\ w.ending = "none"
  BY <1>1, AtWrite
<1>4. InTx(c)' /\ pc'[c] = "write"
  BY <1>1, <1>3 DEF InTx
<1>5. /\ \A p \in Page : db'[p] \in dbDisk'[p]
      /\ Undone(dbDisk, jrDisk, jrOther, jr, committed, SizeOf(committed))
           => Undone(dbDisk', jrDisk, jrOther, jr, committed, SizeOf(committed))
  BY <1>1, FilesKept
<1>. QED
  BY <1>1, <1>2, <1>3, <1>4, <1>5, MoveDisk

\* The step to the end of the commit keeps the disk invariant.
LEMMA CommitPhaseTwoDisk ==
  ASSUME IInv0, DiskInv0, NEW c \in Conn, CommitPhaseTwo(c)
  PROVE  DiskInv0'
<1>1. /\ pc[c] = "finish" /\ w' = [w EXCEPT !.ending = "commit"]
      /\ pc' = [pc EXCEPT ![c] = "finalize"]
      /\ UNCHANGED <<db, dbDisk, jr, jrDisk, jrOther, histVars>>
  BY DEF CommitPhaseTwo, Goto, fileVars
<1>2. IInv0'
  BY CommitPhaseTwoKeeps
<1>3. InTx(c) /\ w.ending = "none" /\ w \in Locals
  BY <1>1, AtParts DEF OpenPcs, WritePcs
<1>4. w'.owner = w.owner /\ w'.hdr = w.hdr /\ w'.tx = w.tx /\ w'.ending = "commit"
  BY <1>1, <1>3 DEF Locals
<1>5. pc'[c] = "finalize"
  BY <1>1 DEF IInv0, TypeInv, ConnTypes
<1>6. InTx(c)'
  BY <1>3, <1>4, <1>5 DEF InTx
<1>7. /\ \A p \in Page : db'[p] \in dbDisk'[p]
      /\ Undone(dbDisk, jrDisk, jrOther, jr, committed, SizeOf(committed))
           => Undone(dbDisk', jrDisk, jrOther, jr, committed, SizeOf(committed))
  BY <1>1, FilesKept
<1>8. AllSynced(jrDisk, jrOther, jr) /\ \A p \in Page : dbDisk[p] = {db[p]}
  BY <1>1, <1>3 DEF DiskInv0, DiskOf, TxDiskInv, TxDisk
<1>9. \A p \in Page : dbDisk'[p] = {db'[p]}
  BY <1>1, <1>8
<1>10. ~(pc'[c] = "finalize" /\ w'.ending = "rollback")
  BY <1>4
<1>. QED
  BY <1>1, <1>2, <1>3, <1>4, <1>5, <1>6, <1>7, <1>8, <1>9, <1>10, MoveDisk

\* A rollback to the savepoint keeps the disk invariant.
LEMMA RollbackToDisk ==
  ASSUME IInv0, DiskInv0, Powered, NEW c \in Conn, RollbackTo(c)
  PROVE  DiskInv0'
<1>. DEFINE m == committed
            n == SizeOf(committed)
            files == {p \in SavepointPages : w.state = "dbmod" /\ SavepointSynced(p)}
            new == [p \in files |-> SavepointData(p)]
<1>1. /\ pc[c] = "write" /\ w.owner = c /\ w.state # "locked" /\ w.sp.open
      /\ DbWrite(new) /\ UNCHANGED <<jr, jrDisk, jrOther, pc, histVars>>
  BY DEF RollbackTo, connVars
<1>2. IInv0'
  BY RollbackToKeeps
<1>3. InTx(c) /\ TxOk("write", w, db, jr, m, n) /\ w.ending = "none" /\ pc[c] \in OpenPcs
  BY <1>1, AtWrite DEF OpenPcs, WritePcs
<1>4. w \in Locals /\ n \in Nat
  BY <1>3, TxFacts, Started
<1>5. DbTypes /\ jr \in Journals
  BY DEF IInv0, TypeInv, JrTypes
<1>6. /\ JournalOk("write", w, jr, m, n) /\ w.orig >= n
      /\ MemOk("write", w, db, m, n) /\ SavepointOk(w, jr, m, n)
  BY <1>1, <1>3 DEF TxOk
<1>7. SlotsOk(w, jr, m, n) /\ jr \in Seq(Slot) /\ jr # NoFile
  BY <1>1, <1>5, <1>6 DEF JournalOk, SlotsOk, Journals
<1>. HIDE DEF new, files, m, n
<1>8. PICK toFile \in SUBSET Page : RolledBack(toFile)
  BY <1>4, <1>5, <1>6, <1>7, RollbackToDoes
<1>9. w'.owner = w.owner /\ w'.hdr = w.hdr /\ w'.tx = w.tx /\ w'.ending = "none"
  BY <1>3, <1>8 DEF RolledBack, SameTx
<1>10. InTx(c)' /\ pc'[c] = "write"
  BY <1>1, <1>3, <1>9 DEF InTx
<1>11. \A p \in SavepointPages : /\ p \in Page
                                 /\ SavepointSynced(p) /\ p <= w.orig => Saved(w, jr, p)
  BY <1>1, <1>4, <1>6, <1>7, SavepointReads
<1>12. \A p \in DOMAIN new : p <= SizeOf(committed) => Saved(w, jr, p)
  <2>. SUFFICES ASSUME NEW p \in files, p <= n PROVE Saved(w, jr, p)
    BY DEF new, n
  <2>1. p \in SavepointPages /\ SavepointSynced(p)
    BY DEF files
  <2>2. p \in Nat /\ w.orig \in Nat
    BY <2>1, <1>4, <1>11, LocalsHave, PagerAssumption DEF Page
  <2>3. p <= w.orig
    BY <2>2, <1>4, <1>6
  <2>. QED
    BY <2>1, <2>3, <1>11
<1>13. /\ \A p \in Page : db'[p] \in dbDisk'[p]
       /\ Undone(dbDisk, jrDisk, jrOther, jr, committed, SizeOf(committed))
            => Undone(dbDisk', jrDisk, jrOther, jr, committed, SizeOf(committed))
  BY <1>1, <1>3, <1>12, PagesWritten
<1>. QED
  BY <1>1, <1>2, <1>3, <1>9, <1>10, <1>13, MoveDisk

\* The pages beyond those the database had are cut off.
LEMMA CutAway ==
  ASSUME NEW n \in Nat, NEW k \in Nat, k >= n, PagerAssumption
  PROVE  \A p \in DOMAIN Cut(k) : ~(p <= n)
BY DEF Cut, Page

\* The start of a rollback keeps the disk invariant.
LEMMA RollbackDisk ==
  ASSUME IInv0, DiskInv0, Powered, NEW c \in Conn, Rollback(c)
  PROVE  DiskInv0'
<1>1. /\ pc[c] \in {"write", "finish"} /\ w.owner = c /\ w.state # "locked"
      /\ pc' = [pc EXCEPT ![c] = "play"]
      /\ w.state = "dbmod" => DbWrite(Cut(w.orig))
      /\ w.state # "dbmod" => UNCHANGED <<db, dbDisk>>
      /\ UNCHANGED <<jr, jrDisk, jrOther, histVars>>
  BY DEF Rollback, Goto
<1>. DEFINE mem == [p \in Page |-> IF p > w.orig THEN Absent ELSE w.mem[p]]
<1>2. PICK inCache \in {w.dirty, Page} :
        w' = [w EXCEPT !.ending = "rollback", !.inCache = inCache, !.mem = mem]
  BY DEF Rollback
<1>. HIDE DEF mem
<1>3. IInv0'
  BY RollbackKeeps
<1>4. pc[c] \in OpenPcs
  BY <1>1 DEF OpenPcs, WritePcs
<1>5. InTx(c) /\ TxOk(pc[c], w, db, jr, committed, SizeOf(committed))
  BY <1>4, AtOpen
<1>6. w \in Locals /\ w.orig >= SizeOf(committed) /\ SizeOf(committed) \in Nat
  BY <1>5, TxFacts, Started DEF TxOk
<1>7. w'.owner = w.owner /\ w'.hdr = w.hdr /\ w'.tx = w.tx /\ w'.ending = "rollback"
  BY <1>2, <1>6 DEF Locals
<1>8. pc'[c] = "play"
  BY <1>1 DEF IInv0, TypeInv, ConnTypes
<1>9. InTx(c)'
  BY <1>1, <1>7, <1>8 DEF InTx
<1>10. /\ \A p \in Page : db'[p] \in dbDisk'[p]
       /\ Undone(dbDisk, jrDisk, jrOther, jr, committed, SizeOf(committed))
            => Undone(dbDisk', jrDisk, jrOther, jr, committed, SizeOf(committed))
  <2>1. CASE w.state = "dbmod"
    <3>1. w.orig \in Nat
      BY <1>6, LocalsHave, PagerAssumption
    <3>2. \A p \in DOMAIN Cut(w.orig) : ~(p <= SizeOf(committed))
      BY <3>1, <1>6, CutAway, PagerAssumption
    <3>. QED
      BY <3>2, <2>1, <1>1, <1>5, PagesWritten
  <2>2. CASE w.state # "dbmod"
    BY <2>2, <1>1, FilesKept
  <2>. QED
    BY <2>1, <2>2
<1>. QED
  BY <1>1, <1>3, <1>5, <1>7, <1>8, <1>9, <1>10, MoveDisk

\* A page is played back from a record that is on disk.
LEMMA RollbackPageDisk ==
  ASSUME IInv0, DiskInv0, Powered, NEW c \in Conn, PlayPage(c), w.ending = "rollback"
  PROVE  DiskInv0'
<1>. DEFINE x == Min(todo)
            new == [p \in {jr[x].pg} |-> jr[x].data]
<1>1. /\ pc[c] = "play" /\ todo # {}
      /\ w.state = "dbmod" /\ x <= w.hdr => DbWrite(new)
      /\ ~(w.state = "dbmod" /\ x <= w.hdr) => UNCHANGED <<db, dbDisk>>
      /\ UNCHANGED <<jr, jrDisk, jrOther, pc, histVars>>
  BY DEF PlayPage, connVars
<1>2. IInv0'
  BY RollbackPageKeeps
<1>3. /\ InTx(c) /\ w \in Locals /\ w.state \in {"cachemod", "dbmod"}
      /\ TxOk("play", w, db, jr, committed, SizeOf(committed))
  BY <1>1, AtPlay
<1>4. PlayOk(w, db, jr, committed, SizeOf(committed), todo)
  BY <1>1, <1>3 DEF IInv0, WorkInv, TxOfInv
<1>5. /\ jr \in Seq(Slot) /\ DbTypes /\ w.off \in 1..Len(jr) /\ Len(jr) \in Nat
  <2>1. TxIs(c) /\ w.state # "locked"
    BY <1>3, TxKnown
  <2>2. SlotsOk(w, jr, committed, Size) /\ jr \in Seq(Slot)
    BY <2>1 DEF TxIs
  <2>. HIDE DEF Size
  <2>3. w.off \in 1..Len(jr) /\ Len(jr) \in Nat
    BY <2>2, <1>3, OwnSlots
  <2>. QED
    BY <2>2, <2>3 DEF IInv0, TypeInv
<1>6. \A i \in todo : i \in RecordsOf(w, jr) /\ i \in 1..Len(jr) /\ jr[i].kind = "rec"
  BY <1>4, <1>5 DEF PlayOk, RecordsOf
<1>7. \E i \in todo : Played(i)
  BY <1>3, <1>5, <1>6, PlayPageDoes
<1>8. w'.owner = w.owner /\ w'.hdr = w.hdr /\ w'.tx = w.tx /\ w'.ending = "rollback"
  BY <1>7 DEF Played, SameTx
<1>9. InTx(c)' /\ pc'[c] = "play"
  BY <1>1, <1>3, <1>8 DEF InTx
<1>10. x \in todo
  BY <1>1, <1>5, <1>6, MinNat
<1>. HIDE DEF x
<1>11. /\ \A p \in Page : db'[p] \in dbDisk'[p]
       /\ Undone(dbDisk, jrDisk, jrOther, jr, committed, SizeOf(committed))
            => Undone(dbDisk', jrDisk, jrOther, jr, committed, SizeOf(committed))
  <2>1. CASE w.state = "dbmod" /\ x <= w.hdr
    <3>1. Saved(w, jr, jr[x].pg)
      BY <2>1, <1>6, <1>10 DEF Saved
    <3>2. \A p \in DOMAIN new : p <= SizeOf(committed) => Saved(w, jr, p)
      BY <3>1
    <3>. HIDE DEF new
    <3>. QED
      BY <2>1, <3>2, <1>1, <1>3, PagesWritten
  <2>2. CASE ~(w.state = "dbmod" /\ x <= w.hdr)
    BY <2>2, <1>1, FilesKept
  <2>. QED
    BY <2>1, <2>2
<1>. QED
  BY <1>1, <1>2, <1>3, <1>8, <1>9, <1>11, MoveDisk

\* The sync at the end of a rollback keeps the disk invariant.
LEMMA RollbackSyncDisk ==
  ASSUME IInv0, DiskInv0, Powered, NEW c \in Conn, PlaySync(c), w.ending = "rollback"
  PROVE  DiskInv0'
<1>. DEFINE mem == [p \in Page |-> IF p > InfoOf(db[1]).size THEN Absent
                                   ELSE IF p \in w.inCache THEN w.mem[p] ELSE db[p]]
<1>1. /\ pc[c] = "play" /\ todo = {} /\ w' = [w EXCEPT !.mem = mem]
      /\ w.state = "dbmod" => DbSync
      /\ w.state # "dbmod" => UNCHANGED <<db, dbDisk>>
      /\ pc' = [pc EXCEPT ![c] = "finalize"]
      /\ UNCHANGED <<jr, jrDisk, jrOther, histVars>>
  BY DEF PlaySync, Goto
<1>. HIDE DEF mem
<1>2. IInv0'
  BY RollbackSyncKeeps
<1>3. InTx(c) /\ w \in Locals
  BY <1>1, AtPlay
<1>4. w'.owner = w.owner /\ w'.hdr = w.hdr /\ w'.tx = w.tx /\ w'.ending = "rollback"
  BY <1>1, <1>3 DEF Locals
<1>5. pc'[c] = "finalize"
  BY <1>1 DEF IInv0, TypeInv, ConnTypes
<1>6. InTx(c)'
  BY <1>3, <1>4, <1>5 DEF InTx
<1>7. UNCHANGED <<committed, info>> /\ SizeOf(committed)' = SizeOf(committed)
  BY <1>1, SizeSame DEF histVars
<1>8. /\ \A p \in Page : db'[p] \in dbDisk'[p]
      /\ Clean(dbDisk', committed, SizeOf(committed))
  <2>1. CASE w.state = "dbmod"
    <3>1. db' = db /\ \A p \in Page : dbDisk'[p] = {db[p]}
      BY <2>1, <1>1, DbDiskSynced
    <3>2. Agree(db', committed, SizeOf(committed))
      <4>1. TxOfInv(c)'
        BY <1>2 DEF IInv0, WorkInv
      <4>2. Agree(db', committed', SizeOf(committed)')
        BY <4>1, <1>4, <1>5, <1>6 DEF TxOfInv
      <4>. QED
        BY <4>2, <1>7
    <3>. QED
      BY <3>1, <3>2 DEF Clean, Agree
  <2>2. CASE w.state # "dbmod"
    <3>1. TxIs(c)
      BY <1>3, TxKnown
    <3>2. ~Hot(jr)
      <4>1. w.hdr = 0
        BY <2>2, <3>1 DEF TxIs
      <4>. QED
        BY <4>1, <3>1, <1>1 DEF TxIs
    <3>3. Clean(dbDisk, committed, SizeOf(committed))
      <4>1. SureInv
        BY DEF DiskInv0
      <4>2. Sure => Undone(dbDisk, jrDisk, jrOther, jr, committed, SizeOf(committed))
        BY <4>1 DEF SureInv, Durable
      <4>3. Sure => Clean(dbDisk, committed, SizeOf(committed))
        BY <4>2, <3>2, UndoneCold
      <4>. QED
        BY <4>1, <4>3 DEF SureInv
    <3>. QED
      BY <2>2, <3>3, <1>1, FilesKept
  <2>. QED
    BY <2>1, <2>2
<1>9. Undone(dbDisk', jrDisk, jrOther, jr, committed, SizeOf(committed))
  BY <1>8, CleanUndone
<1>. QED
  BY <1>1, <1>2, <1>3, <1>4, <1>5, <1>6, <1>8, <1>9, MoveDisk

-----------------------------------------------------------------------------
(* A recovery *)

\* A step of a recovery keeps the disk invariant when it changes only pages
\* that the synced journal undoes.
LEMMA HotDisk ==
  ASSUME IInv0, IInv0', DiskInv0, NEW c \in Conn, pc'[c] \in {"play", "finalize"},
         w'.ending = "hot", jr # NoFile, jr' = jr, UNCHANGED histVars,
         DOMAIN jrDisk' = DOMAIN jrDisk, AllSynced(jrDisk', jrOther', jr),
         \A p \in Page : db'[p] \in dbDisk'[p],
         \A p \in Page : p <= SizeOf(committed) =>
           dbDisk'[p] = dbDisk[p] \/ dbDisk'[p] = {committed[p]} \/ Undoes(jr, p),
         pc'[c] = "finalize" => Clean(dbDisk', committed, SizeOf(committed))
  PROVE  DiskInv0'
<1>. DEFINE m == committed
            n == SizeOf(committed)
<1>1. /\ UNCHANGED <<info, committed, maybe, nTx>> /\ SizeOf(committed)' = SizeOf(committed)
  BY SizeSame DEF histVars
<1>2. (Sure' <=> Sure) /\ Begun' = Begun
  BY <1>1 DEF Sure, Begun
<1>3. DOMAIN jrDisk = DOMAIN SlotsOf(jr) /\ SlotsOf(jr) = jr
  BY DEF IInv0, TypeInv, JrTypes, SlotsOf
<1>4. /\ \A i \in DOMAIN jrDisk' : jrDisk'[i] = {jr[i]} /\ jr[i] \in jrDisk[i]
      /\ jrOther' = {}
  BY <1>3 DEF AllSynced, DiskInv0, DiskHolds
<1>5. DiskHolds'
  <2>1. \A s : InitOk(s)' <=> InitOk(s)
    BY <1>1 DEF InitOk
  <2>2. \A i \in DOMAIN jrDisk' : InitOk(jr[i])
    BY <1>4 DEF DiskInv0, DiskHolds
  <2>3. SlotsOf(jr') = jr'
    BY DEF SlotsOf
  <2>. QED
    BY <2>1, <2>2, <2>3, <1>4 DEF DiskHolds
<1>6. ASSUME Sure
      PROVE  Durable(dbDisk', jrDisk', jrOther', jr', m, n, Begun)
  <2>1. Durable(dbDisk, jrDisk, jrOther, jr, m, n, Begun)
    BY <1>6 DEF DiskInv0, SureInv
  <2>. HIDE DEF m, n
  <2>2. Fenced(jrDisk', Begun, m, n)
    <3>1. Fenced(jrDisk, Begun, m, n)
      BY <2>1 DEF Durable
    <3>2. /\ DOMAIN jrDisk' \subseteq DOMAIN jrDisk
          /\ \A i \in DOMAIN jrDisk' : jrDisk'[i] \subseteq jrDisk[i]
      BY <1>4
    <3>. QED
      BY <3>1, <3>2, FencedPart
  <2>3. ASSUME NEW p \in Page, p <= n
        PROVE  dbDisk'[p] = {m[p]} \/ SyncedUndo(jrDisk', jr, p)
    <3>1. dbDisk[p] = {m[p]} \/ SyncedUndo(jrDisk, jr, p)
      BY <2>1, <2>3 DEF Durable, Undone
    <3>2. SyncedUndo(jrDisk, jr, p) => Undoes(jr, p)
      BY DEF SyncedUndo, Undoes
    <3>3. Undoes(jr, p) => SyncedUndo(jrDisk', jr, p)
      BY <1>4 DEF Undoes, SyncedUndo, SyncedTo
    <3>. QED
      BY <2>3, <3>1, <3>2, <3>3 DEF m, n
  <2>. QED
    BY <2>2, <2>3, <1>4 DEF Durable, Undone
<1>7. ASSUME ~Sure
      PROVE  ~Hot(jr') /\ Clean(dbDisk', m, n)
  <2>1. ~Hot(jr) /\ Clean(dbDisk, m, n)
    BY <1>7 DEF DiskInv0, SureInv
  <2>. QED
    BY <2>1 DEF Clean, Undoes
<1>8. SureInv'
  <2>1. Sure' \/ \E x \in maybe' : maybe' = {committed', x}
    BY <1>1 DEF DiskInv0, SureInv, Sure
  <2>. QED
    BY <1>1, <1>2, <1>6, <1>7, <2>1 DEF SureInv
<1>9. Active(c)'
  BY DEF Active, EndPcs
<1>10. w'.owner = NoConn
  <2>1. OwnerOf(c)'
    BY DEF IInv0, ControlInv
  <2>. QED
    BY <2>1, <1>9 DEF OwnerOf
<1>11. DiskOf(c)'
  <2>1. ~InTx(c)'
    BY <1>10, PagerAssumption DEF InTx
  <2>2. HotDiskInv(c)'
    BY <1>1 DEF HotDiskInv
  <2>. QED
    BY <2>1, <2>2 DEF DiskOf, TxDiskInv, FinalDiskInv
<1>. QED
  BY <1>5, <1>8, <1>9, <1>11, OnlyActiveNext

\* The start of a recovery keeps the disk invariant: it syncs the hot journal
\* first.
LEMMA HotPlaybackDisk ==
  ASSUME IInv0, DiskInv0, Powered, NEW c \in Conn, HotPlayback(c)
  PROVE  DiskInv0'
<1>. DEFINE n == SizeOf(committed)
            valid == jr # <<>> /\ IsHeader(jr, 1, 0)
            off == IF valid THEN 1 ELSE 0
<1>1. /\ pc[c] = "exclusive" /\ jr # NoFile
      /\ pc' = [pc EXCEPT ![c] = "play"] /\ JournalSync
      /\ w' = [NoWrite EXCEPT !.ending = "hot", !.state = "dbmod",
                 !.hdr = Len(jr), !.off = off]
      /\ valid => DbWrite(Cut(jr[1].orig))
      /\ ~valid => UNCHANGED <<db, dbDisk>>
      /\ UNCHANGED histVars
  BY DEF HotPlayback, Goto, SyncHotJournal
<1>2. JrTypes /\ DbTypes /\ jr \in Seq(Slot) /\ Len(jr) \in Nat /\ SlotsOf(jr) = jr
      /\ DOMAIN jr = 1..Len(jr) /\ FileInv /\ DOMAIN jrDisk = DOMAIN jr
  BY <1>1, SeqParts DEF IInv0, TypeInv, JrTypes, Journals, SlotsOf
<1>3. IInv0'
  BY HotPlaybackKeeps
<1>4. /\ jr' = jr /\ jrOther' = {} /\ DOMAIN jrDisk' = DOMAIN jr
      /\ \A i \in DOMAIN jrDisk' : jrDisk'[i] = {jr[i]}
  BY <1>1, <1>2, JournalDiskSynced
<1>5. pc'[c] = "play" /\ w'.ending = "hot"
  BY <1>1 DEF IInv0, TypeInv, ConnTypes, NoWrite
<1>6. /\ \A p \in Page : db'[p] \in dbDisk'[p]
      /\ \A p \in Page : p <= n => dbDisk'[p] = dbDisk[p]
  <2>1. CASE valid
    <3>1. Hot(jr)
      BY <2>1, <1>1 DEF Hot
    <3>2. jr[1].orig >= n
      BY <3>1, <1>2 DEF FileInv, Covers, Harmless
    <3>3. jr[1].orig \in Nat /\ n \in Nat
      <4>1. 1 \in 1..Len(jr) /\ jr[1].kind = "hdr"
        BY <2>1, <1>2 DEF IsHeader
      <4>. QED
        BY <4>1, <1>2, SlotKinds, Started, PagerAssumption
    <3>. DEFINE k == jr[1].orig
    <3>. HIDE DEF n, k
    <3>4. \A p \in DOMAIN Cut(k) : ~(p <= n)
      BY <3>2, <3>3, CutAway, PagerAssumption DEF k
    <3>5. DbWrite(Cut(k))
      BY <2>1, <1>1 DEF k
    <3>6. /\ \A p \in Page \ DOMAIN Cut(k) : dbDisk'[p] = dbDisk[p]
          /\ \A p \in Page : db'[p] \in dbDisk'[p]
      BY <3>5, <1>2, DbDiskWrote DEF DiskInv0, DiskHolds
    <3>. QED
      BY <3>4, <3>6
  <2>2. CASE ~valid
    BY <2>2, <1>1 DEF DiskInv0, DiskHolds
  <2>. QED
    BY <2>1, <2>2
<1>7. AllSynced(jrDisk', jrOther', jr)
  BY <1>4 DEF AllSynced
<1>8. DOMAIN jrDisk' = DOMAIN jrDisk
  BY <1>2, <1>4
<1>. QED
  BY <1>1, <1>3, <1>4, <1>5, <1>6, <1>7, <1>8, HotDisk

\* A recovery that plays one record back keeps the disk invariant.
LEMMA HotPageDisk ==
  ASSUME IInv0, DiskInv0, Powered, NEW c \in Conn, PlayPage(c), w.ending = "hot"
  PROVE  DiskInv0'
<1>. DEFINE x == Min(todo)
            new == [p \in {jr[x].pg} |-> jr[x].data]
<1>1. /\ pc[c] = "play" /\ todo # {}
      /\ DbWrite(new) \/ UNCHANGED <<db, dbDisk>>
      /\ UNCHANGED <<jr, jrDisk, jrOther, pc, histVars>>
  BY DEF PlayPage, connVars
<1>2. IInv0'
  BY HotPageKeeps
<1>3. Active(c) /\ w \in Locals
  BY <1>1, AtPlay
<1>4. jr # NoFile /\ todo \subseteq Playback(jr, 0)
  BY <1>1, <1>3 DEF IInv0, WorkInv, HotInv
<1>5. JrTypes /\ DbTypes /\ jr \in Seq(Slot) /\ FileInv
  BY <1>4 DEF IInv0, TypeInv, JrTypes, Journals
<1>6. /\ Hot(jr)
      /\ \A i \in Playback(jr, 0) : i \in 1..Len(jr) /\ jr[i].kind = "rec"
  <2>1. Harmless(jr, committed, SizeOf(committed)) /\ Playback(jr, 0) # {}
    BY <1>1, <1>4, <1>5 DEF FileInv, Covers
  <2>. QED
    BY <2>1, <1>5, HarmlessPage
<1>7. \A i \in todo : i \in 1..Len(jr) /\ jr[i].kind = "rec"
  BY <1>4, <1>6
<1>8. \E i \in todo : Played(i)
  BY <1>3, <1>5, <1>7, PlayPageDoes
<1>9. w'.ending = "hot" /\ pc'[c] = "play"
  BY <1>1, <1>8 DEF Played
<1>10. x \in todo
  <2>1. todo \subseteq Nat
    BY <1>7, <1>5, SeqParts
  <2>. QED
    BY <2>1, <1>1, MinNat
<1>. HIDE DEF x
<1>11. Undoes(jr, jr[x].pg)
  BY <1>4, <1>6, <1>10 DEF Undoes
<1>12. /\ \A p \in Page : db'[p] \in dbDisk'[p]
       /\ \A p \in Page : dbDisk'[p] = dbDisk[p] \/ Undoes(jr, p)
  <2>1. CASE DbWrite(new)
    <3>1. \A p \in DOMAIN new : Undoes(jr, p)
      BY <1>11
    <3>. HIDE DEF new
    <3>2. /\ \A p \in Page \ DOMAIN new : dbDisk'[p] = dbDisk[p]
          /\ \A p \in Page : db'[p] \in dbDisk'[p]
      BY <2>1, <1>5, DbDiskWrote DEF DiskInv0, DiskHolds
    <3>. QED
      BY <3>1, <3>2
  <2>2. CASE UNCHANGED <<db, dbDisk>>
    BY <2>2 DEF DiskInv0, DiskHolds
  <2>. QED
    BY <2>1, <2>2, <1>1
<1>13. AllSynced(jrDisk', jrOther', jr)
  BY <1>1 DEF DiskInv0, DiskOf, HotDiskInv
<1>14. jr' = jr /\ jrDisk' = jrDisk
  BY <1>1
<1>. QED
  BY <1>1, <1>2, <1>4, <1>9, <1>12, <1>13, <1>14, HotDisk

\* The sync at the end of a recovery keeps the disk invariant.
LEMMA HotSyncDisk ==
  ASSUME IInv0, DiskInv0, Powered, NEW c \in Conn, PlaySync(c), w.ending = "hot"
  PROVE  DiskInv0'
<1>1. /\ pc[c] = "play" /\ w' = w
      /\ w.state = "dbmod" => DbSync
      /\ pc' = [pc EXCEPT ![c] = "finalize"]
      /\ UNCHANGED <<jr, jrDisk, jrOther, histVars>>
  BY DEF PlaySync, Goto
<1>2. IInv0'
  BY HotSyncKeeps
<1>3. Active(c) /\ w.state = "dbmod"
  BY <1>1, AtPlay
<1>4. jr # NoFile
  BY <1>1, <1>3 DEF IInv0, WorkInv, HotInv
<1>5. pc'[c] = "finalize" /\ w'.ending = "hot" /\ jr' = jr /\ jrDisk' = jrDisk
  BY <1>1 DEF IInv0, TypeInv, ConnTypes
<1>6. db' = db /\ \A p \in Page : dbDisk'[p] = {db[p]}
  BY <1>1, <1>3, DbDiskSynced
<1>7. UNCHANGED <<committed, info>> /\ SizeOf(committed)' = SizeOf(committed)
  BY <1>1, SizeSame DEF histVars
<1>8. Agree(db', committed, SizeOf(committed))
  <2>1. HotInv(c)' /\ Active(c)'
    BY <1>2, <1>5 DEF IInv0, WorkInv, Active, EndPcs
  <2>2. Agree(db', committed', SizeOf(committed)')
    BY <2>1, <1>5 DEF HotInv
  <2>. QED
    BY <2>2, <1>7
<1>9. Clean(dbDisk', committed, SizeOf(committed))
  BY <1>6, <1>8 DEF Clean, Agree
<1>10. AllSynced(jrDisk', jrOther', jr)
  BY <1>1 DEF DiskInv0, DiskOf, HotDiskInv
<1>11. \A p \in Page : p <= SizeOf(committed) => dbDisk'[p] = {committed[p]}
  BY <1>9 DEF Clean
<1>. QED
  BY <1>1, <1>2, <1>4, <1>5, <1>6, <1>9, <1>10, <1>11, HotDisk

\* Playing one record back keeps the disk invariant.
LEMMA PlayPageDisk ==
  ASSUME IInv0, DiskInv0, Powered, NEW c \in Conn, PlayPage(c)
  PROVE  DiskInv0'
<1>1. w.ending \in {"rollback", "hot"}
  BY AtPlay DEF PlayPage, IInv0, ControlInv, OwnerOf
<1>. QED
  BY <1>1, RollbackPageDisk, HotPageDisk

\* The sync at the end of a playback keeps the disk invariant.
LEMMA PlaySyncDisk ==
  ASSUME IInv0, DiskInv0, Powered, NEW c \in Conn, PlaySync(c)
  PROVE  DiskInv0'
<1>1. w.ending \in {"rollback", "hot"}
  BY AtPlay DEF PlaySync, IInv0, ControlInv, OwnerOf
<1>. QED
  BY <1>1, RollbackSyncDisk, HotSyncDisk

-----------------------------------------------------------------------------
(* Steps after which nobody is at work, and those of a connection that is not *)

\* A step after which nobody is at work keeps the disk invariant when it leaves
\* the image alone.
LEMMA IdleDisk ==
  ASSUME IInv0, DiskInv0, UNCHANGED <<jr, jrDisk, jrOther, histVars>>,
         \A p \in Page : db'[p] \in dbDisk'[p],
         \A p \in Page : p <= SizeOf(committed) => dbDisk'[p] = dbDisk[p],
         \A d \in Conn : ~(Active(d)')
  PROVE  DiskInv0'
<1>1. /\ UNCHANGED <<info, committed, maybe, nTx>> /\ SizeOf(committed)' = SizeOf(committed)
      /\ nTx \in Nat
  BY SizeSame, PagerAssumption DEF histVars, IInv0, TypeInv, HistTypes
<1>2. DiskHolds'
  BY <1>1, DbHolds DEF DiskInv0, IInv0, TypeInv
<1>3. (Sure' <=> Sure) /\ Begun' = Begun
  BY <1>1 DEF Sure, Begun
<1>4. SureInv'
  <2>. DEFINE m == committed
              n == SizeOf(committed)
  <2>1. Sure => Durable(dbDisk', jrDisk', jrOther', jr', m, n, Begun)
    BY DEF DiskInv0, SureInv, Durable, Undone
  <2>2. ~Sure => ~Hot(jr') /\ Clean(dbDisk', m, n)
    BY DEF DiskInv0, SureInv, Clean
  <2>3. Sure' \/ \E x \in maybe' : maybe' = {committed', x}
    BY <1>1, <1>3 DEF DiskInv0, SureInv
  <2>. QED
    BY <2>1, <2>2, <2>3, <1>1, <1>3 DEF SureInv
<1>. QED
  BY <1>2, <1>4, NoneActiveNext

\* A step that leaves the files alone and ends outside a transaction keeps the
\* disk invariant.
LEMMA QuietDisk ==
  ASSUME IInv0, DiskInv0, NEW c \in Conn, NEW l \in RestPcs \cup {"open"},
         pc' = [pc EXCEPT ![c] = l],
         UNCHANGED <<db, dbDisk, jr, jrDisk, jrOther, histVars>>,
         w' = w \/ \A d \in Conn \ {c} : ~Active(d)
  PROVE  DiskInv0'
<1>1. /\ UNCHANGED <<info, committed, maybe, nTx>> /\ SizeOf(committed)' = SizeOf(committed)
      /\ pc \in [Conn -> Pcs]
  BY SizeSame DEF histVars, IInv0, TypeInv, ConnTypes
<1>2. pc'[c] = l /\ ~(Active(c)')
  BY <1>1, PcKinds DEF Active
<1>3. CASE \A d \in Conn \ {c} : ~Active(d)
  <2>1. \A d \in Conn : ~(Active(d)')
    BY <1>1, <1>2, <1>3 DEF Active
  <2>2. \A p \in Page : db'[p] \in dbDisk'[p]
    BY DEF DiskInv0, DiskHolds
  <2>. QED
    BY <2>1, <2>2, IdleDisk
<1>4. CASE w' = w
  <2>1. (Sure' <=> Sure) /\ Begun' = Begun
    BY <1>1 DEF Sure, Begun
  <2>2. JournalOnDisk' = JournalOnDisk /\ \A j : Reverts(j)' <=> Reverts(j)
    <3>1. \A m : SizeOf(m)' = SizeOf(m)
      BY <1>1 DEF SizeOf, InfoOf
    <3>. QED
      BY <2>1, <3>1, <1>1 DEF JournalOnDisk, Reverts
  <2>3. ASSUME NEW d \in Conn \ {c}
        PROVE  DiskOf(d)'
    <3>1. pc'[d] = pc[d] /\ DiskOf(d)
      BY <1>1 DEF DiskInv0
    <3>2. TxDiskInv(d)'
      BY <1>1, <1>4, <2>1, <3>1 DEF DiskOf, TxDiskInv, InTx
    <3>3. HotDiskInv(d)'
      BY <1>1, <1>4, <3>1 DEF DiskOf, HotDiskInv
    <3>4. FinalDiskInv(d)'
      BY <1>1, <1>4, <2>2, <3>1 DEF DiskOf, FinalDiskInv
    <3>. QED
      BY <3>2, <3>3, <3>4 DEF DiskOf
  <2>4. DiskOf(c)'
    <3>1. pc'[c] \notin OpenPcs \cup {"play", "finalize", "finalSync"}
      BY <1>2, PcKinds DEF LateEndPcs
    <3>. QED
      BY <3>1 DEF DiskOf, TxDiskInv, HotDiskInv, FinalDiskInv, InTx
  <2>5. DiskHolds'
    <3>1. \A s : InitOk(s)' <=> InitOk(s)
      BY <1>1 DEF InitOk
    <3>. QED
      BY <3>1 DEF DiskInv0, DiskHolds
  <2>6. SureInv'
    BY <1>1, <2>1 DEF DiskInv0, SureInv
  <2>. QED
    BY <2>3, <2>4, <2>5, <2>6 DEF DiskInv0
<1>. QED
  BY <1>3, <1>4

\* The steps of a reader, except the start of a recovery, keep the disk
\* invariant.
LEMMA QuietReaderDisk ==
  ASSUME IInv0, DiskInv0, NEW c \in Conn,
         \/ SharedLock(c) \/ JournalExists(c) \/ CheckReserved(c) \/ ReadFirstByte(c)
         \/ HotBusy(c) \/ HotGone(c) \/ Validate(c) \/ Unlock(c)
  PROVE  DiskInv0'
<1>1. \E l \in RestPcs \cup {"open"} : pc' = [pc EXCEPT ![c] = l]
  BY DEF SharedLock, JournalExists, CheckReserved, ReadFirstByte, HotBusy, HotGone,
         Validate, Unlock, Goto, RestPcs
<1>2. UNCHANGED <<db, dbDisk, jr, jrDisk, jrOther, histVars>> /\ w' = w
  BY DEF SharedLock, JournalExists, CheckReserved, ReadFirstByte, HotBusy, HotGone,
         Validate, Unlock, fileVars
<1>. QED
  BY <1>1, <1>2, QuietDisk

\* The death of a process keeps the disk invariant: the disk holds what it
\* held.
LEMMA DieDisk ==
  ASSUME IInv0, DiskInv0, NEW c \in Conn, Die(c)
  PROVE  DiskInv0'
<1>1. /\ pc' = [pc EXCEPT ![c] = "open"]
      /\ w' = IF Working(c) THEN NoWrite ELSE w
      /\ UNCHANGED <<db, dbDisk, jr, jrDisk, jrOther, histVars>>
  BY DEF Die, Goto, fileVars
<1>2. w' = w \/ \A d \in Conn \ {c} : ~Active(d)
  BY <1>1, WorkingActive, OneActive DEF IInv0, TypeInv
<1>3. "open" \in RestPcs \cup {"open"}
  OBVIOUS
<1>. QED
  BY <1>1, <1>2, <1>3, QuietDisk

\* The end of a transaction that has changed nothing keeps the disk invariant.
LEMMA RollbackNothingDisk ==
  ASSUME IInv0, DiskInv0, NEW c \in Conn, RollbackNothing(c)
  PROVE  DiskInv0'
<1>1. /\ pc[c] = "write" /\ pc' = [pc EXCEPT ![c] = "reader"]
      /\ UNCHANGED <<db, dbDisk, jr, jrDisk, jrOther, histVars>>
  BY DEF RollbackNothing, Goto, fileVars
<1>2. Active(c)
  BY <1>1 DEF Active, WritePcs
<1>3. \A d \in Conn \ {c} : ~Active(d)
  BY <1>2, OneActive DEF IInv0, TypeInv
<1>4. "reader" \in RestPcs \cup {"open"}
  BY DEF RestPcs
<1>. QED
  BY <1>1, <1>3, <1>4, QuietDisk

\* Giving the lock back keeps the disk invariant.
LEMMA EndTransactionDisk ==
  ASSUME IInv0, DiskInv0, Powered, NEW c \in Conn, EndTransaction(c)
  PROVE  DiskInv0'
<1>. DEFINE l == IF w.ending = "hot" THEN "validate" ELSE "reader"
            n == SizeOf(committed)
<1>1. /\ pc[c] = "endTx" /\ pc' = [pc EXCEPT ![c] = l]
      /\ w.ending = "commit" => DbWrite(Cut(info[w.tx].size))
      /\ w.ending # "commit" => UNCHANGED <<db, dbDisk>>
      /\ UNCHANGED <<jr, jrDisk, jrOther, histVars>>
  BY DEF EndTransaction, Goto
<1>2. Active(c) /\ pc[c] \in LateEndPcs /\ l \in RestPcs
  BY <1>1 DEF Active, EndPcs, LateEndPcs, RestPcs
<1>. HIDE DEF l
<1>3. \A d \in Conn \ {c} : ~Active(d)
  BY <1>2, OneActive DEF IInv0, TypeInv
<1>4. \A d \in Conn : ~(Active(d)')
  BY <1>1, <1>2, <1>3, PcKinds DEF Active, IInv0, TypeInv, ConnTypes
<1>5. w.ending = "commit" => info[w.tx].size = n
  BY <1>2 DEF IInv0, WorkInv, LateInv
<1>6. n \in Nat /\ DbTypes
  BY Started DEF IInv0, TypeInv
<1>7. /\ \A p \in Page : db'[p] \in dbDisk'[p]
      /\ \A p \in Page : p <= n => dbDisk'[p] = dbDisk[p]
  <2>1. CASE w.ending = "commit"
    <3>1. DbWrite(Cut(n))
      BY <2>1, <1>1, <1>5
    <3>. HIDE DEF n
    <3>2. \A p \in DOMAIN Cut(n) : ~(p <= n)
      BY <1>6, CutAway, PagerAssumption
    <3>3. /\ \A p \in Page \ DOMAIN Cut(n) : dbDisk'[p] = dbDisk[p]
          /\ \A p \in Page : db'[p] \in dbDisk'[p]
      BY <3>1, <1>6, DbDiskWrote DEF DiskInv0, DiskHolds
    <3>. QED
      BY <3>2, <3>3
  <2>2. CASE w.ending # "commit"
    BY <2>2, <1>1 DEF DiskInv0, DiskHolds
  <2>. QED
    BY <2>1, <2>2
<1>. QED
  BY <1>1, <1>4, <1>7, IdleDisk

-----------------------------------------------------------------------------
(* A transaction begins, and the first sync *)

\* The start of a transaction keeps the disk invariant.
LEMMA PagerBeginDisk ==
  ASSUME IInv0, DiskInv0, NEW c \in Conn, PagerBegin(c)
  PROVE  DiskInv0'
<1>. DEFINE m == committed
            n == SizeOf(committed)
<1>1. /\ nTx < MaxTx /\ nTx' = nTx + 1 /\ pc' = [pc EXCEPT ![c] = "write"]
      /\ w' = [NoWrite EXCEPT !.owner = c, !.state = "locked", !.tx = nTx + 1,
                              !.mem = cache[c].img, !.orig = PagesIn(db)]
      /\ UNCHANGED <<db, dbDisk, jr, jrDisk, jrOther, info, committed, maybe>>
  BY DEF PagerBegin, Goto, fileVars
<1>2. IInv0'
  BY PagerBeginKeeps
<1>3. /\ w'.owner = c /\ w'.tx = nTx + 1 /\ w'.hdr = 0 /\ w'.goal = 0 /\ w'.ending = "none"
  BY <1>1 DEF NoWrite
<1>4. pc'[c] = "write" /\ InTx(c)'
  BY <1>1, <1>3 DEF InTx, IInv0, TypeInv, ConnTypes, OpenPcs, WritePcs
<1>5. nTx \in Nat /\ nTx' \in Nat /\ nTx' >= nTx /\ SizeOf(committed)' = SizeOf(committed)
  BY <1>1, SizeSame, PagerAssumption DEF IInv0, TypeInv, HistTypes
<1>6. DiskHolds'
  <2>1. \A p \in Page : db'[p] \in dbDisk'[p]
    BY <1>1 DEF DiskInv0, DiskHolds
  <2>. QED
    BY <2>1, <1>1, <1>5, DbHolds DEF DiskInv0, IInv0, TypeInv
<1>7. Sure' <=> Sure
  BY <1>1 DEF Sure
<1>8. Begun \subseteq Begun' \ {nTx + 1} /\ Begun \subseteq Begun'
  BY <1>1, <1>5, PagerAssumption DEF Begun
<1>9. ASSUME Sure
      PROVE  /\ Durable(dbDisk, jrDisk, jrOther, jr, m, n, Begun')
             /\ Fenced(jrDisk, Begun' \ {nTx + 1}, m, n)
  <2>1. Durable(dbDisk, jrDisk, jrOther, jr, m, n, Begun)
    BY <1>9 DEF DiskInv0, SureInv
  <2>. HIDE DEF m, n
  <2>2. /\ Fenced(jrDisk, Begun, m, n) /\ Undone(dbDisk, jrDisk, jrOther, jr, m, n)
        /\ \A g \in jrOther : g # NoFile => Fenced(Single(g), Begun, m, n)
    BY <2>1 DEF Durable
  <2>. DEFINE T == Begun'
  <2>3. Begun \subseteq T /\ Begun \subseteq T \ {nTx + 1}
    BY <1>8
  <2>. HIDE DEF T
  <2>4. /\ Fenced(jrDisk, T, m, n) /\ Fenced(jrDisk, T \ {nTx + 1}, m, n)
        /\ \A g \in jrOther : g # NoFile => Fenced(Single(g), T, m, n)
    BY <2>2, <2>3, FencedMore
  <2>5. Durable(dbDisk, jrDisk, jrOther, jr, m, n, T)
    BY <2>2, <2>4 DEF Durable
  <2>. QED
    BY <2>4, <2>5 DEF T
<1>10. SureInv'
  <2>1. Sure' => Durable(dbDisk', jrDisk', jrOther', jr', m, n, Begun')
    BY <1>1, <1>7, <1>9
  <2>2. ~Sure' => ~Hot(jr') /\ Clean(dbDisk', m, n)
    BY <1>1, <1>7 DEF DiskInv0, SureInv
  <2>3. Sure' \/ \E x \in maybe' : maybe' = {committed', x}
    BY <1>1, <1>7 DEF DiskInv0, SureInv
  <2>. QED
    BY <2>1, <2>2, <2>3, <1>1, <1>5 DEF SureInv
<1>11. TxDiskInv(c)'
  <2>1. Sure' => Fenced(jrDisk', Begun' \ {w'.tx}, m, n)
    BY <1>1, <1>3, <1>7, <1>9
  <2>2. TxDisk(Sure', pc'[c], w', db', dbDisk', jrDisk', jrOther', jr', m, n, Begun')
    BY <2>1, <1>3, <1>4 DEF TxDisk
  <2>. QED
    BY <2>2, <1>1, <1>5 DEF TxDiskInv
<1>. QED
  BY <1>2, <1>4, <1>6, <1>10, <1>11, OnlyTxNext

\* The whole journal is synced, and it is known what a recovery makes of it.
LEMMA JournalDurable ==
  ASSUME IInv0, DiskInv0, Sure \/ ~Hot(jr), NEW f, DOMAIN f = DOMAIN SlotsOf(jr),
         \A i \in DOMAIN f : f[i] = {SlotsOf(jr)[i]}, NEW o, o \subseteq {NoFile},
         jr # NoFile => o = {}
  PROVE  Durable(dbDisk, f, o, jr, committed, SizeOf(committed), Begun)
<1>. DEFINE m == committed
            n == SizeOf(committed)
<1>. HIDE DEF m, n
<1>1. jr \in Journals /\ DOMAIN jrDisk = DOMAIN SlotsOf(jr)
  BY DEF IInv0, TypeInv, JrTypes
<1>2. \A i \in DOMAIN jrDisk : SlotsOf(jr)[i] \in jrDisk[i]
  BY DEF DiskInv0, DiskHolds
<1>3. Fenced(f, Begun, m, n) /\ Undone(dbDisk, f, o, jr, m, n)
  <2>1. CASE Hot(jr)
    <3>1. Durable(dbDisk, jrDisk, jrOther, jr, m, n, Begun)
      BY <2>1 DEF DiskInv0, SureInv, m, n
    <3>2. Fenced(jrDisk, Begun, m, n) /\ Undone(dbDisk, jrDisk, jrOther, jr, m, n)
      BY <3>1 DEF Durable
    <3>3. Fenced(f, Begun, m, n)
      <4>1. DOMAIN f \subseteq DOMAIN jrDisk /\ \A i \in DOMAIN f : f[i] \subseteq jrDisk[i]
        BY <1>1, <1>2
      <4>. QED
        BY <4>1, <3>2, FencedPart
    <3>4. o = {} /\ SlotsOf(jr) = jr
      BY <2>1 DEF Hot, SlotsOf
    <3>5. \A p : SyncedUndo(jrDisk, jr, p) => SyncedUndo(f, jr, p)
      BY <3>4 DEF SyncedUndo, SyncedTo
    <3>. QED
      BY <3>2, <3>3, <3>4, <3>5 DEF Undone
  <2>2. CASE ~Hot(jr)
    <3>1. Clean(dbDisk, m, n)
      <4>1. Sure => Undone(dbDisk, jrDisk, jrOther, jr, m, n)
        BY DEF DiskInv0, SureInv, Durable, m, n
      <4>2. Sure => Clean(dbDisk, m, n)
        BY <4>1, <2>2, UndoneCold
      <4>. QED
        BY <4>2 DEF DiskInv0, SureInv, m, n
    <3>2. Fenced(Single(SlotsOf(jr)), Begun, m, n)
      <4>1. MaxTx + 1 \in Begun
        BY DEF Begun
      <4>. QED
        BY <4>1, <1>1, <2>2, ColdFenced, PagerAssumption
    <3>3. /\ DOMAIN f \subseteq DOMAIN Single(SlotsOf(jr))
          /\ \A i \in DOMAIN f : f[i] \subseteq Single(SlotsOf(jr))[i]
      BY SingleOf
    <3>4. Fenced(f, Begun, m, n)
      BY <3>2, <3>3, FencedPart
    <3>. QED
      BY <3>1, <3>4, CleanUndone
  <2>. QED
    BY <2>1, <2>2
<1>4. \A g \in o : g # NoFile => Fenced(Single(g), Begun, m, n)
  OBVIOUS
<1>5. Durable(dbDisk, f, o, jr, m, n, Begun)
  BY <1>3, <1>4 DEF Durable
<1>. QED
  BY <1>5 DEF m, n

\* What a sync leaves the disk to hold.
LEMMA SyncedHolds ==
  ASSUME IInv0, DiskHolds, UNCHANGED <<jr, db, dbDisk, nTx>>,
         DOMAIN jrDisk' = DOMAIN SlotsOf(jr),
         \A i \in DOMAIN jrDisk' : jrDisk'[i] = {SlotsOf(jr)[i]}, jrOther' \subseteq {NoFile}
  PROVE  DiskHolds'
<1>1. \A s : InitOk(s)' <=> InitOk(s)
  BY DEF InitOk
<1>2. DOMAIN jrDisk = DOMAIN SlotsOf(jr)
  BY DEF IInv0, TypeInv, JrTypes
<1>3. \A i \in DOMAIN jrDisk' : InitOk(SlotsOf(jr)[i])
  BY <1>2 DEF DiskHolds
<1>. QED
  BY <1>1, <1>3 DEF DiskHolds

\* The sync before the record count keeps the disk invariant.
LEMMA SyncRecordsDisk ==
  ASSUME IInv0, DiskInv0, Powered, NEW c \in Conn, SyncRecords(c)
  PROVE  DiskInv0'
<1>. DEFINE m == committed
            n == SizeOf(committed)
<1>1. /\ pc[c] = "jsync" /\ JournalSync /\ maybe' = {committed}
      /\ pc' = [pc EXCEPT ![c] = "jhdr"]
      /\ UNCHANGED <<db, dbDisk, w, info, committed, nTx>>
  BY DEF SyncRecords, Goto
<1>2. IInv0'
  BY SyncRecordsKeeps
<1>3. InTx(c) /\ w.ending = "none"
  BY <1>1, AtParts DEF OpenPcs, WritePcs
<1>4. pc'[c] = "jhdr" /\ InTx(c)'
  BY <1>1, <1>3 DEF InTx, IInv0, TypeInv, ConnTypes, OpenPcs, WritePcs
<1>5. TxIs(c) /\ w.state # "locked"
  BY <1>1, <1>3, TxKnown DEF TxIs
<1>6. jr \in Seq(Slot) /\ SlotsOf(jr) = jr /\ DOMAIN jrDisk = DOMAIN jr /\ jr # NoFile
  BY <1>5, NoFileIsNoJournal DEF TxIs
<1>7. /\ jr' = jr /\ jrOther' = {} /\ DOMAIN jrDisk' = DOMAIN SlotsOf(jr)
      /\ \A i \in DOMAIN jrDisk' : jrDisk'[i] = {SlotsOf(jr)[i]}
  BY <1>1, JournalDiskSynced DEF IInv0, TypeInv
<1>8. SizeOf(committed)' = SizeOf(committed) /\ Begun' = Begun /\ Sure'
  BY <1>1, SizeSame DEF Begun, Sure
<1>9. Sure \/ ~Hot(jr)
  BY DEF DiskInv0, SureInv
<1>10. Durable(dbDisk, jrDisk', jrOther', jr, m, n, Begun)
  BY <1>7, <1>9, JournalDurable
<1>11. DiskHolds'
  BY <1>1, <1>7, SyncedHolds DEF DiskInv0
<1>12. SureInv'
  BY <1>1, <1>7, <1>8, <1>10 DEF SureInv
<1>13. TxDiskInv(c)'
  <2>1. TxDisk(Sure, "jsync", w, db, dbDisk, jrDisk, jrOther, jr, m, n, Begun)
    BY <1>1, <1>3 DEF DiskInv0, DiskOf, TxDiskInv
  <2>2. AllSynced(jrDisk', jrOther', jr') /\ SyncedTo(jrDisk', jr', w.hdr)
    BY <1>6, <1>7 DEF AllSynced, SyncedTo
  <2>3. w.hdr > 0 /\ w.hdr + 1 \in DOMAIN jrDisk' =>
          \A s \in jrDisk'[w.hdr + 1] : Quiet(s, w.tx)
    <3>1. \A i \in DOMAIN jrDisk' : i \in DOMAIN jrDisk /\ jrDisk'[i] \subseteq jrDisk[i]
      BY <1>6, <1>7 DEF DiskInv0, DiskHolds
    <3>. QED
      BY <3>1, <2>1 DEF TxDisk
  <2>4. TxDisk(Sure', pc'[c], w', db', dbDisk', jrDisk', jrOther', jr', m, n, Begun)
    BY <2>2, <2>3, <1>1, <1>3, <1>4, <1>7, <1>8 DEF TxDisk
  <2>. QED
    BY <2>4, <1>1, <1>8 DEF TxDiskInv
<1>. QED
  BY <1>2, <1>4, <1>11, <1>12, <1>13, OnlyTxNext

-----------------------------------------------------------------------------
(* The header is written and synced *)

\* Writing the record count keeps the disk invariant.
LEMMA WriteRecordCountDisk ==
  ASSUME IInv0, DiskInv0, Powered, NEW c \in Conn, WriteRecordCount(c)
  PROVE  DiskInv0'
<1>. DEFINE m == committed
            n == SizeOf(committed)
            new == [i \in {w.slot} |-> Header(TRUE, w.off - w.slot, w.tx, w.orig)]
<1>1. /\ pc[c] = "jhdr" /\ JournalWrite(new) /\ pc' = [pc EXCEPT ![c] = "jsync2"]
      /\ UNCHANGED <<db, dbDisk, w, info, committed, maybe, nTx>>
  BY DEF WriteRecordCount, Goto, histVars
<1>2. IInv0'
  BY WriteRecordCountKeeps
<1>3. /\ InTx(c) /\ w.ending = "none" /\ w \in Locals /\ w.state # "locked"
      /\ w.tx \in 1..MaxTx /\ JournalOk("jhdr", w, jr, m, n)
  BY <1>1, AtParts DEF OpenPcs, WritePcs
<1>4. pc'[c] = "jsync2" /\ InTx(c)'
  BY <1>1, <1>3 DEF InTx, IInv0, TypeInv, ConnTypes, OpenPcs, WritePcs
<1>5. TxIs(c) /\ TxIs(c)'
  BY <1>2, <1>3, <1>4, TxKnown, TxKnownNext
<1>6. /\ jr \in Seq(Slot) /\ SlotsOf(jr) = jr /\ DOMAIN jrDisk = DOMAIN jr /\ jr # NoFile
      /\ w.tx = nTx /\ HeaderOk("jhdr", w, jr) /\ SyncedOk(w, jr) /\ StateOk("jhdr", w)
      /\ w.hdr \in Nat
  BY <1>1, <1>3, <1>5, NoFileIsNoJournal DEF TxIs
<1>7. Len(jr) \in Nat /\ JrTypes /\ jr \in Journals
  BY <1>6 DEF IInv0, TypeInv, JrTypes
<1>8. Fits(jr, new, Len(jr))
  BY <1>3, <1>7, CountSlots, PagerAssumption
<1>9. /\ DOMAIN new = {w.slot} /\ Bland([kind |-> "zero"])
      /\ new[w.slot].kind = "hdr" /\ new[w.slot].init = nTx
  BY <1>6 DEF Header, Bland, InitOk
<1>10. w.slot = w.hdr + 1 /\ jr[w.slot].kind = "hdr" /\ ~jr[w.slot].magic /\ w.slot # 0
  BY <1>6 DEF HeaderOk, StateOk, SyncPcs
<1>. HIDE DEF new, m, n
<1>11. WrittenTo(jr, new, jr', Len(jr)) /\ DiskWrote(new)
  BY <1>1, <1>7, <1>8, JournalWriteDoes, DiskWroteDoes
<1>12. Sure /\ AllSynced(jrDisk, jrOther, jr)
  BY <1>1, <1>3 DEF DiskInv0, DiskOf, TxDiskInv, TxDisk
<1>13. SizeOf(committed)' = n /\ Begun' = Begun /\ Sure' /\ SlotsOf(jr') = jr'
  BY <1>1, <1>12, <1>11, SizeSame DEF Begun, Sure, WrittenTo, SlotsOf, n
<1>14. DiskHolds'
  <2>1. \A i \in DOMAIN new : InitOk(new[i])
    BY <1>9, <1>7 DEF InitOk, IInv0, TypeInv, HistTypes
  <2>. QED
    BY <2>1, <1>1, <1>6, <1>7, <1>11, WriteHolds DEF DiskInv0
<1>15. /\ jrOther' = {} /\ DOMAIN jrDisk' = DOMAIN jr'
       /\ \A i \in DOMAIN jrDisk' : i # w.slot => jrDisk'[i] = {jr'[i]}
       /\ \A s \in jrDisk'[w.slot] : s = jr'[w.slot] \/ Quiet(s, w.tx)
  <2>1. jrOther' = {} /\ DOMAIN jrDisk' = DOMAIN jr'
    BY <1>11, <1>12, <1>13 DEF DiskWrote, AllSynced
  <2>2. ASSUME NEW i \in DOMAIN jrDisk', i # w.slot
        PROVE  jrDisk'[i] = {jr'[i]}
    <3>1. i \in DOMAIN jrDisk /\ jrDisk'[i] = jrDisk[i]
      BY <2>2, <1>9, <1>11 DEF DiskWrote
    <3>2. jr'[i] = jr[i]
      BY <2>2, <3>1, <1>6, <1>9, <1>11 DEF WrittenTo
    <3>. QED
      BY <3>1, <3>2, <1>12 DEF AllSynced
  <2>3. ASSUME NEW s \in jrDisk'[w.slot]
        PROVE  s = jr'[w.slot] \/ Quiet(s, w.tx)
    <3>1. jr'[w.slot] = new[w.slot]
      BY <1>9, <1>11 DEF WrittenTo
    <3>2. \/ s = new[w.slot] \/ s = Torn \/ s = Zero
          \/ w.slot \in DOMAIN jrDisk /\ s \in jrDisk[w.slot]
      BY <2>3, <1>9, <1>11 DEF DiskWrote
    <3>3. w.slot \in DOMAIN jrDisk /\ s \in jrDisk[w.slot] => Quiet(s, w.tx)
      BY <1>10, <1>12 DEF AllSynced, Quiet
    <3>. QED
      BY <3>1, <3>2, <3>3, QuietMarks
  <2>. QED
    BY <2>1, <2>2, <2>3
<1>16. TxDiskInv(c)'
  <2>1. SyncedTo(jrDisk', jr', w.hdr)
    <3>. SUFFICES ASSUME NEW i \in DOMAIN jrDisk', i <= w.hdr PROVE i # w.slot
      BY <1>15 DEF SyncedTo
    <3>. QED
      BY <1>6, <1>10
  <2>2. TxDisk(Sure', "jsync2", w, db', dbDisk', jrDisk', jrOther', jr', m, n, Begun)
    BY <2>1, <1>3, <1>13, <1>15 DEF TxDisk
  <2>. QED
    BY <2>2, <1>1, <1>4, <1>13 DEF TxDiskInv, m
<1>17. SureInv'
  <2>1. Durable(dbDisk, jrDisk, jrOther, jr, m, n, Begun)
    BY <1>12 DEF DiskInv0, SureInv, m, n
  <2>2. Fenced(jrDisk', Begun, m, n)
    <3>1. Fenced(jrDisk', Begun', committed', Size')
      BY <1>4, <1>5, <1>13, <1>16, TxFenceNext
    <3>. QED
      BY <3>1, <1>1, <1>13 DEF Size, m
  <2>3. Hot(jr) => \A i \in Playback(jr, 0) : i <= w.hdr
    <3>. SUFFICES ASSUME Hot(jr) PROVE \A i \in Playback(jr, 0) : i <= w.hdr
      OBVIOUS
    <3>1. w.hdr > 0
      BY <1>1, <1>5, <1>6 DEF TxIs
    <3>2. "jhdr" # "jsync2"
      OBVIOUS
    <3>. QED
      BY <3>1, <3>2, <1>3, <1>6, <1>10, PlaybackSynced
  <2>4. \A i \in DOMAIN new : i > w.hdr
    BY <1>6, <1>9, <1>10
  <2>5. Undone(dbDisk, jrDisk, jrOther, jr, m, n)
    BY <2>1 DEF Durable
  <2>6. Undone(dbDisk, jrDisk', jrOther', jr', m, n)
    BY <2>3, <2>4, <2>5, <1>6, <1>7, <1>11, WriteUndone
  <2>7. Durable(dbDisk', jrDisk', jrOther', jr', m, n, Begun)
    BY <2>2, <2>6, <1>1, <1>15 DEF Durable
  <2>. QED
    BY <2>7, <1>1, <1>13 DEF SureInv, m
<1>. QED
  BY <1>2, <1>4, <1>14, <1>16, <1>17, OnlyTxNext

\* What the sync of the header leaves: the slots are on disk, but for a next
\* header.
HeadSynced ==
  /\ w'.owner = w.owner /\ w'.hdr = w.off /\ w'.tx = w.tx /\ w'.ending = w.ending
  /\ w'.goal = w.goal
  /\ DOMAIN jr \subseteq DOMAIN jr' /\ DOMAIN jrDisk' = DOMAIN jr'
  /\ \A i \in DOMAIN jr' : i # w.off + 1 =>
       i \in DOMAIN jr /\ jr'[i] = jr[i] /\ jrDisk'[i] = {jr'[i]}
  /\ w.off + 1 \in DOMAIN jr' =>
       /\ jr'[w.off + 1] \in jrDisk'[w.off + 1]
       /\ \A s \in jrDisk'[w.off + 1] :
            \/ s \in {Zero, Torn, Header(FALSE, 0, w.tx, w.orig)}
            \/ w.off + 1 \in DOMAIN jr /\ s = jr[w.off + 1]
  /\ w.goal = 0 => \A i \in DOMAIN jr' : jrDisk'[i] = {jr'[i]}

\* What the sync after the record count does to the disk.
LEMMA SyncHeaderDoes ==
  ASSUME IInv0, Powered, NEW c \in Conn, InTx(c), SyncHeader(c), w \in Locals
  PROVE  HeadSynced
<1>. DEFINE next == w.off + 1
            synced == [i \in DOMAIN jr |-> Kept({jr[i]})]
            h == Header(FALSE, 0, w.tx, w.orig)
            old == IF next \in DOMAIN jr THEN synced[next] ELSE {Zero}
<1>1. \A X : Kept(X) = X
  BY DEF Kept, KeptAfter, Powered
<1>2. \A i \in DOMAIN jr : synced[i] = {jr[i]}
  BY <1>1
<1>3. CASE w.goal = 0
  <2>. DEFINE sl == IF AlignedSegments THEN next ELSE 0
  <2>1. /\ jr' = jr /\ jrDisk' = synced
        /\ w' = [w EXCEPT !.hdr = w.off, !.needSync = {}, !.state = "dbmod", !.slot = sl]
    BY <1>3 DEF SyncHeader
  <2>. HIDE DEF sl
  <2>2. /\ w'.owner = w.owner /\ w'.hdr = w.off /\ w'.tx = w.tx /\ w'.ending = w.ending
        /\ w'.goal = w.goal
    BY <2>1 DEF Locals
  <2>3. DOMAIN jrDisk' = DOMAIN jr' /\ \A i \in DOMAIN jr' : jrDisk'[i] = {jr'[i]}
    BY <2>1, <1>2
  <2>. HIDE DEF synced, h
  <2>4. ASSUME next \in DOMAIN jr'
        PROVE  /\ jr'[next] \in jrDisk'[next]
               /\ \A s \in jrDisk'[next] : next \in DOMAIN jr /\ s = jr[next]
    BY <2>1, <2>3, <2>4
  <2>5. \A i \in DOMAIN jr' : i \in DOMAIN jr /\ jr'[i] = jr[i]
    BY <2>1
  <2>. QED
    BY <2>1, <2>2, <2>3, <2>4, <2>5 DEF HeadSynced
<1>4. CASE w.goal # 0
  <2>. DEFINE ho == IF w.sp.open /\ w.sp.iHdrOffset = 0 THEN w.off ELSE w.sp.iHdrOffset
  <2>1. /\ jr' = [i \in DOMAIN jr \cup {next} |-> IF i = next THEN h ELSE jr[i]]
        /\ jrDisk' = [i \in DOMAIN jr \cup {next} |->
                        IF i = next THEN Kept(old \cup {h, Torn}) ELSE synced[i]]
        /\ w' = [w EXCEPT !.hdr = w.off, !.off = next, !.slot = next,
                          !.needSync = {}, !.state = "dbmod", !.sp.iHdrOffset = ho]
    BY <1>4 DEF SyncHeader
  <2>. HIDE DEF ho
  <2>2. /\ w'.owner = w.owner /\ w'.hdr = w.off /\ w'.tx = w.tx /\ w'.ending = w.ending
        /\ w'.goal = w.goal
    BY <2>1 DEF Locals
  <2>3. DOMAIN jrDisk' = DOMAIN jr' /\ DOMAIN jr' = DOMAIN jr \cup {next}
    BY <2>1
  <2>4. \A i \in DOMAIN jr' : i # next =>
          i \in DOMAIN jr /\ jr'[i] = jr[i] /\ jrDisk'[i] = {jr'[i]}
    BY <2>1, <1>2
  <2>5. jr'[next] = h /\ jrDisk'[next] = old \cup {h, Torn}
    <3>. HIDE DEF h, old, synced, next
    <3>1. jr'[next] = h /\ jrDisk'[next] = Kept(old \cup {h, Torn})
      BY <2>1
    <3>. QED
      BY <3>1, <1>1
  <2>6. \A s \in old : s = Zero \/ (next \in DOMAIN jr /\ s = jr[next])
    BY <1>2
  <2>. QED
    BY <2>2, <2>3, <2>4, <2>5, <2>6, <1>4 DEF HeadSynced
<1>. QED
  BY <1>3, <1>4

\* The sync after the record count keeps the disk invariant.
LEMMA SyncHeaderDisk ==
  ASSUME Sound, IInv0, DiskInv0, Powered, NEW c \in Conn, SyncHeader(c)
  PROVE  DiskInv0'
<1>. DEFINE m == committed
            n == SizeOf(committed)
            next == w.off + 1
<1>1. /\ pc[c] = "jsync2" /\ pc' = [pc EXCEPT ![c] = "flush"]
      /\ jrOther' = {} /\ maybe' = {committed}
      /\ UNCHANGED <<db, dbDisk, info, committed, nTx>>
  BY DEF SyncHeader, Goto
<1>2. IInv0'
  BY SyncHeaderKeeps DEF Sound
<1>3. InTx(c) /\ w.ending = "none" /\ w \in Locals
  BY <1>1, AtParts DEF OpenPcs, WritePcs
<1>4. HeadSynced
  BY <1>3, SyncHeaderDoes
<1>5. pc'[c] = "flush" /\ InTx(c)'
  BY <1>1, <1>3, <1>4 DEF InTx, IInv0, TypeInv, ConnTypes, OpenPcs, WritePcs, HeadSynced
<1>6. TxIs(c) /\ TxIs(c)' /\ w.state # "locked" /\ w.off \in Nat
  BY <1>1, <1>2, <1>3, <1>5, TxKnown, TxKnownNext DEF TxIs
<1>7. /\ jr \in Seq(Slot) /\ SlotsOf(jr) = jr /\ DOMAIN jrDisk = DOMAIN jr
      /\ w.tx = nTx /\ HeaderOk("jsync2", w, jr) /\ SyncedOk(w, jr) /\ StaleOk(w, jr)
      /\ SlotsOk(w, jr, m, n) /\ w.orig \in Nat /\ w.tx \in Nat
  BY <1>1, <1>6, PagerAssumption DEF TxIs, Size, Locals
<1>8. Len(jr) \in Nat /\ w.off \in 1..Len(jr)
  BY <1>7 DEF SlotsOk
<1>9. jr' \in Journals /\ w'.state # "locked" /\ w'.hdr > 0
  BY <1>4, <1>5, <1>6, <1>8 DEF TxIs, HeadSynced
<1>10. jr' \in Seq(Slot) /\ SlotsOf(jr') = jr'
  BY <1>6, <1>9 DEF TxIs
<1>11. DOMAIN jr = 1..Len(jr) /\ DOMAIN jr' = 1..Len(jr') /\ Len(jr') \in Nat
  BY <1>7, <1>10
<1>12. /\ Sure /\ jrOther = {} /\ \A i \in DOMAIN jrDisk : i # w.slot => jrDisk[i] = {jr[i]}
       /\ TxDisk(Sure, "jsync2", w, db, dbDisk, jrDisk, jrOther, jr, m, n, Begun)
  BY <1>1, <1>3 DEF DiskInv0, DiskOf, TxDiskInv, TxDisk
<1>13. SizeOf(committed)' = n /\ Begun' = Begun /\ Sure'
  BY <1>1, SizeSame DEF Begun, Sure
<1>14. Quiet(Header(FALSE, 0, w.tx, w.orig), w.tx)
       /\ (next \in DOMAIN jr => Quiet(jr[next], w.tx))
  <2>1. Quiet(Header(FALSE, 0, w.tx, w.orig), w.tx)
    BY DEF Quiet, Header
  <2>2. ASSUME next \in DOMAIN jr
        PROVE  Quiet(jr[next], w.tx)
    <3>1. ~IsHeader(jr, next, 0)
      BY <1>7 DEF HeaderOk, SyncPcs
    <3>2. next <= Len(jr) /\ next > w.off /\ next # 0
      BY <2>2, <1>8, <1>11
    <3>3. jr[next].kind = "hdr" => ~jr[next].magic
      BY <3>1, <3>2 DEF IsHeader
    <3>4. jr[next].kind = "rec" => jr[next].init < w.tx
      BY <2>2, <3>2, <1>7 DEF StaleOk
    <3>5. jr[next].kind = "rec" => jr[next].init \in Nat
      BY <2>2, <1>7, SlotKinds, PagerAssumption
    <3>6. jr[next].kind = "rec" => jr[next].init # w.tx
      BY <3>4, <3>5, <1>7
    <3>. QED
      BY <3>3, <3>6 DEF Quiet
  <2>. QED
    BY <2>1, <2>2
<1>. HIDE DEF m, n
<1>15. DiskHolds'
  <2>1. \A s : InitOk(s)' <=> InitOk(s)
    BY <1>1 DEF InitOk
  <2>2. ASSUME NEW i \in DOMAIN jrDisk'
        PROVE  jr'[i] \in jrDisk'[i] /\ \A s \in jrDisk'[i] : InitOk(s)
    <3>0. \A x \in DOMAIN jr : InitOk(jr[x])
      BY <1>7 DEF DiskInv0, DiskHolds
    <3>1. CASE i # next
      BY <3>0, <3>1, <2>2, <1>4 DEF HeadSynced
    <3>2. CASE i = next
      <4>1. InitOk(Zero) /\ InitOk(Torn) /\ InitOk(Header(FALSE, 0, w.tx, w.orig))
        BY <1>7 DEF InitOk, Zero, Torn, Header
      <4>2. next \in DOMAIN jr'
        BY <3>2, <2>2, <1>4 DEF HeadSynced
      <4>. QED
        BY <3>0, <4>1, <4>2, <3>2, <1>4 DEF HeadSynced
    <3>. QED
      BY <3>1, <3>2
  <2>. QED
    BY <2>1, <2>2, <1>1, <1>10 DEF DiskInv0, DiskHolds
<1>16. TxDiskInv(c)'
  <2>1. SyncedTo(jrDisk', jr', w.off)
    <3>. SUFFICES ASSUME NEW i \in DOMAIN jrDisk', i <= w.off
                  PROVE  jrDisk'[i] = {jr'[i]}
      BY DEF SyncedTo
    <3>1. i \in DOMAIN jr' /\ i \in Nat /\ i # next
      BY <1>4, <1>6, <1>11 DEF HeadSynced
    <3>. QED
      BY <3>1, <1>4 DEF HeadSynced
  <2>2. w.off + 1 \in DOMAIN jrDisk' => \A s \in jrDisk'[w.off + 1] : Quiet(s, w.tx)
    BY <1>4, <1>14, QuietMarks DEF HeadSynced
  <2>3. w.goal = 0 => AllSynced(jrDisk', {}, jr')
    BY <1>4 DEF HeadSynced, AllSynced
  <2>4. /\ w'.hdr = w.off /\ w'.tx = w.tx /\ w'.ending = "none" /\ w'.goal = w.goal
        /\ w'.hdr > 0
    BY <1>3, <1>4, <1>9 DEF HeadSynced
  <2>5. TxDisk(Sure', "flush", w', db', dbDisk', jrDisk', jrOther', jr', m, n, Begun)
    BY <2>1, <2>2, <2>3, <2>4, <1>1, <1>8 DEF TxDisk
  <2>. QED
    BY <2>5, <1>1, <1>5, <1>13 DEF TxDiskInv, m
<1>17. SureInv'
  <2>1. Durable(dbDisk, jrDisk, jrOther, jr, m, n, Begun)
    BY <1>12 DEF DiskInv0, SureInv, m, n
  <2>2. Fenced(jrDisk', Begun, m, n)
    <3>1. Fenced(jrDisk', Begun', committed', Size')
      BY <1>5, <1>6, <1>13, <1>16, TxFenceNext
    <3>. QED
      BY <3>1, <1>1, <1>13 DEF Size, m
  <2>3. ASSUME NEW p, SyncedUndo(jrDisk, jr, p)
        PROVE  SyncedUndo(jrDisk', jr', p)
    <3>1. \A i \in Playback(jr, 0) : i <= w.off
      BY <1>3, <1>7, OwnPlayback, <1>8 DEF RecordsOf
    <3>2. ASSUME NEW x \in DOMAIN jr, x <= w.off
          PROVE  jr[x] = jr'[x] /\ jrDisk'[x] = {jr'[x]}
      <4>1. x # next /\ x \in DOMAIN jr'
        BY <3>2, <1>4, <1>6, <1>11 DEF HeadSynced
      <4>. QED
        BY <4>1, <1>4 DEF HeadSynced
    <3>3. Len(jr) <= Len(jr')
      BY <1>4, <1>8, <1>11 DEF HeadSynced
    <3>4. DOMAIN jrDisk' = DOMAIN jr'
      BY <1>4 DEF HeadSynced
    <3>. HIDE DEF next
    <3>. QED
      BY <2>3, <3>1, <3>2, <3>3, <3>4, <1>6, <1>7, <1>10, SyncedUndoKept
  <2>4. Undone(dbDisk, jrDisk', jrOther', jr', m, n)
    BY <2>1, <2>3, <1>1 DEF Durable, Undone
  <2>5. Durable(dbDisk', jrDisk', jrOther', jr', m, n, Begun)
    BY <2>2, <2>4, <1>1 DEF Durable
  <2>. QED
    BY <2>5, <1>1, <1>13 DEF SureInv, m
<1>. QED
  BY <1>2, <1>5, <1>15, <1>16, <1>17, OnlyTxNext

-----------------------------------------------------------------------------
(* The journal is finalised *)

\* Journal g is made of what the disk may hold of the slots.
FromSlots(g) == /\ jr # NoFile /\ g \in Seq(Slot) /\ DOMAIN g = DOMAIN jrDisk
                /\ \A i \in DOMAIN g : g[i] \in jrDisk[i]

\* What the name of the journal may lead to after a power loss.
LEMMA OnDisk == \A g \in JournalOnDisk : JrTypes => g \in jrOther \/ FromSlots(g)
<1>. SUFFICES ASSUME JrTypes, NEW g \in JournalOnDisk, g \notin jrOther
              PROVE  FromSlots(g)
  OBVIOUS
<1>1. jr # NoFile /\ g \in AnyOf(jrDisk)
  BY DEF JournalOnDisk
<1>2. jrDisk \in Seq(SUBSET Slot)
  BY DEF JrTypes
<1>3. g \in Seq(Slot) /\ Len(g) = Len(jrDisk) /\ \A k \in 1..Len(jrDisk) : g[k] \in jrDisk[k]
  BY SMTT(30), <1>1, <1>2, AnyOfDoes
<1>4. DOMAIN g = 1..Len(g) /\ DOMAIN jrDisk = 1..Len(jrDisk)
  BY <1>2, <1>3
<1>. QED
  BY <1>1, <1>3, <1>4 DEF FromSlots

\* A journal that a power loss leaves is made of what the disk may hold.
LEMMA OnDiskNext == (\A g \in JournalOnDisk : JrTypes => g \in jrOther \/ FromSlots(g))'
BY OnDisk, PTL

\* What the end of a journal leaves on disk.
JournalEnded ==
  /\ DiskHolds'
  /\ Sure => /\ Fenced(jrDisk', Begun, committed, Size)
             /\ \A g \in jrOther' : g # NoFile => Fenced(Single(g), Begun, committed, Size)
  /\ AllSynced(jrDisk, jrOther, jr) => \A g \in JournalOnDisk' : Hot(g) => g = jr

\* A journal made of slots that are all synced is the file.
LEMMA FromSynced ==
  ASSUME NEW g, FromSlots(g), JrTypes, AllSynced(jrDisk, jrOther, jr)
  PROVE  g = jr
<1>1. /\ jr \in Seq(Slot) /\ SlotsOf(jr) = jr /\ g \in Seq(Slot) /\ DOMAIN g = DOMAIN jr
      /\ \A i \in DOMAIN g : g[i] = jr[i]
  BY DEF FromSlots, JrTypes, Journals, SlotsOf, AllSynced
<1>2. /\ g = [i \in DOMAIN g |-> g[i]] /\ jr = [i \in DOMAIN jr |-> jr[i]]
  BY <1>1
<1>. QED
  BY <1>1, <1>2

\* The journal is deleted or cut to nothing: its old name may be what stays.
LEMMA ReplaceEnds ==
  ASSUME IInv0, DiskInv0, Powered, NEW new \in {NoFile, <<>>}, JournalReplace(new),
         UNCHANGED <<db, dbDisk, nTx>>
  PROVE  JournalEnded
<1>1. JrTypes /\ JrTypes' /\ jr' = new /\ DOMAIN SlotsOf(jr') = {}
  BY JournalReplaceDoes DEF IInv0, TypeInv
<1>2. jrDisk' = <<>> /\ jrOther' = JournalOnDisk \cup {new}
  BY DEF JournalReplace, Kept, KeptAfter, Powered
<1>3. DOMAIN <<>> = {} /\ DOMAIN jrDisk' = {} /\ DOMAIN Single(<<>>) = {}
  BY <1>2, SingleOf
<1>4. DiskHolds'
  <2>1. \A s : InitOk(s)' <=> InitOk(s)
    BY DEF InitOk
  <2>2. ASSUME NEW g \in jrOther', g # NoFile
        PROVE  \A i \in DOMAIN g : InitOk(g[i])
    <3>1. CASE g \in jrOther
      BY <3>1, <2>2 DEF DiskInv0, DiskHolds
    <3>2. CASE FromSlots(g)
      BY <3>2 DEF DiskInv0, DiskHolds, FromSlots
    <3>3. CASE g = <<>>
      BY <3>3, <1>3
    <3>. QED
      BY <2>2, <3>1, <3>2, <3>3, <1>1, <1>2, OnDisk
  <2>. QED
    BY <2>1, <2>2, <1>3 DEF DiskInv0, DiskHolds
<1>5. \A f, m, n : DOMAIN f = {} => Fenced(f, Begun, m, n)
  <2>1. 0 \in Begun
    BY PagerAssumption DEF Begun, IInv0, TypeInv, HistTypes
  <2>. QED
    BY <2>1 DEF Fenced, Fence
<1>6. ASSUME Sure
      PROVE  /\ Fenced(jrDisk', Begun, committed, Size)
             /\ \A g \in jrOther' : g # NoFile => Fenced(Single(g), Begun, committed, Size)
  <2>1. /\ Fenced(jrDisk, Begun, committed, Size)
        /\ \A g \in jrOther : g # NoFile => Fenced(Single(g), Begun, committed, Size)
    BY <1>6 DEF DiskInv0, SureInv, Durable, Size
  <2>2. Fenced(jrDisk', Begun, committed, Size)
    BY <1>3, <1>5
  <2>3. ASSUME NEW g \in jrOther', g # NoFile
        PROVE  Fenced(Single(g), Begun, committed, Size)
    <3>1. CASE g \in jrOther
      BY <3>1, <2>1, <2>3
    <3>2. CASE FromSlots(g)
      <4>1. DOMAIN g = DOMAIN jrDisk /\ \A i \in DOMAIN jrDisk : g[i] \in jrDisk[i]
        BY <3>2 DEF FromSlots
      <4>. QED
        BY <4>1, <2>1, FencedSingle
    <3>3. CASE g = <<>>
      BY <3>3, <1>3, <1>5
    <3>. QED
      BY <2>3, <3>1, <3>2, <3>3, <1>1, <1>2, OnDisk
  <2>. QED
    BY <2>2, <2>3
<1>7. ASSUME AllSynced(jrDisk, jrOther, jr), NEW g \in JournalOnDisk', Hot(g)
      PROVE  g = jr
  <2>1. g # NoFile /\ g # <<>>
    <3>1. ~(1 <= Len(<<>>))
      OBVIOUS
    <3>. QED
      BY <3>1, <1>7 DEF Hot, IsHeader
  <2>2. ~(FromSlots(g)')
    <3>. SUFFICES ASSUME FromSlots(g)' PROVE FALSE
      OBVIOUS
    <3>1. g \in Seq(Slot) /\ DOMAIN g = {}
      BY <1>3 DEF FromSlots
    <3>. QED
      BY <3>1, <2>1
  <2>3. g \in jrOther'
    BY <2>2, <1>1, <1>7, OnDiskNext
  <2>4. FromSlots(g)
    BY <2>1, <2>3, <1>1, <1>2, <1>7, OnDisk DEF AllSynced
  <2>. QED
    BY <2>4, <1>1, <1>7, FromSynced
<1>. QED
  BY <1>4, <1>6, <1>7 DEF JournalEnded

\* The first header is overwritten.
LEMMA ZeroEnds ==
  ASSUME IInv0, DiskInv0, Powered, JournalWrite([i \in {1} |-> Zero]), jr # NoFile,
         1 \in DOMAIN jr, UNCHANGED <<db, dbDisk, nTx>>
  PROVE  JournalEnded
<1>. DEFINE new == [i \in {1} |-> Zero]
<1>1. JrTypes /\ jr \in Seq(Slot) /\ SlotsOf(jr) = jr /\ DOMAIN jrDisk = DOMAIN jr
  BY DEF IInv0, TypeInv, JrTypes, Journals, SlotsOf
<1>2. Len(jr) \in Nat /\ DOMAIN jr = 1..Len(jr)
  BY <1>1
<1>3. DOMAIN new = {1} /\ \A i \in DOMAIN new : new[i] = Zero /\ new[i] \in Slot
  BY SlotMade
<1>. HIDE DEF new
<1>4. Fits(jr, new, Len(jr))
  BY <1>1, <1>2, <1>3 DEF Fits
<1>5. JournalWrite(new)
  BY DEF new
<1>6. JrTypes' /\ WrittenTo(jr, new, jr', Len(jr)) /\ DiskWrote(new)
  BY <1>1, <1>2, <1>4, <1>5, JournalWriteDoes, DiskWroteDoes
<1>7. DiskHolds'
  <2>1. \A i \in DOMAIN new : InitOk(new[i])
    <3>1. InitOk(Zero)
      BY DEF InitOk, Zero
    <3>. QED
      BY <3>1, <1>3
  <2>. QED
    BY <2>1, <1>1, <1>2, <1>6, WriteHolds DEF DiskInv0
<1>8. ASSUME Sure
      PROVE  /\ Fenced(jrDisk', Begun, committed, Size)
             /\ \A g \in jrOther' : g # NoFile => Fenced(Single(g), Begun, committed, Size)
  <2>1. /\ Fenced(jrDisk, Begun, committed, Size)
        /\ \A g \in jrOther : g # NoFile => Fenced(Single(g), Begun, committed, Size)
    BY <1>8 DEF DiskInv0, SureInv, Durable, Size
  <2>2. \A t \in Begun : \A i \in DOMAIN new : Quiet(new[i], t)
    BY <1>3, QuietMarks
  <2>3. Fenced(jrDisk', Begun, committed, Size)
    BY <2>1, <2>2, <1>6, WriteKeepsFence
  <2>. QED
    BY <2>1, <2>3, <1>6 DEF DiskWrote
<1>9. ASSUME AllSynced(jrDisk, jrOther, jr), NEW g \in JournalOnDisk', Hot(g)
      PROVE  g = jr
  <2>1. jrOther' = {}
    BY <1>6, <1>9 DEF DiskWrote, AllSynced
  <2>2. FromSlots(g)'
    BY <2>1, <1>6, <1>9, OnDiskNext
  <2>3. /\ g \in Seq(Slot) /\ DOMAIN g = DOMAIN jr
        /\ \A i \in DOMAIN g : g[i] \in jrDisk'[i]
    BY <2>2, <1>2, <1>6 DEF FromSlots, DiskWrote, WrittenTo, SlotsOf
  <2>4. g[1].kind = "hdr"
    BY <1>9 DEF Hot, IsHeader
  <2>5. g[1] \in jrDisk'[1] /\ g[1] # Zero /\ g[1] # Torn
    BY <2>3, <2>4, SlotFields DEF Torn, Zero
  <2>6. g[1] \in jrDisk[1]
    BY <2>5, <1>3, <1>6 DEF DiskWrote
  <2>7. \A i \in DOMAIN g : g[i] \in jrDisk[i]
    BY <2>3, <2>6, <1>1, <1>3, <1>6 DEF DiskWrote
  <2>. QED
    BY <2>3, <2>7, <1>1, <1>9, FromSynced DEF FromSlots
<1>. QED
  BY <1>7, <1>8, <1>9 DEF JournalEnded

\* The journal that is about to be finalised.
LEMMA EndedJournal ==
  ASSUME IInv0, NEW c \in Conn, pc[c] = "finalize"
  PROVE  jr # NoFile /\ w.off \in Nat /\ (w.off > 0 => 1 \in DOMAIN jr)
         /\ (w.ending # "hot" => w.off > 0)
<1>1. w \in Locals /\ w.off \in Nat /\ Active(c) /\ jr \in Journals
  BY AtPlay, LocalsHave DEF IInv0, TypeInv, JrTypes
<1>2. CASE w.ending = "hot"
  <2>1. jr # NoFile /\ w.off = IF Hot(jr) THEN 1 ELSE 0
    BY <1>1, <1>2 DEF IInv0, WorkInv, HotInv
  <2>2. Hot(jr) => 1 \in DOMAIN jr
    BY <2>1, <1>1, SeqParts DEF Hot, IsHeader, Journals
  <2>. QED
    BY <2>1, <2>2, <1>1, <1>2
<1>3. CASE w.ending # "hot"
  <2>1. TxOk("finalize", w, db, jr, committed, SizeOf(committed)) /\ w.state # "locked"
    BY <1>3, AtPlay
  <2>2. SlotsOk(w, jr, committed, SizeOf(committed))
    BY <2>1 DEF TxOk, JournalOk
  <2>3. jr # NoFile /\ w.off \in DOMAIN jr
    BY <2>2 DEF SlotsOk
  <2>4. jr \in Seq(Slot)
    BY <2>3, <1>1 DEF Journals
  <2>5. DOMAIN jr = 1..Len(jr) /\ Len(jr) \in Nat
    BY <2>4, SeqParts
  <2>. QED
    BY <2>3, <2>5
<1>. QED
  BY <1>2, <1>3

\* Finalising ends the journal, or leaves one that is not hot.
LEMMA FinalizeEnds ==
  ASSUME IInv0, DiskInv0, Powered, NEW c \in Conn, Finalize(c)
  PROVE  JournalEnded \/ (w.ending # "commit" /\ UNCHANGED <<jr, jrDisk, jrOther>>)
<1>1. /\ pc[c] = "finalize" /\ UNCHANGED <<db, dbDisk, nTx>>
      /\ \/ JournalReplace(NoFile) \/ JournalReplace(<<>>)
         \/ w.off = 0 /\ UNCHANGED <<jr, jrDisk, jrOther>>
         \/ w.off > 0 /\ JournalWrite([i \in {1} |-> Zero])
  BY DEF Finalize
<1>2. jr # NoFile /\ w.off \in Nat /\ (w.off > 0 => 1 \in DOMAIN jr)
      /\ (w.ending # "hot" => w.off > 0)
  BY <1>1, EndedJournal
<1>3. ASSUME NEW new \in {NoFile, <<>>}, JournalReplace(new)
      PROVE  JournalEnded
  BY <1>1, <1>3, ReplaceEnds
<1>4. CASE JournalReplace(NoFile) \/ JournalReplace(<<>>)
  BY <1>3, <1>4
<1>5. CASE w.off > 0 /\ JournalWrite([i \in {1} |-> Zero])
  BY <1>1, <1>2, <1>5, ZeroEnds
<1>6. CASE w.off = 0 /\ UNCHANGED <<jr, jrDisk, jrOther>>
  BY <1>2, <1>6
<1>. QED
  BY <1>1, <1>4, <1>5, <1>6

\* Finalising the journal keeps the disk invariant: it commits, and the disk
\* may still hold the hot journal.
LEMMA FinalizeDisk ==
  ASSUME IInv0, DiskInv0, Powered, NEW c \in Conn, Finalize(c)
  PROVE  DiskInv0'
<1>. DEFINE l == IF FinalSynced(c) THEN "finalSync" ELSE "endTx"
            m == committed
            n == SizeOf(committed)
<1>1. /\ pc[c] = "finalize" /\ pc' = [pc EXCEPT ![c] = l] /\ l \in LateEndPcs
      /\ w.ending = "commit" => committed' = w.mem /\ maybe' = {committed, w.mem}
      /\ w.ending # "commit" => committed' = committed /\ maybe' = maybe
      /\ UNCHANGED <<db, dbDisk, w, info, nTx>>
  BY DEF Finalize, Goto, LateEndPcs
<1>. HIDE DEF l
<1>2. IInv0' /\ ~Hot(jr') /\ JrTypes /\ JrTypes'
  BY FinalizeKeeps, FinalizeJournal DEF IInv0, TypeInv
<1>3. pc'[c] = l /\ pc'[c] \in LateEndPcs /\ Active(c)'
  BY <1>1 DEF IInv0, TypeInv, ConnTypes, Active, LateEndPcs, EndPcs
<1>4. w.ending \in {"commit", "rollback", "hot"} /\ (w.ending # "hot" => InTx(c))
  BY <1>1, AtPlay
<1>5. \A x : SizeOf(x)' = SizeOf(x)
  BY <1>1 DEF SizeOf, InfoOf
<1>6. Begun' = Begun /\ nTx \in Nat
  BY <1>1, PagerAssumption DEF Begun, IInv0, TypeInv, HistTypes
<1>7. JournalEnded \/ (w.ending # "commit" /\ UNCHANGED <<jr, jrDisk, jrOther>>)
  BY FinalizeEnds
<1>8. DiskHolds'
  <2>1. CASE JournalEnded
    BY <2>1 DEF JournalEnded
  <2>2. CASE UNCHANGED <<jr, jrDisk, jrOther>>
    <3>1. \A p \in Page : db'[p] \in dbDisk'[p]
      BY <1>1 DEF DiskInv0, DiskHolds
    <3>. QED
      BY <2>2, <3>1, <1>1, <1>2, <1>6, DbHolds DEF DiskInv0
  <2>. QED
    BY <2>1, <2>2, <1>7
<1>9. CASE w.ending # "commit"
  <2>1. Clean(dbDisk, m, n)
    <3>1. CASE w.ending = "rollback"
      <4>1. TxDisk(Sure, pc[c], w, db, dbDisk, jrDisk, jrOther, jr, m, n, Begun)
        BY <3>1, <1>4 DEF DiskInv0, DiskOf, TxDiskInv
      <4>. QED
        BY <3>1, <4>1, <1>1 DEF TxDisk
    <3>2. CASE w.ending = "hot"
      BY <3>2, <1>1 DEF DiskInv0, DiskOf, HotDiskInv
    <3>. QED
      BY <3>1, <3>2, <1>4, <1>9
  <2>2. committed' = committed /\ maybe' = maybe /\ (Sure' <=> Sure)
        /\ SizeOf(committed)' = n
    BY <1>1, <1>5, <1>9 DEF Sure
  <2>3. ASSUME Sure
        PROVE  Durable(dbDisk, jrDisk', jrOther', jr', m, n, Begun)
    <3>1. /\ Fenced(jrDisk', Begun, m, n)
          /\ \A g \in jrOther' : g # NoFile => Fenced(Single(g), Begun, m, n)
      <4>1. CASE JournalEnded
        BY <2>3, <4>1 DEF JournalEnded, Size
      <4>2. CASE UNCHANGED <<jr, jrDisk, jrOther>>
        BY <2>3, <4>2 DEF DiskInv0, SureInv, Durable
      <4>. QED
        BY <4>1, <4>2, <1>7
    <3>. HIDE DEF m, n
    <3>2. Undone(dbDisk, jrDisk', jrOther', jr', m, n)
      BY <2>1, CleanUndone
    <3>. QED
      BY <3>1, <3>2 DEF Durable
  <2>4. SureInv'
    <3>1. Sure' => Durable(dbDisk', jrDisk', jrOther', jr', m, n, Begun')
      BY <2>2, <2>3, <1>1, <1>6
    <3>2. ~Sure' => ~Hot(jr') /\ Clean(dbDisk', m, n)
      BY <2>1, <1>1, <1>2
    <3>3. Sure' \/ \E x \in maybe' : maybe' = {committed', x}
      BY <2>2 DEF DiskInv0, SureInv
    <3>. QED
      BY <3>1, <3>2, <3>3, <2>2 DEF SureInv
  <2>5. DiskOf(c)'
    BY <1>1, <1>3, <1>9 DEF DiskOf, TxDiskInv, HotDiskInv, FinalDiskInv, InTx, LateEndPcs,
                            OpenPcs, WritePcs
  <2>. QED
    BY <2>4, <2>5, <1>2, <1>3, <1>8, OnlyActiveNext
<1>10. CASE w.ending = "commit"
  <2>1. /\ AllSynced(jrDisk, jrOther, jr) /\ \A p \in Page : dbDisk[p] = {db[p]}
        /\ JournalEnded
    <3>1. TxDisk(Sure, pc[c], w, db, dbDisk, jrDisk, jrOther, jr, m, n, Begun)
      BY <1>4, <1>10 DEF DiskInv0, DiskOf, TxDiskInv
    <3>. QED
      BY <3>1, <1>1, <1>7, <1>10 DEF TxDisk
  <2>2. /\ w.mem \in Image /\ Agree(db, w.mem, SizeOf(w.mem))
        /\ CtrOf(w.mem) = CtrOf(committed) + 1 /\ CtrOf(committed) \in Nat
    BY <1>1, <1>10, CommitImage, Started DEF IInv0
  <2>3. committed' = w.mem /\ maybe' = {committed, w.mem} /\ SizeOf(committed)' = SizeOf(w.mem)
    BY <1>1, <1>5, <1>10
  <2>4. ~Sure'
    <3>1. w.mem # committed
      BY <2>2
    <3>. QED
      BY <3>1, <2>3 DEF Sure
  <2>5. SureInv'
    <3>1. Clean(dbDisk', committed', SizeOf(committed)')
      BY <2>1, <2>2, <2>3, <1>1 DEF Agree, Clean
    <3>2. \E x \in maybe' : maybe' = {committed', x}
      BY <2>3
    <3>. QED
      BY <3>1, <3>2, <2>4, <1>2 DEF SureInv
  <2>6. ASSUME NEW g \in JournalOnDisk', Hot(g)
        PROVE  Reverts(g)'
    <3>1. g = jr
      BY <2>1, <2>6 DEF JournalEnded
    <3>2. Covers(db, jr, m, n)
      BY DEF IInv0, FileInv
    <3>3. Fenced(Single(jr), Begun, m, n)
      <4>1. Sure
        BY <2>6, <3>1 DEF DiskInv0, SureInv
      <4>2. Fenced(jrDisk, Begun, m, n)
        BY <4>1 DEF DiskInv0, SureInv, Durable
      <4>3. SlotsOf(jr) = jr
        BY <2>6, <3>1 DEF Hot, SlotsOf
      <4>4. DOMAIN jr = DOMAIN jrDisk /\ \A i \in DOMAIN jrDisk : jr[i] \in jrDisk[i]
        BY <4>3, <1>2 DEF JrTypes, DiskInv0, DiskHolds
      <4>. HIDE DEF m, n
      <4>. QED
        BY <4>2, <4>4, FencedSingle
    <3>4. PICK x : x = committed
      OBVIOUS
    <3>5. x \in maybe' /\ SizeOf(x)' = SizeOf(x) /\ db' = db
      BY <2>3, <3>4, <1>1, <1>5
    <3>6. Covers(db', g, x, SizeOf(x)) /\ Fenced(Single(g), Begun', x, SizeOf(x))
      BY <3>1, <3>2, <3>3, <3>4, <3>5, <1>6
    <3>. QED
      BY <3>5, <3>6 DEF Reverts
  <2>7. FinalDiskInv(c)'
    BY <2>1, <2>6, <1>1 DEF FinalDiskInv
  <2>8. DiskOf(c)'
    BY <2>7, <1>3 DEF DiskOf, TxDiskInv, HotDiskInv, InTx, LateEndPcs, OpenPcs, WritePcs
  <2>. QED
    BY <2>5, <2>8, <1>2, <1>3, <1>8, OnlyActiveNext
<1>. QED
  BY <1>9, <1>10

\* The sync after the journal is finalised keeps the disk invariant.
LEMMA FinalSyncDisk ==
  ASSUME IInv0, DiskInv0, Powered, NEW c \in Conn, FinalSync(c)
  PROVE  DiskInv0'
<1>1. /\ pc[c] = "finalSync" /\ pc' = [pc EXCEPT ![c] = "endTx"]
      /\ jr = NoFile => jrOther' = {NoFile} /\ jr' = jr /\ jrDisk' = jrDisk
      /\ jr # NoFile => JournalSync
      /\ maybe' = {committed}
      /\ UNCHANGED <<db, dbDisk, w, info, committed, nTx>>
  BY DEF FinalSync, Goto
<1>2. IInv0' /\ JrTypes
  BY FinalSyncKeeps DEF IInv0, TypeInv
<1>3. pc'[c] = "endTx" /\ Active(c)'
  BY <1>1 DEF IInv0, TypeInv, ConnTypes, Active, EndPcs
<1>4. /\ jr' = jr /\ jrOther' \subseteq {NoFile} /\ (jr # NoFile => jrOther' = {})
      /\ DOMAIN jrDisk' = DOMAIN SlotsOf(jr)
      /\ \A i \in DOMAIN jrDisk' : jrDisk'[i] = {SlotsOf(jr)[i]}
  <2>1. CASE jr = NoFile
    BY <2>1, <1>1, <1>2 DEF JrTypes, SlotsOf
  <2>2. CASE jr # NoFile
    BY <2>2, <1>1, <1>2, JournalDiskSynced
  <2>. QED
    BY <2>1, <2>2
<1>5. ~Hot(jr)
  BY <1>1 DEF IInv0, ReadInv, ColdOf, LateEndPcs
<1>6. Durable(dbDisk, jrDisk', jrOther', jr, committed, SizeOf(committed), Begun)
  BY <1>4, <1>5, JournalDurable
<1>7. SizeOf(committed)' = SizeOf(committed) /\ Begun' = Begun /\ Sure'
  BY <1>1, SizeSame DEF Begun, Sure
<1>8. DiskHolds'
  BY <1>1, <1>4, SyncedHolds DEF DiskInv0
<1>9. SureInv'
  BY <1>1, <1>4, <1>6, <1>7 DEF SureInv
<1>10. DiskOf(c)'
  BY <1>3 DEF DiskOf, TxDiskInv, HotDiskInv, FinalDiskInv, InTx, OpenPcs, WritePcs
<1>. QED
  BY <1>2, <1>3, <1>8, <1>9, <1>10, OnlyActiveNext
-----------------------------------------------------------------------------
(* All the steps of a connection, and the beginning *)

\* A step of a reader keeps the disk invariant.
LEMMA ReaderDisk ==
  ASSUME IInv0, DiskInv0, Powered, NEW c \in Conn, Reader(c)
  PROVE  DiskInv0'
<1>1. CASE HotPlayback(c)
  BY <1>1, HotPlaybackDisk
<1>2. CASE \/ SharedLock(c) \/ JournalExists(c) \/ CheckReserved(c) \/ ReadFirstByte(c)
           \/ HotBusy(c) \/ HotGone(c) \/ Validate(c) \/ Unlock(c)
  BY <1>2, QuietReaderDisk
<1>. QED
  BY <1>1, <1>2 DEF Reader

\* A step of a writer keeps the disk invariant.
LEMMA WriterDisk ==
  ASSUME Sound, IInv0, DiskInv0, Powered, NEW c \in Conn, Writer(c)
  PROVE  DiskInv0'
<1>1. CASE PagerBegin(c) \/ OpenSavepoint(c) \/ RollbackTo(c) \/ ExclusiveBusy(c)
  BY <1>1, PagerBeginDisk, OpenSavepointDisk, RollbackToDisk, ExclusiveBusyDisk
<1>2. CASE CommitPhaseOne(c) \/ SyncRecords(c) \/ WriteRecordCount(c) \/ SyncHeader(c)
  BY <1>2, CommitPhaseOneDisk, SyncRecordsDisk, WriteRecordCountDisk, SyncHeaderDisk
<1>3. CASE SyncDatabase(c) \/ CommitPhaseTwo(c)
  BY <1>3, SyncDatabaseDisk, CommitPhaseTwoDisk
<1>4. ASSUME NEW p \in Page, \/ Write(c, p) \/ StressSync(c, p)
                             \/ StressWrite(c, p) \/ WritePage(c, p)
      PROVE  DiskInv0'
  BY <1>4, WriteDisk, StressSyncDisk, StressWriteDisk, WritePageDisk
<1>. QED
  BY <1>1, <1>2, <1>3, <1>4 DEF Writer

\* A step of the end of a transaction keeps the disk invariant.
LEMMA EndingDisk ==
  ASSUME IInv0, DiskInv0, Powered, NEW c \in Conn, Ending(c)
  PROVE  DiskInv0'
<1>1. CASE RollbackNothing(c) \/ Rollback(c) \/ PlayPage(c) \/ PlaySync(c)
  BY <1>1, RollbackNothingDisk, RollbackDisk, PlayPageDisk, PlaySyncDisk
<1>2. CASE Finalize(c) \/ FinalSync(c) \/ EndTransaction(c)
  BY <1>2, FinalizeDisk, FinalSyncDisk, EndTransactionDisk
<1>. QED
  BY <1>1, <1>2 DEF Ending

\* No step of a connection is a power loss.
LEMMA LossesKept ==
  ASSUME NEW c \in Conn, Reader(c) \/ Writer(c) \/ Ending(c) \/ Die(c)
  PROVE  nLosses' = nLosses
<1>1. Reader(c) => UNCHANGED faultVars
  BY DEF Reader, SharedLock, JournalExists, CheckReserved, ReadFirstByte, HotBusy, HotGone,
         HotPlayback, Validate, Unlock
<1>2. PagerBegin(c) \/ OpenSavepoint(c) \/ RollbackTo(c) \/ ExclusiveBusy(c)
        => UNCHANGED faultVars
  BY DEF PagerBegin, OpenSavepoint, RollbackTo, ExclusiveBusy
<1>3. CommitPhaseOne(c) \/ SyncRecords(c) \/ WriteRecordCount(c) \/ SyncHeader(c)
        => UNCHANGED faultVars
  BY DEF CommitPhaseOne, SyncRecords, WriteRecordCount, SyncHeader
<1>4. SyncDatabase(c) \/ CommitPhaseTwo(c) => UNCHANGED faultVars
  BY DEF SyncDatabase, CommitPhaseTwo
<1>5. \A p \in Page : Write(c, p) \/ StressSync(c, p) \/ StressWrite(c, p) \/ WritePage(c, p)
        => UNCHANGED faultVars
  BY DEF Write, StressSync, StressWrite, WritePage
<1>6. Writer(c) => UNCHANGED faultVars
  BY <1>2, <1>3, <1>4, <1>5 DEF Writer
<1>7. Ending(c) => UNCHANGED faultVars
  BY DEF Ending, RollbackNothing, Rollback, PlayPage, PlaySync, Finalize, FinalSync,
         EndTransaction
<1>8. Die(c) => nLosses' = nLosses
  BY DEF Die
<1>. QED
  BY <1>1, <1>6, <1>7, <1>8 DEF faultVars

\* The step of a connection keeps DiskInv.
LEMMA ConnDisk ==
  ASSUME Sound, IInv0, DiskInv, NEW c \in Conn, Reader(c) \/ Writer(c) \/ Ending(c) \/ Die(c)
  PROVE  DiskInv'
<1>1. nLosses' = nLosses
  BY LossesKept
<1>2. CASE Powered
  <2>1. DiskInv0
    BY <1>2 DEF DiskInv, Powered
  <2>2. DiskInv0'
    BY <2>1, <1>2, ReaderDisk, WriterDisk, EndingDisk, DieDisk
  <2>. QED
    BY <2>2 DEF DiskInv
<1>3. CASE ~Powered
  BY <1>1, <1>3 DEF DiskInv, Powered
<1>. QED
  BY <1>2, <1>3

\* A step that changes nothing keeps DiskInv.
LEMMA StutterDisk == DiskInv /\ UNCHANGED vars => DiskInv'
<1>. SUFFICES ASSUME DiskInv, UNCHANGED vars PROVE DiskInv'
  OBVIOUS
<1>1. /\ UNCHANGED <<db, dbDisk, jr, jrDisk, jrOther, pc, w, info, committed, maybe, nTx>>
      /\ nLosses' = nLosses
  BY DEF vars, fileVars, connVars, histVars, faultVars
<1>2. /\ \A x : SizeOf(x)' = SizeOf(x)
      /\ (Sure' <=> Sure) /\ Begun' = Begun /\ JournalOnDisk' = JournalOnDisk
  BY <1>1 DEF SizeOf, InfoOf, Sure, Begun, JournalOnDisk
<1>3. SizeOf(committed)' = SizeOf(committed)
  BY <1>1, <1>2
<1>4. (DiskHolds' <=> DiskHolds) /\ (SureInv' <=> SureInv)
  BY <1>1, <1>2, <1>3 DEF DiskHolds, InitOk, SureInv
<1>5. ASSUME NEW c \in Conn PROVE DiskOf(c)' <=> DiskOf(c)
  <2>1. TxDiskInv(c)' <=> TxDiskInv(c)
    BY <1>1, <1>2, <1>3 DEF TxDiskInv, InTx
  <2>2. HotDiskInv(c)' <=> HotDiskInv(c)
    BY <1>1, <1>2, <1>3 DEF HotDiskInv
  <2>3. \A j : Reverts(j)' <=> Reverts(j)
    BY <1>1, <1>2 DEF Reverts
  <2>4. FinalDiskInv(c)' <=> FinalDiskInv(c)
    BY <2>3, <1>1, <1>2 DEF FinalDiskInv
  <2>. QED
    BY <2>1, <2>2, <2>4 DEF DiskOf
<1>. QED
  BY <1>1, <1>4, <1>5 DEF DiskInv, DiskInv0

\* The initial states satisfy DiskInv.
LEMMA InitDisk ==
  ASSUME Init
  PROVE  DiskInv
<1>1. /\ db = NewImage /\ dbDisk = [p \in Page |-> {db[p]}]
      /\ jr = NoFile /\ jrDisk = <<>> /\ jrOther = {NoFile}
      /\ pc = [c \in Conn |-> "open"] /\ committed = NewImage /\ maybe = {NewImage}
      /\ nTx = 1
  BY DEF Init
<1>2. DOMAIN jrDisk = {} /\ \A p \in Page : dbDisk[p] = {db[p]}
  BY <1>1
<1>3. DiskHolds
  BY <1>1, <1>2 DEF DiskHolds
<1>4. SureInv
  <2>. DEFINE n == SizeOf(committed)
  <2>1. Sure
    BY <1>1 DEF Sure
  <2>. HIDE DEF n
  <2>2. Fenced(jrDisk, Begun, committed, n)
    <3>1. 0 \in Begun
      BY <1>1 DEF Begun
    <3>. QED
      BY <3>1, <1>2 DEF Fenced, Fence
  <2>3. Undone(dbDisk, jrDisk, jrOther, jr, committed, n)
    BY <1>1, <1>2 DEF Undone
  <2>4. Durable(dbDisk, jrDisk, jrOther, jr, committed, n, Begun)
    BY <2>2, <2>3, <1>1 DEF Durable
  <2>. QED
    BY <2>1, <2>4 DEF SureInv, n
<1>5. \A c \in Conn : ~Active(c)
  BY <1>1, PcKinds DEF Active
<1>. QED
  BY <1>3, <1>4, <1>5, NoneActive DEF DiskInv
-----------------------------------------------------------------------------
(* A power loss *)

\* Whatever the disk keeps of the files, d and j, they hold an image that the
\* power loss may leave.
Survives(d, j) ==
  \E m \in maybe : /\ Covers(d, j, m, SizeOf(m))
                   /\ Fenced(Single(SlotsOf(j)), Begun, m, SizeOf(m))

\* As long as one image alone may survive, every outcome of a power loss
\* recovers it.
LEMMA SureSurvives ==
  ASSUME IInv0, DiskInv0, Sure, NEW d \in Image, \A p \in Page : d[p] \in dbDisk[p],
         NEW j \in JournalOnDisk
  PROVE  Survives(d, j)
<1>. DEFINE m == committed
            n == SizeOf(committed)
<1>1. JrTypes /\ jrOther \subseteq Journals /\ m \in maybe
  BY Started DEF IInv0, TypeInv, JrTypes
<1>2. Durable(dbDisk, jrDisk, jrOther, jr, m, n, Begun)
  BY DEF DiskInv0, SureInv
<1>. HIDE DEF m, n
<1>3. /\ Fenced(jrDisk, Begun, m, n) /\ Undone(dbDisk, jrDisk, jrOther, jr, m, n)
      /\ \A g \in jrOther : g # NoFile => Fenced(Single(g), Begun, m, n)
  BY <1>2 DEF Durable
<1>4. Fenced(Single(SlotsOf(j)), Begun, m, n) /\ (j # NoFile => j \in Seq(Slot))
  <2>1. CASE j = NoFile
    <3>1. MaxTx + 1 \in Begun /\ ~Hot(j) /\ j \in Journals
      BY <2>1 DEF Begun, Hot, Journals
    <3>. QED
      BY <3>1, <2>1, ColdFenced, PagerAssumption
  <2>2. CASE j # NoFile /\ j \in jrOther
    BY <2>2, <1>1, <1>3 DEF SlotsOf, Journals
  <2>3. CASE j # NoFile /\ FromSlots(j)
    <3>1. j \in Seq(Slot) /\ DOMAIN j = DOMAIN jrDisk
              /\ \A i \in DOMAIN jrDisk : j[i] \in jrDisk[i]
      BY <2>3 DEF FromSlots
    <3>2. Fenced(Single(j), Begun, m, n)
      BY <3>1, <1>3, FencedSingle
    <3>. QED
      BY <3>1, <3>2, <2>3 DEF SlotsOf
  <2>. QED
    BY <2>1, <2>2, <2>3, <1>1, OnDisk
<1>5. Harmless(j, m, n)
  <2>1. CASE j = NoFile
    BY <2>1 DEF Harmless, Hot
  <2>2. CASE j # NoFile
    <3>1. j \in Seq(Slot) /\ Fenced(Single(j), Begun, m, n)
      BY <2>2, <1>4 DEF SlotsOf
    <3>. QED
      BY <3>1, FencedHarmless
  <2>. QED
    BY <2>1, <2>2
<1>6. ASSUME NEW p \in Page, p <= n
      PROVE  d[p] = m[p] \/ Undoes(j, p)
  <2>1. CASE dbDisk[p] = {m[p]}
    BY <2>1
  <2>2. CASE jrOther = {} /\ SyncedUndo(jrDisk, jr, p)
    <3>1. FromSlots(j)
      BY <2>2, <1>1, OnDisk
    <3>2. jr \in Seq(Slot) /\ DOMAIN jr = DOMAIN jrDisk
      BY <3>1, <1>1 DEF FromSlots, JrTypes, Journals, SlotsOf
    <3>3. j \in Seq(Slot) /\ DOMAIN j = DOMAIN jrDisk
              /\ \A i \in DOMAIN jrDisk : j[i] \in jrDisk[i]
      BY <3>1 DEF FromSlots
    <3>. QED
      BY <3>2, <3>3, <2>2, SyncedUndone
  <2>. QED
    BY <2>1, <2>2, <1>3, <1>6 DEF Undone
<1>7. Covers(d, j, m, n)
  BY <1>5, <1>6 DEF Covers
<1>. QED
  BY <1>1, <1>4, <1>7 DEF Survives, m, n

\* While a commit may be undone the power fails only before the end of the
\* journal is synced, and then either image may be what stays.
LEMMA CommitSurvives ==
  ASSUME IInv0, DiskInv0, ~Sure, Uncertain => Finalizing, NEW d \in Image,
         \A p \in Page : d[p] \in dbDisk[p], NEW j \in JournalOnDisk
  PROVE  Survives(d, j)
<1>1. JrTypes /\ committed \in maybe /\ committed \in Image /\ db \in Image
  BY Started DEF IInv0, TypeInv, DbTypes
<1>2. PICK x \in maybe : maybe = {committed, x}
  BY DEF DiskInv0, SureInv
<1>3. x # committed
  BY <1>2 DEF Sure
<1>4. Cardinality({committed, x}) = 2
  <2>1. IsFiniteSet({committed}) /\ Cardinality({committed}) = 1
    BY FS_Singleton
  <2>2. Cardinality({committed} \cup {x}) = 1 + 1
    BY <2>1, <1>3, FS_AddElement
  <2>3. {committed} \cup {x} = {committed, x}
    OBVIOUS
  <2>. QED
    BY <2>2, <2>3
<1>5. PICK c \in Conn : pc[c] = "finalSync" /\ w.ending = "commit"
  BY <1>2, <1>4 DEF Uncertain, Finalizing
<1>6. FinalDiskInv(c)
  BY DEF DiskInv0, DiskOf
<1>7. d = db
  <2>1. \A p \in Page : d[p] = db[p]
    BY <1>5, <1>6 DEF FinalDiskInv
  <2>. QED
    BY <2>1, <1>1 DEF Image
<1>8. CASE Hot(j)
  <2>1. Reverts(j)
    BY <1>5, <1>6, <1>8 DEF FinalDiskInv
  <2>2. SlotsOf(j) = j
    BY <1>8 DEF Hot, SlotsOf
  <2>. QED
    BY <2>1, <2>2, <1>7 DEF Reverts, Survives
<1>9. CASE ~Hot(j)
  <2>. DEFINE m == committed
              n == SizeOf(committed)
  <2>1. Clean(dbDisk, m, n)
    BY DEF DiskInv0, SureInv
  <2>. HIDE DEF m, n
  <2>2. Covers(d, j, m, n)
    BY <2>1, <1>9 DEF Clean, Covers, Harmless
  <2>3. j \in Journals
    BY <1>1, OnDisk DEF JrTypes, FromSlots, Journals
  <2>4. MaxTx + 1 \in Begun
    BY DEF Begun
  <2>5. Fenced(Single(SlotsOf(j)), Begun, m, n)
    BY <2>3, <2>4, <1>9, ColdFenced, PagerAssumption
  <2>. QED
    BY <2>2, <2>5, <1>1 DEF Survives, m, n
<1>. QED
  BY <1>8, <1>9

\* What a power loss does.
PowerLost ==
  /\ DbTypes' /\ JrTypes' /\ Survives(db', jr')
  /\ \A i \in DOMAIN SlotsOf(jr') : InitOk(SlotsOf(jr')[i])
  /\ nLosses' = nLosses + 1
  /\ nLosses' < MaxPowerLoss =>
       /\ \A p \in Page : dbDisk'[p] = {db'[p]}
       /\ DOMAIN jrDisk' = DOMAIN SlotsOf(jr')
       /\ \A i \in DOMAIN jrDisk' : jrDisk'[i] = {SlotsOf(jr')[i]}
       /\ jrOther' \subseteq {NoFile} /\ (jr' # NoFile => jrOther' = {})

\* Every outcome of a power loss recovers an image that may survive.
LEMMA PowerLossDoes ==
  ASSUME Sound, IInv0, DiskInv0, PowerLoss
  PROVE  PowerLost
<1>0. MaxPowerLoss > 0
  BY PagerAssumption DEF PowerLoss, IInv0, TypeInv, HistTypes
<1>1. /\ nLosses < MaxPowerLoss /\ (Uncertain => Finalizing) /\ nLosses' = nLosses + 1
      /\ db' \in AnyOf(dbDisk) /\ jr' \in JournalOnDisk
      /\ dbDisk' = [p \in Page |-> KeptAfter(nLosses', {db'[p]})]
      /\ jr' = NoFile => jrDisk' = <<>> /\ jrOther' = KeptAfter(nLosses', {NoFile})
      /\ jr' # NoFile => /\ jrDisk' = [i \in DOMAIN jr' |-> KeptAfter(nLosses', {jr'[i]})]
                         /\ jrOther' = {}
  BY <1>0 DEF PowerLoss, Sound
<1>2. JrTypes /\ DbTypes
  BY DEF IInv0, TypeInv
<1>3. db' \in Image /\ \A p \in Page : db'[p] \in dbDisk[p]
  <2>1. dbDisk \in Seq(SUBSET Content) /\ Len(dbDisk) = NPage
    <3>1. dbDisk \in [1..NPage -> SUBSET Content] /\ NPage \in Nat
      BY <1>2, PagerAssumption DEF DbTypes, Page
    <3>2. dbDisk \in Seq(SUBSET Content)
      BY <3>1
    <3>3. DOMAIN dbDisk = 1..NPage /\ DOMAIN dbDisk = 1..Len(dbDisk) /\ Len(dbDisk) \in Nat
      BY <3>1, <3>2, SeqParts
    <3>. QED
      BY <3>1, <3>2, <3>3
  <2>2. db' \in Seq(Content) /\ Len(db') = NPage /\ \A k \in 1..NPage : db'[k] \in dbDisk[k]
    BY SMTT(30), <2>1, <1>1, AnyOfDoes
  <2>3. db' \in [1..NPage -> Content]
    BY <2>2, SeqParts
  <2>. QED
    BY <2>2, <2>3 DEF Image, Page
<1>4. DbTypes'
  BY <1>1, <1>3 DEF DbTypes, KeptAfter, Image
<1>5. jr' \in Journals
  BY <1>1, <1>2, OnDisk DEF JrTypes, FromSlots, Journals
<1>6. JrTypes'
  <2>1. CASE jr' = NoFile
    <3>1. <<>> \in Seq(SUBSET Slot) /\ DOMAIN <<>> = {}
      OBVIOUS
    <3>2. jrOther' \subseteq {NoFile} /\ SlotsOf(jr') = <<>>
      BY <2>1, <1>1 DEF KeptAfter, SlotsOf
    <3>. QED
      BY <3>1, <3>2, <2>1, <1>1 DEF JrTypes, Journals
  <2>2. CASE jr' # NoFile
    <3>1. jr' \in Seq(Slot) /\ SlotsOf(jr') = jr'
      BY <2>2, <1>5 DEF Journals, SlotsOf
    <3>2. /\ Len(jr') \in Nat /\ DOMAIN jr' = 1..Len(jr')
          /\ \A i \in DOMAIN jr' : KeptAfter(nLosses', {jr'[i]}) \in SUBSET Slot
      BY <3>1 DEF KeptAfter
    <3>3. jrDisk' \in Seq(SUBSET Slot) /\ DOMAIN jrDisk' = DOMAIN jr'
      BY <3>2, <2>2, <1>1, MakeSeq
    <3>. QED
      BY <3>1, <3>3, <2>2, <1>1, <1>5 DEF JrTypes
  <2>. QED
    BY <2>1, <2>2
<1>7. Survives(db', jr')
  BY <1>1, <1>3, SureSurvives, CommitSurvives
<1>8. \A i \in DOMAIN SlotsOf(jr') : InitOk(SlotsOf(jr')[i])
  <2>1. CASE jr' = NoFile
    BY <2>1 DEF SlotsOf
  <2>2. CASE jr' # NoFile /\ jr' \in jrOther
    BY <2>2 DEF SlotsOf, DiskInv0, DiskHolds
  <2>3. CASE jr' # NoFile /\ FromSlots(jr')
    BY <2>3 DEF SlotsOf, DiskInv0, DiskHolds, FromSlots
  <2>. QED
    BY <2>1, <2>2, <2>3, <1>1, <1>2, OnDisk
<1>9. ASSUME nLosses' < MaxPowerLoss
      PROVE  /\ \A p \in Page : dbDisk'[p] = {db'[p]}
             /\ DOMAIN jrDisk' = DOMAIN SlotsOf(jr')
             /\ \A i \in DOMAIN jrDisk' : jrDisk'[i] = {SlotsOf(jr')[i]}
             /\ jrOther' \subseteq {NoFile} /\ (jr' # NoFile => jrOther' = {})
  <2>1. \A X : KeptAfter(nLosses', X) = X
    BY <1>9 DEF KeptAfter
  <2>2. CASE jr' = NoFile
    BY <2>1, <2>2, <1>1 DEF SlotsOf
  <2>3. CASE jr' # NoFile
    BY <2>1, <2>3, <1>1 DEF SlotsOf
  <2>. QED
    BY <2>2, <2>3
<1>. QED
  BY <1>1, <1>4, <1>6, <1>7, <1>8, <1>9 DEF PowerLost

\* A power loss keeps the invariant.
LEMMA PowerLossKeeps ==
  ASSUME Sound, IInv0, DiskInv, PowerLoss
  PROVE  IInv0' /\ DiskInv' /\ JournaledInv'
<1>1. /\ nLosses < MaxPowerLoss /\ nDeaths' = nDeaths /\ info' = info /\ nTx' = nTx
      /\ held' = [c \in Conn |-> NO_LOCK] /\ pc' = [c \in Conn |-> "open"]
      /\ cache' = [c \in Conn |-> NoCache] /\ w' = NoWrite /\ todo' = {}
      /\ committed' = ImageIn(Recovered(db', jr')) /\ maybe' = maybe \cap {committed'}
  BY DEF PowerLoss
<1>2. PowerLost
  BY <1>1, PowerLossDoes DEF DiskInv
<1>3. db' \in Image /\ jr' \in Journals /\ JrTypes' /\ DbTypes'
  BY <1>2 DEF PowerLost, DbTypes, JrTypes
<1>4. PICK m \in maybe : /\ Covers(db', jr', m, SizeOf(m))
                         /\ Fenced(Single(SlotsOf(jr')), Begun, m, SizeOf(m))
  BY <1>2 DEF PowerLost, Survives
<1>5. m \in Image /\ Whole(m) /\ Prefix(m, SizeOf(m))
  BY Started DEF IInv0, ImageInv, Whole
<1>6. committed' = m /\ maybe' = {m}
  <2>1. ImageIn(Recovered(db', jr')) = m
    BY <1>3, <1>4, <1>5, RecoveredIs, PagerAssumption
  <2>. QED
    BY <2>1, <1>1
<1>7. /\ \A x : SizeOf(x)' = SizeOf(x) /\ CtrOf(x)' = CtrOf(x)
      /\ SizeOf(committed)' = SizeOf(m) /\ CtrOf(committed)' = CtrOf(m)
  BY <1>1, <1>6 DEF SizeOf, CtrOf, InfoOf
<1>8. \A c \in Conn : ~(Active(c)') /\ pc'[c] = "open" /\ held'[c] = NO_LOCK
  BY <1>1, PcKinds DEF Active
<1>9. TypeInv'
  <2>1. ConnTypes'
    <3>1. "open" \in Pcs /\ NO_LOCK \in NO_LOCK..EXCLUSIVE_LOCK
      BY DEF Pcs, NO_LOCK, EXCLUSIVE_LOCK
    <3>. QED
      BY <3>1, <1>1, NoWriteTypes DEF ConnTypes
  <2>2. HistTypes'
    BY <1>1, <1>2, <1>5, <1>6 DEF HistTypes, IInv0, TypeInv, PowerLost
  <2>. QED
    BY <2>1, <2>2, <1>1, <1>3, NoWriteTypes DEF TypeInv
<1>10. ControlInv'
  <2>1. LockInv'
    BY <1>8 DEF LockInv, NO_LOCK, RESERVED_LOCK, EXCLUSIVE_LOCK
  <2>2. IdleInv'
    BY <1>1 DEF IdleInv
  <2>3. ASSUME NEW c \in Conn PROVE LockOf(c)' /\ OwnerOf(c)'
    <3>1. "open" \notin RestPcs \cup WritePcs \cup EndPcs /\ "open" # "write"
      BY DEF RestPcs, WritePcs, EndPcs
    <3>. QED
      BY <3>1, <1>8 DEF LockOf, OwnerOf
  <2>. QED
    BY <2>1, <2>2, <2>3 DEF ControlInv
<1>11. ImageInv'
  BY <1>1, <1>5, <1>6, <1>7 DEF ImageInv, Whole
<1>12. FileInv'
  <2>1. Covers(db', jr', committed', SizeOf(committed)')
    BY <1>4, <1>6, <1>7
  <2>. QED
    BY <2>1 DEF FileInv
<1>13. ReadInv'
  <2>. SUFFICES ASSUME NEW c \in Conn PROVE CacheOf(c)' /\ ColdOf(c)'
    BY DEF ReadInv
  <2>1. cache'[c] = NoCache /\ pc'[c] # "reader"
    BY <1>1, <1>8
  <2>2. "open" \notin {"validate", "reader"} \cup LateEndPcs
        /\ NO_LOCK \notin {RESERVED_LOCK, PENDING_LOCK}
    BY DEF LateEndPcs, NO_LOCK, RESERVED_LOCK, PENDING_LOCK
  <2>. QED
    BY <2>1, <2>2, <1>8 DEF CacheOf, ColdOf
<1>14. InitInv'
  BY <1>1, <1>2 DEF InitInv, PowerLost, InitOk
<1>15. WorkInv'
  <2>. SUFFICES ASSUME NEW c \in Conn PROVE TxOfInv(c)' /\ HotInv(c)' /\ LateInv(c)'
    BY DEF WorkInv
  <2>1. "open" \notin OpenPcs \cup {"play", "finalize"} \cup LateEndPcs
    BY PcKinds
  <2>. QED
    BY <2>1, <1>8 DEF TxOfInv, HotInv, LateInv, InTx
<1>16. IInv0'
  BY <1>9, <1>10, <1>11, <1>12, <1>13, <1>14, <1>15 DEF IInv0
<1>17. DiskInv'
  <2>. SUFFICES ASSUME nLosses' < MaxPowerLoss PROVE DiskInv0'
    BY DEF DiskInv
  <2>1. /\ \A p \in Page : dbDisk'[p] = {db'[p]}
        /\ DOMAIN jrDisk' = DOMAIN SlotsOf(jr')
        /\ \A i \in DOMAIN jrDisk' : jrDisk'[i] = {SlotsOf(jr')[i]}
        /\ jrOther' \subseteq {NoFile} /\ (jr' # NoFile => jrOther' = {})
    BY <1>2 DEF PowerLost
  <2>2. DiskHolds'
    <3>1. \A s : InitOk(s)' <=> InitOk(s)
      BY <1>1 DEF InitOk
    <3>2. \A i \in DOMAIN jrDisk' : \A s \in jrDisk'[i] : InitOk(s)
      BY <2>1, <1>2 DEF PowerLost
    <3>. QED
      BY <3>1, <3>2, <2>1 DEF DiskHolds
  <2>3. Sure' /\ Begun' = Begun
    BY <1>1, <1>6 DEF Sure, Begun
  <2>. DEFINE n == SizeOf(m)
  <2>4. Covers(db', jr', m, n) /\ Fenced(Single(SlotsOf(jr')), Begun, m, n)
    BY <1>4
  <2>. HIDE DEF n
  <2>5. Fenced(jrDisk', Begun, m, n)
    <3>1. /\ DOMAIN jrDisk' \subseteq DOMAIN Single(SlotsOf(jr'))
          /\ \A i \in DOMAIN jrDisk' : jrDisk'[i] \subseteq Single(SlotsOf(jr'))[i]
      BY <2>1, SingleOf
    <3>. QED
      BY <3>1, <2>4, FencedPart
  <2>6. Undone(dbDisk', jrDisk', jrOther', jr', m, n)
    <3>. SUFFICES ASSUME NEW p \in Page, p <= n, db'[p] # m[p]
                  PROVE  jrOther' = {} /\ SyncedUndo(jrDisk', jr', p)
      BY <2>1 DEF Undone
    <3>1. Undoes(jr', p)
      BY <2>4 DEF Covers
    <3>2. SlotsOf(jr') = jr' /\ jr' # NoFile
      BY <3>1 DEF Undoes, Hot, SlotsOf
    <3>3. \A i : SyncedTo(jrDisk', jr', i)
      BY <3>2, <2>1 DEF SyncedTo
    <3>. QED
      BY <3>1, <3>2, <3>3, <2>1 DEF Undoes, SyncedUndo
  <2>7. Durable(dbDisk', jrDisk', jrOther', jr', m, n, Begun)
    BY <2>1, <2>5, <2>6 DEF Durable
  <2>8. SureInv'
    BY <2>3, <2>7, <1>6, <1>7 DEF SureInv, n
  <2>. QED
    BY <2>2, <2>8, <1>8, NoneActiveNext
<1>18. JournaledInv'
  BY <1>1 DEF JournaledInv, NoWrite
<1>. QED
  BY <1>16, <1>17, <1>18

-----------------------------------------------------------------------------
(* The theorems *)

IInv == IInv0 /\ JournaledInv /\ DiskInv

\* The initial states satisfy IInv.
LEMMA Start == Init => IInv
<1>. SUFFICES ASSUME Init PROVE IInv
  OBVIOUS
<1>1. JournaledInv
  BY DEF Init, JournaledInv, NoWrite
<1>. QED
  BY <1>1, InitHolds, InitDisk DEF IInv

\* Every step keeps IInv.
LEMMA Step ==
  ASSUME Sound, IInv, [Next]_vars
  PROVE  IInv'
<1>1. IInv0 /\ JournaledInv /\ DiskInv
  BY DEF IInv
<1>2. CASE UNCHANGED vars
  <2>1. JournaledInv'
    BY <1>1, <1>2 DEF vars, JournaledInv
  <2>. QED
    BY <1>1, <1>2, <2>1, StutterKeeps, StutterDisk DEF IInv
<1>3. ASSUME NEW c \in Conn, Reader(c) \/ Writer(c) \/ Ending(c) \/ Die(c)
      PROVE  IInv'
  <2>1. IInv0'
    BY <1>1, <1>3, ReaderKeeps, WriterKeeps, EndingKeeps, DieKeeps DEF Sound
  <2>2. JournaledInv'
    BY <1>1, <1>3, <2>1, JournaledKeeps
  <2>3. DiskInv'
    BY <1>1, <1>3, ConnDisk
  <2>. QED
    BY <2>1, <2>2, <2>3 DEF IInv
<1>4. CASE PowerLoss
  BY <1>1, <1>4, PowerLossKeeps DEF IInv
<1>. QED
  BY <1>2, <1>3, <1>4 DEF Next

\* IInv, with the locks, the journal, memory and what the disk may hold, is an
\* invariant of the pager.
THEOREM PagerInvariance == ASSUME Sound PROVE Spec => []IInv
<1>1. IInv /\ [Next]_vars => IInv'
  BY Step
<1>. QED
  BY <1>1, Start, PTL DEF Spec

\* The variables of the pager keep their types.
THEOREM PagerTypes == ASSUME Sound PROVE Spec => []TypeOK
<1>1. IInv => TypeOK
  BY InvTypes DEF IInv
<1>. QED
  BY <1>1, PagerInvariance, PTL

\* Whenever a process dies or the power fails, the playback of the journal that
\* is there (pager_playback) brings the database file back to a whole committed
\* image.
THEOREM RecoversExactly == ASSUME Sound PROVE Spec => []RecoveryIsExact
<1>1. IInv => RecoveryIsExact
  BY InvRecovery DEF IInv
<1>. QED
  BY <1>1, PagerInvariance, PTL

\* What a power loss leaves of the two files recovers the image from before a
\* commit or the one from after it, and once the commit is durable the latter:
\* the syncs of syncJournal and sqlite3PagerCommitPhaseOne are in the right
\* order.
THEOREM CommitIsAtomic == ASSUME Sound PROVE Spec => []PowerLossIsAtomic
<1>1. IInv => PowerLossIsAtomic
  BY InvReaders DEF IInv
<1>. QED
  BY <1>1, PagerInvariance, PTL

\* A connection that has passed sqlite3PagerSharedLock has the committed image
\* in its cache, after every recovery and every commit of another connection.
THEOREM ReadersSeeCommitted == ASSUME Sound PROVE Spec => []ReaderSeesCommitted
<1>1. IInv => ReaderSeesCommitted
  BY InvReaders DEF IInv
<1>. QED
  BY <1>1, PagerInvariance, PTL

\* ROLLBACK TO (pagerPlaybackSavepoint) gives back the pages as they were when
\* the savepoint was opened.
THEOREM SavepointsRestore == ASSUME Sound PROVE Spec => SavepointRestored
<1>1. IInv => \A c \in Conn : RollbackTo(c) => w'.mem = w.sp.img
  BY RollbackToKeeps DEF IInv
<1>2. IInv /\ [Next]_vars => [\A c \in Conn : RollbackTo(c) => w'.mem = w.sp.img]_vars
  BY <1>1
<1>. QED
  BY <1>2, PagerInvariance, PTL DEF Spec, SavepointRestored

\* A rollback reads no record of an older journal.
LEMMA InvOwnRecords ==
  ASSUME IInv0
  PROVE  OldHeaderUnrecognised
<1>. SUFFICES ASSUME w.ending = "rollback", NEW i \in todo
              PROVE  jr[i].init = w.tx
  BY DEF OldHeaderUnrecognised
<1>1. \E c \in Conn : Active(c)
  BY DEF IInv0, ControlInv, IdleInv
<1>2. PICK c \in Conn : Active(c)
  BY <1>1
<1>3. pc[c] = "play" /\ OwnerOf(c)
  BY <1>2 DEF IInv0, ControlInv, OwnerOf
<1>4. InTx(c)
  BY <1>2, <1>3 DEF OwnerOf, InTx
<1>5. /\ TxOk(pc[c], w, db, jr, committed, SizeOf(committed))
      /\ PlayOk(w, db, jr, committed, SizeOf(committed), todo)
  BY <1>3, <1>4 DEF IInv0, WorkInv, TxOfInv
<1>6. i \in RecordsOf(w, jr)
  BY <1>5 DEF PlayOk
<1>7. w.state # "locked"
  BY <1>2, <1>3 DEF OwnerOf
<1>8. SlotsOk(w, jr, committed, SizeOf(committed))
  BY <1>5, <1>7 DEF TxOk, JournalOk
<1>. QED
  BY <1>6, <1>8 DEF SlotsOk, OwnSlot, RecordsOf

\* What a rollback plays back are records of its own transaction: syncJournal
\* zeroes the header of an older journal that follows its last record.
THEOREM OldHeadersIgnored == ASSUME Sound PROVE Spec => []OldHeaderUnrecognised
<1>1. IInv => OldHeaderUnrecognised
  BY InvOwnRecords DEF IInv
<1>. QED
  BY <1>1, PagerInvariance, PTL

-----------------------------------------------------------------------------
(* Refinement of SnapshotStore: the mapped variables *)

Views == [c \in Conn |-> Seen(c)]

\* While a rollback plays the journal back, what its connection reads is of the
\* committed image or its own.
SeenInv ==
  \A c \in Conn : pc[c] = "play" /\ w.owner = c =>
    \A p \in Page : p <= SizeOf(committed) =>
      w.mem[p] = committed[p] \/ w.mem[p] \in Own(w.tx)

\* A commit that is made, by a connection that has not given back its lock.
Late(c) == pc[c] \in LateEndPcs /\ w.ending = "commit"
Settled == \A c \in Conn : ~Late(c)

\* Without such a commit, the mapping is simple.
LEMMA SettledMaps ==
  ASSUME Settled
  PROVE  Newest = committed /\ Upgraded = w.owner
BY DEF Settled, Late, LateEndPcs, Newest, Finalizing, Upgraded

\* In the next state, when no commit waits for its lock to be given back, the
\* store holds what is committed.
LEMMA SettledMapsNext == (Settled => Newest = committed /\ Upgraded = w.owner)'
BY SettledMaps, PTL

\* Whoever has made a commit has the database for itself.
LEMMA LateAlone ==
  ASSUME IInv0, NEW c \in Conn, Late(c)
  PROVE  /\ held[c] = EXCLUSIVE_LOCK /\ w.owner = c /\ Active(c)
         /\ w.mem = committed
         /\ \A d \in Conn \ {c} : pc[d] = "open" /\ held[d] = NO_LOCK
<1>1. Active(c) /\ LockOf(c) /\ OwnerOf(c) /\ LateInv(c)
  BY DEF Late, LateEndPcs, Active, EndPcs, IInv0, ControlInv, WorkInv
<1>2. w.state = "dbmod" /\ w.owner = c
  BY <1>1 DEF OwnerOf, Late
<1>3. held[c] = EXCLUSIVE_LOCK
  BY <1>1, <1>2 DEF LockOf, Late, LateEndPcs, EndPcs
<1>4. w.mem = committed
  BY <1>1 DEF LateInv, Late
<1>. QED
  BY <1>1, <1>2, <1>3, <1>4, AloneExclusive DEF IInv0

\* A connection past its first step sees no commit of another that waits for
\* its lock to be given back.
LEMMA SettledFor ==
  \A c \in Conn : IInv0 /\ pc[c] # "open" /\ ~Late(c) => Settled
<1>. SUFFICES ASSUME NEW c \in Conn, IInv0, pc[c] # "open", ~Late(c), NEW d \in Conn, Late(d)
              PROVE  FALSE
  BY DEF Settled
<1>. QED
  BY LateAlone

\* The same of the next state.
LEMMA SettledForNext ==
  (\A c \in Conn : IInv0 /\ pc[c] # "open" /\ ~Late(c) => Settled)'
BY SettledFor, PTL

\* A commit whose lock is not given back is still at work.
LEMMA LateActive == \A c \in Conn : Late(c) => Active(c)
BY DEF Late, LateEndPcs, Active, EndPcs

\* What a connection reads that does not write.
LEMMA SeenAs ==
  \A c \in Conn : IInv0 =>
    /\ pc[c] = "reader" => Seen(c) = committed
    /\ pc[c] # "reader" /\ w.owner # c => Seen(c) = NoImage
<1>. SUFFICES ASSUME NEW c \in Conn, IInv0
              PROVE  /\ pc[c] = "reader" => Seen(c) = committed
                     /\ pc[c] # "reader" /\ w.owner # c => Seen(c) = NoImage
  OBVIOUS
<1>1. CacheOf(c)
  BY DEF IInv0, ReadInv
<1>. QED
  BY <1>1 DEF Seen, CacheOf, NoImage

\* In the next state, what readers and idle connections see.
LEMMA SeenAsNext ==
  (\A c \in Conn : IInv0 =>
    /\ pc[c] = "reader" => Seen(c) = committed
    /\ pc[c] # "reader" /\ w.owner # c => Seen(c) = NoImage)'
BY SeenAs, PTL

\* What the writer reads: its changes on top of the image it has started from.
SeenOk(c) ==
  \A p \in Page : Seen(c)[p] = committed[p] \/ Seen(c)[p] \in Own(w.tx)

\* A transaction under way sees the committed image or its own pages.
LEMMA WriterSees ==
  \A c \in Conn : IInv0 /\ SeenInv /\ InTx(c) => SeenOk(c)
<1>. SUFFICES ASSUME NEW c \in Conn, IInv0, SeenInv, InTx(c), NEW p \in Page
              PROVE  Seen(c)[p] = committed[p] \/ Seen(c)[p] \in Own(w.tx)
  BY DEF SeenOk
<1>. DEFINE n == SizeOf(committed)
<1>1. /\ TxOfInv(c) /\ OwnerOf(c) /\ w.owner = c /\ Active(c) /\ Prefix(committed, n)
      /\ n \in Nat
  BY TxFacts, Started DEF IInv0, WorkInv, ControlInv
<1>2. pc[c] # "reader"
  BY DEF InTx, OpenPcs, WritePcs
<1>3. Seen(c)[p] = IF pc[c] = "play" /\ p > n THEN Absent ELSE w.mem[p]
  BY <1>1, <1>2 DEF Seen, SizeOf
<1>4. CASE pc[c] = "play"
  <2>1. p > n => committed[p] = Absent
    BY <1>1, PagerAssumption DEF Prefix, Page
  <2>2. p <= n => w.mem[p] = committed[p] \/ w.mem[p] \in Own(w.tx)
    BY <1>1, <1>4 DEF SeenInv
  <2>. QED
    BY <2>1, <2>2, <1>1, <1>3, <1>4, PagerAssumption DEF Page
<1>5. CASE pc[c] = "finalize" /\ w.ending = "rollback"
  BY <1>1, <1>3, <1>5 DEF TxOfInv
<1>6. CASE pc[c] \in OpenPcs \/ (pc[c] = "finalize" /\ w.ending # "rollback")
  <2>1. pc[c] \in OpenPcs \/ w.ending = "commit"
    <3>1. pc[c] = "finalize" => w.ending # "none" /\ w.ending # "hot"
      BY <1>1, TxFacts DEF OwnerOf
    <3>2. w.ending \in Endings
      BY LocalsHave DEF IInv0, TypeInv
    <3>. QED
      BY <3>1, <3>2, <1>6 DEF Endings
  <2>2. MemOk(pc[c], w, db, committed, n)
    BY <1>1 DEF TxOfInv, TxOk
  <2>3. w.mem[p] = committed[p] \/ w.mem[p] \in Own(w.tx)
    BY <2>1, <2>2 DEF MemOk
  <2>. QED
    BY <2>3, <1>3, <1>6 DEF OpenPcs, WritePcs
<1>. QED
  BY <1>4, <1>5, <1>6 DEF InTx

\* The same of the next state.
LEMMA WriterSeesNext ==
  (\A c \in Conn : IInv0 /\ SeenInv /\ InTx(c) => SeenOk(c))'
BY WriterSees, PTL

-----------------------------------------------------------------------------
(* The steps of SnapshotStore *)

AbsStep == SS!SSNext \/ UNCHANGED <<Newest, Views, Upgraded>>

\* A step of c changes nothing of what the others read.
OnlySeen(c) == \A d \in Conn \ {c} : Seen(d)' = Seen(d)

\* A step that changes what one connection sees.
LEMMA ViewsChange ==
  ASSUME NEW c \in Conn, OnlySeen(c)
  PROVE  /\ Views' = [Views EXCEPT ![c] = Seen(c)']
         /\ Views[c] = Seen(c) /\ Views'[c] = Seen(c)'
         /\ Seen(c)' = Seen(c) => Views' = Views
BY DEF Views, OnlySeen

\* A step that changes nothing of the mapping is a stutter of the store.
LEMMA MapsToStutter ==
  ASSUME NEW c \in Conn, OnlySeen(c), Seen(c)' = Seen(c), Newest' = Newest,
         Upgraded' = Upgraded
  PROVE  AbsStep
BY ViewsChange DEF AbsStep

\* A step that shows c the committed image is the Begin of the store.
LEMMA MapsToBegin ==
  ASSUME NEW c \in Conn, OnlySeen(c), Newest' = Newest, Upgraded' = Upgraded,
         Seen(c) = NoImage, Seen(c)' = Newest
  PROVE  AbsStep
<1>1. Views' = [Views EXCEPT ![c] = Newest] /\ Views[c] = NoImage
  BY ViewsChange
<1>2. SS!Begin(c)
  BY <1>1 DEF SS!Begin, SS!NoView, Views, NoImage, Absent
<1>. QED
  BY <1>2 DEF AbsStep, SS!SSNext

\* A step that shows c nothing any more is the End of the store.
LEMMA MapsToEnd ==
  ASSUME NEW c \in Conn, OnlySeen(c), Newest' = Newest, Upgraded' = Upgraded,
         Upgraded # c, Seen(c) # NoImage, Seen(c)' = NoImage
  PROVE  AbsStep
<1>1. Views' = [Views EXCEPT ![c] = NoImage] /\ Views[c] # NoImage
  BY ViewsChange
<1>2. SS!End(c)
  BY <1>1 DEF SS!End, SS!NoView, Views, NoImage, Absent
<1>. QED
  BY <1>2 DEF AbsStep, SS!SSNext

\* A step that makes a reader the writer is the Upgrade of the store.
LEMMA MapsToUpgrade ==
  ASSUME NEW c \in Conn, OnlySeen(c), Newest' = Newest, Upgraded = NoConn,
         Upgraded' = c, Seen(c) = Newest, Seen(c)' = Seen(c)
  PROVE  AbsStep
<1>1. Views' = Views /\ Views[c] = Newest
  BY ViewsChange
<1>2. SS!Upgrade(c)
  BY <1>1 DEF SS!Upgrade, Views
<1>. QED
  BY <1>2 DEF AbsStep, SS!SSNext

\* A step that changes pages of the writer is the Modify of the store.
LEMMA MapsToModify ==
  ASSUME NEW c \in Conn, OnlySeen(c), Newest' = Newest, Upgraded = c, Upgraded' = c,
         \A p \in Page : \/ Seen(c)'[p] = Newest[p]
                         \/ \A q \in Page : Seen(c)'[p] > Newest[q]
  PROVE  AbsStep
<1>1. Views' = [Views EXCEPT ![c] = Views'[c]] /\ Views'[c] = Seen(c)'
  BY ViewsChange
<1>2. \A p \in Page : \/ Views'[c][p] = Newest[p]
                      \/ \A q \in Page : Views'[c][p] > Newest[q]
  BY <1>1
<1>3. SS!Modify(c)
  BY <1>1, <1>2 DEF SS!Modify, Views
<1>. QED
  BY <1>3 DEF AbsStep, SS!SSNext

\* A step that makes what the writer sees the newest image is the Commit of the
\* store.
LEMMA MapsToCommit ==
  ASSUME NEW c \in Conn, OnlySeen(c), Upgraded = c, Upgraded' = NoConn,
         Newest' = Seen(c), Seen(c)' = Seen(c)
  PROVE  AbsStep
<1>1. Views' = Views /\ Newest' = Views[c]
  BY ViewsChange
<1>2. SS!Commit(c)
  BY <1>1 DEF SS!Commit, Views
<1>. QED
  BY <1>2 DEF AbsStep, SS!SSNext

\* A step that gives the writer the newest image back is the Abort of the
\* store.
LEMMA MapsToAbort ==
  ASSUME NEW c \in Conn, OnlySeen(c), Upgraded = c, Upgraded' = NoConn,
         Newest' = Newest, Seen(c)' = Newest
  PROVE  AbsStep
<1>1. Views' = [Views EXCEPT ![c] = Newest]
  BY ViewsChange
<1>2. SS!Abort(c)
  BY <1>1 DEF SS!Abort, Views
<1>. QED
  BY <1>2 DEF AbsStep, SS!SSNext

\* A step that ends some connections, with the commit of the writer made or
\* not, is the Vanish of the store.
LEMMA MapsToVanish ==
  ASSUME NEW S \in SUBSET Conn,
         \A d \in Conn : Seen(d)' = IF d \in S THEN NoImage ELSE Seen(d),
         Upgraded' = IF Upgraded \in S THEN NoConn ELSE Upgraded,
         \/ Newest' = Newest
         \/ Upgraded \in S /\ Newest' = Seen(Upgraded)
  PROVE  AbsStep
<1>1. Views' = [d \in Conn |-> IF d \in S THEN NoImage ELSE Views[d]]
  BY DEF Views
<1>2. \A d \in Conn : Views[d] = Seen(d)
  BY DEF Views
<1>3. Newest' = Newest \/ (Upgraded \in S /\ Newest' = Views[Upgraded])
  BY <1>2
<1>4. SS!Vanish(S)
  BY <1>1, <1>3 DEF SS!Vanish, SS!NoView, Views, NoImage, Absent
<1>. QED
  BY <1>4 DEF AbsStep, SS!SSNext

\* Nobody else writes, and no reader is there when a commit is made.
LEMMA OthersSee ==
  ASSUME IInv0, IInv0', NEW c \in Conn, \A d \in Conn \ {c} : pc'[d] = pc[d],
         \A d \in Conn \ {c} :
           /\ w.owner # d /\ w'.owner # d
           /\ committed' = committed \/ pc[d] = "open"
  PROVE  OnlySeen(c)
<1>. SUFFICES ASSUME NEW d \in Conn \ {c} PROVE Seen(d)' = Seen(d)
  BY DEF OnlySeen
<1>1. /\ pc[d] = "reader" => Seen(d) = committed
      /\ pc[d] # "reader" => Seen(d) = NoImage
  BY SeenAs
<1>2. /\ pc'[d] = "reader" => Seen(d)' = committed'
      /\ pc'[d] # "reader" => Seen(d)' = NoImage'
  BY SeenAsNext
<1>. QED
  BY <1>1, <1>2 DEF NoImage

\* The locals are as they were.
LEMMA OthersKeep ==
  ASSUME IInv0, IInv0', NEW c \in Conn, \A d \in Conn \ {c} : pc'[d] = pc[d],
         w' = w, committed' = committed, info' = info
  PROVE  OnlySeen(c)
<1>. SUFFICES ASSUME NEW d \in Conn \ {c} PROVE Seen(d)' = Seen(d)
  BY DEF OnlySeen
<1>1. CASE pc[d] = "reader"
  <2>1. Seen(d) = committed
    BY <1>1, SeenAs
  <2>2. Seen(d)' = committed'
    BY <1>1, SeenAsNext
  <2>. QED
    BY <2>1, <2>2
<1>2. CASE pc[d] # "reader"
  <2>1. pc'[d] # "reader" /\ pc'[d] = pc[d]
    BY <1>2
  <2>2. InfoOf(committed[1])' = InfoOf(committed[1])
    BY DEF InfoOf
  <2>. QED
    BY <2>1, <2>2, <1>2 DEF Seen
<1>. QED
  BY <1>1, <1>2

-----------------------------------------------------------------------------
(* The steps of the writer *)

\* In the next state, a connection at a place of a transaction is in one.
LEMMA OpenNext == (\A c \in Conn : IInv0 /\ pc[c] \in OpenPcs => InTx(c))'
<1>1. \A c \in Conn : IInv0 /\ pc[c] \in OpenPcs => InTx(c)
  BY AtOpen
<1>. QED
  BY <1>1, PTL

\* In the next state, the transaction under way is the last one that has begun.
LEMMA TxKnowsNext ==
  (\A c \in Conn : IInv0 /\ InTx(c) => w.tx = nTx /\ w.owner = c)'
<1>1. \A c \in Conn : IInv0 /\ InTx(c) => w.tx = nTx /\ w.owner = c
  BY TxFacts
<1>. QED
  BY <1>1, PTL

\* No rollback starts, and none goes on.
LEMMA SeenStays ==
  ASSUME SeenInv, NEW c \in Conn, \A d \in Conn \ {c} : pc'[d] = pc[d],
         pc'[c] # "play" \/ w'.owner # c,
         \/ w' = w /\ committed' = committed /\ info' = info
         \/ \A d \in Conn \ {c} : w'.owner # d
  PROVE  SeenInv'
<1>. SUFFICES ASSUME NEW d \in Conn, pc'[d] = "play", w'.owner = d, NEW p \in Page,
                     p <= SizeOf(committed)'
              PROVE  w'.mem[p] = committed'[p] \/ w'.mem[p] \in Own(w'.tx)
  BY DEF SeenInv, Own
<1>1. d # c /\ pc[d] = "play" /\ w' = w /\ committed' = committed /\ info' = info
  OBVIOUS
<1>2. SizeOf(committed)' = SizeOf(committed)
  BY <1>1 DEF SizeOf, InfoOf
<1>. QED
  BY <1>1, <1>2 DEF SeenInv

\* The writer changes what it reads, and only to what is newer than all others.
LEMMA TxModifies ==
  ASSUME IInv0, IInv0', SeenInv', NEW c \in Conn, InTx(c), InTx(c)',
         \A d \in Conn \ {c} : pc'[d] = pc[d], committed' = committed, nTx' = nTx
  PROVE  AbsStep
<1>1. /\ w.owner = c /\ w.tx = nTx /\ w.tx \in Nat /\ pc[c] \notin LateEndPcs
      /\ w'.owner = c /\ w'.tx = nTx'
      /\ \A q \in Page : committed[q] < 2 * w.tx /\ committed[q] \in Nat
  <2>1. TxOfInv(c) /\ committed \in maybe /\ committed \in Image
    BY Started DEF IInv0, WorkInv
  <2>2. \A q \in Page : committed[q] \in Nat
    BY <2>1, PagerAssumption DEF Image, Content, Absent, Garbage
  <2>. QED
    BY <2>1, <2>2, TxFacts, TxKnowsNext, PagerAssumption DEF TxOfInv
<1>2. Settled /\ Settled'
  <2>1. pc[c] # "open" /\ ~Late(c)
    BY <1>1 DEF InTx, OpenPcs, WritePcs, Late
  <2>2. pc'[c] # "open" /\ ~(Late(c)')
    BY DEF InTx, OpenPcs, WritePcs, Late, LateEndPcs
  <2>. QED
    BY <2>1, <2>2, SettledFor, SettledForNext
<1>3. Newest = committed /\ Upgraded = c /\ Newest' = committed /\ Upgraded' = c
  BY <1>1, <1>2, SettledMaps, SettledMapsNext
<1>4. OnlySeen(c)
  BY <1>1, OthersSee
<1>5. SeenOk(c)'
  BY WriterSeesNext
<1>6. ASSUME NEW p \in Page
      PROVE  \/ Seen(c)'[p] = committed[p]
             \/ \A q \in Page : Seen(c)'[p] > committed[q]
  <2>1. Seen(c)'[p] = committed[p] \/ Seen(c)'[p] \in Own(w.tx)
    BY <1>1, <1>5 DEF SeenOk, Own
  <2>2. \A x \in Own(w.tx) : \A q \in Page : x > committed[q]
    BY <1>1 DEF Own
  <2>. QED
    BY <2>1, <2>2
<1>. QED
  BY <1>3, <1>4, <1>6, MapsToModify

\* A step of a transaction that goes on, or goes over to its end.
LEMMA OpenMaps ==
  ASSUME IInv0, IInv0', SeenInv, NEW c \in Conn, pc[c] \in OpenPcs,
         \/ pc'[c] \in OpenPcs
         \/ pc'[c] = "finalize" /\ w'.owner = c,
         \A d \in Conn \ {c} : pc'[d] = pc[d], committed' = committed, nTx' = nTx
  PROVE  SeenInv' /\ AbsStep
<1>1. InTx(c)
  BY AtOpen
<1>2. InTx(c)'
  BY OpenNext DEF InTx
<1>3. w'.owner = c
  BY <1>2, TxKnowsNext
<1>4. pc'[c] # "play"
  BY DEF OpenPcs, WritePcs
<1>5. SeenInv'
  BY <1>3, <1>4, SeenStays
<1>. QED
  BY <1>1, <1>2, <1>5, TxModifies

\* The start of a transaction is the Upgrade of the store.
LEMMA PagerBeginMaps ==
  ASSUME IInv0, IInv0', SeenInv, NEW c \in Conn, PagerBegin(c)
  PROVE  SeenInv' /\ AbsStep
<1>1. /\ pc[c] = "reader" /\ \A d \in Conn \ {c} : held[d] < RESERVED_LOCK
      /\ pc' = [pc EXCEPT ![c] = "write"] /\ committed' = committed /\ nTx' = nTx + 1
      /\ w' = [NoWrite EXCEPT !.owner = c, !.state = "locked", !.tx = nTx + 1,
                 !.mem = cache[c].img, !.orig = PagesIn(db)]
  BY DEF PagerBegin, Others, Goto
<1>2. pc \in [Conn -> Pcs] /\ held \in [Conn -> NO_LOCK..EXCLUSIVE_LOCK] /\ NoConn \notin Conn
  BY PagerAssumption DEF IInv0, TypeInv, ConnTypes
<1>3. pc'[c] = "write" /\ \A d \in Conn \ {c} : pc'[d] = pc[d]
  BY <1>1, <1>2
<1>4. w'.owner = c /\ w'.mem = cache[c].img
  BY <1>1 DEF NoWrite
<1>5. w = NoWrite
  <2>1. \A d \in Conn : Active(d) => held[d] >= RESERVED_LOCK
    BY DEF IInv0, ControlInv, LockOf
  <2>2. ~Active(c)
    BY <1>1 DEF Active, WritePcs, EndPcs
  <2>3. \A d \in Conn : ~Active(d)
    BY <2>1, <2>2, <1>1, <1>2 DEF NO_LOCK, EXCLUSIVE_LOCK, RESERVED_LOCK
  <2>. QED
    BY <2>3 DEF IInv0, ControlInv, IdleInv
<1>6. w.owner = NoConn
  BY <1>5 DEF NoWrite
<1>7. Settled /\ Settled'
  <2>1. ~Late(c) /\ pc[c] # "open"
    BY <1>1 DEF Late, LateEndPcs
  <2>2. ~(Late(c)') /\ pc'[c] # "open"
    BY <1>3 DEF Late, LateEndPcs
  <2>. QED
    BY <2>1, <2>2, SettledFor, SettledForNext
<1>8. Newest = committed /\ Upgraded = NoConn /\ Newest' = committed /\ Upgraded' = c
  BY <1>1, <1>4, <1>6, <1>7, SettledMaps, SettledMapsNext
<1>9. OnlySeen(c)
  BY <1>1, <1>2, <1>3, <1>4, <1>6, OthersSee
<1>10. Seen(c) = committed /\ Seen(c)' = committed
  <2>1. Seen(c) = committed
    BY <1>1, SeenAs
  <2>2. cache[c].img = committed /\ committed \in Image
    BY <1>1, Started DEF IInv0, ReadInv, CacheOf
  <2>3. Seen(c)' = [p \in Page |-> w'.mem[p]]
    BY <1>3, <1>4 DEF Seen
  <2>. QED
    BY <2>1, <2>2, <2>3, <1>4 DEF Image
<1>11. SeenInv'
  BY <1>2, <1>3, <1>4, SeenStays
<1>. QED
  BY <1>8, <1>9, <1>10, <1>11, MapsToUpgrade

\* A step of a writer is a Modify of the store or a stutter.
LEMMA WriterMaps ==
  ASSUME IInv0, IInv0', SeenInv, NEW c \in Conn, Writer(c)
  PROVE  SeenInv' /\ AbsStep
<1>1. pc \in [Conn -> Pcs] /\ w \in Locals
  BY DEF IInv0, TypeInv, ConnTypes
<1>. DEFINE Goes(l) == pc' = [pc EXCEPT ![c] = l]
<1>2. ASSUME NEW l \in OpenPcs, Goes(l), pc[c] \in OpenPcs, committed' = committed, nTx' = nTx
      PROVE  SeenInv' /\ AbsStep
  <2>1. pc'[c] = l /\ \A d \in Conn \ {c} : pc'[d] = pc[d]
    BY <1>1, <1>2
  <2>. QED
    BY <2>1, <1>2, OpenMaps
<1>3. CASE OpenSavepoint(c) \/ RollbackTo(c) \/ ExclusiveBusy(c)
           \/ \E p \in Page : Write(c, p) \/ StressWrite(c, p)
  <2>1. pc[c] = "write" /\ pc' = pc /\ committed' = committed /\ nTx' = nTx
    BY <1>3 DEF OpenSavepoint, RollbackTo, ExclusiveBusy, Write, StressWrite, connVars,
                histVars
  <2>2. "write" \in OpenPcs
    BY DEF OpenPcs, WritePcs
  <2>. QED
    BY <2>1, <2>2, OpenMaps
<1>. USE DEF OpenPcs, WritePcs, Goto, histVars
<1>4. CASE CommitPhaseOne(c)
  <2>1. PICK l \in OpenPcs : Goes(l)
    BY <1>4 DEF CommitPhaseOne, SyncJournal
  <2>2. pc[c] \in OpenPcs /\ committed' = committed /\ nTx' = nTx
    BY <1>4 DEF CommitPhaseOne
  <2>. QED
    BY <2>1, <2>2, <1>2
<1>5. CASE \E p \in Page : StressSync(c, p)
  <2>1. PICK l \in OpenPcs : Goes(l)
    BY <1>5 DEF StressSync, SyncJournal
  <2>2. pc[c] \in OpenPcs /\ committed' = committed /\ nTx' = nTx
    BY <1>5 DEF StressSync
  <2>. QED
    BY <2>1, <2>2, <1>2
<1>6. CASE \E p \in Page : WritePage(c, p)
  <2>1. PICK l \in OpenPcs : Goes(l)
    BY <1>6 DEF WritePage
  <2>2. pc[c] \in OpenPcs /\ committed' = committed /\ nTx' = nTx
    BY <1>6 DEF WritePage
  <2>. QED
    BY <2>1, <2>2, <1>2
<1>7. CASE SyncRecords(c)
  BY <1>7, <1>2 DEF SyncRecords
<1>8. CASE WriteRecordCount(c)
  BY <1>8, <1>2 DEF WriteRecordCount
<1>9. CASE SyncHeader(c)
  BY <1>9, <1>2 DEF SyncHeader
<1>10. CASE SyncDatabase(c)
  BY <1>10, <1>2 DEF SyncDatabase
<1>11. CASE CommitPhaseTwo(c)
  <2>1. pc[c] = "finish" /\ Goes("finalize") /\ committed' = committed /\ nTx' = nTx
        /\ w' = [w EXCEPT !.ending = "commit"]
    BY <1>11 DEF CommitPhaseTwo
  <2>2. w.owner = c
    BY <2>1, AtOpen
  <2>3. w'.owner = c
    BY <2>1, <2>2, <1>1 DEF Locals
  <2>4. pc'[c] = "finalize" /\ \A d \in Conn \ {c} : pc'[d] = pc[d]
    BY <2>1, <1>1
  <2>. QED
    BY <2>1, <2>3, <2>4, OpenMaps
<1>12. CASE PagerBegin(c)
  BY <1>12, PagerBeginMaps
<1>. QED
  BY <1>3, <1>4, <1>5, <1>6, <1>7, <1>8, <1>9, <1>10, <1>11, <1>12 DEF Writer

-----------------------------------------------------------------------------
(* The steps of a reader *)

\* In the next state, whoever has the locals is at work.
LEMMA OwnerActiveNext == (\A c \in Conn : IInv0 /\ w.owner = c => Active(c))'
<1>1. \A c \in Conn : IInv0 /\ w.owner = c => Active(c)
  BY OwnerActive DEF IInv0
<1>. QED
  BY <1>1, PTL

\* A connection that neither writes nor recovers, before its step and after it.
LEMMA RestMaps ==
  ASSUME IInv0, IInv0', SeenInv, NEW c \in Conn, NEW l \in RestPcs \cup {"open"},
         pc[c] \in RestPcs \cup {"open"}, pc' = [pc EXCEPT ![c] = l],
         w' = w, committed' = committed, maybe' = maybe, info' = info
  PROVE  /\ SeenInv' /\ OnlySeen(c) /\ Newest' = Newest /\ Upgraded' = Upgraded
         /\ w.owner # c /\ w'.owner # c /\ pc'[c] = l
<1>1. pc'[c] = l /\ \A d \in Conn \ {c} : pc'[d] = pc[d]
  BY DEF IInv0, TypeInv, ConnTypes
<1>2. l \notin WritePcs \cup EndPcs /\ pc[c] \notin WritePcs \cup EndPcs
  BY PcKinds
<1>3. w.owner # c /\ w'.owner # c
  BY <1>2, OwnerActive DEF IInv0, Active
<1>4. SeenInv'
  BY <1>1, <1>3, SeenStays
<1>5. OnlySeen(c)
  BY <1>1, OthersKeep
<1>6. \A k \in {"finalSync", "endTx"} : (\E d \in Conn : pc'[d] = k)
          <=> (\E d \in Conn : pc[d] = k)
  <2>1. l \notin {"finalSync", "endTx"} /\ pc[c] \notin {"finalSync", "endTx"}
    BY <1>2 DEF EndPcs
  <2>. QED
    BY <2>1, <1>1
<1>7. (Finalizing' <=> Finalizing) /\ (Uncertain' <=> Uncertain)
  BY <1>6 DEF Finalizing, Uncertain
<1>8. Newest' = Newest
  BY <1>7 DEF Newest
<1>9. Upgraded' = Upgraded
  <2>1. (\E d \in Conn : pc'[d] = "endTx" /\ w'.ending = "commit")
          <=> (\E d \in Conn : pc[d] = "endTx" /\ w.ending = "commit")
    BY <1>6
  <2>. QED
    BY <2>1 DEF Upgraded
<1>. QED
  BY <1>1, <1>3, <1>4, <1>5, <1>8, <1>9

\* The step is not one from or to reading.
LEMMA UnseenMaps ==
  ASSUME IInv0, IInv0', SeenInv, NEW c \in Conn, NEW l \in RestPcs \cup {"open"},
         pc[c] \in RestPcs \cup {"open"}, pc' = [pc EXCEPT ![c] = l],
         pc[c] # "reader", l # "reader",
         w' = w, committed' = committed, maybe' = maybe, info' = info
  PROVE  SeenInv' /\ AbsStep
<1>1. /\ SeenInv' /\ OnlySeen(c) /\ Newest' = Newest /\ Upgraded' = Upgraded
      /\ w.owner # c /\ w'.owner # c /\ pc'[c] = l
  BY RestMaps
<1>2. Seen(c) = NoImage /\ Seen(c)' = NoImage
  <2>1. Seen(c)' = NoImage'
    BY <1>1, SeenAsNext
  <2>. QED
    BY <2>1, <1>1, SeenAs DEF NoImage
<1>. QED
  BY <1>1, <1>2, MapsToStutter

\* The end of sqlite3PagerSharedLock is the Begin of the store.
LEMMA ValidateMaps ==
  ASSUME IInv0, IInv0', SeenInv, NEW c \in Conn, Validate(c)
  PROVE  SeenInv' /\ AbsStep
<1>1. /\ pc[c] = "validate" /\ pc' = [pc EXCEPT ![c] = "reader"] /\ w' = w
      /\ committed' = committed /\ maybe' = maybe /\ info' = info
  BY DEF Validate, Goto, histVars
<1>2. "reader" \in RestPcs /\ "validate" \in RestPcs
  BY DEF RestPcs
<1>3. /\ SeenInv' /\ OnlySeen(c) /\ Newest' = Newest /\ Upgraded' = Upgraded
      /\ w.owner # c /\ w'.owner # c /\ pc'[c] = "reader"
  <2>1. PICK l \in RestPcs \cup {"open"} : l = "reader" /\ pc' = [pc EXCEPT ![c] = l]
    BY <1>1, <1>2
  <2>2. pc[c] \in RestPcs \cup {"open"}
    BY <1>1, <1>2
  <2>3. /\ SeenInv' /\ OnlySeen(c) /\ Newest' = Newest /\ Upgraded' = Upgraded
        /\ w.owner # c /\ w'.owner # c /\ pc'[c] = l
    BY <2>1, <2>2, <1>1, RestMaps
  <2>. QED
    BY <2>1, <2>3
<1>4. Newest = committed
  <2>1. ~Late(c) /\ pc[c] # "open"
    BY <1>1 DEF Late, LateEndPcs
  <2>. QED
    BY <2>1, SettledFor, SettledMaps
<1>5. Seen(c) = NoImage /\ Seen(c)' = committed
  BY <1>1, <1>3, SeenAs, SeenAsNext
<1>. QED
  BY <1>3, <1>4, <1>5, MapsToBegin

\* The committed image has a page.
LEMMA ImageThere ==
  ASSUME IInv0
  PROVE  committed # NoImage
<1>1. Prefix(committed, SizeOf(committed)) /\ 1 \in Page
  BY Started, PagerAssumption DEF Page
<1>2. committed[1] # Absent
  BY <1>1, PagerAssumption DEF Prefix, Page
<1>. QED
  BY <1>1, <1>2 DEF NoImage

\* The end of a read is the End of the store.
LEMMA UnlockMaps ==
  ASSUME IInv0, IInv0', SeenInv, NEW c \in Conn, Unlock(c)
  PROVE  SeenInv' /\ AbsStep
<1>1. /\ pc[c] = "reader" /\ pc' = [pc EXCEPT ![c] = "open"] /\ w' = w
      /\ committed' = committed /\ maybe' = maybe /\ info' = info
  BY DEF Unlock, Goto, histVars
<1>2. "reader" \in RestPcs
  BY DEF RestPcs
<1>3. /\ SeenInv' /\ OnlySeen(c) /\ Newest' = Newest /\ Upgraded' = Upgraded
      /\ w.owner # c /\ w'.owner # c /\ pc'[c] = "open"
  <2>1. PICK l \in RestPcs \cup {"open"} : l = "open" /\ pc' = [pc EXCEPT ![c] = l]
    BY <1>1, <1>2
  <2>2. pc[c] \in RestPcs \cup {"open"}
    BY <1>1, <1>2
  <2>3. /\ SeenInv' /\ OnlySeen(c) /\ Newest' = Newest /\ Upgraded' = Upgraded
        /\ w.owner # c /\ w'.owner # c /\ pc'[c] = l
    BY <2>1, <2>2, <1>1, RestMaps
  <2>. QED
    BY <2>1, <2>3
<1>4. Upgraded # c
  <2>1. ~Late(c) /\ pc[c] # "open"
    BY <1>1 DEF Late, LateEndPcs
  <2>. QED
    BY <2>1, <1>3, SettledFor, SettledMaps
<1>5. Seen(c) # NoImage /\ Seen(c)' = NoImage
  <2>1. Seen(c)' = NoImage'
    BY <1>3, SeenAsNext
  <2>. QED
    BY <2>1, <1>1, SeenAs, ImageThere DEF NoImage
<1>. QED
  BY <1>3, <1>4, <1>5, MapsToEnd

\* The start of a recovery is a stutter of the store.
LEMMA HotPlaybackMaps ==
  ASSUME IInv0, IInv0', SeenInv, NEW c \in Conn, HotPlayback(c)
  PROVE  SeenInv' /\ AbsStep
<1>1. /\ pc[c] = "exclusive" /\ \A d \in Conn \ {c} : held[d] = NO_LOCK
      /\ pc' = [pc EXCEPT ![c] = "play"]
      /\ w'.owner = NoConn /\ w'.ending = "hot" /\ committed' = committed
  BY DEF HotPlayback, Excludable, Others, Goto, histVars, NoWrite
<1>2. pc'[c] = "play" /\ NoConn \notin Conn /\ \A d \in Conn \ {c} : pc'[d] = pc[d]
  BY <1>1, PagerAssumption DEF IInv0, TypeInv, ConnTypes
<1>3. \A d \in Conn : ~Active(d)
  <2>1. ~Active(c)
    BY <1>1 DEF Active, WritePcs, EndPcs
  <2>2. \A d \in Conn : Active(d) => held[d] >= RESERVED_LOCK
    BY DEF IInv0, ControlInv, LockOf
  <2>. QED
    BY <2>1, <2>2, <1>1 DEF NO_LOCK, RESERVED_LOCK
<1>4. w.owner = NoConn
  BY <1>3 DEF IInv0, ControlInv, IdleInv, NoWrite
<1>5. Settled /\ Settled'
  <2>1. Settled
    BY <1>3, LateActive DEF Settled
  <2>2. Settled'
    BY <1>1 DEF Settled, Late
  <2>. QED
    BY <2>1, <2>2
<1>6. Newest' = Newest /\ Upgraded' = Upgraded
  BY <1>1, <1>4, <1>5, SettledMaps, SettledMapsNext
<1>7. OnlySeen(c)
  BY <1>1, <1>2, <1>4, OthersSee
<1>8. Seen(c)' = Seen(c)
  <2>1. Seen(c)' = NoImage'
    BY <1>1, <1>2, SeenAsNext
  <2>. QED
    BY <2>1, <1>1, <1>2, <1>4, SeenAs DEF NoImage
<1>9. SeenInv'
  BY <1>1, <1>2, SeenStays
<1>. QED
  BY <1>6, <1>7, <1>8, <1>9, MapsToStutter

\* A step of a reader is a step of the store or a stutter.
LEMMA ReaderMaps ==
  ASSUME IInv0, IInv0', SeenInv, NEW c \in Conn, Reader(c)
  PROVE  SeenInv' /\ AbsStep
<1>. DEFINE Moves(l) == /\ pc' = [pc EXCEPT ![c] = l] /\ w' = w /\ committed' = committed
                        /\ maybe' = maybe /\ info' = info
<1>. DEFINE Unread == (RestPcs \cup {"open"}) \ {"reader"}
<1>1. ASSUME NEW l \in Unread, Moves(l), pc[c] \in Unread PROVE SeenInv' /\ AbsStep
  BY <1>1, UnseenMaps
<1>2. {"open", "exists", "reserved", "first", "exclusive", "validate"} \subseteq Unread
  BY DEF RestPcs
<1>3. CASE SharedLock(c) \/ JournalExists(c) \/ CheckReserved(c) \/ ReadFirstByte(c)
           \/ HotBusy(c) \/ HotGone(c)
  <2>1. /\ pc[c] \in {"open", "exists", "reserved", "first", "exclusive", "validate"}
        /\ w' = w /\ committed' = committed /\ maybe' = maybe /\ info' = info
    BY <1>3 DEF SharedLock, JournalExists, CheckReserved, ReadFirstByte, HotBusy, HotGone,
                histVars
  <2>2. \E l \in {"open", "exists", "reserved", "first", "exclusive", "validate"} :
          pc' = [pc EXCEPT ![c] = l]
    BY <1>3 DEF SharedLock, JournalExists, CheckReserved, ReadFirstByte, HotBusy, HotGone, Goto
  <2>. HIDE DEF Unread
  <2>3. PICK l \in Unread : pc' = [pc EXCEPT ![c] = l]
    BY <2>2, <1>2
  <2>4. pc[c] \in Unread
    BY <2>1, <1>2
  <2>. QED
    BY <2>1, <2>3, <2>4, <1>1
<1>. QED
  BY <1>3, ValidateMaps, UnlockMaps, HotPlaybackMaps DEF Reader

-----------------------------------------------------------------------------
(* A rollback *)

\* Beside the connection at work no other has the locals or a commit to give
\* the lock back for.
LEMMA OthersIdle ==
  \A c \in Conn : IInv0 /\ Active(c) =>
    \A d \in Conn \ {c} : w.owner # d /\ pc[d] \notin LateEndPcs
<1>. SUFFICES ASSUME NEW c \in Conn, IInv0, Active(c), NEW d \in Conn \ {c}
              PROVE  w.owner # d /\ pc[d] \notin LateEndPcs
  OBVIOUS
<1>1. ~Active(d)
  BY OneActive DEF IInv0, TypeInv
<1>2. w.owner # d
  BY <1>1, OwnerActive DEF IInv0
<1>. QED
  BY <1>1, <1>2 DEF Active, EndPcs, LateEndPcs

\* The end of a transaction that has changed nothing is the Abort of the store.
LEMMA RollbackNothingMaps ==
  ASSUME IInv0, IInv0', SeenInv, NEW c \in Conn, RollbackNothing(c)
  PROVE  SeenInv' /\ AbsStep
<1>1. /\ pc[c] = "write" /\ w.owner = c /\ pc' = [pc EXCEPT ![c] = "reader"]
      /\ w' = NoWrite /\ committed' = committed
  BY DEF RollbackNothing, Goto, histVars
<1>2. pc'[c] = "reader" /\ \A d \in Conn \ {c} : pc'[d] = pc[d]
  BY <1>1 DEF IInv0, TypeInv, ConnTypes
<1>3. w'.owner = NoConn /\ w'.ending = "none" /\ NoConn \notin Conn
  BY <1>1, PagerAssumption DEF NoWrite
<1>4. Settled /\ Settled'
  <2>1. ~Late(c) /\ pc[c] # "open"
    BY <1>1 DEF Late, LateEndPcs
  <2>2. Settled'
    BY <1>3 DEF Settled, Late
  <2>. QED
    BY <2>1, <2>2, SettledFor
<1>5. Newest = committed /\ Upgraded = c /\ Newest' = committed /\ Upgraded' = NoConn
  BY <1>1, <1>3, <1>4, SettledMaps, SettledMapsNext
<1>6. OnlySeen(c)
  BY <1>1, <1>2, <1>3, OthersSee
<1>7. Seen(c)' = committed
  BY <1>1, <1>2, SeenAsNext
<1>8. SeenInv'
  BY <1>2, <1>3, SeenStays
<1>. QED
  BY <1>5, <1>6, <1>7, <1>8, MapsToAbort

\* The start of a rollback changes what its connection sees to pages of the
\* committed image and its own.
LEMMA RollbackMaps ==
  ASSUME IInv0, IInv0', SeenInv, NEW c \in Conn, Rollback(c)
  PROVE  SeenInv' /\ AbsStep
<1>. DEFINE n == SizeOf(committed)
<1>1. /\ pc[c] \in {"write", "finish"} /\ pc' = [pc EXCEPT ![c] = "play"]
      /\ committed' = committed /\ nTx' = nTx /\ info' = info
  BY DEF Rollback, Goto, histVars
<1>2. PICK inCache \in {w.dirty, Page} :
        w' = [w EXCEPT !.ending = "rollback", !.inCache = inCache,
               !.mem = [p \in Page |-> IF p > w.orig THEN Absent ELSE @[p]]]
  BY DEF Rollback
<1>3. pc[c] \in OpenPcs
  BY <1>1 DEF OpenPcs, WritePcs
<1>4. InTx(c) /\ w.owner = c /\ TxOk(pc[c], w, db, jr, committed, n)
  BY <1>3, AtOpen
<1>5. w \in Locals /\ n \in Nat /\ w.orig \in Nat
  BY LocalsHave, Started, PagerAssumption DEF IInv0, TypeInv
<1>6. /\ w'.owner = c /\ w'.tx = w.tx
      /\ w'.mem = [p \in Page |-> IF p > w.orig THEN Absent ELSE w.mem[p]]
  BY <1>2, <1>4, <1>5 DEF Locals
<1>7. pc'[c] = "play" /\ \A d \in Conn \ {c} : pc'[d] = pc[d]
  BY <1>1 DEF IInv0, TypeInv, ConnTypes
<1>8. InTx(c)'
  BY <1>6, <1>7 DEF InTx
<1>9. SeenInv'
  <2>. SUFFICES ASSUME NEW p \in Page, p <= SizeOf(committed)'
                PROVE  w'.mem[p] = committed[p] \/ w'.mem[p] \in Own(w.tx)
    BY <1>1, <1>6 DEF SeenInv, Own
  <2>1. SizeOf(committed)' = n
    BY <1>1 DEF SizeOf, InfoOf
  <2>2. w.orig >= n /\ MemOk(pc[c], w, db, committed, n)
    BY <1>4 DEF TxOk
  <2>3. w'.mem[p] = w.mem[p]
    BY <2>1, <2>2, <1>5, <1>6, PagerAssumption DEF Page
  <2>. QED
    BY <2>2, <2>3, <1>3 DEF MemOk
<1>. QED
  BY <1>1, <1>4, <1>7, <1>8, <1>9, TxModifies

\* Steps that no connection can see, of one that works and has not committed.
LEMMA HiddenMaps ==
  ASSUME IInv0, IInv0', SeenInv, NEW c \in Conn, Active(c), Active(c)', w.ending # "commit",
         w'.ending = w.ending, w'.owner = w.owner, committed' = committed,
         \A d \in Conn \ {c} : pc'[d] = pc[d],
         \/ w.owner = NoConn
         \/ w' = w /\ pc[c] # "play" /\ pc'[c] # "play"
  PROVE  SeenInv' /\ AbsStep
<1>1. Settled /\ Settled'
  BY DEF Settled, Late
<1>2. Newest' = Newest /\ Upgraded' = Upgraded
  BY <1>1, SettledMaps, SettledMapsNext
<1>3. \A d \in Conn \ {c} : w.owner # d
  BY OthersIdle
<1>4. OnlySeen(c)
  BY <1>3, OthersSee
<1>5. pc[c] # "reader" /\ pc'[c] # "reader" /\ NoConn \notin Conn
  BY PagerAssumption DEF Active, WritePcs, EndPcs
<1>6. Seen(c)' = Seen(c)
  <2>1. CASE w.owner = NoConn
    <3>1. Seen(c) = NoImage /\ Seen(c)' = NoImage'
      BY <2>1, <1>5, SeenAs, SeenAsNext
    <3>. QED
      BY <3>1 DEF NoImage
  <2>2. CASE w' = w /\ pc[c] # "play" /\ pc'[c] # "play"
    BY <2>2, <1>5 DEF Seen
  <2>. QED
    BY <2>1, <2>2
<1>7. SeenInv'
  BY <1>3, <1>5, SeenStays
<1>. QED
  BY <1>2, <1>4, <1>6, <1>7, MapsToStutter

\* A record that a rollback plays back leaves SeenInv true.
LEMMA RollbackPageSeen ==
  ASSUME IInv0, SeenInv, NEW c \in Conn, PlayPage(c), w.ending = "rollback"
  PROVE  SeenInv'
<1>. DEFINE m == committed
            n == SizeOf(committed)
<1>1. pc[c] = "play" /\ pc' = pc /\ committed' = committed /\ info' = info
  BY DEF PlayPage, connVars, histVars
<1>2. InTx(c) /\ TxOfInv(c) /\ w \in Locals /\ w.owner = c /\ w.state # "locked"
  BY <1>1, AtPlay DEF IInv0, WorkInv
<1>3. JournalOk("play", w, jr, m, n) /\ PlayOk(w, db, jr, m, n, todo)
  BY <1>1, <1>2 DEF TxOfInv, TxOk
<1>4. SlotsOk(w, jr, m, n) /\ todo \subseteq RecordsOf(w, jr)
  BY <1>2, <1>3 DEF JournalOk, PlayOk
<1>5. DbTypes /\ jr \in Seq(Slot) /\ n \in Nat
  BY <1>4, Started DEF IInv0, TypeInv, JrTypes, Journals, SlotsOk
<1>6. \A i \in todo : i \in 1..Len(jr) /\ jr[i].kind = "rec"
  <2>1. todo \subseteq DOMAIN jr
    BY <1>4 DEF IInv0, TypeInv, SlotsOf, SlotsOk
  <2>. QED
    BY <2>1, <1>4, <1>5 DEF RecordsOf
<1>7. PICK i \in todo : Played(i)
  BY <1>2, <1>5, <1>6, PlayPageDoes
<1>8. OwnSlot(w, jr[i], m, n) /\ jr[i].kind = "rec"
  BY <1>4 DEF SlotsOk, RecordsOf
<1>. SUFFICES ASSUME NEW p \in Page, p <= SizeOf(committed)'
              PROVE  w'.mem[p] = m[p] \/ w'.mem[p] \in Own(w.tx)
  BY <1>1, <1>7 DEF SeenInv, Own, Played
<1>9. SizeOf(committed)' = n
  BY <1>1 DEF SizeOf, InfoOf
<1>10. w.mem[p] = m[p] \/ w.mem[p] \in Own(w.tx)
  BY <1>1, <1>2, <1>9 DEF SeenInv
<1>11. p = jr[i].pg => jr[i].data = m[p]
  BY <1>8, <1>9 DEF OwnSlot
<1>. QED
  BY <1>7, <1>10, <1>11 DEF Played

\* Playing a record back is a Modify of the store or a stutter.
LEMMA PlayPageMaps ==
  ASSUME IInv0, IInv0', SeenInv, NEW c \in Conn, PlayPage(c)
  PROVE  SeenInv' /\ AbsStep
<1>1. /\ pc[c] = "play" /\ pc' = pc /\ committed' = committed /\ nTx' = nTx
      /\ \/ w' = w
         \/ \E p, x : w' = [w EXCEPT !.mem[p] = x]
  BY DEF PlayPage, connVars, histVars
<1>2. w \in Locals /\ Active(c) /\ w.ending \in {"commit", "rollback", "hot"}
      /\ (w.ending = "hot" => w.owner = NoConn) /\ (w.ending # "hot" => InTx(c) /\ w.owner = c)
  BY <1>1, AtPlay
<1>3. w'.owner = w.owner /\ w'.ending = w.ending
  BY <1>1, <1>2 DEF Locals
<1>4. w.ending # "commit"
  BY <1>1, <1>2 DEF IInv0, ControlInv, OwnerOf
<1>5. CASE w.ending = "hot"
  <2>1. Active(c)'
    BY <1>1, <1>2 DEF Active
  <2>. QED
    BY <2>1, <1>1, <1>2, <1>3, <1>5, HiddenMaps
<1>6. CASE w.ending = "rollback"
  <2>1. SeenInv'
    BY <1>6, RollbackPageSeen
  <2>2. InTx(c) /\ InTx(c)'
    BY <1>1, <1>2, <1>3, <1>6 DEF InTx
  <2>. QED
    BY <2>1, <2>2, <1>1, TxModifies
<1>. QED
  BY <1>2, <1>4, <1>5, <1>6

\* The sync at the end of a playback is a Modify of the store or a stutter.
LEMMA PlaySyncMaps ==
  ASSUME IInv0, IInv0', SeenInv, NEW c \in Conn, PlaySync(c)
  PROVE  SeenInv' /\ AbsStep
<1>1. /\ pc[c] = "play" /\ pc' = [pc EXCEPT ![c] = "finalize"]
      /\ committed' = committed /\ nTx' = nTx
      /\ w' = IF w.ending = "hot" THEN w
              ELSE [w EXCEPT !.mem = [p \in Page |->
                      IF p > InfoOf(db[1]).size THEN Absent
                      ELSE IF p \in w.inCache THEN @[p] ELSE db[p]]]
  BY DEF PlaySync, Goto, histVars
<1>2. w \in Locals /\ Active(c) /\ w.ending \in {"commit", "rollback", "hot"}
      /\ (w.ending = "hot" => w.owner = NoConn) /\ (w.ending # "hot" => InTx(c) /\ w.owner = c)
  BY <1>1, AtPlay
<1>3. pc'[c] = "finalize" /\ \A d \in Conn \ {c} : pc'[d] = pc[d]
  BY <1>1 DEF IInv0, TypeInv, ConnTypes
<1>4. w.ending # "commit"
  BY <1>1, <1>2 DEF IInv0, ControlInv, OwnerOf
<1>5. CASE w.ending = "hot"
  <2>1. Active(c)' /\ w' = w
    BY <1>1, <1>3, <1>5 DEF Active, EndPcs
  <2>. QED
    BY <2>1, <1>1, <1>2, <1>3, <1>5, HiddenMaps
<1>6. CASE w.ending = "rollback"
  <2>1. \E x : w' = [w EXCEPT !.mem = x]
    BY <1>1, <1>6
  <2>2. w'.owner = c
    BY <2>1, <1>2, <1>6 DEF Locals
  <2>3. SeenInv'
    BY <2>2, <1>3, SeenStays
  <2>4. InTx(c) /\ InTx(c)'
    BY <2>2, <1>2, <1>3, <1>6 DEF InTx
  <2>. QED
    BY <2>3, <2>4, <1>1, <1>3, TxModifies
<1>. QED
  BY <1>2, <1>4, <1>5, <1>6

-----------------------------------------------------------------------------
(* The end of a transaction *)

\* The other one of two images.
LEMMA TwoImages ==
  ASSUME NEW a, NEW b
  PROVE  /\ Cardinality({a, b}) = 2 <=> a # b
         /\ a # b => (CHOOSE m \in {a, b} : m # b) = a
<1>1. Cardinality({a}) = 1 /\ IsFiniteSet({a})
  BY FS_Singleton
<1>2. CASE a = b
  <2>1. {a, b} = {a}
    BY <1>2
  <2>. QED
    BY <2>1, <1>1, <1>2
<1>3. CASE a # b
  <2>1. {a, b} = {a} \cup {b} /\ b \notin {a}
    BY <1>3
  <2>2. Cardinality({a} \cup {b}) = Cardinality({a}) + 1
    BY <2>1, <1>1, FS_AddElement
  <2>3. \A m \in {a, b} : m # b => m = a
    OBVIOUS
  <2>4. (CHOOSE m \in {a, b} : m # b) = a
    BY <2>3, <1>3
  <2>. QED
    BY <2>1, <2>2, <2>4, <1>1
<1>. QED
  BY <1>2, <1>3

\* Finalising the journal is the Commit or the Abort of the store, unless a
\* commit waits for the sync of the directory.
LEMMA FinalizeMaps ==
  ASSUME IInv0, IInv0', SeenInv, NEW c \in Conn, Finalize(c)
  PROVE  SeenInv' /\ AbsStep
<1>1. /\ pc[c] = "finalize" /\ w' = w
      /\ \E l \in LateEndPcs : pc' = [pc EXCEPT ![c] = l]
      /\ w.ending = "commit" => committed' = w.mem /\ maybe' = {committed, w.mem}
      /\ w.ending # "commit" => committed' = committed
  BY DEF Finalize, Goto, LateEndPcs
<1>2. pc'[c] \in LateEndPcs /\ \A d \in Conn \ {c} : pc'[d] = pc[d]
  BY <1>1 DEF IInv0, TypeInv, ConnTypes
<1>3. Active(c) /\ Active(c)'
  BY <1>1, <1>2 DEF Active, EndPcs, LateEndPcs
<1>4. CASE w.ending # "commit"
  BY <1>1, <1>2, <1>3, <1>4, HiddenMaps DEF LateEndPcs
<1>5. CASE w.ending = "commit"
  <2>1. w.owner = c /\ w \in Locals /\ NoConn \notin Conn /\ held[c] = EXCLUSIVE_LOCK
    <3>1. OwnerOf(c) /\ LockOf(c) /\ NoConn \notin Conn
      BY PagerAssumption DEF IInv0, ControlInv
    <3>2. w.owner = c /\ w.state = "dbmod"
      BY <3>1, <1>3, <1>5 DEF OwnerOf
    <3>. QED
      BY <3>1, <3>2, <1>1 DEF LockOf, EndPcs, IInv0, TypeInv
  <2>2. \A d \in Conn \ {c} : pc[d] = "open" /\ w.owner # d
    BY <2>1, AloneExclusive DEF IInv0
  <2>3. OnlySeen(c)
    BY <2>1, <2>2, <1>1, <1>2, OthersSee
  <2>4. w.mem \in Image
    BY <2>1, LocalsHave
  <2>5. Seen(c) = w.mem /\ Seen(c)' = w.mem
    <3>1. Seen(c) = [p \in Page |-> w.mem[p]]
      BY <2>1, <1>1 DEF Seen
    <3>2. pc'[c] # "reader" /\ pc'[c] # "play" /\ w'.owner = c
      BY <2>1, <1>1, <1>2 DEF LateEndPcs
    <3>3. Seen(c)' = [p \in Page |-> w.mem[p]]
      BY <3>2, <1>1 DEF Seen
    <3>. QED
      BY <3>1, <3>3, <2>4 DEF Image
  <2>6. Newest = committed /\ Upgraded = c
    <3>1. ~Late(c) /\ pc[c] # "open"
      BY <1>1 DEF Late, LateEndPcs
    <3>. QED
      BY <3>1, <2>1, SettledFor, SettledMaps
  <2>7. SeenInv'
    BY <2>1, <2>2, <1>1, <1>2, SeenStays DEF LateEndPcs
  <2>8. CASE pc'[c] = "endTx"
    <3>1. \A d \in Conn : pc'[d] # "finalSync"
      BY <2>2, <2>8, <1>2
    <3>2. Newest' = w.mem
      BY <3>1, <1>1, <1>5 DEF Newest, Finalizing
    <3>3. Upgraded' = NoConn
      BY <2>8, <1>1, <1>5 DEF Upgraded
    <3>. QED
      BY <3>2, <3>3, <2>3, <2>5, <2>6, <2>7, MapsToCommit
  <2>9. CASE pc'[c] = "finalSync"
    <3>1. \A d \in Conn : pc'[d] # "endTx"
      BY <2>2, <2>9, <1>2
    <3>2. Upgraded' = c
      BY <3>1, <2>1, <1>1 DEF Upgraded
    <3>3. committed # w.mem
      <4>1. CtrOf(w.mem) = CtrOf(committed) + 1
        BY <1>1, <1>5, CommitImage
      <4>2. CtrOf(committed) \in Nat
        BY Started
      <4>. QED
        BY <4>1, <4>2
    <3>4. Uncertain' /\ Finalizing'
      <4>1. PICK a, b : a = committed /\ b = w.mem
        OBVIOUS
      <4>2. Cardinality({a, b}) = 2
        BY <3>3, <4>1, TwoImages
      <4>3. maybe' = {a, b}
        BY <4>1, <1>1, <1>5
      <4>4. Uncertain'
        BY <4>2, <4>3 DEF Uncertain
      <4>5. Finalizing'
        BY <2>9, <1>1, <1>5 DEF Finalizing
      <4>. QED
        BY <4>4, <4>5
    <3>5. Newest' = CHOOSE m \in {committed, w.mem} : m # w.mem
      BY <3>4, <1>1, <1>5 DEF Newest
    <3>6. Newest' = committed
      BY <3>3, <3>5, TwoImages
    <3>. QED
      BY <3>2, <3>6, <2>3, <2>5, <2>6, <2>7, MapsToStutter
  <2>. QED
    BY <2>8, <2>9, <1>2 DEF LateEndPcs
<1>. QED
  BY <1>4, <1>5

\* What a commit that is made looks like, and to whom.
LEMMA LateSees ==
  ASSUME IInv0, NEW c \in Conn, Late(c)
  PROVE  /\ Seen(c) = committed /\ \A d \in Conn \ {c} : w.owner # d /\ Seen(d) = NoImage
         /\ pc[c] = "endTx" => Newest = committed /\ Upgraded = NoConn
         /\ pc[c] = "finalSync" => Upgraded = c
<1>1. /\ w.owner = c /\ w.mem = committed /\ Active(c)
      /\ \A d \in Conn \ {c} : pc[d] = "open"
  BY LateAlone
<1>2. pc[c] \in {"finalSync", "endTx"} /\ w.ending = "commit"
  BY DEF Late, LateEndPcs
<1>3. Seen(c) = committed
  <2>1. Seen(c) = [p \in Page |-> w.mem[p]]
    BY <1>1, <1>2 DEF Seen
  <2>2. committed \in Image
    BY Started
  <2>. QED
    BY <2>1, <2>2, <1>1 DEF Image
<1>4. \A d \in Conn \ {c} : w.owner # d /\ Seen(d) = NoImage
  BY <1>1, SeenAs
<1>5. pc[c] = "endTx" => Newest = committed /\ Upgraded = NoConn
  BY <1>1, <1>2 DEF Newest, Finalizing, Upgraded
<1>6. pc[c] = "finalSync" => Upgraded = c
  BY <1>1, <1>2 DEF Upgraded
<1>. QED
  BY <1>3, <1>4, <1>5, <1>6

\* The sync after the journal is finalised is a step of the store.
LEMMA FinalSyncMaps ==
  ASSUME IInv0, IInv0', SeenInv, NEW c \in Conn, FinalSync(c)
  PROVE  SeenInv' /\ AbsStep
<1>1. /\ pc[c] = "finalSync" /\ w' = w /\ pc' = [pc EXCEPT ![c] = "endTx"]
      /\ committed' = committed
  BY DEF FinalSync, Goto
<1>2. pc'[c] = "endTx" /\ \A d \in Conn \ {c} : pc'[d] = pc[d]
  BY <1>1 DEF IInv0, TypeInv, ConnTypes
<1>3. Active(c) /\ Active(c)'
  BY <1>1, <1>2 DEF Active, EndPcs
<1>4. CASE w.ending # "commit"
  BY <1>1, <1>2, <1>3, <1>4, HiddenMaps
<1>5. CASE w.ending = "commit"
  <2>1. Late(c) /\ Late(c)'
    BY <1>1, <1>2, <1>5 DEF Late, LateEndPcs
  <2>2. /\ Seen(c) = committed /\ \A d \in Conn \ {c} : w.owner # d
        /\ Upgraded = c /\ \A d \in Conn \ {c} : pc[d] = "open"
    BY <2>1, <1>1, LateSees, LateAlone
  <2>3. OnlySeen(c)
    BY <2>2, <1>1, <1>2, OthersSee
  <2>4. Seen(c)' = Seen(c)
    <3>1. w.owner = c
      BY <2>1, LateAlone
    <3>. QED
      BY <3>1, <1>1, <1>2 DEF Seen
  <2>5. Newest' = committed /\ Upgraded' = NoConn
    <3>1. \A d \in Conn : pc'[d] # "finalSync"
      BY <2>2, <1>2
    <3>2. Newest' = committed
      BY <3>1, <1>1 DEF Newest, Finalizing
    <3>3. Upgraded' = NoConn
      BY <1>1, <1>2, <1>5 DEF Upgraded
    <3>. QED
      BY <3>2, <3>3
  <2>6. SeenInv'
    BY <2>2, <1>1, <1>2, SeenStays
  <2>. QED
    BY <2>2, <2>3, <2>4, <2>5, <2>6, MapsToCommit
<1>. QED
  BY <1>4, <1>5

\* Giving the lock back is a step of the store or a stutter.
LEMMA EndTransactionMaps ==
  ASSUME IInv0, IInv0', SeenInv, NEW c \in Conn, EndTransaction(c)
  PROVE  SeenInv' /\ AbsStep
<1>1. /\ pc[c] = "endTx" /\ w' = NoWrite /\ committed' = committed
      /\ pc' = [pc EXCEPT ![c] = IF w.ending = "hot" THEN "validate" ELSE "reader"]
  BY DEF EndTransaction, Goto, histVars
<1>2. /\ pc'[c] = IF w.ending = "hot" THEN "validate" ELSE "reader"
      /\ \A d \in Conn \ {c} : pc'[d] = pc[d]
  BY <1>1 DEF IInv0, TypeInv, ConnTypes
<1>3. w'.owner = NoConn /\ w'.ending = "none" /\ NoConn \notin Conn
  BY <1>1, PagerAssumption DEF NoWrite
<1>4. Active(c) /\ OwnerOf(c) /\ w \in Locals
  BY <1>1 DEF Active, EndPcs, IInv0, ControlInv, TypeInv
<1>5. /\ w.owner = IF w.ending = "hot" THEN NoConn ELSE c
      /\ w.ending \in {"commit", "rollback", "hot"}
  <2>1. w.ending # "none" /\ w.ending \in Endings
    BY <1>1, <1>4, LocalsHave DEF OwnerOf
  <2>. QED
    BY <2>1, <1>4 DEF OwnerOf, Endings
<1>6. \A d \in Conn \ {c} : w.owner # d
  BY <1>4, OthersIdle
<1>7. OnlySeen(c)
  BY <1>1, <1>2, <1>3, <1>6, OthersSee
<1>8. SeenInv'
  BY <1>2, <1>3, SeenStays
<1>9. Newest' = committed /\ Upgraded' = NoConn
  <2>1. Settled'
    BY <1>3 DEF Settled, Late
  <2>. QED
    BY <2>1, <1>1, <1>3, SettledMapsNext
<1>10. w.ending # "hot" => Seen(c)' = committed
  BY <1>1, <1>2, SeenAsNext
<1>11. w.ending # "commit" => Newest = committed /\ Upgraded = w.owner
  <2>. SUFFICES ASSUME w.ending # "commit" PROVE Newest = committed /\ Upgraded = w.owner
    OBVIOUS
  <2>1. Settled
    BY DEF Settled, Late
  <2>. QED
    BY <2>1, SettledMaps
<1>12. CASE w.ending = "commit"
  <2>1. Late(c)
    BY <1>1, <1>12 DEF Late, LateEndPcs
  <2>2. Seen(c) = committed /\ Newest = committed /\ Upgraded = NoConn
    BY <2>1, <1>1, LateSees
  <2>. QED
    BY <2>2, <1>7, <1>8, <1>9, <1>10, <1>12, MapsToStutter
<1>13. CASE w.ending = "rollback"
  BY <1>5, <1>7, <1>8, <1>9, <1>10, <1>11, <1>13, MapsToAbort
<1>14. CASE w.ending = "hot"
  <2>1. Seen(c) = NoImage /\ Seen(c)' = NoImage'
    BY <1>1, <1>2, <1>3, <1>5, <1>14, SeenAs, SeenAsNext
  <2>2. Seen(c)' = Seen(c)
    BY <2>1 DEF NoImage
  <2>. QED
    BY <2>2, <1>5, <1>7, <1>8, <1>9, <1>11, <1>14, MapsToStutter
<1>. QED
  BY <1>5, <1>12, <1>13, <1>14

\* A step of the end of a transaction is a step of the store or a stutter.
LEMMA EndingMaps ==
  ASSUME IInv0, IInv0', SeenInv, NEW c \in Conn, Ending(c)
  PROVE  SeenInv' /\ AbsStep
BY RollbackNothingMaps, RollbackMaps, PlayPageMaps, PlaySyncMaps, FinalizeMaps,
   FinalSyncMaps, EndTransactionMaps DEF Ending

-----------------------------------------------------------------------------
(* The failures *)

\* The death of a process is the Vanish of one connection.
LEMMA DieMaps ==
  ASSUME IInv0, IInv0', SeenInv, NEW c \in Conn, Die(c)
  PROVE  SeenInv' /\ AbsStep
<1>1. /\ pc[c] # "open" /\ pc' = [pc EXCEPT ![c] = "open"] /\ committed' = committed
      /\ maybe' = maybe /\ info' = info
      /\ w' = IF Working(c) THEN NoWrite ELSE w
  BY DEF Die, Goto, histVars
<1>2. pc'[c] = "open" /\ \A d \in Conn \ {c} : pc'[d] = pc[d]
  BY <1>1 DEF IInv0, TypeInv, ConnTypes
<1>3. NoWrite.owner = NoConn /\ NoWrite.ending = "none" /\ NoConn \notin Conn
  BY PagerAssumption DEF NoWrite
<1>4. Active(c) => w' = NoWrite /\ \A d \in Conn \ {c} : w.owner # d
  BY <1>1, WorkingActive, OthersIdle DEF IInv0
<1>5. ~Active(c) => w' = w /\ w.owner # c
  BY <1>1, WorkingActive, OwnerActive DEF IInv0
<1>6. OnlySeen(c)
  <2>1. CASE Active(c)
    BY <2>1, <1>1, <1>2, <1>3, <1>4, OthersSee
  <2>2. CASE ~Active(c)
    BY <2>2, <1>1, <1>2, <1>5, OthersKeep
  <2>. QED
    BY <2>1, <2>2
<1>7. w'.owner # c /\ w'.owner = IF w.owner = c THEN NoConn ELSE w.owner
  <2>1. Active(c) => w.owner = IF w.ending = "hot" THEN NoConn ELSE c
    BY DEF IInv0, ControlInv, OwnerOf
  <2>. QED
    BY <2>1, <1>3, <1>4, <1>5
<1>8. Seen(c)' = NoImage
  <2>1. Seen(c)' = NoImage'
    BY <1>2, <1>7, SeenAsNext
  <2>. QED
    BY <2>1 DEF NoImage
<1>9. SeenInv'
  BY <1>1, <1>2, <1>3, <1>4, <1>5, SeenStays
<1>10. Settled'
  <2>1. CASE Active(c)
    BY <2>1, <1>3, <1>4 DEF Settled, Late
  <2>2. CASE ~Active(c)
    <3>1. Settled
      BY <2>2, <1>1, SettledFor, LateActive
    <3>2. "open" \notin LateEndPcs /\ w' = w
      BY <2>2, <1>5 DEF LateEndPcs
    <3>3. ASSUME NEW d \in Conn, pc'[d] \in LateEndPcs PROVE pc[d] \in LateEndPcs
      BY <3>2, <3>3, <1>2
    <3>. QED
      BY <3>1, <3>2, <3>3 DEF Settled, Late
  <2>. QED
    BY <2>1, <2>2
<1>11. Newest' = committed /\ Upgraded' = w'.owner
  BY <1>1, <1>10, SettledMapsNext
<1>12. \A d \in Conn : Seen(d)' = IF d \in {c} THEN NoImage ELSE Seen(d)
  BY <1>6, <1>8 DEF OnlySeen
<1>13. /\ Upgraded' = IF Upgraded \in {c} THEN NoConn ELSE Upgraded
       /\ Newest' = Newest \/ (Upgraded \in {c} /\ Newest' = Seen(Upgraded))
  <2>1. CASE ~Late(c)
    <3>1. Newest = committed /\ Upgraded = w.owner
      BY <2>1, <1>1, SettledFor, SettledMaps
    <3>. QED
      BY <3>1, <1>7, <1>11
  <2>2. CASE Late(c)
    <3>1. w' = NoWrite /\ pc[c] \in {"finalSync", "endTx"}
      BY <2>2, <1>4, LateActive DEF Late, LateEndPcs
    <3>2. /\ Seen(c) = committed
          /\ pc[c] = "endTx" => Newest = committed /\ Upgraded = NoConn
          /\ pc[c] = "finalSync" => Upgraded = c
      BY <2>2, LateSees
    <3>. QED
      BY <3>1, <3>2, <1>3, <1>11
  <2>. QED
    BY <2>1, <2>2
<1>. QED
  BY <1>9, <1>12, <1>13, MapsToVanish

\* The disk has the image before the commit that is being made, or the one after.
LEMMA LossIsOneOf ==
  ASSUME IInv0, IInv0', SureInv, maybe' \subseteq maybe, Uncertain => Finalizing
  PROVE  \/ committed' = Newest
         \/ \E c \in Conn : Upgraded = c /\ committed' = Seen(c)
<1>1. committed' \in maybe
  BY DEF IInv0, ImageInv
<1>2. PICK x \in maybe : maybe = {committed, x}
  BY Started DEF SureInv, Sure
<1>3. PICK a, b : a = x /\ b = committed
  OBVIOUS
<1>4. maybe = {a, b} /\ committed' \in {a, b}
  BY <1>1, <1>2, <1>3
<1>5. CASE ~Uncertain
  <2>1. a = b
    BY <1>4, <1>5, TwoImages DEF Uncertain
  <2>2. Newest = committed
    BY <1>5 DEF Newest
  <2>. QED
    BY <2>1, <2>2, <1>3, <1>4
<1>6. CASE Uncertain
  <2>1. a # b
    BY <1>4, <1>6, TwoImages DEF Uncertain
  <2>2. Newest = CHOOSE m \in {a, b} : m # b
    BY <1>3, <1>4, <1>6 DEF Newest
  <2>3. Newest = a
    BY <2>1, <2>2, TwoImages
  <2>4. PICK c \in Conn : pc[c] = "finalSync" /\ w.ending = "commit"
    BY <1>6 DEF Finalizing
  <2>5. Late(c)
    BY <2>4 DEF Late, LateEndPcs
  <2>6. Seen(c) = committed /\ Upgraded = c
    BY <2>4, <2>5, LateSees
  <2>. QED
    BY <2>3, <2>6, <1>3, <1>4
<1>. QED
  BY <1>5, <1>6

\* A power loss is the Vanish of every connection.
LEMMA PowerLossMaps ==
  ASSUME Sound, IInv0, IInv0', DiskInv, SeenInv, PowerLoss
  PROVE  SeenInv' /\ AbsStep
<1>1. /\ nLosses < MaxPowerLoss /\ (Uncertain /\ ~LoseUnsynced => Finalizing)
      /\ pc' = [c \in Conn |-> "open"] /\ w' = NoWrite
      /\ maybe' = maybe \cap {committed'}
  BY DEF PowerLoss
<1>2. SureInv /\ ~LoseUnsynced
  <2>1. MaxPowerLoss > 0
    BY <1>1, PagerAssumption DEF IInv0, TypeInv, HistTypes
  <2>. QED
    BY <2>1, <1>1 DEF Sound, DiskInv, DiskInv0
<1>3. NoWrite.owner = NoConn /\ NoWrite.ending = "none" /\ NoConn \notin Conn
  BY PagerAssumption DEF NoWrite
<1>4. SeenInv'
  BY <1>1 DEF SeenInv
<1>5. \A d \in Conn : Seen(d)' = IF d \in Conn THEN NoImage ELSE Seen(d)
  <2>1. \A d \in Conn : Seen(d)' = NoImage'
    BY <1>1, <1>3, SeenAsNext
  <2>. QED
    BY <2>1 DEF NoImage
<1>6. Newest' = committed' /\ Upgraded' = NoConn
  <2>1. Settled'
    BY <1>1, <1>3 DEF Settled, Late
  <2>. QED
    BY <2>1, <1>1, <1>3, SettledMapsNext
<1>7. Upgraded \in Conn \cup {NoConn}
  BY LocalsHave DEF IInv0, TypeInv, Upgraded
<1>8. Newest' = Newest \/ (Upgraded \in Conn /\ Newest' = Seen(Upgraded))
  BY <1>1, <1>2, <1>6, LossIsOneOf
<1>. QED
  BY <1>3, <1>4, <1>5, <1>6, <1>7, <1>8, MapsToVanish

-----------------------------------------------------------------------------
(* The refinement *)

\* The initial states are initial states of the store.
LEMMA AbsStart == Init => SS!SSInit /\ SeenInv
<1>. SUFFICES ASSUME Init PROVE SS!SSInit /\ SeenInv
  OBVIOUS
<1>1. /\ committed = NewImage /\ w = NoWrite /\ pc = [c \in Conn |-> "open"]
      /\ w.owner = NoConn /\ w.ending = "none" /\ NoConn \notin Conn
  BY PagerAssumption DEF Init, NoWrite
<1>2. Settled
  BY <1>1 DEF Settled, Late
<1>3. Newest = NewImage /\ Upgraded = NoConn
  BY <1>1, <1>2, SettledMaps
<1>4. NewImage # [p \in Page |-> 0]
  <2>1. 1 \in Page /\ NewImage[1] = 2
    BY PagerAssumption DEF Page, NewImage
  <2>. QED
    BY <2>1
<1>5. \A c \in Conn : Seen(c) = [p \in Page |-> 0]
  BY <1>1 DEF Seen, Absent
<1>6. [c \in Conn |-> Seen(c)] = [c \in Conn |-> [p \in Page |-> 0]]
  BY <1>5
<1>7. SS!SSInit
  BY <1>3, <1>4, <1>6 DEF SS!SSInit, SS!NoView
<1>8. SeenInv
  BY <1>1 DEF SeenInv
<1>. QED
  BY <1>7, <1>8

\* Every step is a step of the store or a stutter.
LEMMA AbsNext ==
  ASSUME Sound, IInv, IInv', SeenInv, Next
  PROVE  SeenInv' /\ AbsStep
BY ReaderMaps, WriterMaps, EndingMaps, DieMaps, PowerLossMaps DEF Next, IInv

\* A step that changes nothing is a stutter of the store.
LEMMA AbsStutter ==
  ASSUME SeenInv, UNCHANGED vars
  PROVE  SeenInv' /\ UNCHANGED <<Newest, Views, Upgraded>>
<1>1. /\ w' = w /\ pc' = pc /\ cache' = cache /\ committed' = committed
      /\ maybe' = maybe /\ info' = info
  BY DEF vars, connVars, histVars
<1>2. SeenInv'
  BY <1>1 DEF SeenInv, SizeOf, InfoOf, Own
<1>3. Newest' = Newest /\ Upgraded' = Upgraded
  BY <1>1 DEF Newest, Upgraded, Uncertain, Finalizing
<1>4. Views' = Views
  BY <1>1 DEF Views, Seen, InfoOf
<1>. QED
  BY <1>2, <1>3, <1>4

\* Where every sync is made, the pager in rollback-journal mode implements the
\* store of snapshots: deaths, power losses, spills and savepoints included.
THEOREM PagerRefinesSnapshotStore ==
  ASSUME Sound
  PROVE  Spec => ImplementsSnapshotStore
<1>1. Init => SS!SSInit /\ SeenInv
  BY AbsStart
<1>2. IInv /\ IInv' /\ SeenInv /\ [Next]_vars
        => SeenInv' /\ [SS!SSNext]_<<Newest, Views, Upgraded>>
  <2>. SUFFICES ASSUME IInv, IInv', SeenInv, [Next]_vars
                PROVE  SeenInv' /\ [SS!SSNext]_<<Newest, Views, Upgraded>>
    OBVIOUS
  <2>1. CASE UNCHANGED vars
    BY <2>1, AbsStutter
  <2>2. CASE Next
    BY <2>2, AbsNext DEF AbsStep
  <2>. QED
    BY <2>1, <2>2
<1>3. <<Newest, Views, Upgraded>> = <<Newest, [c \in Conn |-> Seen(c)], Upgraded>>
  BY DEF Views
<1>. QED
  BY <1>1, <1>2, <1>3, PagerInvariance, PTL
     DEF Spec, ImplementsSnapshotStore, SS!SSSpec, Views
=============================================================================
