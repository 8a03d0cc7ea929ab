--------------------------- MODULE RollbackPager ---------------------------
(***************************************************************************)
(* The pager in rollback-journal mode: connections, each in a process of   *)
(* its own, that read, write, spill, roll back to a savepoint, commit and  *)
(* recover a hot journal, and lose their process or the power at any step. *)
(*                                                                         *)
(* A page is named by the change that wrote it: 2t for transaction t, 2t+1 *)
(* when t wrote it after its savepoint.  The journal is a sequence of      *)
(* slots, a header or a page record each.  Next to both files is what the  *)
(* disk may hold of them: the contents written since the last sync.  Locks *)
(* follow what FileLock promises.  An I/O error abandons the transaction   *)
(* and drops the lock with the journal left behind: a Die.                 *)
(***************************************************************************)
EXTENDS Integers, Sequences, FiniteSets, FiniteSetsExt

CONSTANTS
  Conn, NoConn, NoFile,
  Writers,        \* the connections that write
  NPage,          \* bound: pages of the database
  NInit,          \* pages of the database at first
  MaxTx,          \* bound: write transactions, the initial content being 1
  MaxDeaths, MaxPowerLoss,        \* bounds: process deaths, power losses
  MaxEvents,      \* bound: transactions, deaths and power losses together
  journalMode,    \* journalMode[c]: "DELETE", "TRUNCATE" or "PERSIST"
  synchronous,    \* synchronous[c]: "NORMAL", "FULL" or "EXTRA"
  AlignedSegments,  \* FALSE: see SyncHeader
  LoseUnsynced,   \* FALSE: see PowerLoss
  UseSavepoints

ASSUME PagerAssumption ==
  /\ NoConn \notin Conn /\ Writers \subseteq Conn
  /\ NPage \in Nat \ {0} /\ NInit \in 1..NPage /\ MaxTx \in Nat \ {0}
  /\ {MaxDeaths, MaxPowerLoss, MaxEvents} \subseteq Nat
  /\ journalMode \in [Conn -> {"DELETE", "TRUNCATE", "PERSIST"}]
  /\ synchronous \in [Conn -> {"NORMAL", "FULL", "EXTRA"}]
  /\ AlignedSegments \in BOOLEAN /\ LoseUnsynced \in BOOLEAN
  /\ UseSavepoints \in BOOLEAN

VARIABLES
  \* files
  db, dbDisk,     \* the database file, and what the disk may hold of it
  jr, jrDisk,     \* the journal file, and what the disk may hold of it
  jrOther,        \* what else the name of the journal may lead to on disk
  \* each connection
  held,           \* eLock
  pc,
  cache,          \* the page cache and the change counter it belongs to
  \* locals of the one connection that writes or recovers
  w, todo,
  \* bookkeeping
  info,           \* change counter and size in page 1 of each transaction
  committed,      \* the image that recovery must find
  maybe,          \* the images a power loss may leave
  nTx, nDeaths, nLosses

fileVars == <<db, dbDisk, jr, jrDisk, jrOther>>
connVars == <<held, pc, cache>>
histVars == <<info, committed, maybe, nTx>>
faultVars == <<nDeaths, nLosses>>
vars == <<fileVars, connVars, w, todo, histVars, faultVars>>

Page    == 1..NPage
Absent  == 0                         \* beyond the end of the file
Garbage == 2 * MaxTx + 2             \* a torn page
Content == Absent..Garbage
Image   == [Page -> Content]
NO_LOCK        == 0
SHARED_LOCK    == 1
RESERVED_LOCK  == 2
PENDING_LOCK   == 3
EXCLUSIVE_LOCK == 4

NoImage == [p \in Page |-> Absent]
NoCache == [img |-> NoImage, ctr |-> 0]
NoSavepoint == [open |-> FALSE, nOrig |-> 0, iOffset |-> 0, iHdrOffset |-> 0,
                iSubRec |-> 0, in |-> {}, img |-> NoImage]
NoWrite == [owner |-> NoConn, state |-> "none", tx |-> 0, mem |-> NoImage,
            inCache |-> {}, dirty |-> {}, needSync |-> {}, inJournal |-> {},
            orig |-> 0, off |-> 0, hdr |-> 0, slot |-> 0, goal |-> 0,
            ending |-> "none", sp |-> NoSavepoint, sub |-> <<>>]

Zero == [kind |-> "zero"]
Torn == [kind |-> "torn"]
Header(magic, n, init, orig) ==
  [kind |-> "hdr", magic |-> magic, n |-> n, init |-> init, orig |-> orig]
Record(p, data, init) == [kind |-> "rec", pg |-> p, data |-> data,
                          init |-> init]

\* A journal: no file, or its headers and page records.
Slot == {Zero, Torn}
        \cup [kind : {"hdr"}, magic : BOOLEAN, n : Nat, init : 1..MaxTx,
              orig : 0..NPage]
        \cup [kind : {"rec"}, pg : Page, data : Content, init : 0..MaxTx]
Journals == {NoFile} \cup Seq(Slot)
ASSUME NoFileIsNoJournal == NoFile \notin Seq(Slot)

ReadPcs  == {"reader"}
WritePcs == {"write", "jsync", "jhdr", "jsync2", "flush", "dbsync"}
EndPcs   == {"finish", "play", "finalize", "finalSync", "endTx"}
Pcs == {"open", "exists", "reserved", "first", "exclusive", "validate"}
       \cup ReadPcs \cup WritePcs \cup EndPcs

PagesOf(img) == {p \in Page : img[p] # Absent}
TxOf(content) == content \div 2
InfoOf(content) == IF TxOf(content) \in DOMAIN info THEN info[TxOf(content)]
                   ELSE [ctr |-> 0, size |-> 0]
\* The database image in file d: page 1 says how many pages it has.
ImageIn(d) == [p \in Page |-> IF p <= InfoOf(d[1]).size THEN d[p] ELSE Absent]

\* The size of file d in pages.
PagesIn(d) == Max({0} \cup PagesOf(d))

NewImage == [p \in Page |-> IF p <= NInit THEN 2 ELSE Absent]

Init ==
  /\ db = NewImage /\ dbDisk = [p \in Page |-> {db[p]}]
  /\ jr = NoFile /\ jrDisk = <<>> /\ jrOther = {NoFile}
  /\ held = [c \in Conn |-> NO_LOCK]
  /\ pc = [c \in Conn |-> "open"]
  /\ cache = [c \in Conn |-> NoCache]
  /\ w = NoWrite /\ todo = {}
  /\ info = [t \in 1..MaxTx |-> [ctr |-> 1, size |-> NInit]]
  /\ committed = NewImage /\ maybe = {NewImage}
  /\ nTx = 1 /\ nDeaths = 0 /\ nLosses = 0

Goto(c, label) == pc' = [pc EXCEPT ![c] = label]
Lock(c, level) == held' = [held EXCEPT ![c] = level]
MoreEvents == nTx - 1 + nDeaths + nLosses < MaxEvents
Others(c) == Conn \ {c}
fullSync(c)  == synchronous[c] \in {"FULL", "EXTRA"}
extraSync(c) == synchronous[c] = "EXTRA"
-----------------------------------------------------------------------------
(* The files and the disk under them *)

Slots == IF jr = NoFile THEN <<>> ELSE jr

\* Nothing is kept about the disk once no power loss can follow.
KeptAfter(losses, contents) == IF losses < MaxPowerLoss THEN contents ELSE {}
Kept(contents) == KeptAfter(nLosses, contents)

\* Writes new[i] to each slot i of DOMAIN new, in the file or right behind it.
JournalWrite(new) ==
  LET slots == DOMAIN Slots \cup DOMAIN new
      before(i) == IF i \in DOMAIN Slots THEN jrDisk[i] ELSE {Zero}
  IN /\ jr' = [i \in slots |-> IF i \in DOMAIN new THEN new[i] ELSE Slots[i]]
     /\ jrDisk' = [i \in slots |->
                     Kept(before(i) \cup (IF i \in DOMAIN new
                                          THEN {new[i], Torn} ELSE {}))]
     /\ UNCHANGED jrOther

\* The sequences with an element of s[i] at each place i.
AnyOf(s) ==
  LET upTo[i \in 0..Len(s)] ==
        IF i = 0 THEN {<<>>}
        ELSE UNION {{Append(f, x) : x \in s[i]} : f \in upTo[i - 1]}
  IN upTo[Len(s)]

JournalOnDisk == IF jr = NoFile THEN jrOther ELSE jrOther \cup AnyOf(jrDisk)

\* The first sync of a journal file syncs its directory entry too.
JournalSync ==
  /\ jrDisk' = [i \in DOMAIN Slots |-> Kept({Slots[i]})]
  /\ jrOther' = {}
  /\ UNCHANGED jr

JournalReplace(new) ==
  /\ jr' = new /\ jrDisk' = <<>>
  /\ jrOther' = Kept(JournalOnDisk \cup {new})

DbWrite(new) ==
  /\ db' = [p \in Page |-> IF p \in DOMAIN new THEN new[p] ELSE db[p]]
  /\ dbDisk' = [p \in Page |-> Kept(dbDisk[p] \cup
                  (IF p \notin DOMAIN new THEN {}
                   ELSE IF new[p] = Absent THEN {Absent}
                   ELSE {new[p], Garbage}))]

DbSync == dbDisk' = [p \in Page |-> Kept({db[p]})] /\ UNCHANGED db

\* pager_truncate to n pages.
Cut(n) == [p \in {q \in Page : q > n} |-> Absent]
-----------------------------------------------------------------------------
(* Reading a journal back *)

\* slot is where this process has put its last header, 0 in a hot journal: the
\* magic of that header is not looked at, it may not have been written yet.
IsHeader(j, i, slot) ==
  /\ i <= Len(j) /\ j[i].kind = "hdr"
  /\ i # slot => j[i].magic

\* Record i carries the checksum initialiser of header h.
IsRecord(j, i, h) == i <= Len(j) /\ j[i].kind = "rec" /\ j[i].init = j[h].init

\* nRec of header h; zero means "up to the end" in the last header of a
\* transaction this process itself rolls back.
RecordsAfter(j, h, slot) ==
  IF j[h].n = 0 /\ h = slot THEN Len(j) - h ELSE j[h].n

\* Header h is the last one before slot i.
Heads(j, h, i) == /\ h < i /\ j[h].kind = "hdr"
                  /\ \A k \in h + 1..i - 1 : j[k].kind # "hdr"

\* pager_playback goes on at slot i when it has read all those before it: a
\* record, as long as the last header has some left, and then a header.
Readable(j, i, slot) ==
  IF i = 1 THEN IsHeader(j, 1, slot)
  ELSE \E h \in 1..i - 1 :
         /\ Heads(j, h, i)
         /\ IF i - h <= RecordsAfter(j, h, slot) THEN IsRecord(j, i, h)
                                                ELSE IsHeader(j, i, slot)

\* The slots of the page records that pager_playback reads.
Playback(j, slot) ==
  {i \in DOMAIN j : /\ j[i].kind = "rec"
                    /\ \A k \in 1..i : Readable(j, k, slot)}

FirstByte(j) == /\ j # NoFile /\ j # <<>>
                /\ j[1].kind = "hdr" => j[1].magic
                /\ j[1] # Zero

\* The database file d once the hot journal j has been rolled back.
Recovered(d, j) ==
  IF ~FirstByte(j) \/ ~IsHeader(j, 1, 0) THEN d
  ELSE LET read == Playback(j, 0)
           slots(p) == {i \in read : j[i].pg = p}
       IN [p \in Page |-> IF p > j[1].orig THEN Absent
                          ELSE IF slots(p) = {} THEN d[p]
                          ELSE j[Max(slots(p))].data]
-----------------------------------------------------------------------------
(* sqlite3PagerSharedLock *)

Shareable(c)  == \A d \in Others(c) : held[d] < PENDING_LOCK
Excludable(c) == \A d \in Others(c) : held[d] = NO_LOCK

SharedLock(c) ==
  /\ pc[c] = "open"
  /\ Shareable(c)
  /\ Lock(c, SHARED_LOCK) /\ Goto(c, "exists")
  /\ UNCHANGED <<fileVars, cache, w, todo, histVars, faultVars>>

JournalExists(c) ==
  /\ pc[c] = "exists"
  /\ Goto(c, IF jr = NoFile THEN "validate" ELSE "reserved")
  /\ UNCHANGED <<fileVars, held, cache, w, todo, histVars, faultVars>>

ReservedElsewhere(c) ==
  \E d \in Others(c) : held[d] \in {RESERVED_LOCK, PENDING_LOCK}

\* Its owner may delete the journal after the question of the step before.
CheckReserved(c) ==
  /\ pc[c] = "reserved"
  /\ Goto(c, IF ReservedElsewhere(c) THEN "validate" ELSE "first")
  /\ UNCHANGED <<fileVars, held, cache, w, todo, histVars, faultVars>>

\* A journal that has disappeared is taken for a hot one.
ReadFirstByte(c) ==
  /\ pc[c] = "first"
  /\ Goto(c, IF jr = NoFile \/ FirstByte(jr) THEN "exclusive" ELSE "validate")
  /\ UNCHANGED <<fileVars, held, cache, w, todo, histVars, faultVars>>

HotBusy(c) ==
  /\ pc[c] = "exclusive" /\ ~Excludable(c)
  /\ Lock(c, NO_LOCK) /\ Goto(c, "open")
  /\ UNCHANGED <<fileVars, cache, w, todo, histVars, faultVars>>

\* Somebody else has recovered it.
HotGone(c) ==
  /\ pc[c] = "exclusive" /\ Excludable(c) /\ jr = NoFile
  /\ Goto(c, "validate")
  /\ UNCHANGED <<fileVars, held, cache, w, todo, histVars, faultVars>>

\* Mutant: the hot journal is played back as the dead process left it.
MutSyncHotJournal == UNCHANGED <<jr, jrDisk, jrOther>>
SyncHotJournal == JournalSync

\* pager_playback(pPager, 1) up to its first page.
HotPlayback(c) ==
  /\ pc[c] = "exclusive" /\ Excludable(c) /\ jr # NoFile
  /\ Lock(c, EXCLUSIVE_LOCK) /\ Goto(c, "play")
  /\ SyncHotJournal
  /\ LET valid == jr # <<>> /\ IsHeader(jr, 1, 0)
     IN /\ w' = [NoWrite EXCEPT !.ending = "hot", !.state = "dbmod",
                   !.hdr = Len(jr), !.off = IF valid THEN 1 ELSE 0]
        /\ todo' = Playback(jr, 0)
        /\ IF valid THEN DbWrite(Cut(jr[1].orig)) ELSE UNCHANGED <<db, dbDisk>>
  /\ cache' = [cache EXCEPT ![c] = NoCache]
  /\ UNCHANGED <<histVars, faultVars>>

\* Mutant: the cache is kept whatever the change counter in the file says.
MutCacheValid(c) == cache[c] # NoCache
CacheValid(c) == cache[c] # NoCache /\ cache[c].ctr = InfoOf(db[1]).ctr

Validate(c) ==
  /\ pc[c] = "validate"
  /\ cache' = IF CacheValid(c) THEN cache
              ELSE [cache EXCEPT ![c] = [img |-> ImageIn(db),
                                         ctr |-> InfoOf(db[1]).ctr]]
  /\ Goto(c, "reader")
  /\ UNCHANGED <<fileVars, held, w, todo, histVars, faultVars>>

\* pager_unlock at the end of a read transaction; the cache survives it.
Unlock(c) ==
  /\ pc[c] = "reader"
  /\ Lock(c, NO_LOCK) /\ Goto(c, "open")
  /\ UNCHANGED <<fileVars, cache, w, todo, histVars, faultVars>>
-----------------------------------------------------------------------------
(* Writing *)

PagerBegin(c) ==
  /\ c \in Writers /\ pc[c] = "reader" /\ nTx < MaxTx /\ MoreEvents
  /\ \A d \in Others(c) : held[d] < RESERVED_LOCK
  /\ Lock(c, RESERVED_LOCK) /\ Goto(c, "write")
  /\ nTx' = nTx + 1
  /\ w' = [NoWrite EXCEPT !.owner = c, !.state = "locked", !.tx = nTx + 1,
             !.mem = cache[c].img, !.orig = PagesIn(db)]
  /\ UNCHANGED <<fileVars, cache, todo, info, committed, maybe, faultVars>>

\* Mutant: a page that is in the main journal is not saved again.
MutSubjRequiresPage(v, p) ==
  v.sp.open /\ p <= v.sp.nOrig /\ p \notin v.sp.in \cup v.inJournal
\* A page beyond nOrig is cut off by a rollback to the savepoint.
SubjRequiresPage(v, p) == v.sp.open /\ p <= v.sp.nOrig /\ p \notin v.sp.in

\* Mutant: an appended page is journaled too.
MutNeedsRecord(v, p) == p \notin v.inJournal
\* The rollback cuts appended pages off, it does not restore them.
NeedsRecord(v, p) == p <= v.orig /\ p \notin v.inJournal

\* pager_write: the state v of the writer after page p has been made writable
\* and changed, and the slots it writes to the journal.
PagerWrite(v, p) ==
  LET opened == IF v.state # "locked" THEN v
                ELSE [v EXCEPT !.state = "cachemod", !.slot = 1, !.off = 1]
      journal == NeedsRecord(v, p)
      slot == opened.off + 1
      old == IF v.mem[p] = Absent THEN db[p] ELSE v.mem[p]
      marked == IF journal /\ opened.sp.open
                THEN [opened EXCEPT !.sp.in = @ \cup {p}] ELSE opened
      subj == SubjRequiresPage(marked, p)
  IN [new |-> [i \in (IF v.state = "locked" THEN {1} ELSE {})
                      \cup (IF journal THEN {slot} ELSE {}) |->
                 IF i = slot THEN Record(p, old, v.tx)
                 ELSE Header(FALSE, 0, v.tx, v.orig)],
      v |-> [marked EXCEPT
               !.off = IF journal THEN slot ELSE @,
               !.inJournal = IF journal THEN @ \cup {p} ELSE @,
               !.needSync = IF journal \/ (p > v.orig /\ v.state # "dbmod")
                            THEN @ \cup {p} ELSE @,
               !.sub = IF subj THEN Append(@, [pg |-> p, data |-> old]) ELSE @,
               !.sp.in = IF subj THEN @ \cup {p} ELSE @,
               !.dirty = @ \cup {p},
               !.mem[p] = 2 * v.tx + IF v.sp.open THEN 1 ELSE 0]]

Write(c, p) ==
  /\ pc[c] = "write" /\ w.owner = c
  /\ p \in PagesOf(w.mem) \/ p = Cardinality(PagesOf(w.mem)) + 1
  /\ LET r == PagerWrite(w, p)
     IN /\ w # r.v
        /\ w' = r.v
        /\ JournalWrite(r.new)
  /\ UNCHANGED <<db, dbDisk, connVars, todo, histVars, faultVars>>

\* pagerOpenSavepoint
OpenSavepoint(c) ==
  /\ UseSavepoints
  /\ pc[c] = "write" /\ w.owner = c /\ ~w.sp.open
  /\ w' = [w EXCEPT !.sp = [NoSavepoint EXCEPT
             !.open = TRUE, !.nOrig = Cardinality(PagesOf(w.mem)),
             !.iOffset = IF w.off > 0 THEN w.off ELSE 1,
             !.iSubRec = Len(w.sub), !.img = w.mem]]
  /\ UNCHANGED <<fileVars, connVars, todo, histVars, faultVars>>

\* The journal slots a rollback to the savepoint reads: those that follow
\* iOffset up to the next header, and the records of the segments behind it.
SavepointSlots ==
  LET end == IF w.sp.iHdrOffset = 0 THEN w.off ELSE w.sp.iHdrOffset
  IN {i \in w.sp.iOffset + 1..w.off : i > end => jr[i].kind = "rec"}
\* A header taken for a record would be read as some page's content.
RecordAt(i) == IF jr[i].kind = "rec" THEN jr[i] ELSE Record(1, Garbage, 0)

\* What it reads of page p: records of the journal, then of the sub-journal.
InMain(p) == {i \in SavepointSlots : RecordAt(i).pg = p}
InSub(p) == {i \in w.sp.iSubRec + 1..Len(w.sub) : w.sub[i].pg = p}
SavepointPages ==
  {p \in Page : p <= w.sp.nOrig /\ InMain(p) \cup InSub(p) # {}}

\* pDone: the first record of a page counts.
SavepointData(p) == IF InMain(p) # {} THEN RecordAt(Min(InMain(p))).data
                    ELSE w.sub[Min(InSub(p))].data
SavepointSynced(p) == IF InMain(p) # {} THEN Min(InMain(p)) <= w.hdr
                      ELSE p \notin w.needSync

\* pagerPlaybackSavepoint: records go into the pages in the cache and, once the
\* database has been modified, into the file if the main journal is synced.
RollbackTo(c) ==
  /\ pc[c] = "write" /\ w.owner = c /\ w.sp.open /\ w.state # "locked"
  /\ LET toFile == {p \in SavepointPages : /\ w.state = "dbmod"
                                           /\ SavepointSynced(p)}
     IN \E inCache \in {w.dirty, Page} :
          LET cached == inCache \cup (SavepointPages \ toFile)
              after(p) == IF p \in toFile THEN SavepointData(p) ELSE db[p]
          IN /\ w' = [w EXCEPT
                   !.mem = [p \in Page |->
                      IF p > w.sp.nOrig THEN Absent
                      ELSE IF p \notin cached THEN after(p)
                      ELSE IF p \in SavepointPages THEN SavepointData(p)
                      ELSE w.mem[p]],
                   !.dirty = (@ \cup (SavepointPages \ toFile))
                             \cap 1..w.sp.nOrig]
             /\ DbWrite([p \in toFile |-> SavepointData(p)])
  /\ UNCHANGED <<jr, jrDisk, jrOther, connVars, todo, histVars, faultVars>>

\* Another connection reads: the pager keeps PENDING and tries again later.
ExclusiveBusy(c) ==
  /\ pc[c] = "write" /\ w.owner = c /\ w.dirty # {}
  /\ held[c] = RESERVED_LOCK /\ ~Excludable(c)
  /\ Lock(c, PENDING_LOCK)
  /\ UNCHANGED <<fileVars, pc, cache, w, todo, histVars, faultVars>>

\* Mutant: the header of an older journal is left alone.
MutStaleHeader(off) == {}
\* A header of an older journal right behind the last record is defaced.
StaleHeader(off) == {i \in DOMAIN Slots : i = off + 1 /\ Slots[i].kind = "hdr"}

\* syncJournal up to its first sync; goal is the page to spill, 0 for a commit.
SyncJournal(c, v, new, goal) ==
  /\ Excludable(c) /\ Lock(c, EXCLUSIVE_LOCK)
  /\ JournalWrite([i \in DOMAIN new \cup StaleHeader(v.off) |->
                     IF i \in DOMAIN new THEN new[i]
                     ELSE [Slots[i] EXCEPT !.magic = FALSE]])
  /\ w' = [v EXCEPT !.goal = goal]
  /\ Goto(c, IF fullSync(c) THEN "jsync" ELSE "jhdr")

\* Mutant: only the state of the pager counts.
MutNeedsSync(p) == w.state = "cachemod"
NeedsSync(p) == p \in w.needSync \/ w.state = "cachemod"

\* pagerStress writes a dirty page to make room in the cache.
StressSync(c, p) ==
  /\ pc[c] = "write" /\ w.owner = c /\ p \in w.dirty
  /\ NeedsSync(p)
  /\ SyncJournal(c, w, [i \in {} |-> Zero], p)
  /\ UNCHANGED <<db, dbDisk, cache, todo, histVars, faultVars>>

StressWrite(c, p) ==
  /\ pc[c] = "write" /\ w.owner = c /\ p \in w.dirty
  /\ ~NeedsSync(p)
  /\ DbWrite([q \in {p} |-> w.mem[q]])
  /\ w' = [w EXCEPT !.dirty = @ \ {p}]
  /\ UNCHANGED <<jr, jrDisk, jrOther, connVars, todo, histVars, faultVars>>

\* sqlite3PagerCommitPhaseOne: the change counter is a change of page 1.
CommitPhaseOne(c) ==
  /\ pc[c] = "write" /\ w.owner = c /\ w.state # "locked"
  /\ LET r == PagerWrite(w, 1) IN SyncJournal(c, r.v, r.new, 0)
  /\ info' = [info EXCEPT ![w.tx] =
                [ctr |-> cache[c].ctr + 1,
                 size |-> Cardinality(PagesOf(w.mem))]]
  /\ UNCHANGED <<db, dbDisk, cache, todo, committed, maybe, nTx, faultVars>>

SyncRecords(c) ==
  /\ pc[c] = "jsync"
  /\ JournalSync /\ maybe' = {committed}
  /\ Goto(c, "jhdr")
  /\ UNCHANGED <<db, dbDisk, held, cache, w, todo, info, committed, nTx,
                 faultVars>>

\* The header gets its magic and the number of records behind it.
WriteRecordCount(c) ==
  /\ pc[c] = "jhdr"
  /\ JournalWrite([i \in {w.slot} |->
                    Header(TRUE, w.off - w.slot, w.tx, w.orig)])
  /\ Goto(c, "jsync2")
  /\ UNCHANGED <<db, dbDisk, held, cache, w, todo, histVars, faultVars>>

\* The second sync; after it the records are good, and those of a transaction
\* that goes on come behind a header of their own.  One that commits has none,
\* unless the records end at a sector boundary: then journalHdr is by chance
\* the place of a next header.
SyncHeader(c) ==
  /\ pc[c] = "jsync2"
  /\ jrOther' = {} /\ maybe' = {committed}
  /\ LET synced == [i \in DOMAIN jr |-> Kept({jr[i]})]
         next == w.off + 1
         old == IF next \in DOMAIN jr THEN synced[next] ELSE {Zero}
         h == Header(FALSE, 0, w.tx, w.orig)
     IN IF w.goal = 0
        THEN jr' = jr /\ jrDisk' = synced /\ w' =
               [w EXCEPT !.hdr = w.off, !.needSync = {}, !.state = "dbmod",
                  !.slot = IF AlignedSegments THEN next ELSE 0]
        ELSE /\ jr' = [i \in DOMAIN jr \cup {next} |->
                         IF i = next THEN h ELSE jr[i]]
             /\ jrDisk' = [i \in DOMAIN jr \cup {next} |->
                             IF i = next THEN Kept(old \cup {h, Torn})
                             ELSE synced[i]]
             /\ w' = [w EXCEPT !.hdr = w.off, !.off = next, !.slot = next,
                        !.needSync = {}, !.state = "dbmod",
                        !.sp.iHdrOffset = IF w.sp.open /\ @ = 0
                                          THEN w.off ELSE @]
  /\ Goto(c, "flush")
  /\ UNCHANGED <<db, dbDisk, held, cache, todo, info, committed, nTx,
                 faultVars>>

\* pager_write_pagelist: one page of its list.
WritePage(c, p) ==
  /\ pc[c] = "flush" /\ p \in w.dirty /\ w.goal \in {0, p}
  /\ DbWrite([q \in {p} |-> w.mem[q]])
  /\ w' = [w EXCEPT !.dirty = @ \ {p}, !.goal = 0]
  /\ Goto(c, IF w.goal = p THEN "write"
             ELSE IF w.dirty = {p} THEN "dbsync" ELSE "flush")
  /\ UNCHANGED <<jr, jrDisk, jrOther, held, cache, todo, histVars, faultVars>>

SyncDatabase(c) ==
  /\ pc[c] = "dbsync"
  /\ DbSync
  /\ Goto(c, "finish")
  /\ UNCHANGED <<jr, jrDisk, jrOther, held, cache, w, todo, histVars,
                 faultVars>>

CommitPhaseTwo(c) ==
  /\ pc[c] = "finish"
  /\ w' = [w EXCEPT !.ending = "commit"]
  /\ Goto(c, "finalize")
  /\ UNCHANGED <<fileVars, held, cache, todo, histVars, faultVars>>
-----------------------------------------------------------------------------
(* Rolling back, and the end of a transaction *)

\* sqlite3PagerRollback without a journal: there is nothing to restore.
RollbackNothing(c) ==
  /\ pc[c] = "write" /\ w.owner = c /\ w.state = "locked"
  /\ w' = NoWrite
  /\ Lock(c, SHARED_LOCK) /\ Goto(c, "reader")
  /\ UNCHANGED <<fileVars, cache, todo, histVars, faultVars>>

\* pager_playback(pPager, 0); the pages not dirty may have left the cache.
Rollback(c) ==
  /\ pc[c] \in {"write", "finish"} /\ w.owner = c /\ w.state # "locked"
  /\ \E inCache \in {w.dirty, Page} :
       w' = [w EXCEPT !.ending = "rollback", !.inCache = inCache,
               !.mem = [p \in Page |-> IF p > w.orig THEN Absent ELSE @[p]]]
  /\ todo' = Playback(jr, w.slot)
  /\ IF w.state = "dbmod" THEN DbWrite(Cut(w.orig))
     ELSE UNCHANGED <<db, dbDisk>>
  /\ Goto(c, "play")
  /\ UNCHANGED <<jr, jrDisk, jrOther, held, cache, histVars, faultVars>>

\* pager_playback_one_page
PlayPage(c) ==
  /\ pc[c] = "play" /\ todo # {}
  /\ LET i == Min(todo)
     IN /\ IF w.state = "dbmod" /\ i <= w.hdr
           THEN DbWrite([p \in {jr[i].pg} |-> jr[i].data])
           ELSE UNCHANGED <<db, dbDisk>>
        /\ w' = IF jr[i].pg \in w.inCache
                THEN [w EXCEPT !.mem[jr[i].pg] = jr[i].data] ELSE w
        /\ todo' = todo \ {i}
  /\ UNCHANGED <<jr, jrDisk, jrOther, connVars, histVars, faultVars>>

\* The pages that are not in the cache are read from the file from now on, and
\* none beyond the size in page 1.
PlaySync(c) ==
  /\ pc[c] = "play" /\ todo = {}
  /\ IF w.state = "dbmod" THEN DbSync ELSE UNCHANGED <<db, dbDisk>>
  /\ w' = IF w.ending = "hot" THEN w
          ELSE [w EXCEPT !.mem = [p \in Page |->
                  IF p > InfoOf(db[1]).size THEN Absent
                  ELSE IF p \in w.inCache THEN @[p] ELSE db[p]]]
  /\ Goto(c, "finalize")
  /\ UNCHANGED <<jr, jrDisk, jrOther, held, cache, todo, histVars, faultVars>>

\* Is the end of the journal synced before the lock is given back?
FinalSynced(c) == CASE journalMode[c] = "PERSIST"  -> TRUE
                    [] journalMode[c] = "TRUNCATE" -> fullSync(c)
                    [] journalMode[c] = "DELETE"   -> extraSync(c)

\* pager_end_transaction: the journal is deleted, cut or overwritten, and a
\* transaction is committed by it.  Nothing is done to a journal of which no
\* header could be read, unless it is deleted.
Finalize(c) ==
  /\ pc[c] = "finalize"
  /\ \/ journalMode[c] = "DELETE" /\ JournalReplace(NoFile)
     \/ journalMode[c] # "DELETE" /\ w.off = 0 /\ UNCHANGED <<jr, jrDisk, jrOther>>
     \/ journalMode[c] = "TRUNCATE" /\ w.off > 0 /\ JournalReplace(<<>>)
     \/ journalMode[c] = "PERSIST" /\ w.off > 0 /\ JournalWrite([i \in {1} |-> Zero])
  /\ committed' = IF w.ending = "commit" THEN w.mem ELSE committed
  /\ maybe' = IF w.ending = "commit" THEN {committed, w.mem} ELSE maybe
  /\ Goto(c, IF FinalSynced(c) THEN "finalSync" ELSE "endTx")
  /\ UNCHANGED <<db, dbDisk, held, cache, w, todo, info, nTx, faultVars>>

FinalSync(c) ==
  /\ pc[c] = "finalSync"
  /\ IF jr = NoFile THEN jrOther' = {NoFile} /\ UNCHANGED <<jr, jrDisk>>
     ELSE JournalSync
  /\ maybe' = {committed}
  /\ Goto(c, "endTx")
  /\ UNCHANGED <<db, dbDisk, held, cache, w, todo, info, committed, nTx,
                 faultVars>>

\* The file is cut to the size of the image, and the lock goes back to SHARED.
EndTransaction(c) ==
  /\ pc[c] = "endTx"
  /\ IF w.ending = "commit" THEN DbWrite(Cut(info[w.tx].size))
     ELSE UNCHANGED <<db, dbDisk>>
  /\ cache' = CASE w.ending = "commit" ->
                     [cache EXCEPT ![c] = [img |-> w.mem,
                                           ctr |-> info[w.tx].ctr]]
                [] w.ending = "rollback" -> [cache EXCEPT ![c].img = w.mem]
                [] w.ending = "hot" -> cache
  /\ Goto(c, IF w.ending = "hot" THEN "validate" ELSE "reader")
  /\ Lock(c, SHARED_LOCK)
  /\ w' = NoWrite /\ todo' = {}
  /\ UNCHANGED <<jr, jrDisk, jrOther, histVars, faultVars>>
-----------------------------------------------------------------------------
(* Failures *)

Working(c) == w.owner = c \/ pc[c] \in EndPcs

\* The process of c dies, or an I/O error makes it abandon its transaction.
Die(c) ==
  /\ nDeaths < MaxDeaths /\ MoreEvents /\ pc[c] # "open"
  /\ nDeaths' = nDeaths + 1
  /\ Lock(c, NO_LOCK) /\ Goto(c, "open")
  /\ cache' = [cache EXCEPT ![c] = NoCache]
  /\ w' = IF Working(c) THEN NoWrite ELSE w
  /\ todo' = IF Working(c) THEN {} ELSE todo
  /\ UNCHANGED <<fileVars, histVars, nLosses>>

Finalizing == w.ending = "commit" /\ \E c \in Conn : pc[c] = "finalSync"
Uncertain  == Cardinality(maybe) = 2

\* The disk keeps any of the contents written since the last sync.  A commit
\* that others have seen may be undone if its process did not, or could not,
\* sync the end of the journal; without LoseUnsynced the power stays on then.
PowerLoss ==
  /\ nLosses < MaxPowerLoss /\ MoreEvents
  /\ Uncertain /\ ~LoseUnsynced => Finalizing
  /\ nLosses' = nLosses + 1
  /\ db' \in AnyOf(dbDisk)
  /\ jr' \in JournalOnDisk
  /\ dbDisk' = [p \in Page |-> KeptAfter(nLosses', {db'[p]})]
  /\ jrDisk' = IF jr' = NoFile THEN <<>>
               ELSE [i \in DOMAIN jr' |-> KeptAfter(nLosses', {jr'[i]})]
  /\ jrOther' = IF jr' = NoFile THEN KeptAfter(nLosses', {NoFile}) ELSE {}
  /\ held' = [c \in Conn |-> NO_LOCK]
  /\ pc' = [c \in Conn |-> "open"]
  /\ cache' = [c \in Conn |-> NoCache]
  /\ w' = NoWrite /\ todo' = {}
  /\ committed' = ImageIn(Recovered(db', jr'))
  /\ maybe' = maybe \cap {committed'}
  /\ UNCHANGED <<info, nTx, nDeaths>>

Reader(c) == \/ SharedLock(c) \/ JournalExists(c) \/ CheckReserved(c)
             \/ ReadFirstByte(c) \/ HotBusy(c) \/ HotGone(c) \/ HotPlayback(c)
             \/ Validate(c) \/ Unlock(c)
Writer(c) == \/ PagerBegin(c) \/ OpenSavepoint(c) \/ RollbackTo(c)
             \/ ExclusiveBusy(c) \/ CommitPhaseOne(c) \/ SyncRecords(c)
             \/ WriteRecordCount(c) \/ SyncHeader(c) \/ SyncDatabase(c)
             \/ CommitPhaseTwo(c)
             \/ \E p \in Page : \/ Write(c, p) \/ StressSync(c, p)
                                \/ StressWrite(c, p) \/ WritePage(c, p)
Ending(c) == \/ RollbackNothing(c) \/ Rollback(c) \/ PlayPage(c) \/ PlaySync(c)
             \/ Finalize(c) \/ FinalSync(c) \/ EndTransaction(c)

Next ==
  \/ \E c \in Conn : Reader(c) \/ Writer(c) \/ Ending(c) \/ Die(c)
  \/ PowerLoss

Spec == Init /\ [][Next]_vars
-----------------------------------------------------------------------------
(* Properties *)

\* Every variable keeps its type; the pages recorded in pInJournal are pages
\* the database had when the transaction began.
TypeOK ==
  /\ db \in Image /\ dbDisk \in [Page -> SUBSET Content]
  /\ \A c \in Conn : pc[c] \in Pcs /\ held[c] \in NO_LOCK..EXCLUSIVE_LOCK
  /\ committed \in Image /\ maybe \subseteq Image
  /\ w.owner \in Conn \cup {NoConn} /\ w.mem \in Image
  /\ w.needSync \cup w.dirty \subseteq Page /\ w.inJournal \subseteq 1..w.orig

\* If every process died now, the next reader would find exactly the last
\* committed image: the one a transaction in progress has started from until
\* its journal is finalised, its own from then on; a rollback or a recovery
\* that is under way changes nothing about it.
RecoveryIsExact == ImageIn(Recovered(db, jr)) = committed

\* A power loss leaves the image before or the image after the transaction
\* that was being committed, nothing in between, and nothing older: the
\* comment on pager_end_transaction calls the journal finalised.
PowerLossIsAtomic == committed \in maybe

\* A reader has the last committed image in its cache, whoever wrote it.
ReaderSeesCommitted ==
  \A c \in Conn : pc[c] = "reader" => cache[c].img = committed

\* A rollback to the savepoint brings back the image at its start, whether its
\* pages are in the cache, spilled, or only in one of the two journals.
SavepointRestored ==
  [][\A c \in Conn : RollbackTo(c) => w'.mem = w.sp.img]_vars

\* syncJournal's comment says that it keeps the header of an older journal
\* behind the last record "from being recognized": what a transaction plays
\* back to roll itself back are records of its own.
OldHeaderUnrecognised ==
  w.ending = "rollback" => \A i \in todo : jr[i].init = w.tx

\* The refinement mapping.  A commit is one when the end of the journal is synced,
\* the image before it is the newest one till then.
Newest == IF Uncertain /\ Finalizing THEN CHOOSE m \in maybe : m # committed
          ELSE committed

\* What c reads; while a rollback plays the journal back nothing is read beyond
\* the size of the database, where stale pages of the file may be restored.
Seen(c) ==
  IF pc[c] = "reader" THEN cache[c].img
  ELSE [p \in Page |->
          IF w.owner # c \/ (pc[c] = "play" /\ p > InfoOf(committed[1]).size)
          THEN Absent ELSE w.mem[p]]

Upgraded == IF \E c \in Conn : pc[c] = "endTx" /\ w.ending = "commit" THEN NoConn
            ELSE w.owner

SS == INSTANCE SnapshotStore WITH
        db <- Newest, view <- [c \in Conn |-> Seen(c)], writer <- Upgraded

\* With a journal whose end is synced, the pager implements the store of
\* snapshots that WAL mode implements too, crashes included.
ImplementsSnapshotStore == SS!SSSpec
=============================================================================
