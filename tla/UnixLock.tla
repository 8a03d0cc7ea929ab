------------------------------ MODULE UnixLock ------------------------------
(***************************************************************************)
(* The posix-advisory-lock implementation of os_unix.c: unixLock,          *)
(* posixUnlock and unixClose of several connections (unixFile) to one      *)
(* database file, spread over several processes.                           *)
(*                                                                         *)
(* fcntl() locks belong to the process and are all dropped when the        *)
(* process closes any descriptor of the file, so the connections of one    *)
(* process share a unixInodeInfo that counts who holds what.  Inside a     *)
(* process pLockMutex makes a lock or unlock call atomic; between          *)
(* processes every fcntl() is a step of its own.                           *)
(***************************************************************************)
EXTENDS Naturals, FiniteSets

CONSTANTS Process,        \* the processes that use the file
          Conn,           \* the connections, each owned by one process
          proc,           \* proc[c] is the process of connection c
          NoConn,         \* the owner of a free mutex
          ReleaseFaults   \* TRUE: fcntl(F_UNLCK) and the downgrade may fail

ASSUME ConnAssumption ==
  /\ proc \in [Conn -> Process]
  /\ IsFiniteSet(Conn)
  /\ NoConn \notin Conn
  /\ ReleaseFaults \in BOOLEAN

NO_LOCK        == 0
SHARED_LOCK    == 1
RESERVED_LOCK  == 2
PENDING_LOCK   == 3
EXCLUSIVE_LOCK == 4
LockLevels     == NO_LOCK..EXCLUSIVE_LOCK

VARIABLES
  \* the kernel: the mode each process holds on each byte range
  pendingByte, reservedByte, sharedRange,
  \* unixInodeInfo, one per process
  inodeLock,     \* eFileLock
  nShared,       \* SHARED locks held
  nLock,         \* outstanding file locks
  nUnused,       \* descriptors on the pUnused list
  nRef,          \* unixFiles that point to it
  lockMutex,     \* the connection inside pLockMutex
  bigMutex,      \* the connection inside unixBigLock
  \* unixFile, one per connection
  fdLock,        \* eFileLock
  hasFd,         \* h >= 0
  pc,            \* where its current call is
  want           \* the eFileLock argument of that call

osVars    == <<pendingByte, reservedByte, sharedRange>>
inodeVars == <<inodeLock, nShared, nLock, nUnused, nRef>>
vars == <<osVars, inodeVars, lockMutex, bigMutex, fdLock, hasFd, pc, want>>

Modes == {"none", "read", "write"}
LockPcs   == {"pending", "shared", "dropGot", "dropFailed", "range"}
UnlockPcs == {"downgrade", "release", "count"}
ClosePcs  == {"inode", "close"}
Pcs == {"closed", "opening", "idle"} \cup LockPcs \cup UnlockPcs \cup ClosePcs

TypeOK ==
  /\ pendingByte  \in [Process -> Modes]
  /\ reservedByte \in [Process -> Modes]
  /\ sharedRange  \in [Process -> Modes]
  /\ inodeLock \in [Process -> LockLevels]
  /\ nShared \in [Process -> Nat]
  /\ nLock   \in [Process -> Nat]
  /\ nUnused \in [Process -> Nat]
  /\ nRef    \in [Process -> Nat]
  /\ lockMutex \in [Process -> Conn \cup {NoConn}]
  /\ bigMutex  \in [Process -> Conn \cup {NoConn}]
  /\ fdLock \in [Conn -> LockLevels]
  /\ hasFd  \in [Conn -> BOOLEAN]
  /\ pc     \in [Conn -> Pcs]
  /\ want   \in [Conn -> LockLevels]

Init ==
  /\ pendingByte  = [p \in Process |-> "none"]
  /\ reservedByte = [p \in Process |-> "none"]
  /\ sharedRange  = [p \in Process |-> "none"]
  /\ inodeLock = [p \in Process |-> NO_LOCK]
  /\ nShared = [p \in Process |-> 0]
  /\ nLock   = [p \in Process |-> 0]
  /\ nUnused = [p \in Process |-> 0]
  /\ nRef    = [p \in Process |-> 0]
  /\ lockMutex = [p \in Process |-> NoConn]
  /\ bigMutex  = [p \in Process |-> NoConn]
  /\ fdLock = [c \in Conn |-> NO_LOCK]
  /\ hasFd  = [c \in Conn |-> FALSE]
  /\ pc     = [c \in Conn |-> "closed"]
  /\ want   = [c \in Conn |-> NO_LOCK]
-----------------------------------------------------------------------------
(* fcntl(F_SETLK) on one byte range: a process conflicts with the others   *)
(* only, and replaces its own lock.                                        *)

ReadFree(range, p)  == \A q \in Process \ {p} : range[q] # "write"
WriteFree(range, p) == \A q \in Process \ {p} : range[q] = "none"

\* A close() of any descriptor, or the death of p, drops all its locks.
DropAllLocks(p) ==
  /\ pendingByte'  = [pendingByte  EXCEPT ![p] = "none"]
  /\ reservedByte' = [reservedByte EXCEPT ![p] = "none"]
  /\ sharedRange'  = [sharedRange  EXCEPT ![p] = "none"]

Goto(c, label) == pc' = [pc EXCEPT ![c] = label]
Enter(mutex, c) == mutex[proc[c]] = NoConn

\* Leave pLockMutex and return from the call.
Return(c) ==
  /\ lockMutex' = [lockMutex EXCEPT ![proc[c]] = NoConn]
  /\ Goto(c, "idle")
-----------------------------------------------------------------------------
(* unixLock *)

\* Mutant: a PENDING connection of the process no longer stops new readers.
MutPrecludedInProcess(c, e) ==
  fdLock[c] # inodeLock[proc[c]] /\ e > SHARED_LOCK

\* A connection of the same process precludes the requested lock.
PrecludedInProcess(c, e) ==
  /\ fdLock[c] # inodeLock[proc[c]]
  /\ inodeLock[proc[c]] >= PENDING_LOCK \/ e > SHARED_LOCK

\* The calls the asserts allow; a call for a level already held returns at once
\* and a precluded one returns SQLITE_BUSY, neither changing anything.
LockCall(c, e) ==
  /\ pc[c] = "idle"
  /\ Enter(lockMutex, c)
  /\ fdLock[c] < e
  /\ \/ e = SHARED_LOCK
     \/ e = RESERVED_LOCK /\ fdLock[c] = SHARED_LOCK
     \/ e = EXCLUSIVE_LOCK /\ fdLock[c] # NO_LOCK
  /\ ~PrecludedInProcess(c, e)

\* Mutant: the new reader is not counted.
MutLockSharedInProcess(c) ==
  /\ LockCall(c, SHARED_LOCK)
  /\ inodeLock[proc[c]] \in {SHARED_LOCK, RESERVED_LOCK}
  /\ fdLock' = [fdLock EXCEPT ![c] = SHARED_LOCK]
  /\ nLock'  = [nLock EXCEPT ![proc[c]] = @ + 1]
  /\ UNCHANGED <<osVars, inodeLock, nShared, nUnused, nRef, lockMutex,
                 bigMutex, hasFd, pc, want>>

\* SHARED, and the process already has it: only the counts change.
LockSharedInProcess(c) ==
  LET p == proc[c] IN
  /\ LockCall(c, SHARED_LOCK)
  /\ inodeLock[p] \in {SHARED_LOCK, RESERVED_LOCK}
  /\ fdLock'  = [fdLock EXCEPT ![c] = SHARED_LOCK]
  /\ nShared' = [nShared EXCEPT ![p] = @ + 1]
  /\ nLock'   = [nLock EXCEPT ![p] = @ + 1]
  /\ UNCHANGED <<osVars, inodeLock, nUnused, nRef, lockMutex, bigMutex,
                 hasFd, pc, want>>

\* The first fcntl() will be on the pending byte for SHARED and for
\* RESERVED -> EXCLUSIVE, otherwise on the range of the requested lock.
LockBegin(c, e) ==
  LET p == proc[c] IN
  /\ LockCall(c, e)
  /\ ~(e = SHARED_LOCK /\ inodeLock[p] \in {SHARED_LOCK, RESERVED_LOCK})
  /\ lockMutex' = [lockMutex EXCEPT ![p] = c]
  /\ want' = [want EXCEPT ![c] = e]
  /\ Goto(c, IF \/ e = SHARED_LOCK
                \/ e = EXCLUSIVE_LOCK /\ fdLock[c] = RESERVED_LOCK
             THEN "pending" ELSE "range")
  /\ UNCHANGED <<osVars, inodeVars, bigMutex, fdLock, hasFd>>

\* Mutant: a new reader does not respect the PENDING lock.
MutLockPendingRead(c) ==
  /\ pc[c] = "pending" /\ want[c] = SHARED_LOCK
  /\ Goto(c, "shared")
  /\ UNCHANGED <<osVars, inodeVars, lockMutex, bigMutex, fdLock, hasFd, want>>

\* The read-lock on the pending byte that gates every new SHARED.
LockPendingRead(c) ==
  LET p == proc[c] IN
  /\ pc[c] = "pending" /\ want[c] = SHARED_LOCK
  /\ \/ /\ ReadFree(pendingByte, p)
        /\ pendingByte' = [pendingByte EXCEPT ![p] = "read"]
        /\ Goto(c, "shared")
        /\ UNCHANGED lockMutex
     \/ Return(c) /\ UNCHANGED pendingByte
  /\ UNCHANGED <<reservedByte, sharedRange, inodeVars, bigMutex, fdLock,
                 hasFd, want>>

\* The write-lock on the pending byte: PENDING is kept if EXCLUSIVE then fails.
LockPendingWrite(c) ==
  LET p == proc[c] IN
  /\ pc[c] = "pending" /\ want[c] = EXCLUSIVE_LOCK
  /\ \/ /\ WriteFree(pendingByte, p)
        /\ pendingByte' = [pendingByte EXCEPT ![p] = "write"]
        /\ fdLock'    = [fdLock EXCEPT ![c] = PENDING_LOCK]
        /\ inodeLock' = [inodeLock EXCEPT ![p] = PENDING_LOCK]
        /\ Goto(c, "range")
        /\ UNCHANGED lockMutex
     \/ Return(c) /\ UNCHANGED <<pendingByte, fdLock, inodeLock>>
  /\ UNCHANGED <<reservedByte, sharedRange, nShared, nLock, nUnused, nRef,
                 bigMutex, hasFd, want>>

LockSharedRange(c) ==
  LET p == proc[c] IN
  /\ pc[c] = "shared"
  /\ \/ /\ ReadFree(sharedRange, p)
        /\ sharedRange' = [sharedRange EXCEPT ![p] = "read"]
        /\ Goto(c, "dropGot")
     \/ Goto(c, "dropFailed") /\ UNCHANGED sharedRange
  /\ UNCHANGED <<pendingByte, reservedByte, inodeVars, lockMutex, bigMutex,
                 fdLock, hasFd, want>>

\* Drop the temporary lock on the pending byte and finish the SHARED request.
LockDropPending(c) ==
  LET p == proc[c] IN
  /\ pc[c] \in {"dropGot", "dropFailed"}
  /\ Return(c)
  /\ \/ /\ pendingByte' = [pendingByte EXCEPT ![p] = "none"]
        /\ IF pc[c] = "dropGot"
           THEN /\ fdLock'    = [fdLock EXCEPT ![c] = SHARED_LOCK]
                /\ inodeLock' = [inodeLock EXCEPT ![p] = SHARED_LOCK]
                /\ nLock'     = [nLock EXCEPT ![p] = @ + 1]
                /\ nShared'   = [nShared EXCEPT ![p] = 1]
           ELSE UNCHANGED <<fdLock, inodeLock, nLock, nShared>>
     \/ /\ ReleaseFaults
        /\ UNCHANGED <<pendingByte, fdLock, inodeLock, nLock, nShared>>
  /\ UNCHANGED <<reservedByte, sharedRange, nUnused, nRef, bigMutex, hasFd,
                 want>>

\* The write-lock on the reserved byte.
LockReserved(c) ==
  LET p == proc[c] IN
  /\ pc[c] = "range" /\ want[c] = RESERVED_LOCK
  /\ Return(c)
  /\ \/ /\ WriteFree(reservedByte, p)
        /\ reservedByte' = [reservedByte EXCEPT ![p] = "write"]
        /\ fdLock'    = [fdLock EXCEPT ![c] = RESERVED_LOCK]
        /\ inodeLock' = [inodeLock EXCEPT ![p] = RESERVED_LOCK]
     \/ UNCHANGED <<reservedByte, fdLock, inodeLock>>
  /\ UNCHANGED <<pendingByte, sharedRange, nShared, nLock, nUnused, nRef,
                 bigMutex, hasFd, want>>

\* Mutant: the other readers of the process are forgotten.
MutLockExclusive(c) ==
  LET p == proc[c] IN
  /\ pc[c] = "range" /\ want[c] = EXCLUSIVE_LOCK
  /\ Return(c)
  /\ WriteFree(sharedRange, p)
  /\ sharedRange' = [sharedRange EXCEPT ![p] = "write"]
  /\ fdLock'    = [fdLock EXCEPT ![c] = EXCLUSIVE_LOCK]
  /\ inodeLock' = [inodeLock EXCEPT ![p] = EXCLUSIVE_LOCK]
  /\ UNCHANGED <<pendingByte, reservedByte, nShared, nLock, nUnused, nRef,
                 bigMutex, hasFd, want>>

\* The write-lock on the whole shared range, unless another connection of the
\* process still holds SHARED.
LockExclusive(c) ==
  LET p == proc[c] IN
  /\ pc[c] = "range" /\ want[c] = EXCLUSIVE_LOCK
  /\ Return(c)
  /\ \/ /\ nShared[p] <= 1
        /\ WriteFree(sharedRange, p)
        /\ sharedRange' = [sharedRange EXCEPT ![p] = "write"]
        /\ fdLock'    = [fdLock EXCEPT ![c] = EXCLUSIVE_LOCK]
        /\ inodeLock' = [inodeLock EXCEPT ![p] = EXCLUSIVE_LOCK]
     \/ UNCHANGED <<sharedRange, fdLock, inodeLock>>
  /\ UNCHANGED <<pendingByte, reservedByte, nShared, nLock, nUnused, nRef,
                 bigMutex, hasFd, want>>
-----------------------------------------------------------------------------
(* posixUnlock *)

UnlockBegin(c, e) ==
  /\ pc[c] = "idle"
  /\ Enter(lockMutex, c)
  /\ e \in {NO_LOCK, SHARED_LOCK}
  /\ fdLock[c] > e
  /\ lockMutex' = [lockMutex EXCEPT ![proc[c]] = c]
  /\ want' = [want EXCEPT ![c] = e]
  /\ Goto(c, CASE fdLock[c] = SHARED_LOCK -> "count"
               [] e = SHARED_LOCK         -> "downgrade"
               [] OTHER                   -> "release")
  /\ UNCHANGED <<osVars, inodeVars, bigMutex, fdLock, hasFd>>

\* The shared range back to a read-lock.
UnlockDowngrade(c) ==
  LET p == proc[c] IN
  /\ pc[c] = "downgrade"
  /\ \/ /\ ReadFree(sharedRange, p)
        /\ sharedRange' = [sharedRange EXCEPT ![p] = "read"]
        /\ Goto(c, "release")
        /\ UNCHANGED lockMutex
     \/ ReleaseFaults /\ Return(c) /\ UNCHANGED sharedRange
  /\ UNCHANGED <<pendingByte, reservedByte, inodeVars, bigMutex, fdLock,
                 hasFd, want>>

\* One fcntl() unlocks the pending and the reserved byte.
UnlockRelease(c) ==
  LET p == proc[c] IN
  /\ pc[c] = "release"
  /\ \/ /\ pendingByte'  = [pendingByte  EXCEPT ![p] = "none"]
        /\ reservedByte' = [reservedByte EXCEPT ![p] = "none"]
        /\ inodeLock' = [inodeLock EXCEPT ![p] = SHARED_LOCK]
        /\ IF want[c] = SHARED_LOCK
           THEN Return(c) /\ fdLock' = [fdLock EXCEPT ![c] = SHARED_LOCK]
           ELSE Goto(c, "count") /\ UNCHANGED <<lockMutex, fdLock>>
     \/ /\ ReleaseFaults
        /\ Return(c)
        /\ UNCHANGED <<pendingByte, reservedByte, inodeLock, fdLock>>
  /\ UNCHANGED <<sharedRange, nShared, nLock, nUnused, nRef, bigMutex, hasFd,
                 want>>

\* Mutant: the deferred descriptors are left where they are.
MutUnlockCount(c) ==
  LET p == proc[c] IN
  /\ pc[c] = "count"
  /\ Return(c)
  /\ fdLock'  = [fdLock EXCEPT ![c] = NO_LOCK]
  /\ nShared' = [nShared EXCEPT ![p] = @ - 1]
  /\ nLock'   = [nLock EXCEPT ![p] = @ - 1]
  /\ IF nShared[p] = 1
     THEN DropAllLocks(p) /\ inodeLock' = [inodeLock EXCEPT ![p] = NO_LOCK]
     ELSE UNCHANGED <<osVars, inodeLock>>
  /\ UNCHANGED <<nUnused, nRef, bigMutex, hasFd, want>>

\* Mutant: any unlock, not the last one of the process, unlocks the file.
MutUnlockCountFile(c) ==
  LET p == proc[c] IN
  /\ pc[c] = "count"
  /\ Return(c)
  /\ fdLock'  = [fdLock EXCEPT ![c] = NO_LOCK]
  /\ nShared' = [nShared EXCEPT ![p] = @ - 1]
  /\ nLock'   = [nLock EXCEPT ![p] = @ - 1]
  /\ nUnused' = [nUnused EXCEPT ![p] = IF nLock[p] = 1 THEN 0 ELSE @]
  /\ inodeLock' = [inodeLock EXCEPT
                     ![p] = IF nShared[p] = 1 THEN NO_LOCK ELSE @]
  /\ DropAllLocks(p)
  /\ UNCHANGED <<nRef, bigMutex, hasFd, want>>

\* Decrement the counts; the last SHARED of the process unlocks the file, the
\* last lock closes the descriptors whose close was deferred.
UnlockCount(c) ==
  LET p == proc[c]
      lastShared == nShared[p] = 1
      lastLock   == nLock[p] = 1 /\ nUnused[p] > 0
  IN
  /\ pc[c] = "count"
  /\ Return(c)
  /\ fdLock'  = [fdLock EXCEPT ![c] = NO_LOCK]
  /\ nShared' = [nShared EXCEPT ![p] = @ - 1]
  /\ nLock'   = [nLock EXCEPT ![p] = @ - 1]
  /\ nUnused' = [nUnused EXCEPT ![p] = IF lastLock THEN 0 ELSE @]
  /\ inodeLock' = [inodeLock EXCEPT ![p] = IF lastShared THEN NO_LOCK ELSE @]
  /\ \/ /\ lastShared \/ lastLock
        /\ DropAllLocks(p)
     \/ /\ ~lastLock
        /\ lastShared => ReleaseFaults
        /\ UNCHANGED osVars
  /\ UNCHANGED <<nRef, bigMutex, hasFd, want>>
-----------------------------------------------------------------------------
(* unixOpen and unixClose *)

\* findReusableFd: take a deferred descriptor if there is one, else open().
OpenDescriptor(c) ==
  LET p == proc[c] IN
  /\ pc[c] = "closed"
  /\ Enter(bigMutex, c)
  /\ nUnused[p] > 0 => Enter(lockMutex, c)
  /\ nUnused' = [nUnused EXCEPT ![p] = IF @ > 0 THEN @ - 1 ELSE 0]
  /\ hasFd' = [hasFd EXCEPT ![c] = TRUE]
  /\ Goto(c, "opening")
  /\ UNCHANGED <<osVars, inodeLock, nShared, nLock, nRef, lockMutex, bigMutex,
                 fdLock, want>>

\* findInodeInfo
OpenInode(c) ==
  /\ pc[c] = "opening"
  /\ Enter(bigMutex, c)
  /\ nRef' = [nRef EXCEPT ![proc[c]] = @ + 1]
  /\ Goto(c, "idle")
  /\ UNCHANGED <<osVars, inodeLock, nShared, nLock, nUnused, lockMutex,
                 bigMutex, fdLock, hasFd, want>>

\* unixClose after its unixUnlock(NO_LOCK), which is an UnlockBegin of its
\* own and whose failure is ignored: the descriptor is kept for later if
\* anyone holds a lock.  The handle is not used again until it is cleared.
CloseBegin(c) ==
  LET p == proc[c] IN
  /\ pc[c] = "idle"
  /\ \/ fdLock[c] = NO_LOCK
     \/ ReleaseFaults /\ fdLock[c] > SHARED_LOCK
  /\ Enter(bigMutex, c) /\ Enter(lockMutex, c)
  /\ bigMutex' = [bigMutex EXCEPT ![p] = c]
  /\ IF nLock[p] > 0
     THEN /\ nUnused' = [nUnused EXCEPT ![p] = @ + 1]
          /\ hasFd' = [hasFd EXCEPT ![c] = FALSE]
     ELSE UNCHANGED <<nUnused, hasFd>>
  /\ fdLock' = [fdLock EXCEPT ![c] = NO_LOCK]
  /\ Goto(c, "inode")
  /\ UNCHANGED <<osVars, inodeLock, nShared, nLock, nRef, lockMutex, want>>

\* Mutant: the inode is freed with the deferred descriptors still open.
MutCloseInode(c) ==
  LET p == proc[c] IN
  /\ pc[c] = "inode"
  /\ nRef' = [nRef EXCEPT ![p] = @ - 1]
  /\ nRef[p] = 1 => Enter(lockMutex, c)
  /\ inodeLock' = [inodeLock EXCEPT ![p] = IF nRef[p] = 1 THEN NO_LOCK ELSE @]
  /\ nShared' = [nShared EXCEPT ![p] = IF nRef[p] = 1 THEN 0 ELSE @]
  /\ nLock'   = [nLock EXCEPT ![p] = IF nRef[p] = 1 THEN 0 ELSE @]
  /\ Goto(c, "close")
  /\ UNCHANGED <<osVars, nUnused, lockMutex, bigMutex, fdLock, hasFd, want>>

\* releaseInodeInfo: the last reference closes the deferred descriptors and
\* frees the inode; findInodeInfo makes the next one with zeroed counters.
CloseInode(c) ==
  LET p    == proc[c]
      last == nRef[p] = 1
      Freed(field, zero) == [field EXCEPT ![p] = IF last THEN zero ELSE @]
  IN
  /\ pc[c] = "inode"
  /\ last => Enter(lockMutex, c)
  /\ nRef' = [nRef EXCEPT ![p] = @ - 1]
  /\ inodeLock' = Freed(inodeLock, NO_LOCK)
  /\ nShared' = Freed(nShared, 0)
  /\ nLock'   = Freed(nLock, 0)
  /\ nUnused' = Freed(nUnused, 0)
  /\ IF last /\ nUnused[p] > 0 THEN DropAllLocks(p) ELSE UNCHANGED osVars
  /\ Goto(c, "close")
  /\ UNCHANGED <<lockMutex, bigMutex, fdLock, hasFd, want>>

\* closeUnixFile, outside pLockMutex
CloseDescriptor(c) ==
  LET p == proc[c] IN
  /\ pc[c] = "close"
  /\ IF hasFd[c] THEN DropAllLocks(p) ELSE UNCHANGED osVars
  /\ hasFd' = [hasFd EXCEPT ![c] = FALSE]
  /\ bigMutex' = [bigMutex EXCEPT ![p] = NoConn]
  /\ Goto(c, "closed")
  /\ UNCHANGED <<inodeVars, lockMutex, fdLock, want>>
-----------------------------------------------------------------------------
\* The process dies in any state; the kernel drops its locks.
Die(p) ==
  LET Gone(f, v) == [c \in Conn |-> IF proc[c] = p THEN v ELSE f[c]] IN
  /\ DropAllLocks(p)
  /\ inodeLock' = [inodeLock EXCEPT ![p] = NO_LOCK]
  /\ nShared' = [nShared EXCEPT ![p] = 0]
  /\ nLock'   = [nLock EXCEPT ![p] = 0]
  /\ nUnused' = [nUnused EXCEPT ![p] = 0]
  /\ nRef'    = [nRef EXCEPT ![p] = 0]
  /\ lockMutex' = [lockMutex EXCEPT ![p] = NoConn]
  /\ bigMutex'  = [bigMutex EXCEPT ![p] = NoConn]
  /\ fdLock' = Gone(fdLock, NO_LOCK)
  /\ hasFd'  = Gone(hasFd, FALSE)
  /\ pc'     = Gone(pc, "closed")
  /\ want'   = Gone(want, NO_LOCK)

LockStart(c) ==
  \/ LockSharedInProcess(c)
  \/ \E e \in LockLevels : LockBegin(c, e)

\* The steps of c inside a call.
Continue(c) ==
  \/ LockPendingRead(c) \/ LockPendingWrite(c)
  \/ LockSharedRange(c) \/ LockDropPending(c)
  \/ LockReserved(c) \/ LockExclusive(c)
  \/ UnlockDowngrade(c) \/ UnlockRelease(c) \/ UnlockCount(c)
  \/ CloseInode(c) \/ CloseDescriptor(c)

Start(c) ==
  \/ LockStart(c)
  \/ \E e \in LockLevels : UnlockBegin(c, e)
  \/ OpenDescriptor(c) \/ OpenInode(c) \/ CloseBegin(c)

Next ==
  \/ \E c \in Conn : Start(c) \/ Continue(c)
  \/ \E p \in Process : Die(p)

Spec == Init /\ [][Next]_vars

\* No connection of a process is locking, or has locked, the file while another
\* one is between the nLock test of unixClose and the close() that follows it.
NoCloseOverlap ==
  \A c, d \in Conn :
     proc[c] = proc[d] /\ pc[c] \in ClosePcs /\ hasFd[c]
       => fdLock[d] = NO_LOCK /\ pc[d] \notin LockPcs

\* The same system, its threads synchronised so that this never happens.
SpecNoOverlap == Init /\ [][Next /\ NoCloseOverlap']_vars

\* A thread inside a call is scheduled, since F_SETLK does not block; a reader
\* ends its transaction one day; the busy handler of a connection left with
\* PENDING tries again, and fcntl() fails for a conflict only.
FairSpec ==
  /\ Spec
  /\ \A c \in Conn :
       /\ WF_vars(Continue(c))
       /\ SF_vars(fdLock[c] = SHARED_LOCK /\ UnlockBegin(c, NO_LOCK))
       /\ WF_vars(fdLock[c] = PENDING_LOCK /\ LockBegin(c, EXCLUSIVE_LOCK))
       /\ SF_vars(LockExclusive(c) /\ fdLock'[c] = EXCLUSIVE_LOCK)
-----------------------------------------------------------------------------
(* Properties *)

\* The level c may rely on: a caller of xUnlock has given up the rest.
Held(c) == IF pc[c] \in UnlockPcs THEN want[c] ELSE fdLock[c]

FL == INSTANCE FileLock WITH held <- [c \in Conn |-> Held(c)]

\* The two lock-compatibility rules of os.h hold between the connections of
\* one process whatever the kernel locks are (unixLock's inode tests).
ExclusionInProcess ==
  \A c, d \in Conn : c # d /\ proc[c] = proc[d] =>
     /\ Held(c) = EXCLUSIVE_LOCK => Held(d) = NO_LOCK
     /\ Held(c) >= RESERVED_LOCK => Held(d) <= SHARED_LOCK

\* They hold between all connections of all processes.
LockExclusion == FL!Compatible([c \in Conn |-> Held(c)])

\* Every lock a connection relies on is backed by a kernel lock of its process:
\* no close() of another connection has dropped it.
KernelBacked ==
  \A c \in Conn : LET p == proc[c] IN
     /\ Held(c) >= SHARED_LOCK => sharedRange[p] # "none"
     /\ Held(c) = RESERVED_LOCK => reservedByte[p] = "write"
     /\ Held(c) = PENDING_LOCK => pendingByte[p] = "write"
     /\ Held(c) = EXCLUSIVE_LOCK => sharedRange[p] = "write"

\* Mutant: only F_GETLK is asked, which is blind to the locks of the process.
MutCheckReservedLock(c) == ~WriteFree(reservedByte, proc[c])

\* unixCheckReservedLock, atomic under pLockMutex.
CheckReservedLock(c) ==
  \/ inodeLock[proc[c]] > SHARED_LOCK
  \/ ~WriteFree(reservedByte, proc[c])

\* A reader that looks for a hot journal never misses a live writer: if another
\* connection is RESERVED or more, xCheckReservedLock says so.
WriterIsSeen ==
  \A c, d \in Conn :
     /\ c # d /\ Held(c) = SHARED_LOCK /\ Held(d) >= RESERVED_LOCK
     /\ pc[c] = "idle" /\ lockMutex[proc[c]] = NoConn
     => CheckReservedLock(c)

\* Whatever unlock fails, a deferred close is made up for at the latest by
\* releaseInodeInfo: while descriptors wait on pUnused, some connection of the
\* process is counted in nRef, and the last of those to close closes them.
NoDescriptorLeak ==
  \A p \in Process : nUnused[p] > 0 =>
     \E c \in Conn : proc[c] = p /\ pc[c] \notin {"closed", "opening", "close"}

\* The connections of p that hold a lock.
Holders(p) == {c \in Conn : proc[c] = p /\ fdLock[c] # NO_LOCK}

\* As long as no fcntl() that unlocks fails, posixUnlock closes them sooner:
\* nLock, at whose zero it does, counts exactly the connections that hold a
\* lock, and while descriptors wait there is one that has yet to unlock.
UnlockClosesDeferred ==
  \A p \in Process :
     /\ nLock[p] = Cardinality(Holders(p))
     /\ nUnused[p] > 0 => Holders(p) # {}

\* The comment of unixLock: the write-lock on the pending byte "ensures that no
\* new SHARED locks can be obtained".
PendingStopsReaders ==
  [][\A c, d \in Conn :
       Held(d) = PENDING_LOCK /\ Held(d)' = PENDING_LOCK /\ Held(c) = NO_LOCK
         => Held(c)' = NO_LOCK]_vars

\* What the PENDING lock is for: a writer that has it is not starved by readers
\* of other processes that come and go; it gets EXCLUSIVE unless it gives up.
WriterNotStarved ==
  \A c \in Conn : fdLock[c] = PENDING_LOCK ~> fdLock[c] # PENDING_LOCK

\* Every step is one the locking promise allows, or a stutter.
ImplementsFileLock == FL!AbsSpec
=============================================================================
