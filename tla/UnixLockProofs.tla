--------------------------- MODULE UnixLockProofs ---------------------------
(***************************************************************************)
(* Theorems about UnixLock for any number of processes and connections.    *)
(* First, what holds between the connections of one process, whatever      *)
(* close() and F_UNLCK do. Then what holds between processes: as long as   *)
(* no close() meets a lock of its own process (SpecNoOverlap) and F_UNLCK  *)
(* does not fail, the kernel backs every lock a connection relies on, and  *)
(* the module implements FileLock.                                         *)
(***************************************************************************)
EXTENDS UnixLock, FiniteSetTheorems, TLAPS

\* The connections that the nRef of p counts.
Users(p) == {c \in Conn : proc[c] = p
                            /\ pc[c] \notin {"closed", "opening", "close"}}

\* A call that is under way owns pLockMutex of its process.
InMutex ==
  \A c \in Conn :
    pc[c] \in LockPcs \cup UnlockPcs => lockMutex[proc[c]] = c

\* What a call that is under way has found out and nobody can change.
CallInvOf(c) ==
  /\ pc[c] \in {"shared", "dropGot", "dropFailed"} => want[c] = SHARED_LOCK
  /\ pc[c] = "pending" => want[c] \in {SHARED_LOCK, EXCLUSIVE_LOCK}
  /\ pc[c] = "range" => want[c] \in {RESERVED_LOCK, EXCLUSIVE_LOCK}
  /\ pc[c] \in LockPcs /\ want[c] = SHARED_LOCK
       => fdLock[c] = NO_LOCK /\ inodeLock[proc[c]] = NO_LOCK
  /\ pc[c] = "pending" /\ want[c] = EXCLUSIVE_LOCK
       => fdLock[c] = RESERVED_LOCK
  /\ pc[c] = "range"
       => /\ fdLock[c] = inodeLock[proc[c]]
          /\ \/ fdLock[c] = SHARED_LOCK
             \/ fdLock[c] = PENDING_LOCK /\ want[c] = EXCLUSIVE_LOCK
  /\ pc[c] \in UnlockPcs => want[c] \in {NO_LOCK, SHARED_LOCK}
  /\ pc[c] \in {"downgrade", "release"} => fdLock[c] > SHARED_LOCK
  /\ pc[c] = "count" => want[c] = NO_LOCK /\ fdLock[c] # NO_LOCK
  /\ pc[c] \in {"closed", "opening"} \cup ClosePcs => fdLock[c] = NO_LOCK

CallInv == \A c \in Conn : CallInvOf(c)

\* unixFile and unixInodeInfo agree on a lock that is not being given up.
AgreeOf(c) ==
  /\ fdLock[c] > SHARED_LOCK /\ pc[c] # "count"
       => inodeLock[proc[c]] = fdLock[c]
  /\ fdLock[c] # NO_LOCK => inodeLock[proc[c]] # NO_LOCK

Agree == \A c \in Conn : AgreeOf(c)

\* One connection of a process has more than SHARED.
OneWriter ==
  \A c, d \in Conn :
    proc[c] = proc[d] /\ fdLock[c] > SHARED_LOCK /\ fdLock[d] > SHARED_LOCK
      => c = d

\* The counters of unixInodeInfo cover the connections they stand for, and a
\* lock is counted for no one else as long as nothing fails to be released.
CountInv ==
  \A p \in Process :
    /\ Cardinality(Holders(p)) <= nShared[p]
    /\ ~ReleaseFaults => nShared[p] = Cardinality(Holders(p))
    /\ nLock[p] = nShared[p]
    /\ inodeLock[p] = NO_LOCK => nShared[p] = 0
    /\ inodeLock[p] = EXCLUSIVE_LOCK => nShared[p] <= 1
    /\ nRef[p] = Cardinality(Users(p))
    /\ nUnused[p] > 0 => nLock[p] > 0
    /\ nRef[p] = 0 => nLock[p] = 0

IInv == TypeOK /\ InMutex /\ CallInv /\ Agree /\ OneWriter /\ CountInv

-----------------------------------------------------------------------------
USE DEF NO_LOCK, SHARED_LOCK, RESERVED_LOCK, PENDING_LOCK, EXCLUSIVE_LOCK,
        LockLevels, LockPcs, UnlockPcs, ClosePcs

\* Both sets are finite.
LEMMA FiniteUsers ==
  ASSUME NEW p \in Process
  PROVE  /\ IsFiniteSet(Holders(p)) /\ Cardinality(Holders(p)) \in Nat
         /\ IsFiniteSet(Users(p)) /\ Cardinality(Users(p)) \in Nat
<1>1. Holders(p) \subseteq Conn /\ Users(p) \subseteq Conn
  BY DEF Holders, Users
<1>2. IsFiniteSet(Conn)
  BY ConnAssumption
<1>3. IsFiniteSet(Holders(p)) /\ IsFiniteSet(Users(p))
  BY <1>1, <1>2, FS_Subset
<1>. QED
  BY <1>3, FS_CardinalityType

\* Removing the only element of a set, or one of several.
LEMMA RemoveOne ==
  ASSUME NEW S, IsFiniteSet(S), NEW x \in S
  PROVE  /\ Cardinality(S) \in Nat \ {0}
         /\ Cardinality(S \ {x}) = Cardinality(S) - 1
         /\ Cardinality(S) <= 1 => S = {x}
<1>1. IsFiniteSet(S \ {x}) /\ Cardinality(S \ {x}) = Cardinality(S) - 1
  BY FS_RemoveElement
<1>2. Cardinality(S) \in Nat /\ Cardinality(S \ {x}) \in Nat
  BY <1>1, FS_CardinalityType
<1>3. ASSUME Cardinality(S) <= 1 PROVE S = {x}
  <2>1. Cardinality(S \ {x}) = 0
    BY <1>1, <1>2, <1>3
  <2>. QED
    BY <1>1, <2>1, FS_EmptySet
<1>. QED
  BY <1>1, <1>2, <1>3

\* The invariant holds before anybody opens the file.
LEMMA InitIInv == Init => IInv
<1>. SUFFICES ASSUME Init PROVE IInv
  OBVIOUS
<1>1. TypeOK
  BY ConnAssumption DEF Init, TypeOK, Modes, Pcs
<1>2. InMutex /\ CallInv /\ Agree /\ OneWriter
  BY DEF Init, InMutex, CallInv, CallInvOf, Agree, AgreeOf, OneWriter
<1>3. ASSUME NEW p \in Process
      PROVE  Holders(p) = {} /\ Users(p) = {}
  BY DEF Init, Holders, Users
<1>4. CountInv
  BY <1>3, FS_EmptySet DEF Init, CountInv
<1>. QED
  BY <1>1, <1>2, <1>4 DEF IInv

-----------------------------------------------------------------------------
(* What a step of c need not be asked again for every action.              *)

\* The step changes nothing of another connection but, in unixInodeInfo, of
\* those of its own process.
OthersKeep(c) ==
  /\ \A d \in Conn \ {c} :
       pc'[d] = pc[d] /\ fdLock'[d] = fdLock[d] /\ want'[d] = want[d]
  /\ \A p \in Process \ {proc[c]} :
       lockMutex'[p] = lockMutex[p] /\ inodeLock'[p] = inodeLock[p]

\* While a connection is in a call, or finds the mutex free, no other one of
\* its process is in a call.
LEMMA Alone ==
  ASSUME InMutex, NEW c \in Conn, NEW d \in Conn, d # c, proc[d] = proc[c],
         pc[c] \in LockPcs \cup UnlockPcs \/ lockMutex[proc[c]] = NoConn
  PROVE  pc[d] \notin LockPcs \cup UnlockPcs
  BY ConnAssumption DEF InMutex

\* A step inside pLockMutex keeps the invariant if it keeps what is said of c
\* and the agreement of the other connections of its process.
LEMMA MutexStep ==
  ASSUME IInv, NEW c \in Conn, OthersKeep(c),
         pc[c] \in LockPcs \cup UnlockPcs \/ lockMutex[proc[c]] = NoConn,
         pc'[c] \in LockPcs \cup UnlockPcs => lockMutex'[proc[c]] = c,
         CallInvOf(c)', AgreeOf(c)',
         \A d \in Conn \ {c} : proc[d] = proc[c] => AgreeOf(d)',
         \/ fdLock'[c] \in {NO_LOCK, SHARED_LOCK}
         \/ \A d \in Conn \ {c} : proc[d] = proc[c] => fdLock[d] <= SHARED_LOCK
  PROVE  InMutex' /\ CallInv' /\ Agree' /\ OneWriter'
<1>. USE ConnAssumption DEF OthersKeep
<1>1. ASSUME NEW d \in Conn, d # c, proc[d] = proc[c]
      PROVE  pc[d] \notin LockPcs \cup UnlockPcs
  BY <1>1, Alone DEF IInv
<1>2. InMutex'
  BY <1>1 DEF IInv, InMutex
<1>3. ASSUME NEW d \in Conn, d # c PROVE CallInvOf(d)'
  BY <1>1, <1>3 DEF IInv, CallInv, CallInvOf
<1>4. ASSUME NEW d \in Conn, d # c PROVE AgreeOf(d)'
  BY <1>4 DEF IInv, Agree, AgreeOf
<1>5. OneWriter'
  <2>1. ASSUME NEW a \in Conn, NEW b \in Conn, proc[a] = proc[b],
               fdLock'[a] > SHARED_LOCK, fdLock'[b] > SHARED_LOCK
        PROVE  a = b
    <3>1. CASE a # c /\ b # c
      BY <2>1, <3>1 DEF IInv, OneWriter
    <3>2. CASE a = c /\ b # c
      BY <2>1, <3>2 DEF IInv, TypeOK
    <3>3. CASE a # c /\ b = c
      BY <2>1, <3>3 DEF IInv, TypeOK
    <3>. QED
      BY <3>1, <3>2, <3>3
  <2>. QED
    BY <2>1 DEF OneWriter
<1>. QED
  BY <1>2, <1>3, <1>4, <1>5 DEF CallInv, Agree

\* A step that is not part of a lock call keeps it.
LEMMA OtherStep ==
  ASSUME IInv, NEW c \in Conn, pc[c] \notin LockPcs \cup UnlockPcs,
         fdLock[c] = NO_LOCK,
         NEW label, label \notin LockPcs \cup UnlockPcs, Goto(c, label),
         UNCHANGED <<lockMutex, inodeLock, fdLock, want>>
  PROVE  InMutex' /\ CallInv' /\ Agree' /\ OneWriter'
<1>1. \A d \in Conn : pc'[d] = IF d = c THEN label ELSE pc[d]
  BY DEF IInv, TypeOK, Goto
<1>2. InMutex' /\ OneWriter'
  BY <1>1 DEF IInv, InMutex, OneWriter
<1>3. ASSUME NEW d \in Conn PROVE CallInvOf(d)' /\ AgreeOf(d)'
  <2>1. CASE d = c
    BY <1>1, <2>1 DEF CallInvOf, AgreeOf
  <2>2. CASE d # c
    BY <1>1, <2>2 DEF IInv, CallInv, CallInvOf, Agree, AgreeOf
  <2>. QED
    BY <2>1, <2>2
<1>. QED
  BY <1>2, <1>3 DEF CallInv, Agree

\* An open connection has an inode that counts it.
LEMMA UserCounted ==
  ASSUME IInv, NEW c \in Conn, pc[c] \notin {"closed", "opening", "close"}
  PROVE  nRef[proc[c]] \in Nat \ {0}
<1>1. proc[c] \in Process /\ c \in Users(proc[c])
  BY ConnAssumption DEF Users
<1>2. nRef[proc[c]] = Cardinality(Users(proc[c]))
  BY <1>1 DEF IInv, CountInv
<1>3. IsFiniteSet(Users(proc[c]))
  BY <1>1, FiniteUsers
<1>. QED
  BY ONLY <1>1, <1>2, <1>3, RemoveOne

\* A step that opens, closes, locks or unlocks nothing changes no count.
LEMMA SameUsers ==
  ASSUME NEW c \in Conn,
         \A d \in Conn \ {c} : pc'[d] = pc[d] /\ fdLock'[d] = fdLock[d],
         fdLock'[c] = NO_LOCK <=> fdLock[c] = NO_LOCK,
         pc[c]  \in {"closed", "opening", "close"} <=>
         pc'[c] \in {"closed", "opening", "close"},
         NEW p \in Process
  PROVE  Holders(p)' = Holders(p) /\ Users(p)' = Users(p)
  BY DEF Holders, Users
-----------------------------------------------------------------------------
(* unixLock *)

\* A call for a higher lock enters the mutex.
LEMMA LockBeginIInv ==
  ASSUME IInv, NEW c \in Conn, NEW e \in LockLevels, LockBegin(c, e)
  PROVE  IInv'
<1>0. /\ e = SHARED_LOCK
           => inodeLock[proc[c]] \notin {SHARED_LOCK, RESERVED_LOCK}
      /\ fdLock[c] \in LockLevels /\ fdLock[c] < e
      /\ inodeLock[proc[c]] \in LockLevels
  <2>1. /\ fdLock[c] < e
        /\ e = SHARED_LOCK
             => inodeLock[proc[c]] \notin {SHARED_LOCK, RESERVED_LOCK}
    BY DEF LockBegin, LockCall
  <2>2. fdLock[c] \in LockLevels /\ inodeLock[proc[c]] \in LockLevels
    BY ConnAssumption DEF IInv, TypeOK
  <2>. QED
    BY <2>1, <2>2
<1>. USE ConnAssumption DEF IInv, TypeOK, LockBegin, Goto, Enter, Return,
    inodeVars, LockCall, PrecludedInProcess
<1>1. TypeOK'
  BY DEF Modes, Pcs, ClosePcs, osVars
<1>2. OthersKeep(c)
  BY DEF OthersKeep
<1>3. CallInvOf(c)' /\ AgreeOf(c)'
  <2>1. pc'[c] \in {"pending", "range"} /\ want'[c] = e /\ proc[c] \in Process
    OBVIOUS
  <2>2. fdLock[c] = inodeLock[proc[c]] \/ e = SHARED_LOCK
    OBVIOUS
  <2>3. ASSUME e = SHARED_LOCK
        PROVE  inodeLock[proc[c]] = NO_LOCK /\ fdLock[c] = NO_LOCK
    <3>1. fdLock[c] = NO_LOCK /\ inodeLock[proc[c]] \in LockLevels
      BY ONLY <1>0, <2>3 DEF LockLevels
    <3>2. inodeLock[proc[c]] \notin {SHARED_LOCK, RESERVED_LOCK}
      BY <1>0, <2>3
    <3>3. fdLock[c] = inodeLock[proc[c]] \/ inodeLock[proc[c]] < PENDING_LOCK
      BY <2>3, <3>1
    <3>. QED
      BY <3>1, <3>2, <3>3
  <2>4. AgreeOf(c)'
    BY DEF Agree, AgreeOf
  <2>5. e # SHARED_LOCK => fdLock[c] \in {SHARED_LOCK, RESERVED_LOCK,
      PENDING_LOCK}
    OBVIOUS
  <2>6. CallInvOf(c)'
    BY <2>1, <2>2, <2>3, <2>5 DEF CallInvOf
  <2>. QED
    BY <2>4, <2>6
<1>4. ASSUME NEW d \in Conn \ {c}, proc[d] = proc[c] PROVE AgreeOf(d)'
  BY <1>4, Alone DEF CallInv, CallInvOf, Agree, AgreeOf, OneWriter
<1>5. InMutex' /\ CallInv' /\ Agree' /\ OneWriter'
  <2>1. \/ fdLock'[c] \in {NO_LOCK, SHARED_LOCK}
        \/ \A d \in Conn \ {c} : proc[d] = proc[c] => fdLock[d] <= SHARED_LOCK
    BY Alone DEF CallInv, CallInvOf, Agree, AgreeOf, OneWriter
  <2>2. /\ pc[c] \in LockPcs \cup UnlockPcs \/ lockMutex[proc[c]] = NoConn
        /\ pc'[c] \in LockPcs \cup UnlockPcs => lockMutex'[proc[c]] = c
    BY DEF InMutex
  <2>. QED
    BY <1>2, <1>3, <1>4, <2>1, <2>2, MutexStep
<1>6. ASSUME NEW p \in Process
      PROVE  Holders(p)' = Holders(p) /\ Users(p)' = Users(p)
  BY SameUsers DEF CallInv, CallInvOf
<1>7. CountInv'
  BY <1>6, FiniteUsers DEF CountInv, CallInv, CallInvOf
<1>. QED
  BY <1>1, <1>5, <1>7 DEF IInv

\* The read-lock on the pending byte, or none.
LEMMA LockPendingReadIInv ==
  ASSUME IInv, NEW c \in Conn, LockPendingRead(c)
  PROVE  IInv'
<1>. USE ConnAssumption DEF IInv, TypeOK, LockPendingRead, Goto, Enter,
    Return, inodeVars
<1>1. TypeOK'
  BY DEF Modes, Pcs, ClosePcs, osVars
<1>2. OthersKeep(c)
  BY DEF OthersKeep
<1>3. CallInvOf(c)' /\ AgreeOf(c)'
  BY DEF CallInv, CallInvOf, Agree, AgreeOf
<1>4. ASSUME NEW d \in Conn \ {c}, proc[d] = proc[c] PROVE AgreeOf(d)'
  BY <1>4, Alone DEF CallInv, CallInvOf, Agree, AgreeOf, OneWriter
<1>5. InMutex' /\ CallInv' /\ Agree' /\ OneWriter'
  <2>1. \/ fdLock'[c] \in {NO_LOCK, SHARED_LOCK}
        \/ \A d \in Conn \ {c} : proc[d] = proc[c] => fdLock[d] <= SHARED_LOCK
    BY Alone DEF CallInv, CallInvOf, Agree, AgreeOf, OneWriter
  <2>2. /\ pc[c] \in LockPcs \cup UnlockPcs \/ lockMutex[proc[c]] = NoConn
        /\ pc'[c] \in LockPcs \cup UnlockPcs => lockMutex'[proc[c]] = c
    BY DEF InMutex
  <2>. QED
    BY <1>2, <1>3, <1>4, <2>1, <2>2, MutexStep
<1>6. ASSUME NEW p \in Process
      PROVE  Holders(p)' = Holders(p) /\ Users(p)' = Users(p)
  BY SameUsers DEF CallInv, CallInvOf
<1>7. CountInv'
  BY <1>6, FiniteUsers DEF CountInv, CallInv, CallInvOf
<1>. QED
  BY <1>1, <1>5, <1>7 DEF IInv

\* PENDING, or nothing.
LEMMA LockPendingWriteIInv ==
  ASSUME IInv, NEW c \in Conn, LockPendingWrite(c)
  PROVE  IInv'
<1>. USE ConnAssumption DEF IInv, TypeOK, LockPendingWrite, Goto, Enter,
    Return, inodeVars
<1>1. TypeOK'
  BY SMTT(30) DEF Modes, Pcs, ClosePcs, osVars
<1>2. OthersKeep(c)
  BY DEF OthersKeep
<1>3. CallInvOf(c)' /\ AgreeOf(c)'
  BY DEF CallInv, CallInvOf, Agree, AgreeOf
<1>4. ASSUME NEW d \in Conn \ {c}, proc[d] = proc[c] PROVE AgreeOf(d)'
  BY <1>4, Alone DEF CallInv, CallInvOf, Agree, AgreeOf, OneWriter
<1>5. InMutex' /\ CallInv' /\ Agree' /\ OneWriter'
  <2>1. \/ fdLock'[c] \in {NO_LOCK, SHARED_LOCK}
        \/ \A d \in Conn \ {c} : proc[d] = proc[c] => fdLock[d] <= SHARED_LOCK
    BY Alone DEF CallInv, CallInvOf, Agree, AgreeOf, OneWriter
  <2>2. /\ pc[c] \in LockPcs \cup UnlockPcs \/ lockMutex[proc[c]] = NoConn
        /\ pc'[c] \in LockPcs \cup UnlockPcs => lockMutex'[proc[c]] = c
    BY DEF InMutex
  <2>. QED
    BY <1>2, <1>3, <1>4, <2>1, <2>2, MutexStep
<1>6. ASSUME NEW p \in Process
      PROVE  Holders(p)' = Holders(p) /\ Users(p)' = Users(p)
  BY SameUsers DEF CallInv, CallInvOf
<1>7. CountInv'
  BY <1>6, FiniteUsers DEF CountInv, CallInv, CallInvOf
<1>. QED
  BY <1>1, <1>5, <1>7 DEF IInv

\* The read-lock on the shared range, or none.
LEMMA LockSharedRangeIInv ==
  ASSUME IInv, NEW c \in Conn, LockSharedRange(c)
  PROVE  IInv'
<1>. USE ConnAssumption DEF IInv, TypeOK, LockSharedRange, Goto, Enter,
    Return, inodeVars
<1>1. TypeOK'
  BY DEF Modes, Pcs, ClosePcs, osVars
<1>2. OthersKeep(c)
  BY DEF OthersKeep
<1>3. CallInvOf(c)' /\ AgreeOf(c)'
  BY DEF CallInv, CallInvOf, Agree, AgreeOf
<1>4. ASSUME NEW d \in Conn \ {c}, proc[d] = proc[c] PROVE AgreeOf(d)'
  BY <1>4, Alone DEF CallInv, CallInvOf, Agree, AgreeOf, OneWriter
<1>5. InMutex' /\ CallInv' /\ Agree' /\ OneWriter'
  <2>1. \/ fdLock'[c] \in {NO_LOCK, SHARED_LOCK}
        \/ \A d \in Conn \ {c} : proc[d] = proc[c] => fdLock[d] <= SHARED_LOCK
    BY Alone DEF CallInv, CallInvOf, Agree, AgreeOf, OneWriter
  <2>2. /\ pc[c] \in LockPcs \cup UnlockPcs \/ lockMutex[proc[c]] = NoConn
        /\ pc'[c] \in LockPcs \cup UnlockPcs => lockMutex'[proc[c]] = c
    BY DEF InMutex
  <2>. QED
    BY <1>2, <1>3, <1>4, <2>1, <2>2, MutexStep
<1>6. ASSUME NEW p \in Process
      PROVE  Holders(p)' = Holders(p) /\ Users(p)' = Users(p)
  BY SameUsers DEF CallInv, CallInvOf
<1>7. CountInv'
  BY <1>6, FiniteUsers DEF CountInv, CallInv, CallInvOf
<1>. QED
  BY <1>1, <1>5, <1>7 DEF IInv

\* RESERVED, or nothing.
LEMMA LockReservedIInv ==
  ASSUME IInv, NEW c \in Conn, LockReserved(c)
  PROVE  IInv'
<1>. USE ConnAssumption DEF IInv, TypeOK, LockReserved, Goto, Enter, Return,
    inodeVars
<1>1. TypeOK'
  <2>1. reservedByte' \in [Process -> Modes] /\ fdLock' \in [Conn -> LockLevels]
        /\ inodeLock' \in [Process -> LockLevels]
    BY DEF Modes
  <2>2. pc' \in [Conn -> Pcs] /\ lockMutex' \in [Process -> Conn \cup {NoConn}]
    BY DEF Pcs
  <2>. QED
    BY <2>1, <2>2 DEF osVars
<1>2. OthersKeep(c)
  BY DEF OthersKeep
<1>3. CallInvOf(c)' /\ AgreeOf(c)'
  <2>1. pc'[c] = "idle"
    OBVIOUS
  <2>2. CallInvOf(c)'
    BY ONLY <2>1 DEF CallInvOf
  <2>3. fdLock[c] \in LockLevels /\ inodeLock[proc[c]] \in LockLevels
    OBVIOUS
  <2>4. fdLock[c] = inodeLock[proc[c]]
    BY DEF CallInv, CallInvOf
  <2>5. fdLock'[c] = inodeLock'[proc[c]] /\ fdLock'[c] \in LockLevels
    BY <2>4
  <2>6. AgreeOf(c)'
    BY ONLY <2>1, <2>5 DEF AgreeOf
  <2>. QED
    BY <2>2, <2>6
<1>4. ASSUME NEW d \in Conn \ {c}, proc[d] = proc[c] PROVE AgreeOf(d)'
  BY <1>4, Alone DEF CallInv, CallInvOf, Agree, AgreeOf, OneWriter
<1>5. InMutex' /\ CallInv' /\ Agree' /\ OneWriter'
  <2>1. \/ fdLock'[c] \in {NO_LOCK, SHARED_LOCK}
        \/ \A d \in Conn \ {c} : proc[d] = proc[c] => fdLock[d] <= SHARED_LOCK
    <3>1. \A d \in Conn \ {c} :
            proc[d] = proc[c] => pc[d] # "count" /\ fdLock[d] \in LockLevels
      BY Alone DEF CallInv, CallInvOf
    <3>2. inodeLock[proc[c]] = SHARED_LOCK
      BY DEF CallInv, CallInvOf
    <3>3. Agree
      OBVIOUS
    <3>. QED
      BY ONLY <3>1, <3>2, <3>3 DEF Agree, AgreeOf
  <2>2. /\ pc[c] \in LockPcs \cup UnlockPcs \/ lockMutex[proc[c]] = NoConn
        /\ pc'[c] \in LockPcs \cup UnlockPcs => lockMutex'[proc[c]] = c
    BY DEF InMutex
  <2>. QED
    BY <1>2, <1>3, <1>4, <2>1, <2>2, MutexStep
<1>6. ASSUME NEW p \in Process
      PROVE  Holders(p)' = Holders(p) /\ Users(p)' = Users(p)
  BY SameUsers DEF CallInv, CallInvOf
<1>7. CountInv'
  BY <1>6, FiniteUsers DEF CountInv, CallInv, CallInvOf
<1>. QED
  BY <1>1, <1>5, <1>7 DEF IInv

\* EXCLUSIVE, or nothing.
LEMMA LockExclusiveIInv ==
  ASSUME IInv, NEW c \in Conn, LockExclusive(c)
  PROVE  IInv'
<1>. USE ConnAssumption DEF IInv, TypeOK, LockExclusive, Goto, Enter, Return,
    inodeVars
<1>1. TypeOK'
  <2>1. sharedRange' \in [Process -> Modes] /\ fdLock' \in [Conn -> LockLevels]
        /\ inodeLock' \in [Process -> LockLevels]
    BY DEF Modes
  <2>2. pc' \in [Conn -> Pcs] /\ lockMutex' \in [Process -> Conn \cup {NoConn}]
    BY DEF Pcs
  <2>. QED
    BY <2>1, <2>2 DEF osVars
<1>2. OthersKeep(c)
  BY DEF OthersKeep
<1>3. CallInvOf(c)' /\ AgreeOf(c)'
  BY DEF CallInv, CallInvOf, Agree, AgreeOf
<1>4. ASSUME NEW d \in Conn \ {c}, proc[d] = proc[c] PROVE AgreeOf(d)'
  BY <1>4, Alone DEF CallInv, CallInvOf, Agree, AgreeOf, OneWriter
<1>5. InMutex' /\ CallInv' /\ Agree' /\ OneWriter'
  <2>1. \/ fdLock'[c] \in {NO_LOCK, SHARED_LOCK}
        \/ \A d \in Conn \ {c} : proc[d] = proc[c] => fdLock[d] <= SHARED_LOCK
    BY Alone DEF CallInv, CallInvOf, Agree, AgreeOf, OneWriter
  <2>2. /\ pc[c] \in LockPcs \cup UnlockPcs \/ lockMutex[proc[c]] = NoConn
        /\ pc'[c] \in LockPcs \cup UnlockPcs => lockMutex'[proc[c]] = c
    BY DEF InMutex
  <2>. QED
    BY <1>2, <1>3, <1>4, <2>1, <2>2, MutexStep
<1>6. ASSUME NEW p \in Process
      PROVE  Holders(p)' = Holders(p) /\ Users(p)' = Users(p)
  BY SameUsers DEF CallInv, CallInvOf
<1>7. CountInv'
  BY <1>6, FiniteUsers DEF CountInv, CallInv, CallInvOf
<1>. QED
  BY <1>1, <1>5, <1>7 DEF IInv

\* A call for a lower lock enters the mutex.
LEMMA UnlockBeginIInv ==
  ASSUME IInv, NEW c \in Conn, NEW e \in LockLevels, UnlockBegin(c, e)
  PROVE  IInv'
<1>. USE ConnAssumption DEF IInv, TypeOK, UnlockBegin, Goto, Enter, Return,
    inodeVars
<1>1. TypeOK'
  BY DEF Modes, Pcs, ClosePcs, osVars
<1>2. OthersKeep(c)
  BY DEF OthersKeep
<1>3. CallInvOf(c)' /\ AgreeOf(c)'
  BY DEF CallInv, CallInvOf, Agree, AgreeOf
<1>4. ASSUME NEW d \in Conn \ {c}, proc[d] = proc[c] PROVE AgreeOf(d)'
  BY <1>4, Alone DEF CallInv, CallInvOf, Agree, AgreeOf, OneWriter
<1>5. InMutex' /\ CallInv' /\ Agree' /\ OneWriter'
  <2>1. \/ fdLock'[c] \in {NO_LOCK, SHARED_LOCK}
        \/ \A d \in Conn \ {c} : proc[d] = proc[c] => fdLock[d] <= SHARED_LOCK
    BY SMTT(30), Alone DEF CallInv, CallInvOf, Agree, AgreeOf, OneWriter
  <2>2. /\ pc[c] \in LockPcs \cup UnlockPcs \/ lockMutex[proc[c]] = NoConn
        /\ pc'[c] \in LockPcs \cup UnlockPcs => lockMutex'[proc[c]] = c
    BY DEF InMutex
  <2>. QED
    BY <1>2, <1>3, <1>4, <2>1, <2>2, MutexStep
<1>6. ASSUME NEW p \in Process
      PROVE  Holders(p)' = Holders(p) /\ Users(p)' = Users(p)
  BY SameUsers DEF CallInv, CallInvOf
<1>7. CountInv'
  BY <1>6, FiniteUsers DEF CountInv, CallInv, CallInvOf
<1>. QED
  BY <1>1, <1>5, <1>7 DEF IInv

\* The shared range is a read-lock again.
LEMMA UnlockDowngradeIInv ==
  ASSUME IInv, NEW c \in Conn, UnlockDowngrade(c)
  PROVE  IInv'
<1>. USE ConnAssumption DEF IInv, TypeOK, UnlockDowngrade, Goto, Enter,
    Return, inodeVars
<1>1. TypeOK'
  BY DEF Modes, Pcs, ClosePcs, osVars
<1>2. OthersKeep(c)
  BY DEF OthersKeep
<1>3. CallInvOf(c)' /\ AgreeOf(c)'
  BY DEF CallInv, CallInvOf, Agree, AgreeOf
<1>4. ASSUME NEW d \in Conn \ {c}, proc[d] = proc[c] PROVE AgreeOf(d)'
  BY <1>4, Alone DEF CallInv, CallInvOf, Agree, AgreeOf, OneWriter
<1>5. InMutex' /\ CallInv' /\ Agree' /\ OneWriter'
  <2>1. \/ fdLock'[c] \in {NO_LOCK, SHARED_LOCK}
        \/ \A d \in Conn \ {c} : proc[d] = proc[c] => fdLock[d] <= SHARED_LOCK
    BY Alone DEF CallInv, CallInvOf, Agree, AgreeOf, OneWriter
  <2>2. /\ pc[c] \in LockPcs \cup UnlockPcs \/ lockMutex[proc[c]] = NoConn
        /\ pc'[c] \in LockPcs \cup UnlockPcs => lockMutex'[proc[c]] = c
    BY DEF InMutex
  <2>. QED
    BY <1>2, <1>3, <1>4, <2>1, <2>2, MutexStep
<1>6. ASSUME NEW p \in Process
      PROVE  Holders(p)' = Holders(p) /\ Users(p)' = Users(p)
  BY SameUsers DEF CallInv, CallInvOf
<1>7. CountInv'
  BY <1>6, FiniteUsers DEF CountInv, CallInv, CallInvOf
<1>. QED
  BY <1>1, <1>5, <1>7 DEF IInv

\* The pending and the reserved byte are free again.
LEMMA UnlockReleaseIInv ==
  ASSUME IInv, NEW c \in Conn, UnlockRelease(c)
  PROVE  IInv'
<1>. USE ConnAssumption DEF IInv, TypeOK, UnlockRelease, Goto, Enter, Return,
    inodeVars
<1>1. TypeOK'
  BY SMTT(30) DEF Modes, Pcs, ClosePcs, osVars
<1>2. OthersKeep(c)
  BY DEF OthersKeep
<1>3. CallInvOf(c)' /\ AgreeOf(c)'
  BY DEF CallInv, CallInvOf, Agree, AgreeOf
<1>4. ASSUME NEW d \in Conn \ {c}, proc[d] = proc[c] PROVE AgreeOf(d)'
  BY <1>4, Alone DEF CallInv, CallInvOf, Agree, AgreeOf, OneWriter
<1>5. InMutex' /\ CallInv' /\ Agree' /\ OneWriter'
  <2>1. \/ fdLock'[c] \in {NO_LOCK, SHARED_LOCK}
        \/ \A d \in Conn \ {c} : proc[d] = proc[c] => fdLock[d] <= SHARED_LOCK
    BY Alone DEF CallInv, CallInvOf, Agree, AgreeOf, OneWriter
  <2>2. /\ pc[c] \in LockPcs \cup UnlockPcs \/ lockMutex[proc[c]] = NoConn
        /\ pc'[c] \in LockPcs \cup UnlockPcs => lockMutex'[proc[c]] = c
    BY DEF InMutex
  <2>. QED
    BY <1>2, <1>3, <1>4, <2>1, <2>2, MutexStep
<1>6. ASSUME NEW p \in Process
      PROVE  Holders(p)' = Holders(p) /\ Users(p)' = Users(p)
  BY SameUsers DEF CallInv, CallInvOf
<1>7. CountInv'
  BY <1>6, FiniteUsers DEF CountInv, CallInv, CallInvOf
<1>. QED
  BY <1>1, <1>5, <1>7 DEF IInv

\* SHARED from the process: one more holder.
LEMMA LockSharedInProcessIInv ==
  ASSUME IInv, NEW c \in Conn, LockSharedInProcess(c)
  PROVE  IInv'
<1>0. /\ nShared \in [Process -> Nat] /\ nLock \in [Process -> Nat]
      /\ proc[c] \in Process
      /\ nShared' = [nShared EXCEPT ![proc[c]] = @ + 1]
      /\ nLock' = [nLock EXCEPT ![proc[c]] = @ + 1]
  BY ConnAssumption DEF IInv, TypeOK, LockSharedInProcess
<1>. USE ConnAssumption DEF IInv, TypeOK, LockSharedInProcess, LockCall, Enter
<1>1. TypeOK'
  <2>1. nShared' \in [Process -> Nat]
    BY ONLY <1>0
  <2>2. nLock' \in [Process -> Nat]
    BY ONLY <1>0
  <2>3. fdLock' \in [Conn -> LockLevels]
    OBVIOUS
  <2>. QED
    BY <2>1, <2>2, <2>3 DEF osVars
<1>2. fdLock[c] = NO_LOCK /\ fdLock'[c] = SHARED_LOCK /\ pc[c] = "idle"
  OBVIOUS
<1>3. InMutex' /\ CallInv' /\ Agree' /\ OneWriter'
  <2>1. OthersKeep(c)
    BY DEF OthersKeep
  <2>2. CallInvOf(c)' /\ AgreeOf(c)'
    BY <1>2 DEF CallInvOf, AgreeOf
  <2>3. \A d \in Conn \ {c} : proc[d] = proc[c] => AgreeOf(d)'
    BY DEF Agree, AgreeOf
  <2>4. pc'[c] = "idle" /\ lockMutex[proc[c]] = NoConn
    OBVIOUS
  <2>. QED
    BY <1>2, <2>1, <2>2, <2>3, <2>4, MutexStep
<1>4. CountInv'
  <2>1. ASSUME NEW p \in Process, p # proc[c]
        PROVE  Holders(p)' = Holders(p) /\ Users(p)' = Users(p)
    BY <2>1 DEF Holders, Users
  <2>2. Users(proc[c])' = Users(proc[c])
    BY DEF Users
  <2>3. /\ Holders(proc[c])' = Holders(proc[c]) \cup {c}
        /\ c \notin Holders(proc[c])
    BY <1>2 DEF Holders
  <2>4. Cardinality(Holders(proc[c])') = Cardinality(Holders(proc[c])) + 1
    <3>1. IsFiniteSet(Holders(proc[c]))
      BY FiniteUsers
    <3>. QED
      BY ONLY <2>3, <3>1, FS_AddElement
  <2>5. nRef[proc[c]] # 0 /\ nRef' = nRef /\ inodeLock' = inodeLock
    BY UserCounted
  <2>6. /\ nShared'[proc[c]] = nShared[proc[c]] + 1
        /\ nLock'[proc[c]] = nLock[proc[c]] + 1
        /\ nUnused' = nUnused
        /\ inodeLock[proc[c]] \in {SHARED_LOCK, RESERVED_LOCK}
    OBVIOUS
  <2>7. ASSUME NEW p \in Process, p # proc[c]
        PROVE  nShared'[p] = nShared[p] /\ nLock'[p] = nLock[p]
    BY <2>7
  <2>8. \A p \in Process : nShared[p] \in Nat /\ nLock[p] \in Nat
    OBVIOUS
  <2>9. CountInv
    OBVIOUS
  <2>. QED
    BY ONLY <2>1, <2>2, <2>4, <2>5, <2>6, <2>7, <2>8, <2>9, FiniteUsers
       DEF CountInv
<1>. QED
  BY <1>1, <1>3, <1>4 DEF IInv

\* The end of a SHARED request: the first holder of the process, or nothing.
LEMMA LockDropPendingIInv ==
  ASSUME IInv, NEW c \in Conn, LockDropPending(c)
  PROVE  IInv'
<1>. USE ConnAssumption DEF IInv, TypeOK, LockDropPending, Goto, Return
<1>1. TypeOK'
  <2>1. nShared' \in [Process -> Nat] /\ nLock' \in [Process -> Nat]
    OBVIOUS
  <2>2. /\ fdLock' \in [Conn -> LockLevels]
        /\ inodeLock' \in [Process -> LockLevels]
        /\ pendingByte' \in [Process -> Modes]
    BY DEF Modes
  <2>3. pc' \in [Conn -> Pcs] /\ lockMutex' \in [Process -> Conn \cup {NoConn}]
    BY DEF Pcs
  <2>. QED
    BY <2>1, <2>2, <2>3
<1>2. /\ pc'[c] = "idle" /\ pc[c] \in LockPcs /\ lockMutex[proc[c]] = c
      /\ fdLock[c] = NO_LOCK /\ inodeLock[proc[c]] = NO_LOCK
      /\ fdLock'[c] \in {NO_LOCK, SHARED_LOCK}
  BY DEF InMutex, CallInv, CallInvOf
<1>3. ASSUME NEW d \in Conn, proc[d] = proc[c] PROVE fdLock[d] = NO_LOCK
  BY <1>2, <1>3 DEF Agree, AgreeOf
<1>4. InMutex' /\ CallInv' /\ Agree' /\ OneWriter'
  <2>1. OthersKeep(c)
    BY DEF OthersKeep
  <2>2. CallInvOf(c)' /\ AgreeOf(c)'
    <3>1. CallInvOf(c)'
      BY ONLY <1>2 DEF CallInvOf
    <3>2. \/ fdLock'[c] = NO_LOCK
          \/ fdLock'[c] = SHARED_LOCK /\ inodeLock'[proc[c]] = SHARED_LOCK
      BY <1>2
    <3>3. AgreeOf(c)'
      BY ONLY <3>2 DEF AgreeOf
    <3>. QED
      BY <3>1, <3>3
  <2>3. ASSUME NEW d \in Conn \ {c}, proc[d] = proc[c] PROVE AgreeOf(d)'
    BY <1>3, <2>1, <2>3 DEF AgreeOf, OthersKeep
  <2>. QED
    BY <1>2, <2>1, <2>2, <2>3, MutexStep
<1>5. ASSUME NEW p \in Process
      PROVE  Users(p)' = Users(p)
  BY <1>2 DEF Users, Pcs
<1>6. CountInv'
  <2>1. CASE UNCHANGED <<fdLock, inodeLock, nLock, nShared>>
    <3>1. ASSUME NEW p \in Process PROVE Holders(p)' = Holders(p)
      BY <2>1 DEF Holders
    <3>. QED
      BY <1>5, <2>1, <3>1 DEF CountInv
  <2>2. CASE /\ fdLock'    = [fdLock EXCEPT ![c] = SHARED_LOCK]
             /\ inodeLock' = [inodeLock EXCEPT ![proc[c]] = SHARED_LOCK]
             /\ nLock'     = [nLock EXCEPT ![proc[c]] = @ + 1]
             /\ nShared'   = [nShared EXCEPT ![proc[c]] = 1]
    <3>1. ASSUME NEW p \in Process, p # proc[c] PROVE Holders(p)' = Holders(p)
      BY <2>2, <3>1 DEF Holders
    <3>2. Holders(proc[c])' = {c}
      BY <1>3, <2>2 DEF Holders
    <3>3. Cardinality(Holders(proc[c])') = 1
      BY <3>2, FS_Singleton
    <3>4. /\ nRef[proc[c]] # 0 /\ nRef' = nRef /\ nUnused' = nUnused
          /\ nShared[proc[c]] = 0 /\ nLock[proc[c]] = 0
      BY <1>2, UserCounted DEF CountInv
    <3>5. /\ nShared'[proc[c]] = 1 /\ nLock'[proc[c]] = 1
          /\ inodeLock'[proc[c]] = SHARED_LOCK
      BY <2>2, <3>4
    <3>6. ASSUME NEW p \in Process, p # proc[c]
          PROVE  /\ nShared'[p] = nShared[p] /\ nLock'[p] = nLock[p]
                 /\ inodeLock'[p] = inodeLock[p]
      BY <2>2, <3>6
    <3>7. CountInv
      OBVIOUS
    <3>. QED
      BY ONLY <1>5, <3>1, <3>3, <3>4, <3>5, <3>6, <3>7 DEF CountInv
  <2>. QED
    BY <2>1, <2>2
<1>. QED
  BY <1>1, <1>4, <1>6 DEF IInv

\* One holder less, and perhaps the last one of the process.
LEMMA UnlockCountIInv ==
  ASSUME IInv, NEW c \in Conn, UnlockCount(c)
  PROVE  IInv'
<1>0. /\ nUnused \in [Process -> Nat] /\ proc[c] \in Process
      /\ \E b \in BOOLEAN :
           nUnused' = [nUnused EXCEPT ![proc[c]] = IF b THEN 0 ELSE @]
      /\ inodeLock \in [Process -> LockLevels]
      /\ \E b \in BOOLEAN :
           inodeLock' = [inodeLock EXCEPT ![proc[c]] = IF b THEN NO_LOCK ELSE @]
  BY ConnAssumption DEF IInv, TypeOK, UnlockCount
<1>. USE ConnAssumption DEF IInv, TypeOK, UnlockCount, Goto, Return
<1>. DEFINE p == proc[c]
<1>1. /\ pc'[c] = "idle" /\ pc[c] = "count" /\ lockMutex[p] = c
      /\ fdLock[c] # NO_LOCK /\ fdLock'[c] = NO_LOCK /\ p \in Process
  BY DEF InMutex, CallInv, CallInvOf
<1>2. c \in Holders(p)
  BY <1>1 DEF Holders
<1>3. /\ Cardinality(Holders(p)) \in Nat \ {0}
      /\ Cardinality(Holders(p) \ {c}) = Cardinality(Holders(p)) - 1
      /\ Cardinality(Holders(p)) <= 1 => Holders(p) = {c}
  BY <1>1, <1>2, FiniteUsers, RemoveOne
<1>4. nShared[p] \in Nat \ {0} /\ nLock[p] = nShared[p]
  BY <1>1, <1>3 DEF CountInv
<1>5. ASSUME NEW d \in Conn \ {c}, proc[d] = p, nShared[p] = 1
      PROVE  fdLock[d] = NO_LOCK
  <2>1. Holders(p) = {c}
    BY <1>1, <1>3, <1>5 DEF CountInv
  <2>. QED
    BY <1>5, <2>1 DEF Holders
<1>6. TypeOK'
  <2>1. nShared' \in [Process -> Nat] /\ nLock' \in [Process -> Nat]
    <3>1. nShared[p] - 1 \in Nat /\ nLock[p] - 1 \in Nat
      BY SMTT(30), <1>4
    <3>. QED
      BY <3>1
  <2>2. /\ pendingByte' \in [Process -> Modes]
        /\ reservedByte' \in [Process -> Modes]
        /\ sharedRange' \in [Process -> Modes]
    BY DEF DropAllLocks, osVars, Modes
  <2>3. nUnused' \in [Process -> Nat]
    BY ONLY <1>0
  <2>4. inodeLock' \in [Process -> LockLevels]
    BY ONLY <1>0 DEF LockLevels
  <2>5. fdLock' \in [Conn -> LockLevels]
    OBVIOUS
  <2>6. pc' \in [Conn -> Pcs] /\ lockMutex' \in [Process -> Conn \cup {NoConn}]
    BY DEF Pcs
  <2>. QED
    BY <2>1, <2>2, <2>3, <2>4, <2>5, <2>6
<1>7. InMutex' /\ CallInv' /\ Agree' /\ OneWriter'
  <2>1. OthersKeep(c)
    BY DEF OthersKeep
  <2>2. CallInvOf(c)' /\ AgreeOf(c)'
    BY <1>1 DEF CallInvOf, AgreeOf
  <2>3. ASSUME NEW d \in Conn \ {c}, proc[d] = p PROVE AgreeOf(d)'
    <3>1. CASE nShared[p] = 1
      BY <1>5, <2>1, <2>3, <3>1 DEF AgreeOf, OthersKeep
    <3>2. CASE nShared[p] # 1
      BY <1>1, <2>1, <2>3, <3>2 DEF Agree, AgreeOf, OthersKeep
    <3>. QED
      BY <3>1, <3>2
  <2>. QED
    BY <1>1, <2>1, <2>2, <2>3, MutexStep
<1>8. CountInv'
  <2>1. ASSUME NEW q \in Process, q # p
        PROVE  Holders(q)' = Holders(q) /\ Users(q)' = Users(q)
    BY <2>1 DEF Holders, Users
  <2>2. Users(p)' = Users(p)
    BY <1>1 DEF Users
  <2>3. Holders(p)' = Holders(p) \ {c}
    BY <1>1 DEF Holders
  <2>4. Cardinality(Holders(p)') = Cardinality(Holders(p)) - 1
    BY <1>3, <2>3
  <2>5. ASSUME NEW q \in Process, q # p
        PROVE  /\ nShared'[q] = nShared[q] /\ nLock'[q] = nLock[q]
               /\ nUnused'[q] = nUnused[q] /\ inodeLock'[q] = inodeLock[q]
               /\ nRef'[q] = nRef[q]
    BY <2>5
  <2>6. /\ nShared'[p] = nShared[p] - 1 /\ nLock'[p] = nLock[p] - 1
        /\ nRef'[p] = nRef[p]
        /\ inodeLock'[p] = IF nShared[p] = 1 THEN NO_LOCK ELSE inodeLock[p]
        /\ nUnused'[p] =
             IF nLock[p] = 1 /\ nUnused[p] > 0 THEN 0 ELSE nUnused[p]
    BY <1>1
  <2>7. nUnused'[p] > 0 => nLock'[p] > 0
    BY <1>1, <1>4, <2>6
  <2>. QED
    BY <1>1, <1>3, <1>4, <2>1, <2>2, <2>4, <2>5, <2>6, <2>7 DEF CountInv
<1>. QED
  BY <1>6, <1>7, <1>8 DEF IInv
-----------------------------------------------------------------------------
(* Opening, closing and death *)

\* Another descriptor, new or reused.
LEMMA OpenDescriptorIInv ==
  ASSUME IInv, NEW c \in Conn, OpenDescriptor(c)
  PROVE  IInv'
<1>. USE ConnAssumption DEF IInv, TypeOK, OpenDescriptor
<1>1. \A p \in Process : nUnused'[p] \in Nat /\ nUnused'[p] <= nUnused[p]
  OBVIOUS
<1>2. TypeOK'
  <2>1. nUnused' \in [Process -> Nat]
    BY <1>1
  <2>2. pc' \in [Conn -> Pcs] /\ hasFd' \in [Conn -> BOOLEAN]
    BY DEF Goto, Pcs
  <2>. QED
    BY <2>1, <2>2 DEF osVars
<1>3. InMutex' /\ CallInv' /\ Agree' /\ OneWriter'
  BY OtherStep DEF CallInv, CallInvOf
<1>4. ASSUME NEW p \in Process
      PROVE  Holders(p)' = Holders(p) /\ Users(p)' = Users(p)
  BY DEF Holders, Users, Goto
<1>5. CountInv'
  BY <1>1, <1>4 DEF CountInv
<1>. QED
  BY <1>2, <1>3, <1>5

\* One more user of the inode.
LEMMA OpenInodeIInv ==
  ASSUME IInv, NEW c \in Conn, OpenInode(c)
  PROVE  IInv'
<1>. USE ConnAssumption DEF IInv, TypeOK, OpenInode
<1>1. TypeOK'
  <2>1. nRef' \in [Process -> Nat]
    OBVIOUS
  <2>2. pc' \in [Conn -> Pcs]
    BY DEF Goto, Pcs
  <2>. QED
    BY <2>1, <2>2 DEF osVars
<1>2. InMutex' /\ CallInv' /\ Agree' /\ OneWriter'
  BY OtherStep DEF CallInv, CallInvOf
<1>3. ASSUME NEW p \in Process PROVE Holders(p)' = Holders(p)
  BY DEF Holders
<1>4. ASSUME NEW p \in Process, p # proc[c] PROVE Users(p)' = Users(p)
  BY <1>4 DEF Users, Goto
<1>5. Users(proc[c])' = Users(proc[c]) \cup {c} /\ c \notin Users(proc[c])
  BY DEF Users, Goto
<1>6. Cardinality(Users(proc[c])') = Cardinality(Users(proc[c])) + 1
  <2>1. IsFiniteSet(Users(proc[c]))
    BY FiniteUsers
  <2>. QED
    BY ONLY <1>5, <2>1, FS_AddElement
<1>7. CountInv'
  BY <1>3, <1>4, <1>6, FiniteUsers DEF CountInv
<1>. QED
  BY <1>1, <1>2, <1>7

\* The connection gives up what it holds, or the inode knows better.
LEMMA CloseBeginIInv ==
  ASSUME IInv, NEW c \in Conn, CloseBegin(c)
  PROVE  IInv'
<1>. USE ConnAssumption DEF IInv, TypeOK, CloseBegin, Goto, Enter
<1>1. TypeOK'
  <2>1. nUnused' \in [Process -> Nat]
    OBVIOUS
  <2>2. hasFd' \in [Conn -> BOOLEAN]
    OBVIOUS
  <2>3. bigMutex' \in [Process -> Conn \cup {NoConn}]
    OBVIOUS
  <2>4. fdLock' \in [Conn -> LockLevels]
    OBVIOUS
  <2>5. pc' \in [Conn -> Pcs]
    BY DEF Pcs, ClosePcs
  <2>. QED
    BY <2>1, <2>2, <2>3, <2>4, <2>5 DEF osVars
<1>2. /\ pc[c] = "idle" /\ pc'[c] = "inode" /\ fdLock'[c] = NO_LOCK
      /\ lockMutex[proc[c]] = NoConn /\ proc[c] \in Process
  OBVIOUS
<1>3. InMutex' /\ CallInv' /\ Agree' /\ OneWriter'
  <2>1. OthersKeep(c)
    BY DEF OthersKeep
  <2>2. CallInvOf(c)' /\ AgreeOf(c)'
    BY <1>2 DEF CallInvOf, AgreeOf
  <2>3. \A d \in Conn \ {c} : proc[d] = proc[c] => AgreeOf(d)'
    BY DEF Agree, AgreeOf
  <2>. QED
    BY <1>2, <2>1, <2>2, <2>3, MutexStep
<1>4. ASSUME NEW p \in Process
      PROVE  /\ Users(p)' = Users(p)
             /\ Cardinality(Holders(p)') \in Nat
             /\ Cardinality(Holders(p)') <= Cardinality(Holders(p))
  <2>1. Users(p)' = Users(p)
    BY <1>2 DEF Users
  <2>2. Holders(p)' \subseteq Holders(p)
    BY <1>2 DEF Holders
  <2>. QED
    BY <2>1, <2>2, FiniteUsers, FS_Subset, FS_CardinalityType
<1>5. CountInv'
  <2>1. /\ nRef' = nRef /\ nShared' = nShared /\ nLock' = nLock
        /\ inodeLock' = inodeLock /\ CountInv
        /\ nRef[proc[c]] # 0
    BY <1>2, UserCounted
  <2>2. \A p \in Process : nUnused'[p] > 0 => nUnused[p] > 0 \/ nLock[p] > 0
    OBVIOUS
  <2>3. ASSUME ~ReleaseFaults, NEW p \in Process
        PROVE  Holders(p)' = Holders(p)
    <3>1. fdLock' = fdLock
      BY <2>3
    <3>. QED
      BY <3>1 DEF Holders
  <2>4. \A p \in Process : nShared[p] \in Nat
    OBVIOUS
  <2>. QED
    BY ONLY <1>4, <2>1, <2>2, <2>3, <2>4, FiniteUsers DEF CountInv
<1>. QED
  BY <1>1, <1>3, <1>5

\* One user of the inode less.
LEMMA CloseInodeIInv ==
  ASSUME IInv, NEW c \in Conn, CloseInode(c)
  PROVE  IInv'
<1>. USE ConnAssumption
<1>. DEFINE p == proc[c]
<1>1. /\ pc[c] = "inode" /\ pc' = [pc EXCEPT ![c] = "close"] /\ p \in Process
      /\ pc \in [Conn -> Pcs]
      /\ UNCHANGED <<lockMutex, bigMutex, fdLock, hasFd, want>>
  BY DEF CloseInode, Goto, IInv, TypeOK
<1>2. /\ c \in Users(p) /\ nRef[p] = Cardinality(Users(p))
      /\ fdLock[c] = NO_LOCK
  BY <1>1 DEF Users, IInv, CountInv, CallInv, CallInvOf
<1>3. /\ nRef[p] \in Nat \ {0}
      /\ Cardinality(Users(p) \ {c}) = nRef[p] - 1
      /\ nRef[p] = 1 => Users(p) = {c}
  BY <1>1, <1>2, FiniteUsers, RemoveOne
<1>4. /\ nRef' = [nRef EXCEPT ![p] = @ - 1]
      /\ inodeLock' = [inodeLock EXCEPT ![p] = IF nRef[p] = 1 THEN NO_LOCK ELSE @]
      /\ nShared' = [nShared EXCEPT ![p] = IF nRef[p] = 1 THEN 0 ELSE @]
      /\ nLock'   = [nLock EXCEPT ![p] = IF nRef[p] = 1 THEN 0 ELSE @]
      /\ nUnused' = [nUnused EXCEPT ![p] = IF nRef[p] = 1 THEN 0 ELSE @]
  BY DEF CloseInode
<1>5. TypeOK'
  <2>1. /\ nRef' \in [Process -> Nat] /\ nUnused' \in [Process -> Nat]
        /\ nShared' \in [Process -> Nat] /\ nLock' \in [Process -> Nat]
    BY <1>1, <1>3, <1>4 DEF IInv, TypeOK
  <2>2. inodeLock' \in [Process -> LockLevels]
    BY <1>1, <1>4 DEF IInv, TypeOK
  <2>3. /\ pendingByte' \in [Process -> Modes]
        /\ reservedByte' \in [Process -> Modes]
        /\ sharedRange' \in [Process -> Modes]
    BY DEF CloseInode, DropAllLocks, osVars, Modes, IInv, TypeOK
  <2>4. pc' \in [Conn -> Pcs]
    BY <1>1 DEF Pcs
  <2>. QED
    BY <1>1, <2>1, <2>2, <2>3, <2>4 DEF IInv, TypeOK
<1>6. ASSUME NEW d \in Conn, proc[d] = p, nRef[p] = 1 PROVE fdLock[d] = NO_LOCK
  <2>1. d \in Users(p) => d = c
    BY <1>3, <1>6
  <2>2. d # c => pc[d] \in {"closed", "opening", "close"}
    BY <1>6, <2>1 DEF Users
  <2>. QED
    BY <1>2, <2>2 DEF IInv, CallInv, CallInvOf
<1>7. \A d \in Conn : \/ inodeLock'[proc[d]] = inodeLock[proc[d]]
                      \/ fdLock[d] = NO_LOCK /\ inodeLock'[proc[d]] = NO_LOCK
  <2>1. inodeLock \in [Process -> LockLevels] /\ \A d \in Conn : proc[d] \in Process
    BY DEF IInv, TypeOK
  <2>. QED
    BY <1>1, <1>4, <1>6, <2>1
<1>8. InMutex' /\ CallInv' /\ Agree' /\ OneWriter'
  <2>1. \A d \in Conn : pc'[d] = IF d = c THEN "close" ELSE pc[d]
    BY <1>1
  <2>2. InMutex' /\ OneWriter'
    BY <1>1, <2>1 DEF IInv, InMutex, OneWriter
  <2>3. ASSUME NEW d \in Conn PROVE CallInvOf(d)'
    <3>1. CASE d = c
      BY <1>1, <1>2, <2>1, <3>1 DEF CallInvOf
    <3>2. CASE d # c /\ inodeLock'[proc[d]] = inodeLock[proc[d]]
      BY <1>1, <2>1, <3>2 DEF IInv, CallInv, CallInvOf
    <3>3. CASE d # c /\ fdLock[d] = NO_LOCK /\ inodeLock'[proc[d]] = NO_LOCK
      BY <1>1, <2>1, <3>3 DEF IInv, CallInv, CallInvOf
    <3>. QED
      BY <1>7, <3>1, <3>2, <3>3
  <2>4. ASSUME NEW d \in Conn PROVE AgreeOf(d)'
    BY <1>1, <1>7, <2>1 DEF IInv, Agree, AgreeOf
  <2>. QED
    BY <2>2, <2>3, <2>4 DEF CallInv, Agree
<1>9. ASSUME NEW q \in Process PROVE Holders(q)' = Holders(q)
  BY <1>1 DEF Holders
<1>10. ASSUME NEW q \in Process, q # p PROVE Users(q)' = Users(q)
  BY <1>1, <1>10 DEF Users
<1>11. Users(p)' = Users(p) \ {c}
  BY <1>1 DEF Users
<1>12. nRef[p] = 1 => Cardinality(Holders(p)) = 0
  <2>1. nRef[p] = 1 => Holders(p) = {}
    BY <1>6 DEF Holders
  <2>. QED
    BY <2>1, FS_EmptySet
<1>13. CountInv'
  <2>1. ASSUME NEW q \in Process, q # p
        PROVE  /\ nShared'[q] = nShared[q] /\ nLock'[q] = nLock[q]
               /\ nUnused'[q] = nUnused[q] /\ inodeLock'[q] = inodeLock[q]
               /\ nRef'[q] = nRef[q]
    BY <1>4, <2>1 DEF IInv, TypeOK
  <2>2. /\ nRef'[p] = nRef[p] - 1
        /\ nRef[p] = 1 => /\ nShared'[p] = 0 /\ nLock'[p] = 0
                          /\ nUnused'[p] = 0 /\ inodeLock'[p] = NO_LOCK
        /\ nRef[p] # 1 => /\ nShared'[p] = nShared[p] /\ nLock'[p] = nLock[p]
                          /\ nUnused'[p] = nUnused[p]
                          /\ inodeLock'[p] = inodeLock[p]
    BY <1>1, <1>4 DEF IInv, TypeOK
  <2>3. CountInv /\ nLock[p] \in Nat /\ nUnused[p] \in Nat
    BY <1>1 DEF IInv, TypeOK
  <2>4. ASSUME NEW q \in Process, q # p
        PROVE  /\ Cardinality(Holders(q)') <= nShared'[q]
               /\ ~ReleaseFaults => nShared'[q] = Cardinality(Holders(q)')
               /\ nLock'[q] = nShared'[q]
               /\ inodeLock'[q] = NO_LOCK => nShared'[q] = 0
               /\ inodeLock'[q] = EXCLUSIVE_LOCK => nShared'[q] <= 1
               /\ nRef'[q] = Cardinality(Users(q)')
               /\ nUnused'[q] > 0 => nLock'[q] > 0
               /\ nRef'[q] = 0 => nLock'[q] = 0
    BY ONLY <1>9, <1>10, <2>1, <2>3, <2>4 DEF CountInv
  <2>5. nRef'[p] = Cardinality(Users(p)')
    BY ONLY <1>3, <1>11, <2>2
  <2>6. /\ Cardinality(Holders(p)') <= nShared'[p]
        /\ ~ReleaseFaults => nShared'[p] = Cardinality(Holders(p)')
        /\ nLock'[p] = nShared'[p]
        /\ inodeLock'[p] = NO_LOCK => nShared'[p] = 0
        /\ inodeLock'[p] = EXCLUSIVE_LOCK => nShared'[p] <= 1
        /\ nUnused'[p] > 0 => nLock'[p] > 0
        /\ nRef'[p] = 0 => nLock'[p] = 0
    <3>1. Holders(p)' = Holders(p)
      BY <1>1, <1>9
    <3>2. CASE nRef[p] = 1
      BY ONLY <1>12, <2>2, <3>1, <3>2 DEF NO_LOCK, EXCLUSIVE_LOCK
    <3>3. CASE nRef[p] # 1
      <4>1. nRef'[p] # 0
        BY ONLY <1>3, <2>2, <3>3
      <4>. QED
        BY ONLY <1>1, <2>2, <2>3, <3>1, <3>3, <4>1 DEF CountInv
    <3>. QED
      BY ONLY <3>2, <3>3
  <2>. QED
    BY ONLY <2>4, <2>5, <2>6 DEF CountInv
<1>. QED
  BY <1>5, <1>8, <1>13 DEF IInv

\* The descriptor is gone; the counts do not know.
LEMMA CloseDescriptorIInv ==
  ASSUME IInv, NEW c \in Conn, CloseDescriptor(c)
  PROVE  IInv'
<1>. USE ConnAssumption DEF IInv, TypeOK, CloseDescriptor, inodeVars
<1>1. TypeOK'
  BY DEF Goto, Pcs, DropAllLocks, osVars, Modes
<1>2. InMutex' /\ CallInv' /\ Agree' /\ OneWriter'
  BY OtherStep DEF CallInv, CallInvOf
<1>3. ASSUME NEW p \in Process
      PROVE  Holders(p)' = Holders(p) /\ Users(p)' = Users(p)
  BY DEF Holders, Users, Goto
<1>4. CountInv'
  BY <1>3 DEF CountInv
<1>. QED
  BY <1>1, <1>2, <1>4

\* A process that is gone has no connection left.
LEMMA DieIInv ==
  ASSUME IInv, NEW p \in Process, Die(p)
  PROVE  IInv'
<1>. USE ConnAssumption DEF IInv, TypeOK, Die
<1>1. TypeOK'
  <2>1. /\ pendingByte' \in [Process -> Modes]
        /\ reservedByte' \in [Process -> Modes]
        /\ sharedRange' \in [Process -> Modes]
    BY DEF DropAllLocks, Modes
  <2>2. /\ inodeLock' \in [Process -> LockLevels]
        /\ nShared' \in [Process -> Nat] /\ nLock' \in [Process -> Nat]
        /\ nUnused' \in [Process -> Nat] /\ nRef' \in [Process -> Nat]
    OBVIOUS
  <2>3. /\ lockMutex' \in [Process -> Conn \cup {NoConn}]
        /\ bigMutex' \in [Process -> Conn \cup {NoConn}]
    OBVIOUS
  <2>4. fdLock' \in [Conn -> LockLevels] /\ want' \in [Conn -> LockLevels]
    OBVIOUS
  <2>5. hasFd' \in [Conn -> BOOLEAN]
    OBVIOUS
  <2>6. pc' \in [Conn -> Pcs]
    BY DEF Pcs
  <2>. QED
    BY <2>1, <2>2, <2>3, <2>4, <2>5, <2>6
<1>2. ASSUME NEW c \in Conn, proc[c] = p
      PROVE  pc'[c] = "closed" /\ fdLock'[c] = NO_LOCK
  BY <1>2
<1>3. ASSUME NEW c \in Conn, proc[c] # p
      PROVE  /\ pc'[c] = pc[c] /\ fdLock'[c] = fdLock[c] /\ want'[c] = want[c]
             /\ inodeLock'[proc[c]] = inodeLock[proc[c]]
             /\ lockMutex'[proc[c]] = lockMutex[proc[c]]
  BY <1>3
<1>4. InMutex' /\ CallInv' /\ Agree' /\ OneWriter'
  BY <1>2, <1>3 DEF InMutex, CallInv, CallInvOf, Agree, AgreeOf, OneWriter
<1>5. Holders(p)' = {} /\ Users(p)' = {}
  BY <1>2 DEF Holders, Users
<1>6. ASSUME NEW q \in Process, q # p
      PROVE  Holders(q)' = Holders(q) /\ Users(q)' = Users(q)
  BY <1>3, <1>6 DEF Holders, Users
<1>7. CountInv'
  <2>1. /\ nShared'[p] = 0 /\ nLock'[p] = 0 /\ nRef'[p] = 0 /\ nUnused'[p] = 0
        /\ inodeLock'[p] = NO_LOCK
    OBVIOUS
  <2>2. ASSUME NEW q \in Process, q # p
        PROVE  /\ nShared'[q] = nShared[q] /\ nLock'[q] = nLock[q]
               /\ nRef'[q] = nRef[q] /\ nUnused'[q] = nUnused[q]
               /\ inodeLock'[q] = inodeLock[q]
    BY <2>2
  <2>3. Cardinality(Holders(p)') = 0 /\ Cardinality(Users(p)') = 0
    BY <1>5, FS_EmptySet
  <2>. QED
    BY <1>6, <2>1, <2>2, <2>3 DEF CountInv
<1>. QED
  BY <1>1, <1>4, <1>7
-----------------------------------------------------------------------------
(* Theorems *)

\* Every step keeps the invariant, whether or not fcntl() fails.
THEOREM NextIInv == IInv /\ [Next]_vars => IInv'
<1>. SUFFICES ASSUME IInv, [Next]_vars PROVE IInv'
  OBVIOUS
<1>1. ASSUME NEW c \in Conn, Start(c) PROVE IInv'
  BY <1>1, LockSharedInProcessIInv, LockBeginIInv, UnlockBeginIInv,
     OpenDescriptorIInv, OpenInodeIInv, CloseBeginIInv DEF Start, LockStart
<1>2. ASSUME NEW c \in Conn, Continue(c) PROVE IInv'
  BY <1>2, LockPendingReadIInv, LockPendingWriteIInv, LockSharedRangeIInv,
     LockDropPendingIInv, LockReservedIInv, LockExclusiveIInv,
     UnlockDowngradeIInv, UnlockReleaseIInv, UnlockCountIInv, CloseInodeIInv,
     CloseDescriptorIInv DEF Continue
<1>3. ASSUME NEW p \in Process, Die(p) PROVE IInv'
  BY <1>3, DieIInv
<1>4. CASE UNCHANGED vars
  <2>. USE <1>4 DEF vars, osVars, inodeVars
  <2>1. \A p \in Process : Holders(p)' = Holders(p) /\ Users(p)' = Users(p)
    BY DEF Holders, Users
  <2>2. CountInv'
    BY <2>1 DEF IInv, CountInv
  <2>3. TypeOK'
    BY DEF IInv, TypeOK
  <2>4. InMutex' /\ CallInv' /\ Agree' /\ OneWriter'
    BY DEF IInv, InMutex, CallInv, CallInvOf, Agree, AgreeOf, OneWriter
  <2>. QED
    BY <2>2, <2>3, <2>4 DEF IInv
<1>. QED
  BY <1>1, <1>2, <1>3, <1>4 DEF Next

\* Every behaviour of the locking code, faults included, keeps the invariant.
THEOREM Invariance == Spec => []IInv
  BY InitIInv, NextIInv, PTL DEF Spec

\* posixUnlock's counters never underflow, whatever calls and faults precede.
THEOREM TypeCorrect == Spec => []TypeOK
<1>1. IInv => TypeOK
  BY DEF IInv
<1>. QED
  BY Invariance, <1>1, PTL

\* releaseInodeInfo is still to come for a descriptor that waits on pUnused:
\* a connection is counted in nRef, though F_UNLCK may fail at every call.
THEOREM DescriptorsKept == Spec => []NoDescriptorLeak
<1>1. ASSUME IInv, NEW p \in Process, nUnused[p] > 0
      PROVE  \E c \in Conn : proc[c] = p /\ pc[c] \notin {"closed", "opening", "close"}
  <2>1. nLock[p] > 0 /\ nRef[p] = Cardinality(Users(p)) /\ nRef[p] # 0
    BY <1>1 DEF IInv, CountInv
  <2>2. Users(p) # {}
    BY <2>1, FS_EmptySet
  <2>. QED
    BY <2>2 DEF Users
<1>2. IInv => NoDescriptorLeak
  BY <1>1 DEF NoDescriptorLeak
<1>. QED
  BY Invariance, <1>2, PTL

\* Without failing releases the nLock of posixUnlock counts the connections
\* that hold a lock, no more and no less, whatever close() races there are; so
\* the unlock that closes the deferred descriptors is still to come.
THEOREM UnlockClosesThem ==
  ASSUME ~ReleaseFaults
  PROVE  Spec => []UnlockClosesDeferred
<1>1. ASSUME IInv, NEW p \in Process
      PROVE  /\ nLock[p] = Cardinality(Holders(p))
             /\ nUnused[p] > 0 => Holders(p) # {}
  <2>1. /\ nLock[p] = Cardinality(Holders(p))
        /\ nUnused[p] > 0 => nLock[p] > 0
    BY <1>1 DEF IInv, CountInv
  <2>2. Holders(p) = {} => Cardinality(Holders(p)) = 0
    BY FS_EmptySet
  <2>. QED
    BY <2>1, <2>2
<1>2. IInv => UnlockClosesDeferred
  BY <1>1 DEF UnlockClosesDeferred
<1>. QED
  BY Invariance, <1>2, PTL

\* One writer, and nobody beside EXCLUSIVE, among the connections of a process.
LEMMA IInvExcludes ==
  ASSUME IInv
  PROVE  ExclusionInProcess
<1>. SUFFICES ASSUME NEW c \in Conn, NEW d \in Conn, c # d, proc[c] = proc[d]
              PROVE  /\ Held(c) = EXCLUSIVE_LOCK => Held(d) = NO_LOCK
                     /\ Held(c) >= RESERVED_LOCK => Held(d) <= SHARED_LOCK
  BY DEF ExclusionInProcess
<1>1. \A b \in Conn : /\ Held(b) \in LockLevels
                      /\ Held(b) > SHARED_LOCK
                           => Held(b) = fdLock[b] /\ pc[b] # "count"
                      /\ fdLock[b] = NO_LOCK => Held(b) = NO_LOCK
  BY DEF IInv, TypeOK, CallInv, CallInvOf, Held
<1>2. Held(c) >= RESERVED_LOCK => Held(d) <= SHARED_LOCK
  BY <1>1 DEF IInv, OneWriter, TypeOK
<1>3. ASSUME Held(c) = EXCLUSIVE_LOCK PROVE Held(d) = NO_LOCK
  <2>1. proc[c] \in Process /\ inodeLock[proc[c]] = EXCLUSIVE_LOCK
    BY <1>1, <1>3, ConnAssumption DEF IInv, Agree, AgreeOf
  <2>2. c \in Holders(proc[c])
    BY <1>1, <1>3 DEF Holders
  <2>3. Cardinality(Holders(proc[c])) <= 1
    BY <2>1, FiniteUsers DEF IInv, CountInv, TypeOK
  <2>4. Holders(proc[c]) = {c}
    BY <2>1, <2>2, <2>3, FiniteUsers, RemoveOne
  <2>. QED
    BY <1>1, <2>4 DEF Holders
<1>. QED
  BY <1>2, <1>3

\* The connections of one process exclude each other although fcntl() cannot
\* tell them apart.
THEOREM InProcessExclusion == Spec => []ExclusionInProcess
<1>1. IInv => ExclusionInProcess
  BY IInvExcludes
<1>. QED
  BY Invariance, <1>1, PTL

-----------------------------------------------------------------------------
(* Between processes *)

\* The kernel locks behind what c holds, and behind what its call under way
\* has obtained so far.
BackedOf(c) ==
  /\ fdLock[c] # NO_LOCK \/ pc[c] = "dropGot" => sharedRange[proc[c]] # "none"
  /\ fdLock[c] \in {RESERVED_LOCK, PENDING_LOCK} /\ pc[c] \notin UnlockPcs
       => reservedByte[proc[c]] = "write"
  /\ fdLock[c] = PENDING_LOCK /\ pc[c] \notin UnlockPcs
       => pendingByte[proc[c]] = "write"
  /\ fdLock[c] = EXCLUSIVE_LOCK /\ pc[c] \notin UnlockPcs
       => sharedRange[proc[c]] = "write"
  /\ pc[c] \in {"shared", "dropGot", "dropFailed"}
       => pendingByte[proc[c]] = "read"
  /\ pc[c] \in {"closed", "opening", "inode", "close"} => fdLock[c] = NO_LOCK

Backed == \A c \in Conn : BackedOf(c)

\* What fcntl() keeps apart on each range: a writer is alone on it.
WriterAlone(range) ==
  \A p, q \in Process : p # q /\ range[p] = "write" => range[q] = "none"

Exclusive ==
  WriterAlone(pendingByte) /\ WriterAlone(reservedByte)
    /\ WriterAlone(sharedRange)

\* Without failing releases nShared is exact, and the inode is locked as long
\* as a connection is.
Exact ==
  \A p \in Process : /\ nShared[p] = Cardinality(Holders(p))
                     /\ nShared[p] = 0 => inodeLock[p] = NO_LOCK

KInv == IInv /\ Backed /\ Exclusive /\ Exact /\ NoCloseOverlap

-----------------------------------------------------------------------------
USE DEF Modes

\* The step changes nothing of the other connections and of other processes.
OthersBacked(c) ==
  /\ \A d \in Conn \ {c} : pc'[d] = pc[d] /\ fdLock'[d] = fdLock[d]
  /\ \A q \in Process \ {proc[c]} :
       /\ pendingByte'[q] = pendingByte[q] /\ reservedByte'[q] = reservedByte[q]
       /\ sharedRange'[q] = sharedRange[q]
       /\ nShared'[q] = nShared[q] /\ inodeLock'[q] = inodeLock[q]

\* p's lock on a range stays, goes, or is one fcntl() may grant.
Granted(old, new, p) ==
  \/ new[p] = old[p]
  \/ new[p] = "none"
  \/ new[p] = "read" /\ ReadFree(old, p)
  \/ new[p] = "write" /\ WriteFree(old, p)

\* What fcntl() grants keeps a writer alone.
LEMMA GrantExclusive ==
  ASSUME NEW old, NEW new, NEW p \in Process, WriterAlone(old),
         \A q \in Process \ {p} : new[q] = old[q], Granted(old, new, p),
         \A q \in Process : old[q] \in Modes
  PROVE  WriterAlone(new)
<1>. SUFFICES ASSUME NEW a \in Process, NEW b \in Process, a # b,
                     new[a] = "write"
              PROVE  new[b] = "none"
  BY DEF WriterAlone
<1>1. CASE a # p /\ b # p
  BY <1>1 DEF WriterAlone
<1>2. CASE a = p
  BY <1>2 DEF WriterAlone, Granted, WriteFree
<1>3. CASE b = p
  BY <1>3 DEF WriterAlone, Granted, WriteFree, ReadFree
<1>. QED
  BY <1>1, <1>2, <1>3

\* A step of c keeps the kernel invariant if it keeps what is said of the
\* connections of its process and takes only what fcntl() grants.
LEMMA KernelStep ==
  ASSUME TypeOK, Backed, Exclusive, Exact, NEW c \in Conn, OthersBacked(c),
         \A d \in Conn : proc[d] = proc[c] => BackedOf(d)',
         Granted(pendingByte, pendingByte', proc[c]),
         Granted(reservedByte, reservedByte', proc[c]),
         Granted(sharedRange, sharedRange', proc[c]),
         nShared'[proc[c]] = Cardinality(Holders(proc[c])'),
         nShared'[proc[c]] = 0 => inodeLock'[proc[c]] = NO_LOCK
  PROVE  Backed' /\ Exclusive' /\ Exact'
<1>0. proc[c] \in Process
  BY ConnAssumption
<1>1. Backed'
  <2>1. ASSUME NEW d \in Conn, proc[d] # proc[c] PROVE BackedOf(d)'
    BY <2>1, ConnAssumption DEF OthersBacked, Backed, BackedOf
  <2>. QED
    BY <2>1 DEF Backed
<1>2. Exclusive'
  <2>1. WriterAlone(pendingByte)'
    BY <1>0, GrantExclusive DEF OthersBacked, Exclusive, TypeOK
  <2>2. WriterAlone(reservedByte)'
    BY <1>0, GrantExclusive DEF OthersBacked, Exclusive, TypeOK
  <2>3. WriterAlone(sharedRange)'
    BY <1>0, GrantExclusive DEF OthersBacked, Exclusive, TypeOK
  <2>. QED
    BY <2>1, <2>2, <2>3 DEF Exclusive
<1>3. Exact'
  <2>1. ASSUME NEW q \in Process, q # proc[c] PROVE Holders(q)' = Holders(q)
    BY <2>1 DEF Holders, OthersBacked
  <2>2. ASSUME NEW q \in Process, q # proc[c]
        PROVE  /\ nShared'[q] = Cardinality(Holders(q)')
               /\ nShared'[q] = 0 => inodeLock'[q] = NO_LOCK
    BY <2>1, <2>2 DEF OthersBacked, Exact
  <2>. QED
    BY <2>2 DEF Exact
<1>. QED
  BY <1>1, <1>2, <1>3

\* A step that keeps what is held keeps the count exact.
LEMMA SameHolders ==
  ASSUME Exact, NEW c \in Conn, OthersBacked(c),
         fdLock'[c] = NO_LOCK <=> fdLock[c] = NO_LOCK,
         nShared'[proc[c]] = nShared[proc[c]],
         inodeLock[proc[c]] = NO_LOCK => inodeLock'[proc[c]] = NO_LOCK
  PROVE  /\ nShared'[proc[c]] = Cardinality(Holders(proc[c])')
         /\ nShared'[proc[c]] = 0 => inodeLock'[proc[c]] = NO_LOCK
<1>1. Holders(proc[c])' = Holders(proc[c])
  BY DEF Holders, OthersBacked
<1>2. proc[c] \in Process
  BY ConnAssumption
<1>. QED
  BY <1>1, <1>2 DEF Exact

\* What the invariant says of one connection and its process.
LEMMA Local ==
  ASSUME KInv, NEW c \in Conn
  PROVE  /\ CallInvOf(c) /\ AgreeOf(c) /\ BackedOf(c)
         /\ fdLock[c] \in LockLevels /\ want[c] \in LockLevels
         /\ proc[c] \in Process
         /\ inodeLock[proc[c]] \in LockLevels
         /\ nShared[proc[c]] = Cardinality(Holders(proc[c]))
         /\ nShared[proc[c]] \in Nat /\ nLock[proc[c]] = nShared[proc[c]]
         /\ pc[c] \in LockPcs \cup UnlockPcs => lockMutex[proc[c]] = c
<1>1. proc[c] \in Process
  BY ConnAssumption
<1>2. CallInvOf(c) /\ AgreeOf(c) /\ BackedOf(c)
  BY DEF KInv, IInv, CallInv, Agree, Backed
<1>3. /\ fdLock[c] \in LockLevels /\ want[c] \in LockLevels
      /\ inodeLock[proc[c]] \in LockLevels /\ nShared[proc[c]] \in Nat
  BY <1>1 DEF KInv, IInv, TypeOK
<1>4. /\ nShared[proc[c]] = Cardinality(Holders(proc[c]))
      /\ nLock[proc[c]] = nShared[proc[c]]
  BY <1>1 DEF KInv, IInv, Exact, CountInv
<1>. QED
  BY <1>1, <1>2, <1>3, <1>4 DEF KInv, IInv, InMutex

\* The others of the process are not in a call while c is, or finds the mutex
\* free; if c has more than SHARED, they have not.
LEMMA Neighbour ==
  ASSUME KInv, NEW c \in Conn, NEW d \in Conn, d # c, proc[d] = proc[c],
         pc[c] \in LockPcs \cup UnlockPcs \/ lockMutex[proc[c]] = NoConn
  PROVE  /\ pc[d] \notin LockPcs \cup UnlockPcs
         /\ fdLock[c] > SHARED_LOCK => fdLock[d] <= SHARED_LOCK
         /\ inodeLock[proc[c]] = NO_LOCK => fdLock[d] = NO_LOCK
         /\ inodeLock[proc[c]] <= SHARED_LOCK => fdLock[d] <= SHARED_LOCK
<1>1. pc[d] \notin LockPcs \cup UnlockPcs
  BY Alone DEF KInv, IInv
<1>2. AgreeOf(d) /\ fdLock[d] \in LockLevels /\ fdLock[c] \in LockLevels
  BY Local
<1>3. fdLock[c] > SHARED_LOCK => fdLock[d] <= SHARED_LOCK
  BY <1>2 DEF KInv, IInv, OneWriter
<1>. QED
  BY <1>1, <1>2, <1>3 DEF AgreeOf


-----------------------------------------------------------------------------
(* unixLock *)

\* One more connection of a process that reads already.
LEMMA LockSharedInProcessKInv ==
  ASSUME KInv, ~ReleaseFaults, NEW c \in Conn,
         LockSharedInProcess(c)
  PROVE  Backed' /\ Exclusive' /\ Exact'
<1>0. /\ TypeOK /\ Backed /\ Exclusive /\ Exact
      /\ proc \in [Conn -> Process]
      /\ proc[c] \in Process
  BY ConnAssumption DEF KInv, IInv
<1>1. /\ pc[c] = "idle" /\ pc'[c] = "idle" /\ lockMutex[proc[c]] = NoConn
      /\ fdLock[c] = NO_LOCK /\ fdLock'[c] = SHARED_LOCK
      /\ inodeLock[proc[c]] \in {SHARED_LOCK, RESERVED_LOCK}
      /\ nShared'[proc[c]] = nShared[proc[c]] + 1
      /\ pendingByte'[proc[c]] = pendingByte[proc[c]]
      /\ reservedByte'[proc[c]] = reservedByte[proc[c]]
      /\ sharedRange'[proc[c]] = sharedRange[proc[c]]
  <2>1. fdLock[c] = NO_LOCK
    BY Local DEF LockSharedInProcess, LockCall
  <2>. QED
    BY <1>0, <2>1 DEF LockSharedInProcess, LockCall, Enter, osVars, TypeOK
<1>2. OthersBacked(c)
  BY <1>0 DEF OthersBacked, LockSharedInProcess, osVars, TypeOK
<1>3. BackedOf(c)'
  <2>1. PICK b \in Conn : proc[b] = proc[c] /\ fdLock[b] # NO_LOCK
    <3>1. Holders(proc[c]) # {}
      BY SMTT(30), <1>0, <1>1, FS_EmptySet DEF Exact
    <3>. QED
      BY <3>1 DEF Holders
  <2>. QED
    BY <1>1, <2>1, Local DEF BackedOf
<1>4. ASSUME NEW d \in Conn, d # c, proc[d] = proc[c] PROVE BackedOf(d)'
  BY <1>1, <1>2, <1>4, Local, Neighbour DEF AgreeOf, BackedOf, CallInvOf,
     OthersBacked
<1>5. /\ Granted(pendingByte, pendingByte', proc[c])
      /\ Granted(reservedByte, reservedByte', proc[c])
      /\ Granted(sharedRange, sharedRange', proc[c])
  BY <1>1 DEF Granted
<1>6. /\ nShared'[proc[c]] = Cardinality(Holders(proc[c])')
      /\ nShared'[proc[c]] = 0 => inodeLock'[proc[c]] = NO_LOCK
  <2>1. Holders(proc[c])' = Holders(proc[c]) \cup {c} /\ c \notin Holders(proc[c])
    BY <1>1, <1>2 DEF Holders, OthersBacked
  <2>2. Cardinality(Holders(proc[c])') = Cardinality(Holders(proc[c])) + 1
    BY <1>0, <2>1, FiniteUsers, FS_AddElement
  <2>. QED
    BY <1>1, <2>2, Local
<1>. QED
  BY <1>0, <1>2, <1>3, <1>4, <1>5, <1>6, KernelStep

\* A call for a higher lock enters the mutex.
LEMMA LockBeginKInv ==
  ASSUME KInv, ~ReleaseFaults, NEW c \in Conn, NEW e \in LockLevels,
         LockBegin(c, e)
  PROVE  Backed' /\ Exclusive' /\ Exact'
<1>0. /\ TypeOK /\ Backed /\ Exclusive /\ Exact
      /\ proc \in [Conn -> Process]
      /\ proc[c] \in Process
  BY ConnAssumption DEF KInv, IInv
<1>1. /\ pc[c] = "idle" /\ pc'[c] \in {"pending", "range"}
      /\ lockMutex[proc[c]] = NoConn
      /\ fdLock'[c] = fdLock[c]
      /\ nShared'[proc[c]] = nShared[proc[c]]
      /\ inodeLock'[proc[c]] = inodeLock[proc[c]]
      /\ pendingByte'[proc[c]] = pendingByte[proc[c]]
      /\ reservedByte'[proc[c]] = reservedByte[proc[c]]
      /\ sharedRange'[proc[c]] = sharedRange[proc[c]]
  BY <1>0 DEF LockBegin, LockCall, Goto, inodeVars, osVars, Enter, TypeOK
<1>2. OthersBacked(c)
  BY <1>0 DEF OthersBacked, LockBegin, Goto, inodeVars, osVars, TypeOK
<1>3. BackedOf(c)'
  BY <1>1, Local DEF CallInvOf, AgreeOf, BackedOf
<1>4. ASSUME NEW d \in Conn, d # c, proc[d] = proc[c] PROVE BackedOf(d)'
  BY <1>1, <1>2, <1>4, Local, Neighbour DEF AgreeOf, BackedOf, CallInvOf,
     OthersBacked
<1>5. /\ Granted(pendingByte, pendingByte', proc[c])
      /\ Granted(reservedByte, reservedByte', proc[c])
      /\ Granted(sharedRange, sharedRange', proc[c])
  BY <1>1 DEF Granted
<1>6. /\ nShared'[proc[c]] = Cardinality(Holders(proc[c])')
      /\ nShared'[proc[c]] = 0 => inodeLock'[proc[c]] = NO_LOCK
  BY <1>0, <1>1, <1>2, Local, SameHolders DEF CallInvOf, AgreeOf
<1>. QED
  BY <1>0, <1>2, <1>3, <1>4, <1>5, <1>6, KernelStep

\* The read-lock on the pending byte, or none.
LEMMA LockPendingReadKInv ==
  ASSUME KInv, ~ReleaseFaults, NEW c \in Conn,
         LockPendingRead(c)
  PROVE  Backed' /\ Exclusive' /\ Exact'
<1>0. /\ TypeOK /\ Backed /\ Exclusive /\ Exact
      /\ proc \in [Conn -> Process]
      /\ proc[c] \in Process
  BY ConnAssumption DEF KInv, IInv
<1>1. /\ pc[c] = "pending" /\ want[c] = SHARED_LOCK
      /\ fdLock'[c] = fdLock[c]
      /\ nShared'[proc[c]] = nShared[proc[c]]
      /\ inodeLock'[proc[c]] = inodeLock[proc[c]]
      /\ reservedByte'[proc[c]] = reservedByte[proc[c]]
      /\ sharedRange'[proc[c]] = sharedRange[proc[c]]
      /\ \/ /\ pc'[c] = "shared" /\ pendingByte'[proc[c]] = "read"
            /\ ReadFree(pendingByte, proc[c])
         \/ /\ pc'[c] = "idle" /\ pendingByte'[proc[c]] = pendingByte[proc[c]]
  BY <1>0 DEF LockPendingRead, Goto, Return, inodeVars, TypeOK
<1>2. OthersBacked(c)
  BY <1>0 DEF OthersBacked, LockPendingRead, Goto, Return, inodeVars, TypeOK
<1>3. BackedOf(c)'
  BY <1>1, Local DEF CallInvOf, AgreeOf, BackedOf
<1>4. ASSUME NEW d \in Conn, d # c, proc[d] = proc[c] PROVE BackedOf(d)'
  BY <1>1, <1>2, <1>4, Local, Neighbour DEF AgreeOf, BackedOf, CallInvOf,
     OthersBacked
<1>5. /\ Granted(pendingByte, pendingByte', proc[c])
      /\ Granted(reservedByte, reservedByte', proc[c])
      /\ Granted(sharedRange, sharedRange', proc[c])
  BY <1>1 DEF Granted
<1>6. /\ nShared'[proc[c]] = Cardinality(Holders(proc[c])')
      /\ nShared'[proc[c]] = 0 => inodeLock'[proc[c]] = NO_LOCK
  BY <1>0, <1>1, <1>2, Local, SameHolders DEF CallInvOf, AgreeOf
<1>. QED
  BY <1>0, <1>2, <1>3, <1>4, <1>5, <1>6, KernelStep

\* PENDING, or nothing.
LEMMA LockPendingWriteKInv ==
  ASSUME KInv, ~ReleaseFaults, NEW c \in Conn,
         LockPendingWrite(c)
  PROVE  Backed' /\ Exclusive' /\ Exact'
<1>0. /\ TypeOK /\ Backed /\ Exclusive /\ Exact
      /\ proc \in [Conn -> Process]
      /\ proc[c] \in Process
  BY ConnAssumption DEF KInv, IInv
<1>1. /\ pc[c] = "pending" /\ want[c] = EXCLUSIVE_LOCK
      /\ nShared'[proc[c]] = nShared[proc[c]]
      /\ reservedByte'[proc[c]] = reservedByte[proc[c]]
      /\ sharedRange'[proc[c]] = sharedRange[proc[c]]
      /\ \/ /\ pc'[c] = "range" /\ pendingByte'[proc[c]] = "write"
            /\ WriteFree(pendingByte, proc[c])
            /\ fdLock'[c] = PENDING_LOCK /\ inodeLock'[proc[c]] = PENDING_LOCK
         \/ /\ pc'[c] = "idle" /\ pendingByte'[proc[c]] = pendingByte[proc[c]]
            /\ fdLock'[c] = fdLock[c]
            /\ inodeLock'[proc[c]] = inodeLock[proc[c]]
  BY <1>0 DEF LockPendingWrite, Goto, Return, TypeOK
<1>2. OthersBacked(c)
  BY <1>0 DEF OthersBacked, LockPendingWrite, Goto, Return, TypeOK
<1>3. BackedOf(c)'
  BY <1>1, Local DEF CallInvOf, AgreeOf, BackedOf
<1>4. ASSUME NEW d \in Conn, d # c, proc[d] = proc[c] PROVE BackedOf(d)'
  BY <1>1, <1>2, <1>4, Local, Neighbour DEF AgreeOf, BackedOf, CallInvOf,
     OthersBacked
<1>5. /\ Granted(pendingByte, pendingByte', proc[c])
      /\ Granted(reservedByte, reservedByte', proc[c])
      /\ Granted(sharedRange, sharedRange', proc[c])
  BY <1>1 DEF Granted
<1>6. /\ nShared'[proc[c]] = Cardinality(Holders(proc[c])')
      /\ nShared'[proc[c]] = 0 => inodeLock'[proc[c]] = NO_LOCK
  BY <1>0, <1>1, <1>2, Local, SameHolders DEF CallInvOf, AgreeOf
<1>. QED
  BY <1>0, <1>2, <1>3, <1>4, <1>5, <1>6, KernelStep

\* The read-lock on the shared range, or none.
LEMMA LockSharedRangeKInv ==
  ASSUME KInv, ~ReleaseFaults, NEW c \in Conn,
         LockSharedRange(c)
  PROVE  Backed' /\ Exclusive' /\ Exact'
<1>0. /\ TypeOK /\ Backed /\ Exclusive /\ Exact
      /\ proc \in [Conn -> Process]
      /\ proc[c] \in Process
  BY ConnAssumption DEF KInv, IInv
<1>1. /\ pc[c] = "shared"
      /\ fdLock'[c] = fdLock[c]
      /\ nShared'[proc[c]] = nShared[proc[c]]
      /\ inodeLock'[proc[c]] = inodeLock[proc[c]]
      /\ pendingByte'[proc[c]] = pendingByte[proc[c]]
      /\ reservedByte'[proc[c]] = reservedByte[proc[c]]
      /\ \/ /\ pc'[c] = "dropGot" /\ sharedRange'[proc[c]] = "read"
            /\ ReadFree(sharedRange, proc[c])
         \/ /\ pc'[c] = "dropFailed"
            /\ sharedRange'[proc[c]] = sharedRange[proc[c]]
  BY <1>0 DEF LockSharedRange, Goto, inodeVars, TypeOK
<1>2. OthersBacked(c)
  BY <1>0 DEF OthersBacked, LockSharedRange, Goto, inodeVars, TypeOK
<1>3. BackedOf(c)'
  BY <1>1, Local DEF CallInvOf, AgreeOf, BackedOf
<1>4. ASSUME NEW d \in Conn, d # c, proc[d] = proc[c] PROVE BackedOf(d)'
  BY <1>1, <1>2, <1>4, Local, Neighbour DEF AgreeOf, BackedOf, CallInvOf,
     OthersBacked
<1>5. /\ Granted(pendingByte, pendingByte', proc[c])
      /\ Granted(reservedByte, reservedByte', proc[c])
      /\ Granted(sharedRange, sharedRange', proc[c])
  BY <1>1 DEF Granted
<1>6. /\ nShared'[proc[c]] = Cardinality(Holders(proc[c])')
      /\ nShared'[proc[c]] = 0 => inodeLock'[proc[c]] = NO_LOCK
  BY <1>0, <1>1, <1>2, Local, SameHolders DEF CallInvOf, AgreeOf
<1>. QED
  BY <1>0, <1>2, <1>3, <1>4, <1>5, <1>6, KernelStep

\* The temporary lock goes; SHARED is had if the range was.
LEMMA LockDropPendingKInv ==
  ASSUME KInv, ~ReleaseFaults, NEW c \in Conn,
         LockDropPending(c)
  PROVE  Backed' /\ Exclusive' /\ Exact'
<1>0. /\ TypeOK /\ Backed /\ Exclusive /\ Exact
      /\ proc \in [Conn -> Process]
      /\ proc[c] \in Process
  BY ConnAssumption DEF KInv, IInv
<1>1. /\ pc[c] \in {"dropGot", "dropFailed"} /\ pc'[c] = "idle"
      /\ pendingByte'[proc[c]] = "none"
      /\ reservedByte'[proc[c]] = reservedByte[proc[c]]
      /\ sharedRange'[proc[c]] = sharedRange[proc[c]]
      /\ pc[c] = "dropGot" => /\ fdLock'[c] = SHARED_LOCK
                             /\ inodeLock'[proc[c]] = SHARED_LOCK
                             /\ nShared'[proc[c]] = 1
      /\ pc[c] = "dropFailed" => /\ fdLock'[c] = fdLock[c]
                                /\ inodeLock'[proc[c]] = inodeLock[proc[c]]
                                /\ nShared'[proc[c]] = nShared[proc[c]]
  BY <1>0 DEF LockDropPending, Return, Goto, TypeOK
<1>2. OthersBacked(c)
  BY <1>0 DEF OthersBacked, LockDropPending, Return, Goto, TypeOK
<1>3. BackedOf(c)'
  BY <1>1, Local DEF CallInvOf, AgreeOf, BackedOf
<1>4. ASSUME NEW d \in Conn, d # c, proc[d] = proc[c] PROVE BackedOf(d)'
  BY <1>1, <1>2, <1>4, Local, Neighbour DEF AgreeOf, BackedOf, CallInvOf,
     OthersBacked
<1>5. /\ Granted(pendingByte, pendingByte', proc[c])
      /\ Granted(reservedByte, reservedByte', proc[c])
      /\ Granted(sharedRange, sharedRange', proc[c])
  BY <1>1 DEF Granted
<1>6. /\ nShared'[proc[c]] = Cardinality(Holders(proc[c])')
      /\ nShared'[proc[c]] = 0 => inodeLock'[proc[c]] = NO_LOCK
  <2>1. CASE pc[c] = "dropGot"
    <3>1. ASSUME NEW d \in Conn, d # c, proc[d] = proc[c]
          PROVE  fdLock[d] = NO_LOCK
      BY <2>1, <3>1, Local, Neighbour DEF CallInvOf
    <3>2. Holders(proc[c])' = {c}
      BY <1>1, <1>2, <2>1, <3>1 DEF Holders, OthersBacked
    <3>. QED
      BY <1>1, <2>1, <3>2, FS_Singleton
  <2>2. CASE pc[c] = "dropFailed"
    BY <1>0, <1>1, <1>2, <2>2, SameHolders
  <2>. QED
    BY <1>1, <2>1, <2>2
<1>. QED
  BY <1>0, <1>2, <1>3, <1>4, <1>5, <1>6, KernelStep

\* RESERVED, or nothing.
LEMMA LockReservedKInv ==
  ASSUME KInv, ~ReleaseFaults, NEW c \in Conn,
         LockReserved(c)
  PROVE  Backed' /\ Exclusive' /\ Exact'
<1>0. /\ TypeOK /\ Backed /\ Exclusive /\ Exact
      /\ proc \in [Conn -> Process]
      /\ proc[c] \in Process
  BY ConnAssumption DEF KInv, IInv
<1>1. /\ pc[c] = "range" /\ want[c] = RESERVED_LOCK /\ pc'[c] = "idle"
      /\ nShared'[proc[c]] = nShared[proc[c]]
      /\ pendingByte'[proc[c]] = pendingByte[proc[c]]
      /\ sharedRange'[proc[c]] = sharedRange[proc[c]]
      /\ \/ /\ reservedByte'[proc[c]] = "write"
            /\ WriteFree(reservedByte, proc[c])
            /\ fdLock'[c] = RESERVED_LOCK /\ inodeLock'[proc[c]] = RESERVED_LOCK
         \/ /\ reservedByte'[proc[c]] = reservedByte[proc[c]]
            /\ fdLock'[c] = fdLock[c]
            /\ inodeLock'[proc[c]] = inodeLock[proc[c]]
  BY <1>0 DEF LockReserved, Return, Goto, TypeOK
<1>2. OthersBacked(c)
  BY <1>0 DEF OthersBacked, LockReserved, Return, Goto, TypeOK
<1>3. BackedOf(c)'
  BY <1>1, Local DEF CallInvOf, AgreeOf, BackedOf
<1>4. ASSUME NEW d \in Conn, d # c, proc[d] = proc[c] PROVE BackedOf(d)'
  BY <1>1, <1>2, <1>4, Local, Neighbour DEF AgreeOf, BackedOf, CallInvOf,
     OthersBacked
<1>5. /\ Granted(pendingByte, pendingByte', proc[c])
      /\ Granted(reservedByte, reservedByte', proc[c])
      /\ Granted(sharedRange, sharedRange', proc[c])
  BY <1>1 DEF Granted
<1>6. /\ nShared'[proc[c]] = Cardinality(Holders(proc[c])')
      /\ nShared'[proc[c]] = 0 => inodeLock'[proc[c]] = NO_LOCK
  BY <1>0, <1>1, <1>2, Local, SameHolders DEF CallInvOf, AgreeOf
<1>. QED
  BY <1>0, <1>2, <1>3, <1>4, <1>5, <1>6, KernelStep

\* EXCLUSIVE, or nothing.
LEMMA LockExclusiveKInv ==
  ASSUME KInv, ~ReleaseFaults, NEW c \in Conn,
         LockExclusive(c)
  PROVE  Backed' /\ Exclusive' /\ Exact'
<1>0. /\ TypeOK /\ Backed /\ Exclusive /\ Exact
      /\ proc \in [Conn -> Process]
      /\ proc[c] \in Process
  BY ConnAssumption DEF KInv, IInv
<1>1. /\ pc[c] = "range" /\ want[c] = EXCLUSIVE_LOCK /\ pc'[c] = "idle"
      /\ nShared'[proc[c]] = nShared[proc[c]]
      /\ pendingByte'[proc[c]] = pendingByte[proc[c]]
      /\ reservedByte'[proc[c]] = reservedByte[proc[c]]
      /\ \/ /\ sharedRange'[proc[c]] = "write"
            /\ WriteFree(sharedRange, proc[c])
            /\ fdLock'[c] = EXCLUSIVE_LOCK
            /\ inodeLock'[proc[c]] = EXCLUSIVE_LOCK
         \/ /\ sharedRange'[proc[c]] = sharedRange[proc[c]]
            /\ fdLock'[c] = fdLock[c]
            /\ inodeLock'[proc[c]] = inodeLock[proc[c]]
  BY <1>0 DEF LockExclusive, Return, Goto, TypeOK
<1>2. OthersBacked(c)
  BY <1>0 DEF OthersBacked, LockExclusive, Return, Goto, TypeOK
<1>3. BackedOf(c)'
  BY <1>1, Local DEF CallInvOf, AgreeOf, BackedOf
<1>4. ASSUME NEW d \in Conn, d # c, proc[d] = proc[c] PROVE BackedOf(d)'
  BY <1>1, <1>2, <1>4, Local, Neighbour DEF AgreeOf, BackedOf, CallInvOf,
     OthersBacked
<1>5. /\ Granted(pendingByte, pendingByte', proc[c])
      /\ Granted(reservedByte, reservedByte', proc[c])
      /\ Granted(sharedRange, sharedRange', proc[c])
  BY <1>1 DEF Granted
<1>6. /\ nShared'[proc[c]] = Cardinality(Holders(proc[c])')
      /\ nShared'[proc[c]] = 0 => inodeLock'[proc[c]] = NO_LOCK
  BY <1>0, <1>1, <1>2, Local, SameHolders DEF CallInvOf, AgreeOf
<1>. QED
  BY <1>0, <1>2, <1>3, <1>4, <1>5, <1>6, KernelStep

-----------------------------------------------------------------------------
(* posixUnlock *)

\* A call for a lower lock enters the mutex.
LEMMA UnlockBeginKInv ==
  ASSUME KInv, ~ReleaseFaults, NEW c \in Conn, NEW e \in LockLevels,
         UnlockBegin(c, e)
  PROVE  Backed' /\ Exclusive' /\ Exact'
<1>0. /\ TypeOK /\ Backed /\ Exclusive /\ Exact
      /\ proc \in [Conn -> Process]
      /\ proc[c] \in Process
  BY ConnAssumption DEF KInv, IInv
<1>1. /\ pc[c] = "idle" /\ pc'[c] \in UnlockPcs
      /\ lockMutex[proc[c]] = NoConn
      /\ fdLock'[c] = fdLock[c]
      /\ nShared'[proc[c]] = nShared[proc[c]]
      /\ inodeLock'[proc[c]] = inodeLock[proc[c]]
      /\ pendingByte'[proc[c]] = pendingByte[proc[c]]
      /\ reservedByte'[proc[c]] = reservedByte[proc[c]]
      /\ sharedRange'[proc[c]] = sharedRange[proc[c]]
  BY <1>0 DEF UnlockBegin, Enter, Goto, inodeVars, osVars, TypeOK
<1>2. OthersBacked(c)
  BY <1>0 DEF OthersBacked, UnlockBegin, Goto, inodeVars, osVars, TypeOK
<1>3. BackedOf(c)'
  BY <1>1, Local DEF CallInvOf, AgreeOf, BackedOf
<1>4. ASSUME NEW d \in Conn, d # c, proc[d] = proc[c] PROVE BackedOf(d)'
  BY <1>1, <1>2, <1>4, Local, Neighbour DEF AgreeOf, BackedOf, CallInvOf,
     OthersBacked
<1>5. /\ Granted(pendingByte, pendingByte', proc[c])
      /\ Granted(reservedByte, reservedByte', proc[c])
      /\ Granted(sharedRange, sharedRange', proc[c])
  BY <1>1 DEF Granted
<1>6. /\ nShared'[proc[c]] = Cardinality(Holders(proc[c])')
      /\ nShared'[proc[c]] = 0 => inodeLock'[proc[c]] = NO_LOCK
  BY <1>0, <1>1, <1>2, Local, SameHolders DEF CallInvOf, AgreeOf
<1>. QED
  BY <1>0, <1>2, <1>3, <1>4, <1>5, <1>6, KernelStep

\* The write-lock on the shared range becomes a read-lock.
LEMMA UnlockDowngradeKInv ==
  ASSUME KInv, ~ReleaseFaults, NEW c \in Conn,
         UnlockDowngrade(c)
  PROVE  Backed' /\ Exclusive' /\ Exact'
<1>0. /\ TypeOK /\ Backed /\ Exclusive /\ Exact
      /\ proc \in [Conn -> Process]
      /\ proc[c] \in Process
  BY ConnAssumption DEF KInv, IInv
<1>1. /\ pc[c] = "downgrade" /\ pc'[c] = "release"
      /\ fdLock'[c] = fdLock[c]
      /\ nShared'[proc[c]] = nShared[proc[c]]
      /\ inodeLock'[proc[c]] = inodeLock[proc[c]]
      /\ pendingByte'[proc[c]] = pendingByte[proc[c]]
      /\ reservedByte'[proc[c]] = reservedByte[proc[c]]
      /\ sharedRange'[proc[c]] = "read" /\ ReadFree(sharedRange, proc[c])
  BY <1>0 DEF UnlockDowngrade, Goto, Return, inodeVars, TypeOK
<1>2. OthersBacked(c)
  BY <1>0 DEF OthersBacked, UnlockDowngrade, Goto, Return, inodeVars, TypeOK
<1>3. BackedOf(c)'
  BY <1>1, Local DEF CallInvOf, AgreeOf, BackedOf
<1>4. ASSUME NEW d \in Conn, d # c, proc[d] = proc[c] PROVE BackedOf(d)'
  BY <1>1, <1>2, <1>4, Local, Neighbour DEF AgreeOf, BackedOf, CallInvOf,
     OthersBacked
<1>5. /\ Granted(pendingByte, pendingByte', proc[c])
      /\ Granted(reservedByte, reservedByte', proc[c])
      /\ Granted(sharedRange, sharedRange', proc[c])
  BY <1>1 DEF Granted
<1>6. /\ nShared'[proc[c]] = Cardinality(Holders(proc[c])')
      /\ nShared'[proc[c]] = 0 => inodeLock'[proc[c]] = NO_LOCK
  BY <1>0, <1>1, <1>2, Local, SameHolders DEF CallInvOf, AgreeOf
<1>. QED
  BY <1>0, <1>2, <1>3, <1>4, <1>5, <1>6, KernelStep

\* The pending and the reserved byte go.
LEMMA UnlockReleaseKInv ==
  ASSUME KInv, ~ReleaseFaults, NEW c \in Conn,
         UnlockRelease(c)
  PROVE  Backed' /\ Exclusive' /\ Exact'
<1>0. /\ TypeOK /\ Backed /\ Exclusive /\ Exact
      /\ proc \in [Conn -> Process]
      /\ proc[c] \in Process
  BY ConnAssumption DEF KInv, IInv
<1>1. /\ pc[c] = "release"
      /\ nShared'[proc[c]] = nShared[proc[c]]
      /\ pendingByte'[proc[c]] = "none" /\ reservedByte'[proc[c]] = "none"
      /\ sharedRange'[proc[c]] = sharedRange[proc[c]]
      /\ inodeLock'[proc[c]] = SHARED_LOCK
      /\ \/ pc'[c] = "idle" /\ fdLock'[c] = SHARED_LOCK
         \/ pc'[c] = "count" /\ fdLock'[c] = fdLock[c]
  BY <1>0 DEF UnlockRelease, Goto, Return, TypeOK
<1>2. OthersBacked(c)
  BY <1>0 DEF OthersBacked, UnlockRelease, Goto, Return, TypeOK
<1>3. BackedOf(c)'
  BY <1>1, Local DEF CallInvOf, AgreeOf, BackedOf
<1>4. ASSUME NEW d \in Conn, d # c, proc[d] = proc[c] PROVE BackedOf(d)'
  BY <1>1, <1>2, <1>4, Local, Neighbour DEF AgreeOf, BackedOf, CallInvOf,
     OthersBacked
<1>5. /\ Granted(pendingByte, pendingByte', proc[c])
      /\ Granted(reservedByte, reservedByte', proc[c])
      /\ Granted(sharedRange, sharedRange', proc[c])
  BY <1>1 DEF Granted
<1>6. /\ nShared'[proc[c]] = Cardinality(Holders(proc[c])')
      /\ nShared'[proc[c]] = 0 => inodeLock'[proc[c]] = NO_LOCK
  BY <1>0, <1>1, <1>2, Local, SameHolders DEF CallInvOf, AgreeOf
<1>. QED
  BY <1>0, <1>2, <1>3, <1>4, <1>5, <1>6, KernelStep

\* The last holder of the process unlocks the file.
LEMMA UnlockCountKInv ==
  ASSUME KInv, ~ReleaseFaults, NEW c \in Conn,
         UnlockCount(c)
  PROVE  Backed' /\ Exclusive' /\ Exact'
<1>0. /\ TypeOK /\ Backed /\ Exclusive /\ Exact
      /\ proc \in [Conn -> Process]
      /\ proc[c] \in Process
  BY ConnAssumption DEF KInv, IInv
<1>1. /\ pc[c] = "count" /\ pc'[c] = "idle" /\ fdLock'[c] = NO_LOCK
      /\ nShared'[proc[c]] = nShared[proc[c]] - 1
      /\ nShared[proc[c]] = 1 => inodeLock'[proc[c]] = NO_LOCK
      /\ \/ /\ pendingByte'[proc[c]] = "none" /\ reservedByte'[proc[c]] = "none"
            /\ sharedRange'[proc[c]] = "none"
            /\ nShared[proc[c]] = 1 \/ nLock[proc[c]] = 1
         \/ /\ nShared[proc[c]] # 1
            /\ pendingByte'[proc[c]] = pendingByte[proc[c]]
            /\ reservedByte'[proc[c]] = reservedByte[proc[c]]
            /\ sharedRange'[proc[c]] = sharedRange[proc[c]]
  BY <1>0 DEF UnlockCount, Return, osVars, DropAllLocks, Goto, TypeOK
<1>2. OthersBacked(c)
  BY <1>0 DEF OthersBacked, UnlockCount, Return, osVars, DropAllLocks, Goto,
     TypeOK
<1>a. /\ nShared[proc[c]] = Cardinality(Holders(proc[c]))
      /\ nShared[proc[c]] \in Nat \ {0} /\ nLock[proc[c]] = nShared[proc[c]]
      /\ Cardinality(Holders(proc[c]) \ {c}) = nShared[proc[c]] - 1
      /\ nShared[proc[c]] = 1 => Holders(proc[c]) = {c}
  <2>1. c \in Holders(proc[c])
    BY <1>1, Local DEF CallInvOf, Holders
  <2>2. /\ IsFiniteSet(Holders(proc[c])) /\ nLock[proc[c]] = nShared[proc[c]]
        /\ nShared[proc[c]] = Cardinality(Holders(proc[c]))
    BY <1>0, FiniteUsers, Local
  <2>3. /\ Cardinality(Holders(proc[c])) \in Nat \ {0}
        /\ Cardinality(Holders(proc[c]) \ {c}) = Cardinality(Holders(proc[c])) - 1
        /\ Cardinality(Holders(proc[c])) <= 1 => Holders(proc[c]) = {c}
    BY <2>1, <2>2, RemoveOne
  <2>. QED
    BY <2>2, <2>3
<1>3. BackedOf(c)'
  BY <1>1, Local DEF CallInvOf, AgreeOf, BackedOf
<1>4. ASSUME NEW d \in Conn, d # c, proc[d] = proc[c] PROVE BackedOf(d)'
  <2>1. pc[d] \notin LockPcs \cup UnlockPcs /\ BackedOf(d)
    BY <1>1, <1>4, Local, Neighbour
  <2>2. CASE nShared[proc[c]] = 1
    <3>1. fdLock[d] = NO_LOCK
      BY <1>4, <1>a, <2>2 DEF Holders
    <3>. QED
      BY <1>2, <1>4, <2>1, <3>1 DEF BackedOf, OthersBacked
  <2>3. CASE nShared[proc[c]] # 1
    BY <1>1, <1>2, <1>4, <1>a, <2>1, <2>3 DEF BackedOf, OthersBacked
  <2>. QED
    BY <2>2, <2>3
<1>5. /\ Granted(pendingByte, pendingByte', proc[c])
      /\ Granted(reservedByte, reservedByte', proc[c])
      /\ Granted(sharedRange, sharedRange', proc[c])
  BY <1>1 DEF Granted
<1>6. /\ nShared'[proc[c]] = Cardinality(Holders(proc[c])')
      /\ nShared'[proc[c]] = 0 => inodeLock'[proc[c]] = NO_LOCK
  <2>1. Holders(proc[c])' = Holders(proc[c]) \ {c}
    BY <1>1, <1>2 DEF Holders, OthersBacked
  <2>. QED
    BY <1>1, <1>a, <2>1
<1>. QED
  BY <1>0, <1>2, <1>3, <1>4, <1>5, <1>6, KernelStep

-----------------------------------------------------------------------------
(* Opening, closing and death *)

\* A new or reused descriptor locks nothing.
LEMMA OpenDescriptorKInv ==
  ASSUME KInv, ~ReleaseFaults, NEW c \in Conn,
         OpenDescriptor(c)
  PROVE  Backed' /\ Exclusive' /\ Exact'
<1>0. /\ TypeOK /\ Backed /\ Exclusive /\ Exact
      /\ proc \in [Conn -> Process]
      /\ proc[c] \in Process
  BY ConnAssumption DEF KInv, IInv
<1>1. /\ pc[c] = "closed" /\ pc'[c] = "opening"
      /\ fdLock'[c] = fdLock[c]
      /\ nShared'[proc[c]] = nShared[proc[c]]
      /\ inodeLock'[proc[c]] = inodeLock[proc[c]]
      /\ pendingByte'[proc[c]] = pendingByte[proc[c]]
      /\ reservedByte'[proc[c]] = reservedByte[proc[c]]
      /\ sharedRange'[proc[c]] = sharedRange[proc[c]]
  BY <1>0 DEF OpenDescriptor, Enter, Goto, osVars, TypeOK
<1>2. OthersBacked(c)
  BY <1>0 DEF OthersBacked, OpenDescriptor, Goto, osVars, TypeOK
<1>3. BackedOf(c)'
  BY <1>1, Local DEF CallInvOf, AgreeOf, BackedOf
<1>4. ASSUME NEW d \in Conn, d # c, proc[d] = proc[c] PROVE BackedOf(d)'
  BY <1>1, <1>2, <1>4, Local DEF BackedOf, OthersBacked
<1>5. /\ Granted(pendingByte, pendingByte', proc[c])
      /\ Granted(reservedByte, reservedByte', proc[c])
      /\ Granted(sharedRange, sharedRange', proc[c])
  BY <1>1 DEF Granted
<1>6. /\ nShared'[proc[c]] = Cardinality(Holders(proc[c])')
      /\ nShared'[proc[c]] = 0 => inodeLock'[proc[c]] = NO_LOCK
  BY <1>0, <1>1, <1>2, Local, SameHolders DEF CallInvOf, AgreeOf
<1>. QED
  BY <1>0, <1>2, <1>3, <1>4, <1>5, <1>6, KernelStep

\* The inode is found; nothing is locked.
LEMMA OpenInodeKInv ==
  ASSUME KInv, ~ReleaseFaults, NEW c \in Conn,
         OpenInode(c)
  PROVE  Backed' /\ Exclusive' /\ Exact'
<1>0. /\ TypeOK /\ Backed /\ Exclusive /\ Exact
      /\ proc \in [Conn -> Process]
      /\ proc[c] \in Process
  BY ConnAssumption DEF KInv, IInv
<1>1. /\ pc[c] = "opening" /\ pc'[c] = "idle"
      /\ fdLock'[c] = fdLock[c]
      /\ nShared'[proc[c]] = nShared[proc[c]]
      /\ inodeLock'[proc[c]] = inodeLock[proc[c]]
      /\ pendingByte'[proc[c]] = pendingByte[proc[c]]
      /\ reservedByte'[proc[c]] = reservedByte[proc[c]]
      /\ sharedRange'[proc[c]] = sharedRange[proc[c]]
  BY <1>0 DEF OpenInode, Enter, Goto, osVars, TypeOK
<1>2. OthersBacked(c)
  BY <1>0 DEF OthersBacked, OpenInode, Goto, osVars, TypeOK
<1>3. BackedOf(c)'
  BY <1>1, Local DEF CallInvOf, AgreeOf, BackedOf
<1>4. ASSUME NEW d \in Conn, d # c, proc[d] = proc[c] PROVE BackedOf(d)'
  BY <1>1, <1>2, <1>4, Local DEF BackedOf, OthersBacked
<1>5. /\ Granted(pendingByte, pendingByte', proc[c])
      /\ Granted(reservedByte, reservedByte', proc[c])
      /\ Granted(sharedRange, sharedRange', proc[c])
  BY <1>1 DEF Granted
<1>6. /\ nShared'[proc[c]] = Cardinality(Holders(proc[c])')
      /\ nShared'[proc[c]] = 0 => inodeLock'[proc[c]] = NO_LOCK
  BY <1>0, <1>1, <1>2, Local, SameHolders DEF CallInvOf, AgreeOf
<1>. QED
  BY <1>0, <1>2, <1>3, <1>4, <1>5, <1>6, KernelStep

\* Without faults a connection that closes has given everything up.
LEMMA CloseBeginKInv ==
  ASSUME KInv, ~ReleaseFaults, NEW c \in Conn,
         CloseBegin(c)
  PROVE  Backed' /\ Exclusive' /\ Exact'
<1>0. /\ TypeOK /\ Backed /\ Exclusive /\ Exact
      /\ proc \in [Conn -> Process]
      /\ proc[c] \in Process
  BY ConnAssumption DEF KInv, IInv
<1>1. /\ pc[c] = "idle" /\ pc'[c] = "inode"
      /\ fdLock[c] = NO_LOCK /\ fdLock'[c] = NO_LOCK
      /\ nShared'[proc[c]] = nShared[proc[c]]
      /\ inodeLock'[proc[c]] = inodeLock[proc[c]]
      /\ pendingByte'[proc[c]] = pendingByte[proc[c]]
      /\ reservedByte'[proc[c]] = reservedByte[proc[c]]
      /\ sharedRange'[proc[c]] = sharedRange[proc[c]]
  BY <1>0 DEF CloseBegin, Enter, Goto, osVars, TypeOK
<1>2. OthersBacked(c)
  BY <1>0 DEF OthersBacked, CloseBegin, Goto, osVars, TypeOK
<1>3. BackedOf(c)'
  BY <1>1, Local DEF CallInvOf, AgreeOf, BackedOf
<1>4. ASSUME NEW d \in Conn, d # c, proc[d] = proc[c] PROVE BackedOf(d)'
  BY <1>1, <1>2, <1>4, Local DEF BackedOf, OthersBacked
<1>5. /\ Granted(pendingByte, pendingByte', proc[c])
      /\ Granted(reservedByte, reservedByte', proc[c])
      /\ Granted(sharedRange, sharedRange', proc[c])
  BY <1>1 DEF Granted
<1>6. /\ nShared'[proc[c]] = Cardinality(Holders(proc[c])')
      /\ nShared'[proc[c]] = 0 => inodeLock'[proc[c]] = NO_LOCK
  BY <1>0, <1>1, <1>2, Local, SameHolders DEF CallInvOf, AgreeOf
<1>. QED
  BY <1>0, <1>2, <1>3, <1>4, <1>5, <1>6, KernelStep

\* Deferred descriptors are closed by the last user, so nobody holds a lock.
LEMMA CloseInodeKInv ==
  ASSUME KInv, ~ReleaseFaults, NEW c \in Conn,
         CloseInode(c)
  PROVE  Backed' /\ Exclusive' /\ Exact'
<1>0. /\ TypeOK /\ Backed /\ Exclusive /\ Exact
      /\ proc \in [Conn -> Process]
      /\ proc[c] \in Process
  BY ConnAssumption DEF KInv, IInv
<1>. DEFINE p == proc[c]
<1>1. /\ pc[c] = "inode" /\ pc'[c] = "close"
      /\ fdLock' = fdLock
      /\ nShared'[p] = IF nRef[p] = 1 THEN 0 ELSE nShared[p]
      /\ inodeLock'[p] = IF nRef[p] = 1 THEN NO_LOCK ELSE inodeLock[p]
      /\ \/ /\ nRef[p] = 1 /\ lockMutex[p] = NoConn
            /\ pendingByte'[p] = "none" /\ reservedByte'[p] = "none"
            /\ sharedRange'[p] = "none"
         \/ /\ pendingByte'[p] = pendingByte[p]
            /\ reservedByte'[p] = reservedByte[p]
            /\ sharedRange'[p] = sharedRange[p]
  BY <1>0 DEF CloseInode, Enter, Goto, osVars, DropAllLocks, TypeOK
<1>2. ASSUME nRef[p] = 1 PROVE Users(p) = {c}
  <2>1. c \in Users(p) /\ Cardinality(Users(p)) = 1
    BY <1>0, <1>1, <1>2 DEF Users, CountInv, KInv, IInv
  <2>2. IsFiniteSet(Users(p)) /\ Cardinality(Users(p)) <= 1
    BY <1>0, <2>1, FiniteUsers
  <2>. QED
    BY ONLY <2>1, <2>2, RemoveOne
<1>3. ASSUME nRef[p] = 1 PROVE nShared[p] = 0 /\ inodeLock[p] = NO_LOCK
  <2>1. ASSUME NEW d \in Conn, proc[d] = p PROVE fdLock[d] = NO_LOCK
    <3>1. d = c \/ pc[d] \in {"closed", "opening", "close"}
      BY <1>2, <1>3, <2>1 DEF Users
    <3>. QED
      BY <1>1, <3>1 DEF KInv, IInv, CallInv, CallInvOf
  <2>2. Cardinality(Holders(p)) = 0
    BY <2>1, FS_EmptySet DEF Holders
  <2>. QED
    BY <1>0, <2>2 DEF Exact
<1>4. /\ pc[c] = "inode" /\ pc'[c] = "close"
      /\ fdLock'[c] = fdLock[c]
      /\ nShared'[proc[c]] = nShared[proc[c]]
      /\ inodeLock'[proc[c]] = inodeLock[proc[c]]
      /\ \/ /\ nRef[proc[c]] = 1 /\ lockMutex[proc[c]] = NoConn
            /\ pendingByte'[proc[c]] = "none" /\ reservedByte'[proc[c]] = "none"
            /\ sharedRange'[proc[c]] = "none"
         \/ /\ pendingByte'[proc[c]] = pendingByte[proc[c]]
            /\ reservedByte'[proc[c]] = reservedByte[proc[c]]
            /\ sharedRange'[proc[c]] = sharedRange[proc[c]]
  BY <1>1, <1>3
<1>5. OthersBacked(c)
  BY <1>0 DEF OthersBacked, CloseInode, Goto, osVars, DropAllLocks, TypeOK
<1>6. BackedOf(c)'
  BY <1>4, Local DEF CallInvOf, AgreeOf, BackedOf
<1>7. ASSUME NEW d \in Conn, d # c, proc[d] = proc[c] PROVE BackedOf(d)'
  <2>1. CASE nRef[proc[c]] = 1 /\ lockMutex[proc[c]] = NoConn
    <3>3. pc[d] \in {"closed", "opening", "close"}
      BY <1>7, <1>2, <2>1 DEF Users
    <3>4. fdLock[d] = NO_LOCK
      BY <3>3, Local DEF BackedOf
    <3>. QED
      BY <1>5, <1>7, <3>3, <3>4 DEF BackedOf, OthersBacked
  <2>2. CASE ~(nRef[proc[c]] = 1 /\ lockMutex[proc[c]] = NoConn)
    BY <1>4, <1>5, <1>7, <2>2, Local DEF BackedOf, OthersBacked
  <2>. QED
    BY <2>1, <2>2
<1>8. /\ Granted(pendingByte, pendingByte', proc[c])
      /\ Granted(reservedByte, reservedByte', proc[c])
      /\ Granted(sharedRange, sharedRange', proc[c])
  BY <1>4 DEF Granted
<1>9. /\ nShared'[proc[c]] = Cardinality(Holders(proc[c])')
      /\ nShared'[proc[c]] = 0 => inodeLock'[proc[c]] = NO_LOCK
  BY <1>0, <1>4, <1>5, Local, SameHolders DEF CallInvOf, AgreeOf
<1>. QED
  BY <1>0, <1>5, <1>6, <1>7, <1>8, <1>9, KernelStep

\* A descriptor is closed while nobody of the process has a lock.
LEMMA CloseDescriptorKInv ==
  ASSUME KInv, ~ReleaseFaults, NEW c \in Conn,
         CloseDescriptor(c)
  PROVE  Backed' /\ Exclusive' /\ Exact'
<1>0. /\ TypeOK /\ Backed /\ Exclusive /\ Exact
      /\ proc \in [Conn -> Process]
      /\ proc[c] \in Process
  BY ConnAssumption DEF KInv, IInv
<1>1. /\ pc[c] = "close" /\ pc'[c] = "closed"
      /\ fdLock'[c] = fdLock[c]
      /\ nShared'[proc[c]] = nShared[proc[c]]
      /\ inodeLock'[proc[c]] = inodeLock[proc[c]]
      /\ \/ /\ hasFd[c]
            /\ pendingByte'[proc[c]] = "none" /\ reservedByte'[proc[c]] = "none"
            /\ sharedRange'[proc[c]] = "none"
         \/ /\ pendingByte'[proc[c]] = pendingByte[proc[c]]
            /\ reservedByte'[proc[c]] = reservedByte[proc[c]]
            /\ sharedRange'[proc[c]] = sharedRange[proc[c]]
  BY <1>0 DEF CloseDescriptor, Goto, inodeVars, osVars, DropAllLocks, TypeOK
<1>2. OthersBacked(c)
  BY <1>0 DEF OthersBacked, CloseDescriptor, Goto, inodeVars, osVars,
     DropAllLocks, TypeOK
<1>3. BackedOf(c)'
  BY <1>1, Local DEF CallInvOf, AgreeOf, BackedOf
<1>4. ASSUME NEW d \in Conn, d # c, proc[d] = proc[c] PROVE BackedOf(d)'
  <2>1. CASE hasFd[c]
    <3>1. fdLock[d] = NO_LOCK /\ pc[d] \notin LockPcs
      BY <1>1, <1>4, <2>1 DEF KInv, NoCloseOverlap, ClosePcs
    <3>. QED
      BY <1>2, <1>4, <3>1, Local DEF BackedOf, OthersBacked
  <2>2. CASE ~hasFd[c]
    BY <1>1, <1>2, <1>4, <2>2, Local DEF BackedOf, OthersBacked
  <2>. QED
    BY <2>1, <2>2
<1>5. /\ Granted(pendingByte, pendingByte', proc[c])
      /\ Granted(reservedByte, reservedByte', proc[c])
      /\ Granted(sharedRange, sharedRange', proc[c])
  BY <1>1 DEF Granted
<1>6. /\ nShared'[proc[c]] = Cardinality(Holders(proc[c])')
      /\ nShared'[proc[c]] = 0 => inodeLock'[proc[c]] = NO_LOCK
  BY <1>0, <1>1, <1>2, Local, SameHolders DEF CallInvOf, AgreeOf
<1>. QED
  BY <1>0, <1>2, <1>3, <1>4, <1>5, <1>6, KernelStep

\* A process that is gone holds nothing.
LEMMA DieKInv ==
  ASSUME KInv, NEW p \in Process, Die(p)
  PROVE  Backed' /\ Exclusive' /\ Exact'
<1>0. TypeOK /\ Backed /\ Exclusive /\ Exact /\ proc \in [Conn -> Process]
  BY ConnAssumption DEF KInv, IInv
<1>1. ASSUME NEW c \in Conn, proc[c] = p
      PROVE  pc'[c] = "closed" /\ fdLock'[c] = NO_LOCK
  BY <1>1 DEF Die
<1>2. ASSUME NEW c \in Conn, proc[c] # p
      PROVE  pc'[c] = pc[c] /\ fdLock'[c] = fdLock[c]
  BY <1>2 DEF Die
<1>3. ASSUME NEW q \in Process, q # p
      PROVE  /\ pendingByte'[q] = pendingByte[q]
             /\ reservedByte'[q] = reservedByte[q]
             /\ sharedRange'[q] = sharedRange[q]
             /\ nShared'[q] = nShared[q] /\ inodeLock'[q] = inodeLock[q]
  BY <1>0, <1>3 DEF Die, DropAllLocks, TypeOK
<1>4. /\ pendingByte'[p] = "none" /\ reservedByte'[p] = "none"
      /\ sharedRange'[p] = "none" /\ nShared'[p] = 0
      /\ inodeLock'[p] = NO_LOCK
  BY <1>0 DEF Die, DropAllLocks, TypeOK
<1>5. Backed'
  <2>1. ASSUME NEW c \in Conn, proc[c] = p PROVE BackedOf(c)'
    BY <1>1, <2>1 DEF BackedOf
  <2>2. ASSUME NEW c \in Conn, proc[c] # p PROVE BackedOf(c)'
    <3>1. proc[c] \in Process /\ BackedOf(c)
      BY <1>0 DEF Backed
    <3>. QED
      BY <1>2, <1>3, <2>2, <3>1 DEF BackedOf
  <2>. QED
    BY <2>1, <2>2 DEF Backed
<1>6. Exclusive'
  <2>1. WriterAlone(pendingByte)'
    BY <1>0, <1>3, <1>4 DEF Exclusive, WriterAlone
  <2>2. WriterAlone(reservedByte)'
    BY <1>0, <1>3, <1>4 DEF Exclusive, WriterAlone
  <2>3. WriterAlone(sharedRange)'
    BY <1>0, <1>3, <1>4 DEF Exclusive, WriterAlone
  <2>. QED
    BY <2>1, <2>2, <2>3 DEF Exclusive
<1>7. Exact'
  <2>1. Holders(p)' = {}
    BY <1>1 DEF Holders
  <2>2. ASSUME NEW q \in Process, q # p PROVE Holders(q)' = Holders(q)
    BY <1>2, <2>2 DEF Holders
  <2>. QED
    BY <1>0, <1>3, <1>4, <2>1, <2>2, FS_EmptySet DEF Exact
<1>. QED
  BY <1>5, <1>6, <1>7

-----------------------------------------------------------------------------
(* The invariant between processes *)

\* Nobody holds anything at first.
LEMMA InitKInv == Init => KInv
<1>. SUFFICES ASSUME Init PROVE KInv
  OBVIOUS
<1>1. IInv
  BY InitIInv
<1>2. Backed /\ NoCloseOverlap
  BY DEF Init, Backed, BackedOf, NoCloseOverlap, ClosePcs
<1>3. Exclusive
  BY DEF Init, Exclusive, WriterAlone
<1>4. \A p \in Process : Holders(p) = {}
  BY DEF Init, Holders
<1>5. Exact
  BY <1>4, FS_EmptySet DEF Init, Exact
<1>. QED
  BY <1>1, <1>2, <1>3, <1>5 DEF KInv

\* A step keeps the kernel locks behind every connection, if F_UNLCK does not
\* fail and no close() meets a lock of its process.
LEMMA NextKInv ==
  ASSUME ~ReleaseFaults
  PROVE  KInv /\ [Next /\ NoCloseOverlap']_vars => KInv'
<1>. SUFFICES ASSUME KInv, [Next /\ NoCloseOverlap']_vars PROVE KInv'
  OBVIOUS
<1>1. IInv'
  BY NextIInv DEF KInv
<1>2. CASE Next /\ NoCloseOverlap'
  <2>1. ASSUME NEW c \in Conn, Start(c) PROVE Backed' /\ Exclusive' /\ Exact'
    BY <2>1, LockSharedInProcessKInv, LockBeginKInv, UnlockBeginKInv,
       OpenDescriptorKInv, OpenInodeKInv, CloseBeginKInv DEF Start, LockStart
  <2>2. ASSUME NEW c \in Conn, Continue(c)
        PROVE  Backed' /\ Exclusive' /\ Exact'
    BY <2>2, LockPendingReadKInv, LockPendingWriteKInv, LockSharedRangeKInv,
       LockDropPendingKInv, LockReservedKInv, LockExclusiveKInv,
       UnlockDowngradeKInv, UnlockReleaseKInv, UnlockCountKInv,
       CloseInodeKInv, CloseDescriptorKInv DEF Continue
  <2>3. ASSUME NEW p \in Process, Die(p)
        PROVE  Backed' /\ Exclusive' /\ Exact'
    BY <2>3, DieKInv
  <2>. QED
    BY <1>1, <1>2, <2>1, <2>2, <2>3 DEF Next, KInv
<1>3. CASE UNCHANGED vars
  <2>. USE <1>3 DEF vars, osVars, inodeVars, KInv
  <2>1. Backed' /\ NoCloseOverlap'
    BY DEF Backed, BackedOf, NoCloseOverlap
  <2>2. Exclusive'
    BY DEF Exclusive, WriterAlone
  <2>3. \A p \in Process : Holders(p)' = Holders(p)
    BY DEF Holders
  <2>4. Exact'
    BY <2>3 DEF Exact
  <2>. QED
    BY <1>1, <2>1, <2>2, <2>4
<1>. QED
  BY <1>2, <1>3

\* Without a failing F_UNLCK and a close() that overlaps a lock, the counters
\* are exact and the kernel locks cover what the connections hold.
THEOREM KernelInvariance ==
  ASSUME ~ReleaseFaults
  PROVE  SpecNoOverlap => []KInv
  BY InitKInv, NextKInv, PTL DEF SpecNoOverlap

\* The kernel locks behind the level a connection relies on.
LEMMA HeldLocal ==
  ASSUME KInv, NEW c \in Conn
  PROVE  /\ Held(c) \in LockLevels
         /\ Held(c) # NO_LOCK
              => fdLock[c] # NO_LOCK /\ sharedRange[proc[c]] # "none"
         /\ Held(c) > SHARED_LOCK => Held(c) = fdLock[c] /\ pc[c] # "count"
         /\ Held(c) \in {RESERVED_LOCK, PENDING_LOCK}
              => reservedByte[proc[c]] = "write"
         /\ Held(c) = PENDING_LOCK => pendingByte[proc[c]] = "write"
         /\ Held(c) = EXCLUSIVE_LOCK => sharedRange[proc[c]] = "write"
  BY Local DEF Held, CallInvOf, BackedOf

\* Two processes do not hold what fcntl() keeps apart.
LEMMA KernelExclusion ==
  ASSUME KInv, NEW c \in Conn, NEW d \in Conn, proc[c] # proc[d]
  PROVE  /\ Held(c) = EXCLUSIVE_LOCK => Held(d) = NO_LOCK
         /\ Held(c) >= RESERVED_LOCK => Held(d) <= SHARED_LOCK
<1>1. proc[c] \in Process /\ proc[d] \in Process
  BY Local
<1>2. /\ reservedByte[proc[c]] = "write" => reservedByte[proc[d]] = "none"
      /\ sharedRange[proc[c]] = "write" => sharedRange[proc[d]] = "none"
      /\ sharedRange[proc[d]] = "write" => sharedRange[proc[c]] = "none"
  BY <1>1 DEF KInv, Exclusive, WriterAlone
<1>. QED
  BY <1>2, HeldLocal

\* Every lock that a connection relies on has a kernel lock behind it that no
\* close() of another connection has dropped.
THEOREM KernelBacks ==
  ASSUME ~ReleaseFaults
  PROVE  SpecNoOverlap => []KernelBacked
<1>1. KInv => KernelBacked
  BY HeldLocal DEF KernelBacked
<1>. QED
  BY KernelInvariance, <1>1, PTL

\* The compatibility rules hold between all connections of all processes.
THEOREM LocksExclude ==
  ASSUME ~ReleaseFaults
  PROVE  SpecNoOverlap => []LockExclusion
<1>1. ASSUME KInv PROVE LockExclusion
  <2>1. ASSUME NEW c \in Conn, NEW d \in Conn, c # d
        PROVE  /\ Held(c) = EXCLUSIVE_LOCK => Held(d) = NO_LOCK
               /\ Held(c) >= RESERVED_LOCK => Held(d) <= SHARED_LOCK
    <3>1. CASE proc[c] = proc[d]
      BY <1>1, <2>1, <3>1, IInvExcludes DEF KInv, ExclusionInProcess
    <3>2. CASE proc[c] # proc[d]
      BY <1>1, <3>2, KernelExclusion
    <3>. QED
      BY <3>1, <3>2
  <2>. QED
    BY <2>1 DEF LockExclusion, FL!Compatible, FL!EXCLUSIVE_LOCK, FL!NO_LOCK,
                FL!RESERVED_LOCK, FL!SHARED_LOCK
<1>. QED
  BY KernelInvariance, <1>1, PTL

\* A reader that asks for a live writer is told of one.
THEOREM WriterSeen ==
  ASSUME ~ReleaseFaults
  PROVE  SpecNoOverlap => []WriterIsSeen
<1>1. ASSUME KInv PROVE WriterIsSeen
  <2>. SUFFICES ASSUME NEW c \in Conn, NEW d \in Conn, c # d,
                       Held(c) = SHARED_LOCK, Held(d) >= RESERVED_LOCK,
                       pc[c] = "idle", lockMutex[proc[c]] = NoConn
                PROVE  CheckReservedLock(c)
    BY DEF WriterIsSeen
  <2>0. Held(d) > SHARED_LOCK /\ Held(d) \in LockLevels
    BY <1>1, HeldLocal
  <2>1. CASE proc[d] = proc[c]
    <3>1. inodeLock[proc[c]] = fdLock[d] /\ fdLock[d] > SHARED_LOCK
      BY <1>1, <2>0, <2>1, Local, HeldLocal DEF AgreeOf
    <3>. QED
      BY <3>1 DEF CheckReservedLock
  <2>2. CASE proc[d] # proc[c]
    <3>1. Held(d) # EXCLUSIVE_LOCK
      BY <1>1, <2>2, KernelExclusion
    <3>2. reservedByte[proc[d]] = "write" /\ proc[d] \in Process
      BY <1>1, <2>0, <3>1, HeldLocal, Local
    <3>. QED
      BY <2>2, <3>2 DEF CheckReservedLock, WriteFree
  <2>. QED
    BY <2>1, <2>2
<1>. QED
  BY KernelInvariance, <1>1, PTL
-----------------------------------------------------------------------------
(* Refinement of FileLock *)

\* Definitions of the contract, for the steps below.
USE DEF FL!NO_LOCK, FL!SHARED_LOCK, FL!RESERVED_LOCK, FL!PENDING_LOCK,
        FL!EXCLUSIVE_LOCK, FL!LockLevels

\* A step that changes no level is a stutter.
LEMMA Stutter ==
  ASSUME \A c \in Conn : Held(c)' = Held(c)
  PROVE  UNCHANGED [c \in Conn |-> Held(c)]
  OBVIOUS

\* A step that raises the level of one connection as the contract allows.
LEMMA AcquireStep ==
  ASSUME NEW c \in Conn, NEW e \in LockLevels, e > Held(c), Held(c)' = e,
         \A d \in Conn \ {c} : Held(d)' = Held(d),
         Held(c) = NO_LOCK => e = SHARED_LOCK,
         e = SHARED_LOCK => \A d \in Conn \ {c} :
           \/ Held(d) < PENDING_LOCK
           \/ /\ Held(d) = PENDING_LOCK
              /\ \E b \in Conn \ {c} : /\ proc[b] = proc[c]
                                       /\ Held(b) \in {SHARED_LOCK, RESERVED_LOCK},
         e \in {RESERVED_LOCK, PENDING_LOCK} =>
           \A d \in Conn \ {c} : Held(d) <= SHARED_LOCK,
         e = EXCLUSIVE_LOCK => \A d \in Conn \ {c} : Held(d) = NO_LOCK
  PROVE  FL!AbsNext
<1>1. FL!Admissible(c, e)
  BY DEF FL!Admissible, FL!ProcessReads
<1>2. FL!Acquire(c, e)
  BY <1>1 DEF FL!Acquire
<1>. QED
  BY <1>2 DEF FL!AbsNext

\* A step that lowers the level of some connections to SHARED or nothing.
LEMMA RelinquishStep ==
  ASSUME NEW S \in SUBSET Conn, \A c \in Conn : Held(c)' \in LockLevels,
         \A c \in S : Held(c)' <= Held(c) /\ Held(c)' <= SHARED_LOCK,
         \A c \in Conn \ S : Held(c)' = Held(c)
  PROVE  FL!AbsNext
<1>1. FL!Relinquish(S)
  BY DEF FL!Relinquish
<1>. QED
  BY <1>1 DEF FL!AbsNext

\* The others of the process hold nothing while c obtains its first lock.
LEMMA NeighbourHeld ==
  ASSUME KInv, NEW c \in Conn, NEW d \in Conn, d # c, proc[d] = proc[c],
         pc[c] \in LockPcs \cup UnlockPcs \/ lockMutex[proc[c]] = NoConn
  PROVE  /\ Held(d) = fdLock[d] /\ pc[d] \notin UnlockPcs
         /\ fdLock[c] > SHARED_LOCK => Held(d) <= SHARED_LOCK
         /\ inodeLock[proc[c]] = NO_LOCK => Held(d) = NO_LOCK
         /\ inodeLock[proc[c]] <= SHARED_LOCK => Held(d) <= SHARED_LOCK
         /\ fdLock[d] > SHARED_LOCK => inodeLock[proc[c]] = fdLock[d]
  BY Neighbour, Local DEF Held, AgreeOf

\* A process that has SHARED shares it out.
LEMMA SharedInProcessAcquires ==
  ASSUME KInv, NEW c \in Conn, LockSharedInProcess(c)
  PROVE  FL!AbsNext
<1>1. /\ TypeOK /\ Exact /\ proc[c] \in Process
      /\ pc[c] = "idle" /\ lockMutex[proc[c]] = NoConn /\ fdLock[c] = NO_LOCK
      /\ inodeLock[proc[c]] \in {SHARED_LOCK, RESERVED_LOCK}
  BY Local DEF LockSharedInProcess, LockCall, Enter, KInv, IInv
<1>2. Held(c) = NO_LOCK /\ Held(c)' = SHARED_LOCK
  BY <1>1 DEF Held, LockSharedInProcess, TypeOK
<1>3. \A d \in Conn \ {c} : Held(d)' = Held(d)
  BY <1>1 DEF Held, LockSharedInProcess, TypeOK
<1>4. PICK b \in Conn : b # c /\ proc[b] = proc[c] /\ fdLock[b] # NO_LOCK
  <2>1. Holders(proc[c]) # {}
    BY SMTT(30), <1>1, FS_EmptySet DEF Exact
  <2>. QED
    BY <1>1, <2>1 DEF Holders
<1>5. Held(b) \in {SHARED_LOCK, RESERVED_LOCK}
  BY <1>1, <1>4, NeighbourHeld, Local
<1>6. sharedRange[proc[c]] # "none"
  BY <1>4, Local DEF BackedOf
<1>7. ASSUME NEW d \in Conn \ {c} PROVE Held(d) # EXCLUSIVE_LOCK
  <2>1. CASE proc[d] = proc[c]
    BY <1>1, <2>1, NeighbourHeld
  <2>2. CASE proc[d] # proc[c]
    BY <1>6, <2>2, HeldLocal, Local DEF KInv, Exclusive, WriterAlone
  <2>. QED
    BY <2>1, <2>2
<1>8. ASSUME NEW d \in Conn \ {c}
      PROVE  Held(d) < PENDING_LOCK \/ Held(d) = PENDING_LOCK
  BY <1>7, HeldLocal
<1>9. ~(SHARED_LOCK \in {RESERVED_LOCK, PENDING_LOCK})
      /\ SHARED_LOCK # EXCLUSIVE_LOCK /\ SHARED_LOCK \in LockLevels
  OBVIOUS
<1>. QED
  BY <1>2, <1>3, <1>4, <1>5, <1>8, <1>9, AcquireStep

\* The first SHARED of a process passed the pending byte.
LEMMA DropPendingAcquires ==
  ASSUME KInv, ~ReleaseFaults, NEW c \in Conn, LockDropPending(c)
  PROVE  FL!AbsNext \/ UNCHANGED [d \in Conn |-> Held(d)]
<1>1. TypeOK /\ proc[c] \in Process /\ pc[c] \in {"dropGot", "dropFailed"}
  BY Local DEF LockDropPending, KInv, IInv
<1>2. \A d \in Conn \ {c} : Held(d)' = Held(d)
  BY <1>1 DEF Held, LockDropPending, Return, Goto, TypeOK
<1>3. CASE pc[c] = "dropFailed"
  <2>1. Held(c)' = Held(c)
    BY <1>1, <1>3 DEF Held, LockDropPending, Return, Goto, TypeOK
  <2>. QED
    BY <1>2, <2>1, Stutter
<1>4. CASE pc[c] = "dropGot"
  <2>1. Held(c) = NO_LOCK /\ inodeLock[proc[c]] = NO_LOCK
    BY <1>4, Local DEF CallInvOf, Held
  <2>2. Held(c)' = SHARED_LOCK
    BY <1>1, <1>4 DEF Held, LockDropPending, Return, Goto, TypeOK
  <2>3. pendingByte[proc[c]] = "read" /\ sharedRange[proc[c]] # "none"
    BY <1>4, Local DEF BackedOf
  <2>4. ASSUME NEW d \in Conn \ {c} PROVE Held(d) < PENDING_LOCK
    <3>1. CASE proc[d] = proc[c]
      BY <1>4, <2>1, <3>1, NeighbourHeld
    <3>2. CASE proc[d] # proc[c]
      <4>1. pendingByte[proc[d]] # "write" /\ sharedRange[proc[d]] # "write"
        BY <2>3, <3>2, Local DEF KInv, Exclusive, WriterAlone
      <4>. QED
        BY <4>1, HeldLocal
    <3>. QED
      BY <3>1, <3>2
  <2>5. FL!AbsNext
    <3>1. SHARED_LOCK \in LockLevels /\ SHARED_LOCK > Held(c)
      BY <2>1
    <3>. QED
      BY <1>2, <2>1, <2>2, <2>4, <3>1, AcquireStep
  <2>. QED
    BY <2>5
<1>. QED
  BY <1>1, <1>3, <1>4

\* The write-lock on the reserved byte admits one writer.
LEMMA ReservedAcquires ==
  ASSUME KInv, NEW c \in Conn, LockReserved(c)
  PROVE  FL!AbsNext \/ UNCHANGED [d \in Conn |-> Held(d)]
<1>1. TypeOK /\ proc[c] \in Process /\ pc[c] = "range" /\ want[c] = RESERVED_LOCK
  BY Local DEF LockReserved, KInv, IInv
<1>2. \A d \in Conn \ {c} : Held(d)' = Held(d)
  BY <1>1 DEF Held, LockReserved, Return, Goto, TypeOK
<1>3. fdLock[c] = SHARED_LOCK /\ inodeLock[proc[c]] = SHARED_LOCK
      /\ Held(c) = SHARED_LOCK
  BY <1>1, Local DEF CallInvOf, Held
<1>4. CASE fdLock' = fdLock
  <2>1. Held(c)' = Held(c)
    BY <1>1, <1>4 DEF Held, LockReserved, Return, Goto, TypeOK
  <2>. QED
    BY <1>2, <2>1, Stutter
<1>5. CASE /\ WriteFree(reservedByte, proc[c])
           /\ fdLock' = [fdLock EXCEPT ![c] = RESERVED_LOCK]
  <2>1. Held(c)' = RESERVED_LOCK
    BY <1>1, <1>5 DEF Held, LockReserved, Return, Goto, TypeOK
  <2>2. ASSUME NEW d \in Conn \ {c} PROVE Held(d) <= SHARED_LOCK
    <3>1. CASE proc[d] = proc[c]
      BY <1>1, <1>3, <3>1, NeighbourHeld
    <3>2. CASE proc[d] # proc[c]
      <4>1. reservedByte[proc[d]] # "write"
        BY <1>5, <3>2, Local DEF WriteFree
      <4>2. Held(d) # EXCLUSIVE_LOCK
        BY <1>3, <3>2, KernelExclusion
      <4>. QED
        BY <4>1, <4>2, HeldLocal
    <3>. QED
      BY <3>1, <3>2
  <2>3. RESERVED_LOCK \in LockLevels /\ RESERVED_LOCK > Held(c)
        /\ Held(c) # NO_LOCK
    BY <1>3
  <2>4. FL!AbsNext
    BY <1>2, <2>1, <2>2, <2>3, AcquireStep
  <2>. QED
    BY <2>4
<1>. QED
  BY <1>4, <1>5 DEF LockReserved

\* PENDING is for the connection that has RESERVED.
LEMMA PendingAcquires ==
  ASSUME KInv, NEW c \in Conn, LockPendingWrite(c)
  PROVE  FL!AbsNext \/ UNCHANGED [d \in Conn |-> Held(d)]
<1>1. /\ TypeOK /\ proc[c] \in Process /\ pc[c] = "pending"
      /\ want[c] = EXCLUSIVE_LOCK
  BY Local DEF LockPendingWrite, KInv, IInv
<1>2. \A d \in Conn \ {c} : Held(d)' = Held(d)
  BY <1>1 DEF Held, LockPendingWrite, Return, Goto, TypeOK
<1>3. fdLock[c] = RESERVED_LOCK /\ Held(c) = RESERVED_LOCK
  BY <1>1, Local DEF CallInvOf, Held
<1>4. CASE fdLock' = fdLock
  <2>1. Held(c)' = Held(c)
    BY <1>1, <1>4 DEF Held, LockPendingWrite, Return, Goto, TypeOK
  <2>. QED
    BY <1>2, <2>1, Stutter
<1>5. CASE /\ WriteFree(pendingByte, proc[c])
           /\ fdLock' = [fdLock EXCEPT ![c] = PENDING_LOCK]
           /\ Goto(c, "range")
  <2>1. Held(c)' = PENDING_LOCK
    BY <1>1, <1>5 DEF Held, Goto, TypeOK
  <2>2. ASSUME NEW d \in Conn \ {c} PROVE Held(d) <= SHARED_LOCK
    <3>1. CASE proc[d] = proc[c]
      BY <1>1, <1>3, <3>1, NeighbourHeld
    <3>2. CASE proc[d] # proc[c]
      BY <1>3, <3>2, KernelExclusion
    <3>. QED
      BY <3>1, <3>2
  <2>3. PENDING_LOCK \in LockLevels /\ PENDING_LOCK > Held(c)
        /\ Held(c) # NO_LOCK
    BY <1>3
  <2>4. FL!AbsNext
    BY <1>2, <2>1, <2>2, <2>3, AcquireStep
  <2>. QED
    BY <2>4
<1>. QED
  BY <1>4, <1>5 DEF LockPendingWrite

\* EXCLUSIVE is for a connection without readers in any process.
LEMMA ExclusiveAcquires ==
  ASSUME KInv, NEW c \in Conn, LockExclusive(c)
  PROVE  FL!AbsNext \/ UNCHANGED [d \in Conn |-> Held(d)]
<1>1. /\ TypeOK /\ proc[c] \in Process /\ pc[c] = "range"
      /\ want[c] = EXCLUSIVE_LOCK
  BY Local DEF LockExclusive, KInv, IInv
<1>2. \A d \in Conn \ {c} : Held(d)' = Held(d)
  BY <1>1 DEF Held, LockExclusive, Return, Goto, TypeOK
<1>3. fdLock[c] \in {SHARED_LOCK, PENDING_LOCK} /\ Held(c) = fdLock[c]
  BY <1>1, Local DEF CallInvOf, Held
<1>4. CASE fdLock' = fdLock
  <2>1. Held(c)' = Held(c)
    BY <1>1, <1>4 DEF Held, LockExclusive, Return, Goto, TypeOK
  <2>. QED
    BY <1>2, <2>1, Stutter
<1>5. CASE /\ nShared[proc[c]] <= 1
           /\ WriteFree(sharedRange, proc[c])
           /\ fdLock' = [fdLock EXCEPT ![c] = EXCLUSIVE_LOCK]
  <2>1. Held(c)' = EXCLUSIVE_LOCK
    BY <1>1, <1>5 DEF Held, LockExclusive, Return, Goto, TypeOK
  <2>2. Holders(proc[c]) = {c}
    <3>1. c \in Holders(proc[c]) /\ Cardinality(Holders(proc[c])) <= 1
      BY <1>3, <1>5, Local DEF Holders
    <3>2. IsFiniteSet(Holders(proc[c]))
      BY <1>1, FiniteUsers
    <3>. QED
      BY <3>1, <3>2, RemoveOne
  <2>3. ASSUME NEW d \in Conn \ {c} PROVE Held(d) = NO_LOCK
    <3>1. CASE proc[d] = proc[c]
      BY <2>2, <3>1, HeldLocal DEF Holders
    <3>2. CASE proc[d] # proc[c]
      BY <1>5, <3>2, HeldLocal, Local DEF WriteFree
    <3>. QED
      BY <3>1, <3>2
  <2>4. EXCLUSIVE_LOCK \in LockLevels /\ EXCLUSIVE_LOCK > Held(c)
        /\ Held(c) # NO_LOCK
    BY <1>3
  <2>5. FL!AbsNext
    BY <1>2, <2>1, <2>3, <2>4, AcquireStep
  <2>. QED
    BY <2>5
<1>. QED
  BY <1>4, <1>5 DEF LockExclusive

\* What xUnlock gives up is given up when it is called.
LEMMA UnlockRelinquishes ==
  ASSUME KInv, NEW c \in Conn, NEW e \in LockLevels, UnlockBegin(c, e)
  PROVE  FL!AbsNext
<1>1. /\ TypeOK /\ pc[c] = "idle" /\ e \in {NO_LOCK, SHARED_LOCK}
      /\ fdLock[c] > e
  BY DEF UnlockBegin, KInv, IInv
<1>2. pc'[c] \in UnlockPcs /\ want'[c] = e
  BY <1>1 DEF UnlockBegin, Goto, TypeOK
<1>3. Held(c) = fdLock[c] /\ Held(c)' = e
  BY <1>1, <1>2 DEF Held
<1>4. \A d \in Conn \ {c} : Held(d)' = Held(d)
  BY <1>1 DEF Held, UnlockBegin, Goto, TypeOK
<1>5. \A d \in Conn : Held(d)' \in LockLevels
  BY <1>1, <1>3, <1>4, HeldLocal
<1>6. Held(c)' <= Held(c) /\ Held(c)' <= SHARED_LOCK
  BY <1>1, <1>3, HeldLocal
<1>. QED
  BY <1>4, <1>5, <1>6, RelinquishStep, {c} \in SUBSET Conn

\* A process that dies gives everything up.
LEMMA DieRelinquishes ==
  ASSUME KInv, NEW p \in Process, Die(p)
  PROVE  FL!AbsNext
<1>. DEFINE S == {c \in Conn : proc[c] = p}
<1>1. \A c \in S : Held(c)' = NO_LOCK
  BY DEF Die, Held
<1>2. \A c \in Conn \ S : Held(c)' = Held(c)
  BY DEF Die, Held
<1>3. \A c \in Conn : Held(c) \in LockLevels
  BY HeldLocal
<1>4. /\ \A c \in Conn : Held(c)' \in LockLevels
      /\ \A c \in S : Held(c)' <= Held(c) /\ Held(c)' <= SHARED_LOCK
  BY <1>1, <1>2, <1>3
<1>. QED
  BY <1>2, <1>4, RelinquishStep, S \in SUBSET Conn

\* The other steps change no level.
LEMMA OtherSteps ==
  ASSUME KInv, ~ReleaseFaults, NEW c \in Conn,
         \/ \E e \in LockLevels : LockBegin(c, e)
         \/ OpenDescriptor(c) \/ OpenInode(c) \/ CloseBegin(c)
         \/ LockPendingRead(c) \/ LockSharedRange(c) \/ UnlockDowngrade(c)
         \/ UnlockRelease(c) \/ UnlockCount(c)
         \/ CloseInode(c) \/ CloseDescriptor(c)
  PROVE  UNCHANGED [d \in Conn |-> Held(d)]
<1>0. TypeOK
  BY DEF KInv, IInv
<1>1. ASSUME NEW e \in LockLevels, LockBegin(c, e)
      PROVE  \A d \in Conn : Held(d)' = Held(d)
  BY <1>0, <1>1 DEF Held, LockBegin, LockCall, Goto, TypeOK
<1>2. CASE OpenDescriptor(c)
  BY <1>0, <1>2 DEF Held, OpenDescriptor, Goto, TypeOK
<1>3. CASE OpenInode(c)
  BY <1>0, <1>3 DEF Held, OpenInode, Goto, TypeOK
<1>4. CASE CloseBegin(c)
  BY <1>0, <1>4 DEF Held, CloseBegin, Goto, TypeOK
<1>5. CASE LockPendingRead(c)
  BY <1>0, <1>5 DEF Held, LockPendingRead, Return, Goto, TypeOK
<1>6. CASE LockSharedRange(c)
  BY <1>0, <1>6 DEF Held, LockSharedRange, Goto, TypeOK
<1>7. CASE UnlockDowngrade(c)
  BY <1>0, <1>7 DEF Held, UnlockDowngrade, Goto, TypeOK
<1>8. CASE UnlockRelease(c)
  BY <1>0, <1>8 DEF Held, UnlockRelease, Return, Goto, TypeOK
<1>9. CASE UnlockCount(c)
  <2>1. want[c] = NO_LOCK
    BY <1>9, Local DEF UnlockCount, CallInvOf
  <2>. QED
    BY <1>0, <1>9, <2>1 DEF Held, UnlockCount, Return, Goto, TypeOK
<1>10. CASE CloseInode(c)
  BY <1>0, <1>10 DEF Held, CloseInode, Goto, TypeOK
<1>11. CASE CloseDescriptor(c)
  BY <1>0, <1>11 DEF Held, CloseDescriptor, Goto, TypeOK
<1>. QED
  BY <1>1, <1>2, <1>3, <1>4, <1>5, <1>6, <1>7, <1>8, <1>9, <1>10, <1>11,
     Stutter

\* The code keeps the promise of the VFS to the pager: every step of any number
\* of processes is an Acquire, a Relinquish or a stutter of FileLock.
THEOREM RefinesFileLock ==
  ASSUME ~ReleaseFaults
  PROVE  SpecNoOverlap => ImplementsFileLock
<1>1. Init => FL!AbsInit
  BY DEF Init, FL!AbsInit, Held
<1>2. ASSUME KInv, [Next /\ NoCloseOverlap']_vars
      PROVE  [FL!AbsNext]_([c \in Conn |-> Held(c)])
  <2>1. ASSUME NEW c \in Conn, Start(c)
        PROVE  FL!AbsNext \/ UNCHANGED [d \in Conn |-> Held(d)]
    BY <1>2, <2>1, SharedInProcessAcquires, UnlockRelinquishes, OtherSteps
       DEF Start, LockStart
  <2>2. ASSUME NEW c \in Conn, Continue(c)
        PROVE  FL!AbsNext \/ UNCHANGED [d \in Conn |-> Held(d)]
    BY <1>2, <2>2, PendingAcquires, DropPendingAcquires, ReservedAcquires,
       ExclusiveAcquires, OtherSteps DEF Continue
  <2>3. ASSUME NEW p \in Process, Die(p) PROVE FL!AbsNext
    BY <1>2, <2>3, DieRelinquishes
  <2>4. CASE UNCHANGED vars
    BY <2>4, Stutter DEF vars, osVars, inodeVars, Held
  <2>. QED
    BY <1>2, <2>1, <2>2, <2>3, <2>4 DEF Next
<1>. QED
  BY <1>1, <1>2, KernelInvariance, PTL
     DEF SpecNoOverlap, ImplementsFileLock, FL!AbsSpec
=============================================================================
