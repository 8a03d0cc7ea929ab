------------------------ MODULE RecursiveMutexProofs ------------------------
(***************************************************************************)
(* The homegrown recursive mutex is correct for any number of threads and  *)
(* any depth of nesting: it never blocks a thread on itself and implements *)
(* MutexContract.                                                          *)
(***************************************************************************)
EXTENDS RecursiveMutex, TLAPS

\* A thread that does not hold the pthread mutex has not entered, is not the
\* owner, and is at a point where it need not hold it.
Outside ==
    \A t \in Thread : locked # t =>
        /\ depth[t] = 0
        /\ owner # t
        /\ pc[t] \in {"out", "readRef", "readOwner", "lock"}

\* What the thread that holds the pthread mutex finds in nRef and owner.
Inside ==
    \A t \in Thread : locked = t =>
        /\ pc[t] # "lock"
        /\ pc[t] \in {"setOwner", "setRef"} => nRef = 0 /\ depth[t] = 0
        /\ pc[t] \notin {"setOwner", "setRef"} => nRef = depth[t]
        /\ pc[t] \in {"setOwner", "unlock"} => owner = NoThread
        /\ pc[t] \notin {"setOwner", "unlock"} => owner = t
        /\ pc[t] = "unlock" => nRef = 0
        /\ pc[t] \in {"out", "readRef", "readOwner", "again"} => depth[t] > 0

\* A free mutex has no owner and counts nothing.
Free == locked = NoThread => owner = NoThread /\ nRef = 0

\* A call under way has room for one more level.
Bounded ==
    \A t \in Thread :
        pc[t] \in {"readRef", "readOwner", "again", "lock", "setOwner",
                   "setRef"} => depth[t] < MaxDepth

IInv == TypeOK /\ Outside /\ Inside /\ Free /\ Bounded

-----------------------------------------------------------------------------
\* The mutex is created free: sqlite3MallocZero() and pthread_mutex_init().
LEMMA InitIInv == Init => IInv
  BY NoThreadIsNoThread, MaxDepthIsPositive
  DEF Init, IInv, TypeOK, Outside, Inside, Free, Bounded, Label

\* Every load, store and pthread call of enter, try and leave keeps the
\* invariant.
LEMMA StepIInv == ASSUME IInv, NEW t \in Thread, Step(t) PROVE IInv'
  <1> USE NoThreadIsNoThread, MaxDepthIsPositive
  <1>1. CASE Call(t)
    <2>1. TypeOK'
      BY <1>1 DEF IInv, TypeOK, Call, Goto, Label
    <2>2. Outside' /\ Inside' /\ Free' /\ Bounded'
      BY <1>1 DEF IInv, TypeOK, Outside, Inside, Free, Bounded, Call, Goto
    <2> QED BY <2>1, <2>2 DEF IInv
  <1>2. CASE ReadRef(t)
    <2>1. TypeOK'
      BY <1>2 DEF IInv, TypeOK, ReadRef, Goto, Label
    <2>2. PICK entered \in SeesEntered(t) :
             Goto(t, "readRef", IF entered THEN "readOwner" ELSE "lock")
      BY <1>2 DEF ReadRef
    <2>3. ASSUME locked = t PROVE entered
      BY <2>2, <2>3 DEF IInv, TypeOK, Inside, SeesEntered, Goto
    <2>4. Outside' /\ Inside' /\ Free' /\ Bounded'
      BY <1>2, <2>2, <2>3
      DEF IInv, TypeOK, Outside, Inside, Free, Bounded, ReadRef, Goto
    <2> QED BY <2>1, <2>4 DEF IInv
  <1>3. CASE ReadOwner(t)
    <2>1. TypeOK'
      BY <1>3 DEF IInv, TypeOK, ReadOwner, Goto, Label
    <2>2. Outside' /\ Inside' /\ Free' /\ Bounded'
      BY <1>3 DEF IInv, TypeOK, Outside, Inside, Free, Bounded, ReadOwner,
                  Goto, OwnedBy
    <2> QED BY <2>1, <2>2 DEF IInv
  <1>4. CASE Again(t)
    <2>1. locked = t /\ nRef = depth[t] /\ depth[t] < MaxDepth
      BY <1>4 DEF IInv, Outside, Inside, Bounded, Again, Goto
    <2>2. TypeOK'
      BY <1>4, <2>1 DEF IInv, TypeOK, Again, Goto, Label
    <2>3. Outside' /\ Inside' /\ Free' /\ Bounded'
      BY <1>4, <2>1
      DEF IInv, TypeOK, Outside, Inside, Free, Bounded, Again, Goto
    <2> QED BY <2>2, <2>3 DEF IInv
  <1>5. CASE Lock(t)
    <2>1. depth[t] = 0
      BY <1>5 DEF IInv, Outside, Lock
    <2>2. TypeOK'
      BY <1>5 DEF IInv, TypeOK, Lock, Goto, Label
    <2>3. Outside' /\ Inside' /\ Free' /\ Bounded'
      BY <1>5, <2>1
      DEF IInv, TypeOK, Outside, Inside, Free, Bounded, Lock, Goto
    <2> QED BY <2>2, <2>3 DEF IInv
  <1>6. CASE Busy(t)
    <2>1. locked # t
      BY <1>6 DEF IInv, Inside, Busy, Goto
    <2>2. TypeOK'
      BY <1>6 DEF IInv, TypeOK, Busy, Goto, Label
    <2>3. Outside' /\ Inside' /\ Free' /\ Bounded'
      BY <1>6, <2>1
      DEF IInv, TypeOK, Outside, Inside, Free, Bounded, Busy, Goto
    <2> QED BY <2>2, <2>3 DEF IInv
  <1>7. CASE SetOwner(t)
    <2>1. locked = t
      BY <1>7 DEF IInv, Outside, SetOwner, Goto
    <2>2. TypeOK'
      BY <1>7 DEF IInv, TypeOK, SetOwner, Goto, Label
    <2>3. Outside' /\ Inside' /\ Free' /\ Bounded'
      BY <1>7, <2>1
      DEF IInv, TypeOK, Outside, Inside, Free, Bounded, SetOwner, Goto
    <2> QED BY <2>2, <2>3 DEF IInv
  <1>8. CASE SetRef(t)
    <2>1. locked = t /\ depth[t] = 0
      BY <1>8 DEF IInv, Outside, Inside, SetRef, Goto
    <2>2. TypeOK'
      BY <1>8, <2>1 DEF IInv, TypeOK, SetRef, Goto, Label
    <2>3. Outside' /\ Inside' /\ Free' /\ Bounded'
      BY <1>8, <2>1
      DEF IInv, TypeOK, Outside, Inside, Free, Bounded, SetRef, Goto
    <2> QED BY <2>2, <2>3 DEF IInv
  <1>9. CASE Leave(t)
    <2>1. locked = t /\ nRef = depth[t]
      BY <1>9 DEF IInv, TypeOK, Outside, Inside, Leave, Goto
    <2>2. TypeOK'
      BY <1>9, <2>1 DEF IInv, TypeOK, Leave, Goto, Label
    <2>3. Outside' /\ Inside' /\ Free' /\ Bounded'
      BY <1>9, <2>1
      DEF IInv, TypeOK, Outside, Inside, Free, Bounded, Leave, Goto
    <2> QED BY <2>2, <2>3 DEF IInv
  <1>10. CASE Clear(t)
    <2>1. locked = t /\ nRef = depth[t]
      BY <1>10 DEF IInv, Outside, Inside, Clear, Goto
    <2>2. TypeOK'
      BY <1>10 DEF IInv, TypeOK, Clear, Goto, Label
    <2>3. Outside' /\ Inside' /\ Free' /\ Bounded'
      BY <1>10, <2>1
      DEF IInv, TypeOK, Outside, Inside, Free, Bounded, Clear, Goto
    <2> QED BY <2>2, <2>3 DEF IInv
  <1>11. CASE Unlock(t)
    <2>1. locked = t /\ nRef = 0 /\ owner = NoThread /\ depth[t] = 0
      BY <1>11 DEF IInv, Outside, Inside, Unlock, Goto
    <2>2. TypeOK'
      BY <1>11 DEF IInv, TypeOK, Unlock, Goto, Label
    <2>3. Outside' /\ Inside' /\ Free' /\ Bounded'
      BY <1>11, <2>1
      DEF IInv, TypeOK, Outside, Inside, Free, Bounded, Unlock, Goto
    <2> QED BY <2>2, <2>3 DEF IInv
  <1> QED
    BY <1>1, <1>2, <1>3, <1>4, <1>5, <1>6, <1>7, <1>8, <1>9, <1>10, <1>11
    DEF Step

\* The invariant of the recursive mutex holds in every reachable state.
THEOREM MutexInvariance == Spec => []IInv
  <1>1. IInv /\ [Next]_vars => IInv'
    <2>1. ASSUME IInv, UNCHANGED vars PROVE IInv'
      BY <2>1 DEF IInv, TypeOK, Outside, Inside, Free, Bounded, vars
    <2> QED BY <2>1, StepIInv DEF Next
  <1> QED BY InitIInv, <1>1, PTL DEF Spec

\* nRef and owner keep their types for any number of threads: nRef never
\* goes below zero, nor beyond what one thread has entered.
THEOREM MutexTypeCorrect == Spec => []TypeOK
  BY MutexInvariance, PTL DEF IInv

\* A thread that is inside never waits for the pthread mutex: entering again
\* cannot deadlock a thread with itself.
THEOREM NoSelfDeadlock == Spec => []SelfNeverBlocks
  <1>1. IInv => SelfNeverBlocks
    BY DEF IInv, Inside, SelfNeverBlocks
  <1> QED BY <1>1, MutexInvariance, PTL

\* The pthread mutex is given back with the last leave and not before.
THEOREM LastLeaveReleases == Spec => []HeldWhileEntered
  <1>1. IInv => HeldWhileEntered
    <2>1. ASSUME IInv, NEW t \in Thread, pc[t] = "out", locked = t
          PROVE depth[t] > 0
      BY <2>1 DEF IInv, Inside
    <2>2. ASSUME IInv, NEW t \in Thread, locked # t
          PROVE ~(depth[t] > 0)
      BY <2>2 DEF IInv, Outside
    <2> QED BY <2>1, <2>2 DEF HeldWhileEntered
  <1> QED BY <1>1, MutexInvariance, PTL

-----------------------------------------------------------------------------
\* A step of the code is an entry, a leave, or nothing the callers can see.
LEMMA StepRefines ==
  ASSUME IInv, NEW t \in Thread, Step(t)
  PROVE Contract!Next \/ UNCHANGED depth
  <1> USE NoThreadIsNoThread
  <1>1. CASE Again(t)
    <2>1. \A u \in Thread \ {t} : depth[u] = 0
      BY <1>1 DEF IInv, Outside, Again, Goto
    <2>2. Contract!Enter(t)
      BY <1>1, <2>1 DEF Again, Contract!Enter
    <2> QED BY <2>2 DEF Contract!Next
  <1>2. CASE SetRef(t)
    <2>1. \A u \in Thread \ {t} : depth[u] = 0
      BY <1>2 DEF IInv, Outside, SetRef, Goto
    <2>2. Contract!Enter(t)
      BY <1>2, <2>1 DEF SetRef, Contract!Enter
    <2> QED BY <2>2 DEF Contract!Next
  <1>3. CASE Leave(t)
    <2>1. Contract!Leave(t)
      BY <1>3 DEF Leave, Contract!Leave
    <2> QED BY <2>1 DEF Contract!Next
  <1>4. CASE \/ Call(t) \/ ReadRef(t) \/ ReadOwner(t) \/ Lock(t) \/ Busy(t)
             \/ SetOwner(t) \/ Clear(t) \/ Unlock(t)
    BY <1>4 DEF Call, ReadRef, ReadOwner, Lock, Busy, SetOwner, Clear, Unlock
  <1> QED BY <1>1, <1>2, <1>3, <1>4 DEF Step

\* The homegrown recursive mutex implements the contract of
\* sqlite3_mutex_enter(): one thread at a time, as often as it likes.
THEOREM RefinesContract == Spec => ImplementsMutexContract
  <1>1. Init => Contract!Init
    BY DEF Init, Contract!Init
  <1>2. IInv /\ [Next]_vars => [Contract!Next]_depth
    BY StepRefines DEF Next, vars
  <1> QED
    BY <1>1, <1>2, MutexInvariance, PTL
    DEF Spec, ImplementsMutexContract, Contract!Spec
=============================================================================
