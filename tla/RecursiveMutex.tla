--------------------------- MODULE RecursiveMutex ---------------------------
(***************************************************************************)
(* The recursive mutex of mutex_unix.c as this package builds it: with     *)
(* SQLITE_HOMEGROWN_RECURSIVE_MUTEX, on a pthread mutex that is not        *)
(* recursive.  A thread first looks at nRef and owner WITHOUT the pthread  *)
(* mutex, to find out whether it is inside already, and takes the pthread  *)
(* mutex if it thinks it is not.  Every load and store of nRef and owner   *)
(* is a step of its own.                                                   *)
(*                                                                         *)
(* The unlocked load of nRef races with the stores of the thread inside:   *)
(* a thread that is not inside may read any value.  The load of owner      *)
(* returns what the memory holds, as the comment in pthreadMutexEnter()    *)
(* assumes of pthread_equal() and of a coherent cache.                     *)
(***************************************************************************)
EXTENDS Naturals

CONSTANTS
    Thread,
    NoThread,       \* owner == 0, and a pthread mutex nobody holds
    MaxDepth        \* bound: how often a thread enters without leaving

ASSUME NoThreadIsNoThread == NoThread \notin Thread
ASSUME MaxDepthIsPositive == MaxDepth \in Nat \ {0}

VARIABLES
    locked,         \* the thread inside the pthread mutex
    owner,          \* p->owner
    nRef,           \* p->nRef
    pc,             \* where each thread is
    trying,         \* the threads whose call is sqlite3_mutex_try()
    depth           \* entered minus left, as each caller counts

vars == <<locked, owner, nRef, pc, trying, depth>>

Label == {"out", "readRef", "readOwner", "again", "lock", "setOwner",
          "setRef", "clear", "unlock"}

Init ==
    /\ locked = NoThread
    /\ owner = NoThread
    /\ nRef = 0
    /\ pc = [t \in Thread |-> "out"]
    /\ trying = {}
    /\ depth = [t \in Thread |-> 0]

Goto(t, from, to) ==
    /\ pc[t] = from
    /\ pc' = [pc EXCEPT ![t] = to]

-----------------------------------------------------------------------------
(* pthreadMutexEnter() and pthreadMutexTry().                               *)

\* A thread calls sqlite3_mutex_enter() or sqlite3_mutex_try(), inside the
\* mutex or not.
Call(t) ==
    /\ depth[t] < MaxDepth
    /\ Goto(t, "out", "readRef")
    /\ \/ trying' = trying \cup {t}
       \/ trying' = trying \ {t}
    /\ UNCHANGED <<locked, owner, nRef, depth>>

\* The outcomes of the test p->nRef>0 made by t.
SeesEntered(t) == IF locked = t THEN {nRef > 0} ELSE BOOLEAN

ReadRef(t) ==
    /\ \E entered \in SeesEntered(t) :
          Goto(t, "readRef", IF entered THEN "readOwner" ELSE "lock")
    /\ UNCHANGED <<locked, owner, nRef, trying, depth>>

\* pthread_equal(p->owner, self)
OwnedBy(t) == owner = t

ReadOwner(t) ==
    /\ Goto(t, "readOwner", IF OwnedBy(t) THEN "again" ELSE "lock")
    /\ UNCHANGED <<locked, owner, nRef, trying, depth>>

\* p->nRef++ of a thread that is inside.
Again(t) ==
    /\ Goto(t, "again", "out")
    /\ nRef' = nRef + 1
    /\ depth' = [depth EXCEPT ![t] = @ + 1]
    /\ UNCHANGED <<locked, owner, trying>>

\* pthread_mutex_lock(), or a pthread_mutex_trylock() that succeeds.
Lock(t) ==
    /\ locked = NoThread
    /\ Goto(t, "lock", "setOwner")
    /\ locked' = t
    /\ UNCHANGED <<owner, nRef, trying, depth>>

\* pthread_mutex_trylock() fails: SQLITE_BUSY.
Busy(t) ==
    /\ locked # NoThread
    /\ t \in trying
    /\ Goto(t, "lock", "out")
    /\ UNCHANGED <<locked, owner, nRef, trying, depth>>

\* An enter that does not note who is inside.
MutSetOwner(t) ==
    /\ Goto(t, "setOwner", "setRef")
    /\ UNCHANGED <<locked, owner, nRef, trying, depth>>

SetOwner(t) ==
    /\ Goto(t, "setOwner", "setRef")
    /\ owner' = t
    /\ UNCHANGED <<locked, nRef, trying, depth>>

SetRef(t) ==
    /\ Goto(t, "setRef", "out")
    /\ nRef' = 1
    /\ depth' = [depth EXCEPT ![t] = @ + 1]
    /\ UNCHANGED <<locked, owner, trying>>

-----------------------------------------------------------------------------
(* pthreadMutexLeave(): only a thread that has entered may call it.         *)

Leave(t) ==
    /\ depth[t] > 0
    /\ Goto(t, "out", "clear")
    /\ nRef' = nRef - 1
    /\ depth' = [depth EXCEPT ![t] = @ - 1]
    /\ UNCHANGED <<locked, owner, trying>>

\* A leave that does not clear the owner: the mutex is still said to be t's.
MutClear(t) ==
    /\ Goto(t, "clear", IF nRef = 0 THEN "unlock" ELSE "out")
    /\ UNCHANGED <<locked, owner, nRef, trying, depth>>

\* A leave that gives the pthread mutex back each time, as is right for a
\* pthread mutex that counts by itself.
MutClearAlways(t) ==
    /\ Goto(t, "clear", "unlock")
    /\ owner' = IF nRef = 0 THEN NoThread ELSE owner
    /\ UNCHANGED <<locked, nRef, trying, depth>>

\* if( p->nRef==0 ) p->owner = 0
Clear(t) ==
    /\ Goto(t, "clear", IF nRef = 0 THEN "unlock" ELSE "out")
    /\ owner' = IF nRef = 0 THEN NoThread ELSE owner
    /\ UNCHANGED <<locked, nRef, trying, depth>>

Unlock(t) ==
    /\ Goto(t, "unlock", "out")
    /\ locked' = NoThread
    /\ UNCHANGED <<owner, nRef, trying, depth>>

-----------------------------------------------------------------------------
Step(t) ==
    \/ Call(t) \/ ReadRef(t) \/ ReadOwner(t) \/ Again(t)
    \/ Lock(t) \/ Busy(t) \/ SetOwner(t) \/ SetRef(t)
    \/ Leave(t) \/ Clear(t) \/ Unlock(t)

Next == \E t \in Thread : Step(t)

Spec == Init /\ [][Next]_vars

-----------------------------------------------------------------------------
(* Properties.                                                             *)

\* Every variable keeps its type; nRef, an int, is never decremented below
\* zero, and never exceeds what one thread has entered.
TypeOK ==
    /\ locked \in Thread \cup {NoThread}
    /\ owner \in Thread \cup {NoThread}
    /\ nRef \in 0..MaxDepth
    /\ pc \in [Thread -> Label]
    /\ trying \subseteq Thread
    /\ depth \in [Thread -> 0..MaxDepth]

\* No thread waits for, or is refused, a mutex it is itself inside: whatever
\* the unlocked loads of pthreadMutexEnter() and pthreadMutexTry() return,
\* the thread that is inside never reaches pthread_mutex_lock().
SelfNeverBlocks == \A t \in Thread : pc[t] = "lock" => locked # t

\* pthreadMutexLeave() gives the pthread mutex back with the last leave, and
\* not before: once no thread is in a call, the pthread mutex is held exactly
\* by the thread that has not left as often as it entered.
HeldWhileEntered ==
    (\A t \in Thread : pc[t] = "out") =>
        \A t \in Thread : locked = t <=> depth[t] > 0

\* The mutex keeps the promise of sqlite3_mutex_enter(): one thread at a
\* time is inside, as often as it likes.
Contract == INSTANCE MutexContract

ImplementsMutexContract == Contract!Spec
=============================================================================
