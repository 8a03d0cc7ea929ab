--------------------------- MODULE LibInitProofs ---------------------------
(***************************************************************************)
(* The start of the library is safe for any number of threads: its         *)
(* temporary mutex is never used after it has been freed, only one thread  *)
(* initialises, and the random generator of SQLCipher is read only between *)
(* its seeding and its end.                                                *)
(***************************************************************************)
EXTENDS LibInit, FiniteSetTheorems, TLAPS

(* Where a thread is, by what it holds there.                              *)

\* Inside each mutex, leaving aside the outer call of a recursive one.
InMain == {"allocMutex", "unref", "extraInit"}
InInit == {"body", "register", "finish", "leaveInit"}
InActivate == {"activate", "enterRandToActivate", "addToActivate",
               "leaveActivate", "deactivate", "wipe"}
InRand == {"addToActivate", "add", "read"}

\* Counted in nRefInitMutex.
InRef == InInit \cup {"loadMutex", "enterInit", "enterMainAgain", "unref"}

\* Keying: before and after the activation is counted in ltc_ref_count.
Activating == {"enterActivate", "activate"}
Activated == {"enterRandToActivate", "addToActivate", "leaveActivate"}

\* Calls on a codec that is attached.
OnCodec == {"enterRandToAdd", "add", "enterRandToRead", "read",
            "enterDeactivate", "deactivate", "wipe"}

Nested == {t \in Thread : nested[t]}
Referring == {t \in Thread : pc[t] \in InRef}
Owner == {t \in Thread : \/ HasCodec(t) /\ pc[t] # "wipe"
                         \/ pc[t] \in Activated}

-----------------------------------------------------------------------------
(* The inductive invariant.                                                *)

\* The functions and the counters, without the bounds that TypeOK adds.
Types ==
    /\ {isInit, inProgress, initMutex, sqlcipherInit, ltcInit} \subseteq BOOLEAN
    /\ nRefInitMutex \in Nat
    /\ initError \in {"ERROR", "NOMEM", "OK"}
    /\ ltcRefCount \in Nat
    /\ prng \in {"zero", "started", "ready", "done"}
    /\ leaked \in 0..MaxLeaks
    /\ inside \in [Mutex -> [Thread -> Nat]]
    /\ pc \in [Thread -> Place]
    /\ uses \in [Thread -> {"none", "live", "freed"}]
    /\ nested \in [Thread -> BOOLEAN]
    /\ runExtraInit \in [Thread -> BOOLEAN]
    /\ rc \in [Thread -> {"none", "OK", "NOMEM"}]
    /\ next \in [Thread -> {"idle", "enterActivate"}]
    /\ conn \in [Thread -> {"none", "keyed", "used", "plain"}]

\* What a thread holds is decided by where it is, and a mutex has one holder.
Holds(t) ==
    /\ inside["main"][t] = IF pc[t] \in InMain THEN 1 ELSE 0
    /\ inside["init"][t] = (IF nested[t] THEN 1 ELSE 0)
                              + (IF pc[t] \in InInit THEN 1 ELSE 0)
    /\ inside["activate"][t] = IF pc[t] \in InActivate THEN 1 ELSE 0
    /\ inside["rand"][t] = IF pc[t] \in InRand THEN 1 ELSE 0

Exclusive ==
    \A m \in Mutex : \A t, u \in Thread :
        t # u => inside[m][t] = 0 \/ inside[m][u] = 0

Mutexes == Exclusive /\ \A t \in Thread : Holds(t)

\* What a call under way implies for the other variables of its thread.
Local(t) ==
    /\ nested[t] => pc[t] \in {"enterMain", "allocMutex"} \cup
                              (InRef \ {"register", "finish"})
    /\ uses[t] # "freed"
    /\ uses[t] = "live" => nested[t] \/ pc[t] \in {"enterInit"} \cup InInit
    /\ runExtraInit[t] => /\ ~nested[t]
                          /\ pc[t] \in {"leaveInit", "enterMainAgain", "unref",
                                        "enterMaster", "extraInit"}
    /\ pc[t] \in {"enterMaster", "extraInit"} => runExtraInit[t]
    /\ pc[t] \in Activating \cup Activated => ~HasCodec(t)
    /\ pc[t] \in OnCodec => HasCodec(t)

Locals == \A t \in Thread : Local(t)

\* Both reference counts count their holders.
Counts ==
    /\ nRefInitMutex = Cardinality(Nested) + Cardinality(Referring)
    /\ initMutex <=> nRefInitMutex # 0
    /\ ltcRefCount = Cardinality(Owner) + leaked

\* The phases of the start: initialising, started, SQLCipher started.
Phases ==
    /\ \A t \in Thread : Initialising(t) => inProgress /\ ~isInit
    /\ \A t \in Thread : runExtraInit[t] => isInit
    /\ \A t, u \in Thread : runExtraInit[t] /\ runExtraInit[u] => t = u
    /\ sqlcipherInit => /\ isInit /\ ltcInit
                        /\ \A t \in Thread : ~runExtraInit[t]
    /\ \A t \in Thread :
          HasCodec(t) \/ pc[t] \in Activating \cup Activated => sqlcipherInit

\* The generator is ready for whoever holds a finished activation, and is
\* zero when nobody does.
Generator ==
    /\ \A t \in Thread :
          (HasCodec(t) /\ pc[t] # "wipe") \/ pc[t] = "leaveActivate"
              => prng = "ready"
    /\ \A t \in Thread : pc[t] = "wipe" => ltcRefCount = 0
    /\ ltcRefCount = 0 /\ (\A t \in Thread : pc[t] # "wipe") => prng = "zero"

IInv == Types /\ Mutexes /\ Locals /\ Counts /\ Phases /\ Generator

-----------------------------------------------------------------------------
(* What the reference counts tell.                                         *)

\* A set of threads with one more or one less.
LEMMA OneMoreOrLess ==
  ASSUME NEW S \in SUBSET Thread, NEW t \in Thread
  PROVE  /\ Cardinality(S) \in Nat
         /\ t \notin S => Cardinality(S \cup {t}) = Cardinality(S) + 1
         /\ t \in S => Cardinality(S \ {t}) = Cardinality(S) - 1
         /\ t \in S => Cardinality(S \ {t}) \in Nat
         /\ Cardinality(S) = 0 <=> S = {}
         /\ t \in S /\ Cardinality(S) = 1 => S = {t}
  <1>1. IsFiniteSet(S) /\ IsFiniteSet(S \ {t})
    BY ThreadIsFinite, FS_Subset
  <1>2. Cardinality(S) \in Nat /\ Cardinality(S \ {t}) \in Nat
    BY <1>1, FS_CardinalityType
  <1>3. Cardinality(S) = 0 <=> S = {}
    BY <1>1, FS_EmptySet
  <1>4. ASSUME t \in S, Cardinality(S) = 1 PROVE S = {t}
    <2>1. PICK x : S = {x}
      BY <1>1, <1>4, FS_Singleton
    <2> QED BY <2>1, <1>4
  <1> QED BY <1>1, <1>2, <1>3, <1>4, FS_AddElement, FS_RemoveElement

\* A reference that a call holds is counted, and the last one is alone.
LEMMA RefCounted ==
  ASSUME IInv, NEW t \in Thread
  PROVE  /\ nested[t] \/ pc[t] \in InRef => nRefInitMutex >= 1
         /\ pc[t] \in InRef /\ nRefInitMutex = 1 =>
               \A u \in Thread : ~nested[u] /\ (pc[u] \in InRef => u = t)
  <1>1. /\ Nested \in SUBSET Thread
        /\ Referring \in SUBSET Thread
        /\ nRefInitMutex = Cardinality(Nested) + Cardinality(Referring)
    BY DEF Nested, Referring, IInv, Counts
  <1>2. /\ Cardinality(Nested) \in Nat /\ Cardinality(Referring) \in Nat
        /\ Cardinality(Nested) = 0 <=> Nested = {}
        /\ Cardinality(Referring) = 0 <=> Referring = {}
        /\ t \in Referring /\ Cardinality(Referring) = 1 => Referring = {t}
    BY <1>1, OneMoreOrLess
  <1>3. nested[t] \/ pc[t] \in InRef => nRefInitMutex >= 1
    BY <1>1, <1>2 DEF Nested, Referring
  <1>4. ASSUME pc[t] \in InRef, nRefInitMutex = 1
        PROVE  Nested = {} /\ Referring = {t}
    <2>1. t \in Referring
      BY <1>4 DEF Referring
    <2> QED BY <1>1, <1>2, <1>4, <2>1
  <1>5. ASSUME pc[t] \in InRef, nRefInitMutex = 1, NEW u \in Thread
        PROVE  ~nested[u] /\ (pc[u] \in InRef => u = t)
    BY <1>4, <1>5 DEF Nested, Referring
  <1> QED BY <1>3, <1>5

\* An activation that a connection holds is counted, and the last one is
\* alone.
LEMMA OwnerCounted ==
  ASSUME IInv, NEW t \in Thread
  PROVE  /\ t \in Owner => ltcRefCount >= 1
         /\ t \in Owner /\ ltcRefCount = 1 => Owner = {t} /\ leaked = 0
         /\ (Owner = {} /\ leaked = 0) <=> ltcRefCount = 0
  <1>1. /\ Owner \in SUBSET Thread
        /\ ltcRefCount = Cardinality(Owner) + leaked
        /\ leaked \in Nat
    BY MaxLeaksIsNat DEF Owner, IInv, Counts, Types
  <1>2. /\ Cardinality(Owner) \in Nat
        /\ Cardinality(Owner) = 0 <=> Owner = {}
        /\ t \in Owner /\ Cardinality(Owner) = 1 => Owner = {t}
    BY <1>1, OneMoreOrLess
  <1> QED BY <1>1, <1>2

-----------------------------------------------------------------------------
\* Every step of every call keeps the types: the counters stay natural
\* numbers because whoever decrements one has been counted.
LEMMA TypesStep ==
  ASSUME IInv, NEW t \in Thread, Enters(t) \/ Continues(t) \/ Calls(t)
  PROVE  Types'
  <1> USE DEF IInv, Types, Mutexes, Holds, Mutex, Goto, Enter, Leave,
     EnterAt, core, cipher, ltc, call, session, ExtraInitReturns, Deactivated,
     InMain, InInit, InActivate, InRand, InRef, Activating, Activated, OnCodec,
     Place, Mixed, Wiped, Counted, LastReference, NeedsInit, Locals, Local,
     HasCodec
  <1>1. CASE EnterMain(t)
    BY <1>1 DEF EnterMain
  <1>2. CASE EnterInit(t)
    BY <1>2 DEF EnterInit
  <1>3. CASE EnterMainAgain(t)
    BY <1>3 DEF EnterMainAgain
  <1>4. CASE EnterMaster(t)
    BY <1>4 DEF EnterMaster
  <1>5. CASE EnterActivate(t)
    BY <1>5 DEF EnterActivate
  <1>6. CASE EnterRandToActivate(t)
    BY <1>6 DEF EnterRandToActivate
  <1>7. CASE EnterRandToAdd(t)
    BY <1>7 DEF EnterRandToAdd
  <1>8. CASE EnterRandToRead(t)
    BY <1>8 DEF EnterRandToRead
  <1>9. CASE EnterDeactivate(t)
    BY <1>9 DEF EnterDeactivate
  <1>10. CASE AllocMutex(t)
    BY <1>10 DEF AllocMutex
  <1>11. CASE AllocMutexFails(t)
    BY <1>11 DEF AllocMutexFails
  <1>12. CASE LoadMutex(t)
    BY <1>12 DEF LoadMutex
  <1>13. CASE Body(t)
    BY <1>13 DEF Body
  <1>14. CASE Register(t)
    BY <1>14 DEF Register
  <1>15. CASE Finish(t)
    <2>1. PICK ok \in {TRUE, ~Faults} :
             /\ isInit' = ok
             /\ runExtraInit' = [runExtraInit EXCEPT ![t] = ok]
             /\ rc' = [rc EXCEPT ![t] = IF ok THEN "none" ELSE "NOMEM"]
      BY <1>15 DEF Finish
    <2>2. ok \in BOOLEAN
      BY FaultsIsBoolean
    <2> QED BY <1>15, <2>1, <2>2 DEF Finish
  <1>16. CASE LeaveInit(t)
    BY <1>16 DEF LeaveInit
  <1>17. CASE Unref(t)
    BY <1>17, RefCounted DEF Unref
  <1>18. CASE ExtraInit(t)
    BY <1>18 DEF ExtraInit
  <1>19. CASE ExtraInitFails(t)
    BY <1>19 DEF ExtraInitFails
  <1>20. CASE ShieldFails(t)
    BY <1>20, MaxLeaksIsNat DEF ShieldFails
  <1>21. CASE Activate(t)
    BY <1>21 DEF Activate
  <1>22. CASE AddToActivate(t)
    BY <1>22 DEF AddToActivate
  <1>23. CASE LeaveActivate(t)
    BY <1>23 DEF LeaveActivate
  <1>24. CASE SetupFails(t)
    BY <1>24, MaxLeaksIsNat DEF SetupFails
  <1>25. CASE Read(t)
    BY <1>25 DEF Read
  <1>26. CASE Add(t)
    BY <1>26 DEF Add
  <1>27. CASE Deactivate(t)
    <2>1. t \in Owner
      BY <1>27 DEF Deactivate, Owner
    <2>2. ltcRefCount >= 1
      BY <2>1, OwnerCounted
    <2> QED BY SMTT(30), <1>27, <2>2 DEF Deactivate
  <1>28. CASE Wipe(t)
    BY <1>28 DEF Wipe
  <1>29. CASE Initialize(t)
    BY SMTT(30), <1>29 DEF Initialize
  <1>30. CASE KeyUninitialised(t)
    BY <1>30 DEF KeyUninitialised
  <1>31. CASE Key(t)
    BY <1>31 DEF Key
  <1>32. CASE KeyAgain(t)
    BY <1>32 DEF KeyAgain
  <1>33. CASE Random(t)
    BY <1>33 DEF Random
  <1>34. CASE AddRandom(t)
    BY <1>34 DEF AddRandom
  <1>35. CASE Close(t)
    BY <1>35 DEF Close
  <1>36. CASE ClosePlain(t)
    BY <1>36 DEF ClosePlain
  <1> QED
    BY <1>1, <1>2, <1>3, <1>4, <1>5, <1>6, <1>7, <1>8, <1>9, <1>10, <1>11,
       <1>12, <1>13, <1>14, <1>15, <1>16, <1>17, <1>18, <1>19, <1>20, <1>21,
       <1>22, <1>23, <1>24, <1>25, <1>26, <1>27, <1>28, <1>29, <1>30, <1>31,
       <1>32, <1>33, <1>34, <1>35, <1>36
    DEF Enters, Continues, Calls

\* A thread enters a mutex only when no other is inside, leaves only what it
\* has entered, and on the way is where it holds what it should.
LEMMA MutexesStep ==
  ASSUME IInv, NEW t \in Thread, Enters(t) \/ Continues(t) \/ Calls(t)
  PROVE  Mutexes'
  <1> USE DEF IInv, Types, Mutexes, Exclusive, Holds, Mutex, Locals, Local,
     Goto, Enter, Leave, EnterAt, core, cipher, ltc, call, session,
     ExtraInitReturns, Deactivated, InMain, InInit, InActivate, InRand, InRef,
     Activating, Activated, OnCodec, Place, NeedsInit, LastReference
  <1>1. CASE EnterMain(t)
    BY <1>1 DEF EnterMain
  <1>2. CASE EnterInit(t)
    BY <1>2 DEF EnterInit
  <1>3. CASE EnterMainAgain(t)
    BY <1>3 DEF EnterMainAgain
  <1>4. CASE EnterMaster(t)
    BY SMTT(30), <1>4 DEF EnterMaster
  <1>5. CASE EnterActivate(t)
    BY <1>5 DEF EnterActivate
  <1>6. CASE EnterRandToActivate(t)
    BY <1>6 DEF EnterRandToActivate
  <1>7. CASE EnterRandToAdd(t)
    BY <1>7 DEF EnterRandToAdd
  <1>8. CASE EnterRandToRead(t)
    BY <1>8 DEF EnterRandToRead
  <1>9. CASE EnterDeactivate(t)
    BY <1>9 DEF EnterDeactivate
  <1>10. CASE AllocMutex(t)
    BY <1>10 DEF AllocMutex
  <1>11. CASE AllocMutexFails(t)
    BY <1>11 DEF AllocMutexFails
  <1>12. CASE LoadMutex(t)
    BY <1>12 DEF LoadMutex
  <1>13. CASE Body(t)
    BY <1>13 DEF Body
  <1>14. CASE Register(t)
    BY <1>14 DEF Register
  <1>15. CASE Finish(t)
    BY <1>15 DEF Finish
  <1>16. CASE LeaveInit(t)
    BY <1>16 DEF LeaveInit
  <1>17. CASE Unref(t)
    BY <1>17 DEF Unref
  <1>18. CASE ExtraInit(t)
    BY <1>18 DEF ExtraInit
  <1>19. CASE ExtraInitFails(t)
    BY <1>19 DEF ExtraInitFails
  <1>20. CASE ShieldFails(t)
    BY <1>20 DEF ShieldFails
  <1>21. CASE Activate(t)
    BY <1>21 DEF Activate
  <1>22. CASE AddToActivate(t)
    BY <1>22 DEF AddToActivate
  <1>23. CASE LeaveActivate(t)
    BY <1>23 DEF LeaveActivate
  <1>24. CASE SetupFails(t)
    BY <1>24 DEF SetupFails
  <1>25. CASE Read(t)
    BY <1>25 DEF Read
  <1>26. CASE Add(t)
    BY <1>26 DEF Add
  <1>27. CASE Deactivate(t)
    <2>1. CASE ltcRefCount = 1
      BY <1>27, <2>1 DEF Deactivate
    <2>2. CASE ltcRefCount # 1 /\ next[t] = "idle"
      BY SMTT(30), <1>27, <2>2 DEF Deactivate
    <2>3. CASE ltcRefCount # 1 /\ next[t] = "enterActivate"
      <3>1. Exclusive'
        BY <1>27, <2>3 DEF Deactivate
      <3>2. ASSUME NEW u \in Thread PROVE Holds(u)'
        BY <1>27, <2>3 DEF Deactivate
      <3> QED BY <3>1, <3>2
    <2> QED BY <2>1, <2>2, <2>3
  <1>28. CASE Wipe(t)
    BY <1>28 DEF Wipe
  <1>29. CASE Initialize(t)
    BY <1>29 DEF Initialize
  <1>30. CASE KeyUninitialised(t)
    BY <1>30 DEF KeyUninitialised
  <1>31. CASE Key(t)
    BY <1>31 DEF Key
  <1>32. CASE KeyAgain(t)
    BY <1>32 DEF KeyAgain
  <1>33. CASE Random(t)
    BY <1>33 DEF Random
  <1>34. CASE AddRandom(t)
    BY <1>34 DEF AddRandom
  <1>35. CASE Close(t)
    BY <1>35 DEF Close
  <1>36. CASE ClosePlain(t)
    BY <1>36 DEF ClosePlain
  <1> QED
    BY <1>1, <1>2, <1>3, <1>4, <1>5, <1>6, <1>7, <1>8, <1>9, <1>10, <1>11,
       <1>12, <1>13, <1>14, <1>15, <1>16, <1>17, <1>18, <1>19, <1>20, <1>21,
       <1>22, <1>23, <1>24, <1>25, <1>26, <1>27, <1>28, <1>29, <1>30, <1>31,
       <1>32, <1>33, <1>34, <1>35, <1>36
    DEF Enters, Continues, Calls

\* The temporary mutex exists while somebody counts on it, and a recursive
\* call never starts the initialisation over.
LEMMA LocalsStep ==
  ASSUME IInv, NEW t \in Thread, Enters(t) \/ Continues(t) \/ Calls(t)
  PROVE  Locals'
  <1> USE DEF IInv, Types, Locals, Local, HasCodec, Goto, Enter, Leave,
     EnterAt, core, cipher, ltc, call, session, ExtraInitReturns, Deactivated,
     InMain, InInit, InActivate, InRand, InRef, Activating, Activated, OnCodec,
     Place, NeedsInit, LastReference
  <1>1. CASE EnterMain(t)
    BY <1>1 DEF EnterMain
  <1>2. CASE EnterInit(t)
    BY <1>2 DEF EnterInit
  <1>3. CASE EnterMainAgain(t)
    BY <1>3 DEF EnterMainAgain
  <1>4. CASE EnterMaster(t)
    BY <1>4 DEF EnterMaster
  <1>5. CASE EnterActivate(t)
    BY <1>5 DEF EnterActivate
  <1>6. CASE EnterRandToActivate(t)
    BY <1>6 DEF EnterRandToActivate
  <1>7. CASE EnterRandToAdd(t)
    BY <1>7 DEF EnterRandToAdd
  <1>8. CASE EnterRandToRead(t)
    BY <1>8 DEF EnterRandToRead
  <1>9. CASE EnterDeactivate(t)
    BY <1>9 DEF EnterDeactivate
  <1>10. CASE AllocMutex(t)
    BY <1>10 DEF AllocMutex
  <1>11. CASE AllocMutexFails(t)
    <2>1. ~nested[t]
      BY <1>11, RefCounted DEF AllocMutexFails, Counts
    <2> QED BY <1>11, <2>1 DEF AllocMutexFails
  <1>12. CASE LoadMutex(t)
    <2>1. nRefInitMutex >= 1
      BY <1>12, RefCounted DEF LoadMutex
    <2>2. initMutex
      BY <2>1 DEF Counts
    <2> QED BY <1>12, <2>2 DEF LoadMutex
  <1>13. CASE Body(t)
    <2>1. nested[t] => ~NeedsInit
      BY DEF Phases, Initialising
    <2> QED BY <1>13, <2>1 DEF Body
  <1>14. CASE Register(t)
    BY <1>14 DEF Register
  <1>15. CASE Finish(t)
    BY <1>15 DEF Finish
  <1>16. CASE LeaveInit(t)
    BY <1>16 DEF LeaveInit
  <1>17. CASE Unref(t)
    BY <1>17, RefCounted DEF Unref
  <1>18. CASE ExtraInit(t)
    BY <1>18 DEF ExtraInit
  <1>19. CASE ExtraInitFails(t)
    BY <1>19 DEF ExtraInitFails
  <1>20. CASE ShieldFails(t)
    BY <1>20 DEF ShieldFails
  <1>21. CASE Activate(t)
    BY <1>21 DEF Activate
  <1>22. CASE AddToActivate(t)
    BY <1>22 DEF AddToActivate
  <1>23. CASE LeaveActivate(t)
    BY <1>23 DEF LeaveActivate
  <1>24. CASE SetupFails(t)
    BY <1>24 DEF SetupFails
  <1>25. CASE Read(t)
    BY <1>25 DEF Read
  <1>26. CASE Add(t)
    BY <1>26 DEF Add
  <1>27. CASE Deactivate(t)
    BY <1>27 DEF Deactivate
  <1>28. CASE Wipe(t)
    BY <1>28 DEF Wipe
  <1>29. CASE Initialize(t)
    BY <1>29 DEF Initialize
  <1>30. CASE KeyUninitialised(t)
    BY <1>30 DEF Opened, KeyUninitialised
  <1>31. CASE Key(t)
    BY <1>31 DEF Key
  <1>32. CASE KeyAgain(t)
    BY <1>32 DEF KeyAgain
  <1>33. CASE Random(t)
    BY <1>33 DEF Random
  <1>34. CASE AddRandom(t)
    BY <1>34 DEF AddRandom
  <1>35. CASE Close(t)
    BY <1>35 DEF Close
  <1>36. CASE ClosePlain(t)
    BY <1>36 DEF ClosePlain
  <1> QED
    BY <1>1, <1>2, <1>3, <1>4, <1>5, <1>6, <1>7, <1>8, <1>9, <1>10, <1>11,
       <1>12, <1>13, <1>14, <1>15, <1>16, <1>17, <1>18, <1>19, <1>20, <1>21,
       <1>22, <1>23, <1>24, <1>25, <1>26, <1>27, <1>28, <1>29, <1>30, <1>31,
       <1>32, <1>33, <1>34, <1>35, <1>36
    DEF Enters, Continues, Calls

\* nRefInitMutex and ltc_ref_count follow those who hold a reference.
LEMMA CountsStep ==
  ASSUME IInv, NEW t \in Thread, Enters(t) \/ Continues(t) \/ Calls(t)
  PROVE  Counts'
  <1> USE DEF IInv, Types, Locals, Local, HasCodec, Counts, Goto, Enter,
     Leave, EnterAt, core, cipher, ltc, call, session, ExtraInitReturns,
     Deactivated, InMain, InInit, InActivate, InRand, InRef, Activating,
     Activated, OnCodec, Place, NeedsInit, LastReference, Counted
  <1>1. /\ Nested \in SUBSET Thread /\ Cardinality(Nested) \in Nat
        /\ Referring \in SUBSET Thread /\ Cardinality(Referring) \in Nat
        /\ Owner \in SUBSET Thread /\ Cardinality(Owner) \in Nat
        /\ leaked \in Nat
    <2>1. /\ Nested \in SUBSET Thread /\ Referring \in SUBSET Thread
          /\ Owner \in SUBSET Thread
      BY DEF Nested, Referring, Owner
    <2>2. leaked \in Nat
      BY MaxLeaksIsNat
    <2> QED BY <2>1, <2>2, OneMoreOrLess
  <1>2. CASE EnterMain(t)
    <2>1. Nested' = Nested /\ Referring' = Referring /\ Owner' = Owner
      BY <1>2 DEF EnterMain, Nested, Referring, Owner
    <2> QED BY <1>2, <2>1 DEF EnterMain
  <1>3. CASE EnterInit(t)
    <2>1. Nested' = Nested /\ Referring' = Referring /\ Owner' = Owner
      BY <1>3 DEF EnterInit, Nested, Referring, Owner
    <2> QED BY <1>3, <2>1 DEF EnterInit
  <1>4. CASE EnterMainAgain(t)
    <2>1. Nested' = Nested /\ Referring' = Referring /\ Owner' = Owner
      BY <1>4 DEF EnterMainAgain, Nested, Referring, Owner
    <2> QED BY <1>4, <2>1 DEF EnterMainAgain
  <1>5. CASE EnterMaster(t)
    <2>1. Nested' = Nested /\ Referring' = Referring /\ Owner' = Owner
      BY <1>5 DEF EnterMaster, Nested, Referring, Owner
    <2> QED BY <1>5, <2>1 DEF EnterMaster
  <1>6. CASE EnterActivate(t)
    <2>1. Nested' = Nested /\ Referring' = Referring /\ Owner' = Owner
      BY <1>6 DEF EnterActivate, Nested, Referring, Owner
    <2> QED BY <1>6, <2>1 DEF EnterActivate
  <1>7. CASE EnterRandToActivate(t)
    <2>1. Nested' = Nested /\ Referring' = Referring /\ Owner' = Owner
      BY <1>7 DEF EnterRandToActivate, Nested, Referring, Owner
    <2> QED BY <1>7, <2>1 DEF EnterRandToActivate
  <1>8. CASE EnterRandToAdd(t)
    <2>1. Nested' = Nested /\ Referring' = Referring /\ Owner' = Owner
      BY <1>8 DEF EnterRandToAdd, Nested, Referring, Owner
    <2> QED BY <1>8, <2>1 DEF EnterRandToAdd
  <1>9. CASE EnterRandToRead(t)
    <2>1. Nested' = Nested /\ Referring' = Referring /\ Owner' = Owner
      BY <1>9 DEF EnterRandToRead, Nested, Referring, Owner
    <2> QED BY <1>9, <2>1 DEF EnterRandToRead
  <1>10. CASE EnterDeactivate(t)
    <2>1. Nested' = Nested /\ Referring' = Referring /\ Owner' = Owner
      BY <1>10 DEF EnterDeactivate, Nested, Referring, Owner
    <2> QED BY <1>10, <2>1 DEF EnterDeactivate
  <1>11. CASE AllocMutex(t)
    <2>1. /\ Nested' = Nested /\ Owner' = Owner
          /\ t \notin Referring /\ Referring' = Referring \cup {t}
      BY <1>11 DEF AllocMutex, Nested, Referring, Owner
    <2>2. Cardinality(Referring') = Cardinality(Referring) + 1
      BY <1>1, <2>1, OneMoreOrLess
    <2>3. initMutex' = TRUE /\ nRefInitMutex' # 0
      BY <1>11 DEF AllocMutex
    <2> QED BY <1>11, <1>1, <2>1, <2>2, <2>3 DEF AllocMutex
  <1>12. CASE AllocMutexFails(t)
    <2>1. Nested' = Nested /\ Referring' = Referring /\ Owner' = Owner
      BY <1>12 DEF AllocMutexFails, Nested, Referring, Owner
    <2> QED BY <1>12, <2>1 DEF AllocMutexFails
  <1>13. CASE LoadMutex(t)
    <2>1. Nested' = Nested /\ Referring' = Referring /\ Owner' = Owner
      BY <1>13 DEF LoadMutex, Nested, Referring, Owner
    <2> QED BY <1>13, <2>1 DEF LoadMutex
  <1>14. CASE Body(t)
    <2>1. Nested' = Nested /\ Referring' = Referring /\ Owner' = Owner
      BY <1>14 DEF Body, Nested, Referring, Owner
    <2> QED BY <1>14, <2>1 DEF Body
  <1>15. CASE Register(t)
    <2>1. /\ t \notin Nested /\ Nested' = Nested \cup {t}
          /\ t \in Referring /\ Referring' = Referring \ {t}
          /\ Owner' = Owner
      BY <1>15 DEF Register, Nested, Referring, Owner
    <2>2. /\ Cardinality(Nested') = Cardinality(Nested) + 1
          /\ Cardinality(Referring') = Cardinality(Referring) - 1
      BY <1>1, <2>1, OneMoreOrLess
    <2> QED BY <1>15, <1>1, <2>1, <2>2 DEF Register
  <1>16. CASE Finish(t)
    <2>1. Nested' = Nested /\ Referring' = Referring /\ Owner' = Owner
      BY <1>16 DEF Finish, Nested, Referring, Owner
    <2> QED BY <1>16, <2>1 DEF Finish
  <1>17. CASE LeaveInit(t)
    <2>1. Nested' = Nested /\ Referring' = Referring /\ Owner' = Owner
      BY <1>17 DEF LeaveInit, Nested, Referring, Owner
    <2> QED BY <1>17, <2>1 DEF LeaveInit
  <1>18. CASE Unref(t)
    <2>1. nRefInitMutex >= 1 /\ Owner' = Owner
      BY <1>18, RefCounted DEF Unref, Owner
    <2>2. nRefInitMutex' = Cardinality(Nested') + Cardinality(Referring')
      <3>1. CASE nested[t]
        <4>1. /\ t \in Nested /\ Nested' = Nested \ {t}
              /\ Referring' = Referring
          BY <1>18, <3>1 DEF Unref, Nested, Referring
        <4>2. Cardinality(Nested') = Cardinality(Nested) - 1
          BY <1>1, <4>1, OneMoreOrLess
        <4> QED BY <1>18, <1>1, <4>1, <4>2 DEF Unref
      <3>2. CASE ~nested[t]
        <4>1. /\ t \in Referring /\ Referring' = Referring \ {t}
              /\ Nested' = Nested
          BY <1>18, <3>2 DEF Unref, Nested, Referring
        <4>2. Cardinality(Referring') = Cardinality(Referring) - 1
          BY <1>1, <4>1, OneMoreOrLess
        <4> QED BY <1>18, <1>1, <4>1, <4>2 DEF Unref
      <3> QED BY <3>1, <3>2
    <2> QED BY <1>18, <2>1, <2>2 DEF Unref
  <1>19. CASE ExtraInit(t)
    <2>1. Nested' = Nested /\ Referring' = Referring /\ Owner' = Owner
      BY <1>19 DEF ExtraInit, Nested, Referring, Owner
    <2> QED BY <1>19, <2>1 DEF ExtraInit
  <1>20. CASE ExtraInitFails(t)
    <2>1. Nested' = Nested /\ Referring' = Referring /\ Owner' = Owner
      BY <1>20 DEF ExtraInitFails, Nested, Referring, Owner
    <2> QED BY <1>20, <2>1 DEF ExtraInitFails
  <1>21. CASE ShieldFails(t)
    <2>1. Nested' = Nested /\ Referring' = Referring /\ Owner' = Owner
      BY <1>21 DEF ShieldFails, Nested, Referring, Owner
    <2> QED BY <1>21, <1>1, <2>1 DEF ShieldFails
  <1>22. CASE Activate(t)
    <2>1. /\ Nested' = Nested /\ Referring' = Referring
          /\ t \notin Owner /\ Owner' = Owner \cup {t}
      BY <1>22 DEF Activate, Nested, Referring, Owner
    <2>2. Cardinality(Owner') = Cardinality(Owner) + 1
      BY <1>1, <2>1, OneMoreOrLess
    <2> QED BY <1>22, <1>1, <2>1, <2>2 DEF Activate
  <1>23. CASE AddToActivate(t)
    <2>1. Nested' = Nested /\ Referring' = Referring /\ Owner' = Owner
      BY <1>23 DEF AddToActivate, Nested, Referring, Owner
    <2> QED BY <1>23, <2>1 DEF AddToActivate
  <1>24. CASE LeaveActivate(t)
    <2>1. Nested' = Nested /\ Referring' = Referring /\ Owner' = Owner
      BY <1>24 DEF LeaveActivate, Nested, Referring, Owner
    <2> QED BY <1>24, <2>1 DEF LeaveActivate
  <1>25. CASE SetupFails(t)
    <2>1. /\ Nested' = Nested /\ Referring' = Referring
          /\ t \in Owner /\ Owner' = Owner \ {t}
      BY <1>25 DEF SetupFails, Nested, Referring, Owner
    <2>2. Cardinality(Owner') = Cardinality(Owner) - 1
      BY <1>1, <2>1, OneMoreOrLess
    <2> QED BY <1>25, <1>1, <2>1, <2>2 DEF SetupFails
  <1>26. CASE Read(t)
    <2>1. Nested' = Nested /\ Referring' = Referring /\ Owner' = Owner
      BY <1>26 DEF Read, Nested, Referring, Owner
    <2> QED BY <1>26, <2>1 DEF Read
  <1>27. CASE Add(t)
    <2>1. Nested' = Nested /\ Referring' = Referring /\ Owner' = Owner
      BY <1>27 DEF Add, Nested, Referring, Owner
    <2> QED BY <1>27, <2>1 DEF Add
  <1>28. CASE Deactivate(t)
    <2>1. /\ Nested' = Nested /\ Referring' = Referring
          /\ t \in Owner /\ Owner' = Owner \ {t}
      BY <1>28 DEF Deactivate, Nested, Referring, Owner
    <2>2. Cardinality(Owner') = Cardinality(Owner) - 1
      BY <1>1, <2>1, OneMoreOrLess
    <2> QED BY <1>28, <1>1, <2>1, <2>2 DEF Deactivate
  <1>29. CASE Wipe(t)
    <2>1. Nested' = Nested /\ Referring' = Referring /\ Owner' = Owner
      BY <1>29 DEF Wipe, Nested, Referring, Owner
    <2> QED BY <1>29, <2>1 DEF Wipe
  <1>30. CASE Initialize(t)
    <2>1. Nested' = Nested /\ Referring' = Referring /\ Owner' = Owner
      BY <1>30 DEF Initialize, Nested, Referring, Owner
    <2> QED BY <1>30, <2>1 DEF Initialize
  <1>31. CASE KeyUninitialised(t)
    <2>1. ~HasCodec(t)
      BY <1>31 DEF KeyUninitialised, Phases
    <2>2. Nested' = Nested /\ Referring' = Referring /\ Owner' = Owner
      BY <1>31, <2>1 DEF KeyUninitialised, Opened, Nested, Referring, Owner
    <2> QED BY <1>31, <2>2 DEF KeyUninitialised
  <1>32. CASE Key(t)
    <2>1. Nested' = Nested /\ Referring' = Referring /\ Owner' = Owner
      BY <1>32 DEF Key, Nested, Referring, Owner
    <2> QED BY <1>32, <2>1 DEF Key
  <1>33. CASE KeyAgain(t)
    <2>1. Nested' = Nested /\ Referring' = Referring /\ Owner' = Owner
      BY <1>33 DEF KeyAgain, Nested, Referring, Owner
    <2> QED BY <1>33, <2>1 DEF KeyAgain
  <1>34. CASE Random(t)
    <2>1. Nested' = Nested /\ Referring' = Referring /\ Owner' = Owner
      BY <1>34 DEF Random, Nested, Referring, Owner
    <2> QED BY <1>34, <2>1 DEF Random
  <1>35. CASE AddRandom(t)
    <2>1. Nested' = Nested /\ Referring' = Referring /\ Owner' = Owner
      BY <1>35 DEF AddRandom, Nested, Referring, Owner
    <2> QED BY <1>35, <2>1 DEF AddRandom
  <1>36. CASE Close(t)
    <2>1. Nested' = Nested /\ Referring' = Referring /\ Owner' = Owner
      BY <1>36 DEF Close, Nested, Referring, Owner
    <2> QED BY <1>36, <2>1 DEF Close
  <1>37. CASE ClosePlain(t)
    <2>1. Nested' = Nested /\ Referring' = Referring /\ Owner' = Owner
      BY <1>37 DEF ClosePlain, Nested, Referring, Owner
    <2> QED BY <1>37, <2>1 DEF ClosePlain
  <1> QED
    BY <1>2, <1>3, <1>4, <1>5, <1>6, <1>7, <1>8, <1>9, <1>10, <1>11, <1>12,
       <1>13, <1>14, <1>15, <1>16, <1>17, <1>18, <1>19, <1>20, <1>21, <1>22,
       <1>23, <1>24, <1>25, <1>26, <1>27, <1>28, <1>29, <1>30, <1>31, <1>32,
       <1>33, <1>34, <1>35, <1>36, <1>37
    DEF Enters, Continues, Calls

\* isInit, inProgress and sqlcipher_init tell how far the start has come.
LEMMA PhasesStep ==
  ASSUME IInv, NEW t \in Thread, Enters(t) \/ Continues(t) \/ Calls(t)
  PROVE  Phases'
  <1> USE DEF IInv, Types, Locals, Local, Phases, Initialising, HasCodec,
     Mutexes, Exclusive, Holds, Mutex, Goto, Enter, Leave, EnterAt, core,
     cipher, ltc, call, session, ExtraInitReturns, Deactivated, InMain, InInit,
     InActivate, InRand, InRef, Activating, Activated, OnCodec, Place,
     NeedsInit, LastReference
  <1>1. CASE EnterMain(t)
    BY <1>1 DEF EnterMain
  <1>2. CASE EnterInit(t)
    BY <1>2 DEF EnterInit
  <1>3. CASE EnterMainAgain(t)
    BY <1>3 DEF EnterMainAgain
  <1>4. CASE EnterMaster(t)
    BY <1>4 DEF EnterMaster
  <1>5. CASE EnterActivate(t)
    BY <1>5 DEF EnterActivate
  <1>6. CASE EnterRandToActivate(t)
    BY <1>6 DEF EnterRandToActivate
  <1>7. CASE EnterRandToAdd(t)
    BY <1>7 DEF EnterRandToAdd
  <1>8. CASE EnterRandToRead(t)
    BY <1>8 DEF EnterRandToRead
  <1>9. CASE EnterDeactivate(t)
    BY <1>9 DEF EnterDeactivate
  <1>10. CASE AllocMutex(t)
    BY <1>10 DEF AllocMutex
  <1>11. CASE AllocMutexFails(t)
    BY <1>11 DEF AllocMutexFails
  <1>12. CASE LoadMutex(t)
    BY <1>12 DEF LoadMutex
  <1>13. CASE Body(t)
    BY ZenonT(30), <1>13 DEF Body
  <1>14. CASE Register(t)
    BY <1>14 DEF Register
  <1>15. CASE Finish(t)
    BY <1>15 DEF Finish
  <1>16. CASE LeaveInit(t)
    BY <1>16 DEF LeaveInit
  <1>17. CASE Unref(t)
    BY <1>17 DEF Unref
  <1>18. CASE ExtraInit(t)
    BY <1>18 DEF ExtraInit
  <1>19. CASE ExtraInitFails(t)
    BY <1>19 DEF ExtraInitFails
  <1>20. CASE ShieldFails(t)
    BY <1>20 DEF ShieldFails
  <1>21. CASE Activate(t)
    BY <1>21 DEF Activate
  <1>22. CASE AddToActivate(t)
    BY <1>22 DEF AddToActivate
  <1>23. CASE LeaveActivate(t)
    BY <1>23 DEF LeaveActivate
  <1>24. CASE SetupFails(t)
    BY <1>24 DEF SetupFails
  <1>25. CASE Read(t)
    BY <1>25 DEF Read
  <1>26. CASE Add(t)
    BY <1>26 DEF Add
  <1>27. CASE Deactivate(t)
    BY <1>27 DEF Deactivate
  <1>28. CASE Wipe(t)
    BY <1>28 DEF Wipe
  <1>29. CASE Initialize(t)
    BY <1>29 DEF Initialize
  <1>30. CASE KeyUninitialised(t)
    BY <1>30 DEF KeyUninitialised
  <1>31. CASE Key(t)
    BY <1>31 DEF Key
  <1>32. CASE KeyAgain(t)
    BY <1>32 DEF KeyAgain
  <1>33. CASE Random(t)
    BY <1>33 DEF Random
  <1>34. CASE AddRandom(t)
    BY <1>34 DEF AddRandom
  <1>35. CASE Close(t)
    BY <1>35 DEF Close
  <1>36. CASE ClosePlain(t)
    BY <1>36 DEF ClosePlain
  <1> QED
    BY <1>1, <1>2, <1>3, <1>4, <1>5, <1>6, <1>7, <1>8, <1>9, <1>10, <1>11,
       <1>12, <1>13, <1>14, <1>15, <1>16, <1>17, <1>18, <1>19, <1>20, <1>21,
       <1>22, <1>23, <1>24, <1>25, <1>26, <1>27, <1>28, <1>29, <1>30, <1>31,
       <1>32, <1>33, <1>34, <1>35, <1>36
    DEF Enters, Continues, Calls

\* The last owner, and nobody but the last, ends and wipes the generator.
LEMMA GeneratorStep ==
  ASSUME IInv, NEW t \in Thread, Enters(t) \/ Continues(t) \/ Calls(t)
  PROVE  Generator'
  <1> USE DEF IInv, Types, Locals, Local, Phases, Generator, HasCodec,
     Mutexes, Exclusive, Holds, Mutex, Goto, Enter, Leave, EnterAt, core,
     cipher, ltc, call, session, ExtraInitReturns, Deactivated, InMain, InInit,
     InActivate, InRand, InRef, Activating, Activated, OnCodec, Place, Mixed,
     Wiped, Counted
  <1>1. CASE EnterMain(t)
    BY <1>1 DEF EnterMain
  <1>2. CASE EnterInit(t)
    BY <1>2 DEF EnterInit
  <1>3. CASE EnterMainAgain(t)
    BY <1>3 DEF EnterMainAgain
  <1>4. CASE EnterMaster(t)
    BY <1>4 DEF EnterMaster
  <1>5. CASE EnterActivate(t)
    BY <1>5 DEF EnterActivate
  <1>6. CASE EnterRandToActivate(t)
    BY <1>6 DEF EnterRandToActivate
  <1>7. CASE EnterRandToAdd(t)
    BY <1>7 DEF EnterRandToAdd
  <1>8. CASE EnterRandToRead(t)
    BY <1>8 DEF EnterRandToRead
  <1>9. CASE EnterDeactivate(t)
    BY <1>9 DEF EnterDeactivate
  <1>10. CASE AllocMutex(t)
    BY <1>10 DEF AllocMutex
  <1>11. CASE AllocMutexFails(t)
    BY <1>11 DEF AllocMutexFails
  <1>12. CASE LoadMutex(t)
    BY <1>12 DEF LoadMutex
  <1>13. CASE Body(t)
    BY <1>13 DEF Body
  <1>14. CASE Register(t)
    BY <1>14 DEF Register
  <1>15. CASE Finish(t)
    BY <1>15 DEF Finish
  <1>16. CASE LeaveInit(t)
    BY <1>16 DEF LeaveInit
  <1>17. CASE Unref(t)
    BY <1>17 DEF Unref
  <1>18. CASE ExtraInit(t)
    BY <1>18 DEF ExtraInit
  <1>19. CASE ExtraInitFails(t)
    BY <1>19 DEF ExtraInitFails
  <1>20. CASE ShieldFails(t)
    BY <1>20 DEF ShieldFails
  <1>21. CASE Activate(t)
    BY <1>21 DEF Activate
  <1>22. CASE AddToActivate(t)
    <2>1. t \in Owner
      BY <1>22 DEF AddToActivate, Owner
    <2>2. ltcRefCount # 0
      BY <2>1, OwnerCounted
    <2> QED BY <1>22, <2>2 DEF AddToActivate
  <1>23. CASE LeaveActivate(t)
    BY <1>23 DEF LeaveActivate
  <1>24. CASE SetupFails(t)
    BY <1>24 DEF SetupFails
  <1>25. CASE Read(t)
    BY <1>25 DEF Read
  <1>26. CASE Add(t)
    <2>1. t \in Owner
      BY <1>26 DEF Add, Owner
    <2>2. ltcRefCount # 0
      BY <2>1, OwnerCounted
    <2> QED BY <1>26, <2>2 DEF Add
  <1>27. CASE Deactivate(t)
    <2>1. t \in Owner
      BY <1>27 DEF Deactivate, Owner
    <2>2. CASE ltcRefCount = 1
      <3>1. \A u \in Thread \ {t} : /\ HasCodec(u) => pc[u] = "wipe"
                                   /\ pc[u] \notin Activated
        BY <2>1, <2>2, OwnerCounted DEF Owner
      <3> QED BY <1>27, <2>2, <3>1 DEF Deactivate
    <2>3. CASE ltcRefCount # 1
      <3>1. ltcRefCount >= 1
        BY <2>1, OwnerCounted
      <3> QED BY <1>27, <2>3, <3>1 DEF Deactivate
    <2> QED BY <2>2, <2>3
  <1>28. CASE Wipe(t)
    <2>1. ltcRefCount = 0
      BY <1>28 DEF Wipe
    <2>2. Owner = {}
      BY <2>1, OwnerCounted
    <2>3. \A u \in Thread : /\ HasCodec(u) => pc[u] = "wipe"
                           /\ pc[u] \notin Activated
      BY <2>2 DEF Owner
    <2>4. \A u \in Thread \ {t} : pc[u] # "wipe"
      BY <1>28 DEF Wipe
    <2> QED BY <1>28, <2>1, <2>3, <2>4 DEF Wipe
  <1>29. CASE Initialize(t)
    BY <1>29 DEF Initialize
  <1>30. CASE KeyUninitialised(t)
    BY <1>30 DEF KeyUninitialised
  <1>31. CASE Key(t)
    BY <1>31 DEF Key
  <1>32. CASE KeyAgain(t)
    BY <1>32 DEF KeyAgain
  <1>33. CASE Random(t)
    BY <1>33 DEF Random
  <1>34. CASE AddRandom(t)
    BY <1>34 DEF AddRandom
  <1>35. CASE Close(t)
    BY <1>35 DEF Close
  <1>36. CASE ClosePlain(t)
    BY <1>36 DEF ClosePlain
  <1> QED
    BY <1>1, <1>2, <1>3, <1>4, <1>5, <1>6, <1>7, <1>8, <1>9, <1>10, <1>11,
       <1>12, <1>13, <1>14, <1>15, <1>16, <1>17, <1>18, <1>19, <1>20, <1>21,
       <1>22, <1>23, <1>24, <1>25, <1>26, <1>27, <1>28, <1>29, <1>30, <1>31,
       <1>32, <1>33, <1>34, <1>35, <1>36
    DEF Enters, Continues, Calls

-----------------------------------------------------------------------------
\* Nothing is started, held or counted yet.
LEMMA InitIInv == Init => IInv
  <1> SUFFICES ASSUME Init PROVE IInv
    OBVIOUS
  <1> USE DEF Init
  <1>1. Types
    <2>1. leaked \in 0..MaxLeaks
      BY MaxLeaksIsNat
    <2>2. inside \in [Mutex -> [Thread -> Nat]] /\ pc \in [Thread -> Place]
      BY DEF Place
    <2> QED BY <2>1, <2>2 DEF Types
  <1>2. Mutexes
    BY DEF Mutexes, Exclusive, Holds, Mutex, InMain, InInit, InActivate, InRand
  <1>3. Locals
    BY DEF Locals, Local, HasCodec, Activating, Activated, OnCodec
  <1>4. Counts
    <2>1. Nested = {} /\ Referring = {} /\ Owner = {}
      BY DEF Nested, Referring, Owner, InRef, InInit, Activated, HasCodec
    <2> QED BY <2>1, FS_EmptySet DEF Counts
  <1>5. Phases
    BY DEF Phases, Initialising, HasCodec, Activating, Activated
  <1>6. Generator
    BY DEF Generator, HasCodec
  <1> QED BY <1>1, <1>2, <1>3, <1>4, <1>5, <1>6 DEF IInv

\* Nobody is inside a call, or has a connection, when the library is shut
\* down.
LEMMA ShutdownIInv == ASSUME IInv, Shutdown PROVE IInv'
  <1> USE DEF IInv, Shutdown, core, ltc, session
  <1>1. Types'
    BY DEF Types
  <1>2. Mutexes'
    BY DEF Mutexes, Exclusive, Holds
  <1>3. Locals'
    BY DEF Locals, Local, HasCodec
  <1>4. Counts'
    <2>1. Nested' = Nested /\ Referring' = Referring /\ Owner' = Owner
      BY DEF Nested, Referring, Owner, HasCodec
    <2> QED BY <2>1 DEF Counts
  <1>5. Phases'
    <2>1. ASSUME NEW t \in Thread
          PROVE  ~Initialising(t) /\ ~runExtraInit[t] /\ ~HasCodec(t)
      BY DEF Types, Locals, Local, Initialising, HasCodec, InRef, InInit
    <2> QED
      BY <2>1 DEF Phases, Initialising, HasCodec, Activating, Activated
  <1>6. Generator'
    BY DEF Generator, HasCodec
  <1> QED BY <1>1, <1>2, <1>3, <1>4, <1>5, <1>6

\* The invariant of the start and of the provider holds in every reachable
\* state, for any finite set of threads.
THEOREM StartInvariance == Spec => []IInv
  <1>1. IInv /\ [Next]_vars => IInv'
    <2>1. ASSUME IInv, NEW t \in Thread, Enters(t) \/ Continues(t) \/ Calls(t)
          PROVE  IInv'
      BY <2>1, TypesStep, MutexesStep, LocalsStep, CountsStep, PhasesStep,
         GeneratorStep
      DEF IInv
    <2>2. ASSUME IInv, UNCHANGED vars PROVE IInv'
      <3> USE <2>2 DEF IInv, vars, core, cipher, ltc, call, session
      <3>1. Types' /\ Mutexes'
        BY DEF Types, Mutexes, Exclusive, Holds
      <3>2. Locals' /\ Phases' /\ Generator'
        BY DEF Locals, Local, Phases, Generator, Initialising, HasCodec
      <3>3. Counts'
        BY DEF Counts, Nested, Referring, Owner, HasCodec
      <3> QED BY <3>1, <3>2, <3>3
    <2> QED BY <2>1, <2>2, ShutdownIInv DEF Next
  <1> QED BY InitIInv, <1>1, PTL DEF Spec

-----------------------------------------------------------------------------
\* sqlite3_initialize() and the provider keep every variable in its type:
\* nRefInitMutex counts at most two calls of each thread, ltc_ref_count at
\* most one activation of each and those that were lost, neither goes below
\* zero, a mutex has one owner at most and no call returns inside one.
THEOREM StartTypeCorrect == Spec => []TypeOK
  <1>1. ASSUME IInv PROVE TypeOK
    <2> USE <1>1 DEF IInv
    <2>1. \A S \in SUBSET Thread : /\ Cardinality(S) \in Nat
                                   /\ Cardinality(S) <= Cardinality(Thread)
      BY ThreadIsFinite, FS_Subset, FS_CardinalityType
    <2>2. Cardinality(Thread) \in Nat
      BY ThreadIsFinite, FS_CardinalityType
    <2>3. /\ Nested \in SUBSET Thread /\ Referring \in SUBSET Thread
          /\ Owner \in SUBSET Thread
      BY DEF Nested, Referring, Owner
    <2>4. nRefInitMutex \in 0..(2 * Cardinality(Thread))
      BY <2>1, <2>2, <2>3 DEF Counts, Types
    <2>5. ltcRefCount \in 0..(Cardinality(Thread) + MaxLeaks)
      <3>1. leaked \in Nat /\ leaked <= MaxLeaks
        BY MaxLeaksIsNat DEF Types
      <3> QED
        BY <2>1, <2>2, <2>3, <3>1, MaxLeaksIsNat DEF Counts, Types
    <2>6. ASSUME NEW m \in Mutex PROVE inside[m] \in [Thread -> 0..2]
      <3>1. inside[m] \in [Thread -> Nat]
        BY DEF Types
      <3>2. ASSUME NEW t \in Thread PROVE inside[m][t] <= 2
        <4>1. Holds(t)
          BY DEF Mutexes
        <4> QED BY <4>1 DEF Holds, Mutex
      <3> QED BY <3>1, <3>2
    <2>7. ASSUME NEW m \in Mutex, NEW t \in Thread, pc[t] = "idle"
          PROVE  inside[m][t] = 0
      <3>1. ~nested[t]
        BY <2>7 DEF Locals, Local, InRef, InInit
      <3>2. Holds(t)
        BY DEF Mutexes
      <3> QED
        BY <2>7, <3>1, <3>2 DEF Holds, Mutex, InMain, InInit, InActivate, InRand
    <2>8. Exclusive
      BY DEF Mutexes
    <2> QED BY <2>4, <2>5, <2>6, <2>7, <2>8 DEF TypeOK, Types, Exclusive
  <1> QED BY <1>1, StartInvariance, PTL

\* nRefInitMutex keeps the temporary mutex alive for whoever has read
\* pInitMutex, for any number of threads that start the library at once.
THEOREM TemporaryMutexLives == Spec => []InitMutexLives
  <1>1. IInv => InitMutexLives
    BY DEF IInv, Locals, Local, InitMutexLives
  <1> QED BY <1>1, StartInvariance, PTL

\* One thread initialises, once, though sqlite3_vfs_register() calls
\* sqlite3_initialize() again in the midst of it.
THEOREM StartsOnce == Spec => []OneInitialiser
  <1>1. ASSUME IInv PROVE OneInitialiser
    <2> USE <1>1 DEF IInv
    <2>1. ASSUME NEW t \in Thread, NEW u \in Thread,
                 Initialising(t), Initialising(u)
          PROVE  t = u
      <3>1. inside["init"][t] # 0 /\ inside["init"][u] # 0
        BY <2>1 DEF Mutexes, Holds, Initialising, InInit, Types
      <3> QED BY <3>1 DEF Mutexes, Exclusive, Mutex
    <2>2. \A t \in Thread : nested[t] => pc[t] # "register"
      BY DEF Locals, Local, InRef, InInit
    <2>3. \A t \in Thread : Initialising(t) => inProgress /\ ~isInit
      BY DEF Phases
    <2> QED BY <2>1, <2>2, <2>3 DEF OneInitialiser
  <1> QED BY <1>1, StartInvariance, PTL

\* sqlcipher_ltc_random() reads only a generator that has been seeded and not
\* ended, and sqlcipher_ltc_deactivate() wipes it without the mutex of the
\* generator, but never while another thread is inside.
THEOREM ReadsAreSeeded == Spec => []RandomIsSeeded
  <1>1. ASSUME IInv PROVE RandomIsSeeded
    <2> USE <1>1 DEF IInv
    <2>1. ASSUME NEW t \in Thread, pc[t] = "read" PROVE prng = "ready"
      <3>1. HasCodec(t)
        BY <2>1 DEF Locals, Local, OnCodec
      <3> QED BY <2>1, <3>1 DEF Generator
    <2>2. ASSUME NEW t \in Thread, NEW u \in Thread, pc[t] = "wipe"
          PROVE  inside["rand"][u] = 0
      <3>1. u \notin Owner
        <4>1. ltcRefCount = 0
          BY <2>2 DEF Generator
        <4> QED BY <4>1, OwnerCounted
      <3>2. pc[u] \notin InRand
        BY <3>1 DEF Owner, InRand, Activated, OnCodec, Locals, Local
      <3> QED BY <3>2 DEF Mutexes, Holds
    <2> QED BY <2>1, <2>2 DEF RandomIsSeeded
  <1> QED BY <1>1, StartInvariance, PTL

\* sqlcipher_ltc_deactivate() leaves nothing of the generator behind when the
\* last codec is gone.
THEOREM NothingOutlives == Spec => []WipedWhenUnused
  <1>1. ASSUME IInv, \A t \in Thread : pc[t] = "idle" /\ ~HasCodec(t),
               leaked = 0
        PROVE  prng = "zero"
    <2> USE <1>1 DEF IInv
    <2>1. Owner = {}
      BY DEF Owner, Activated
    <2>2. ltcRefCount = 0
      BY <2>1, FS_EmptySet DEF Counts
    <2> QED BY <2>2 DEF Generator
  <1> QED BY <1>1, StartInvariance, PTL DEF WipedWhenUnused
=============================================================================
