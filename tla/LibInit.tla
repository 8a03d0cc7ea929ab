------------------------------ MODULE LibInit ------------------------------
(***************************************************************************)
(* Starting the library and its encryption: sqlite3_initialize() with its  *)
(* temporary recursive mutex, sqlcipher_extra_init(), which this package   *)
(* sets as SQLITE_EXTRA_INIT, and the LibTomCrypt provider, whose single   *)
(* random generator all codecs of the process share.  Several threads,     *)
(* each with a connection of its own, start the library, key their         *)
(* connection, draw random bytes and close, and the application shuts the  *)
(* library down when nothing is open.                                      *)
(*                                                                         *)
(* The mutexes are those of MutexContract, which RecursiveMutex implements.*)
(***************************************************************************)
EXTENDS Naturals, FiniteSets

CONSTANTS
    Thread,
    Faults,         \* may an allocation, or the setup of a codec, fail?
    MaxLeaks        \* bound: codecs that fail after activating the provider

ASSUME ThreadIsFinite == IsFiniteSet(Thread)
ASSUME FaultsIsBoolean == Faults \in BOOLEAN
ASSUME MaxLeaksIsNat == MaxLeaks \in Nat

VARIABLES
    isInit,         \* sqlite3GlobalConfig.isInit
    inProgress,     \* sqlite3GlobalConfig.inProgress
    initMutex,      \* does sqlite3GlobalConfig.pInitMutex exist?
    nRefInitMutex,  \* sqlite3GlobalConfig.nRefInitMutex
    inside,         \* per mutex and thread: entered minus left
    sqlcipherInit,  \* sqlcipher_init
    initError,      \* sqlcipher_init_error
    ltcInit,        \* ltc_init
    ltcRefCount,    \* ltc_ref_count
    prng,           \* the Fortuna generator
    leaked,         \* references whose owner is gone
    pc,             \* where each thread is
    uses,           \* the thread's pInitMutex: not loaded, alive, or freed
    nested,         \* is the thread in a recursive sqlite3_initialize()?
    runExtraInit,   \* bRunExtraInit
    rc,             \* result of the thread's last sqlite3_initialize()
    next,           \* what follows a deactivation
    conn            \* the thread's connection

core    == <<isInit, inProgress, initMutex, nRefInitMutex>>
cipher  == <<sqlcipherInit, initError>>
ltc     == <<ltcInit, ltcRefCount, prng, leaked>>
call    == <<uses, nested, runExtraInit, rc>>
session == <<next, conn>>
vars    == <<core, inside, cipher, ltc, pc, call, session>>

\* STATIC_MAIN, pInitMutex and SQLCipher's two provider mutexes.
Mutex == {"main", "init", "activate", "rand"}

Init ==
    /\ isInit = FALSE
    /\ inProgress = FALSE
    /\ initMutex = FALSE
    /\ nRefInitMutex = 0
    /\ inside = [m \in Mutex |-> [t \in Thread |-> 0]]
    /\ sqlcipherInit = FALSE
    /\ initError = "ERROR"
    /\ ltcInit = FALSE
    /\ ltcRefCount = 0
    /\ prng = "zero"
    /\ leaked = 0
    /\ pc = [t \in Thread |-> "idle"]
    /\ uses = [t \in Thread |-> "none"]
    /\ nested = [t \in Thread |-> FALSE]
    /\ runExtraInit = [t \in Thread |-> FALSE]
    /\ rc = [t \in Thread |-> "none"]
    /\ next = [t \in Thread |-> "idle"]
    /\ conn = [t \in Thread |-> "none"]

Goto(t, from, to) ==
    /\ pc[t] = from
    /\ pc' = [pc EXCEPT ![t] = to]

\* sqlite3_mutex_enter() and sqlite3_mutex_leave()
Enter(m, t) ==
    /\ \A u \in Thread \ {t} : inside[m][u] = 0
    /\ inside' = [inside EXCEPT ![m][t] = @ + 1]

Leave(m, t) == inside' = [inside EXCEPT ![m][t] = @ - 1]

EnterAt(m, t, from, to) ==
    /\ Goto(t, from, to)
    /\ Enter(m, t)
    /\ UNCHANGED <<core, cipher, ltc, call, session>>

-----------------------------------------------------------------------------
(* sqlite3_initialize()                                                     *)

\* isInit is tested without any mutex.
Initialize(t) ==
    /\ IF isInit
       THEN /\ pc[t] = "idle"
            /\ rc' = [rc EXCEPT ![t] = "OK"]
            /\ UNCHANGED pc
       ELSE /\ Goto(t, "idle", "enterMain")
            /\ rc' = [rc EXCEPT ![t] = "none"]
    /\ UNCHANGED <<core, inside, cipher, ltc, uses, nested, runExtraInit,
                   session>>

EnterMain(t) == EnterAt("main", t, "enterMain", "allocMutex")

AllocMutex(t) ==
    /\ Goto(t, "allocMutex", "loadMutex")
    /\ initMutex' = TRUE
    /\ nRefInitMutex' = nRefInitMutex + 1
    /\ Leave("main", t)
    /\ UNCHANGED <<isInit, inProgress, cipher, ltc, call, session>>

\* The heap cannot be set up or pInitMutex not be allocated.
AllocMutexFails(t) ==
    /\ Faults
    /\ ~initMutex
    /\ Goto(t, "allocMutex", "idle")
    /\ rc' = [rc EXCEPT ![t] = "NOMEM"]
    /\ Leave("main", t)
    /\ UNCHANGED <<core, cipher, ltc, uses, nested, runExtraInit, session>>

LoadMutex(t) ==
    /\ Goto(t, "loadMutex", "enterInit")
    /\ uses' = [uses EXCEPT ![t] = IF initMutex THEN "live" ELSE "freed"]
    /\ UNCHANGED <<core, inside, cipher, ltc, nested, runExtraInit, rc,
                   session>>

EnterInit(t) == EnterAt("init", t, "enterInit", "body")

\* A test of isInit alone, as before entering: a recursive call starts over.
MutNeedsInit == ~isInit

NeedsInit == ~isInit /\ ~inProgress

Body(t) ==
    /\ Goto(t, "body", IF NeedsInit THEN "register" ELSE "leaveInit")
    /\ inProgress' = (inProgress \/ NeedsInit)
    /\ UNCHANGED <<isInit, initMutex, nRefInitMutex, inside, cipher, ltc, call,
                   session>>

\* sqlite3OsInit() registers the VFSes, and sqlite3_vfs_register() calls
\* sqlite3_initialize(), which finds isInit still zero.
Register(t) ==
    /\ Goto(t, "register", "enterMain")
    /\ nested' = [nested EXCEPT ![t] = TRUE]
    /\ UNCHANGED <<core, inside, cipher, ltc, uses, runExtraInit, rc, session>>

\* The rest of the critical section: isInit is set if nothing failed.
Finish(t) ==
    /\ Goto(t, "finish", "leaveInit")
    /\ \E ok \in {TRUE, ~Faults} :
          /\ isInit' = ok
          /\ runExtraInit' = [runExtraInit EXCEPT ![t] = ok]
          /\ rc' = [rc EXCEPT ![t] = IF ok THEN "none" ELSE "NOMEM"]
    /\ inProgress' = FALSE
    /\ UNCHANGED <<initMutex, nRefInitMutex, inside, cipher, ltc, uses, nested,
                   session>>

LeaveInit(t) ==
    /\ Goto(t, "leaveInit", "enterMainAgain")
    /\ Leave("init", t)
    /\ uses' = [uses EXCEPT ![t] = IF nested[t] THEN @ ELSE "none"]
    /\ UNCHANGED <<core, cipher, ltc, nested, runExtraInit, rc, session>>

EnterMainAgain(t) == EnterAt("main", t, "enterMainAgain", "unref")

\* Freed by whoever has finished with it, though others may still count on it.
MutLastReference == TRUE

LastReference == nRefInitMutex = 1

\* nRefInitMutex--, the last one out frees pInitMutex, and the call returns:
\* to sqlite3_vfs_register() if it was the recursive one.
Unref(t) ==
    /\ Goto(t, "unref", IF nested[t] THEN "finish"
                        ELSE IF runExtraInit[t] THEN "enterMaster" ELSE "idle")
    /\ nRefInitMutex' = nRefInitMutex - 1
    /\ initMutex' = ~LastReference
    /\ uses' = [u \in Thread |-> IF LastReference /\ uses[u] = "live"
                                 THEN "freed" ELSE uses[u]]
    /\ nested' = [nested EXCEPT ![t] = FALSE]
    /\ rc' = [rc EXCEPT ![t] = IF @ = "none" /\ ~nested[t] /\ ~runExtraInit[t]
                               THEN "OK" ELSE @]
    /\ Leave("main", t)
    /\ UNCHANGED <<isInit, inProgress, cipher, ltc, runExtraInit, session>>

-----------------------------------------------------------------------------
(* sqlcipher_extra_init(), run by the thread that set isInit, after it.     *)

EnterMaster(t) == EnterAt("main", t, "enterMaster", "extraInit")

ExtraInitReturns(t, result) ==
    /\ Goto(t, "extraInit", "idle")
    /\ runExtraInit' = [runExtraInit EXCEPT ![t] = FALSE]
    /\ rc' = [rc EXCEPT ![t] = result]
    /\ Leave("main", t)
    /\ UNCHANGED <<core, uses, nested, session>>

\* The provider is activated, asked for a seed, and deactivated; nobody else
\* uses it while sqlcipher_init is zero.
ExtraInit(t) ==
    /\ ExtraInitReturns(t, "OK")
    /\ sqlcipherInit' = TRUE
    /\ ltcInit' = TRUE
    /\ prng' = IF ltcRefCount = 0 THEN "zero" ELSE "ready"
    /\ UNCHANGED <<initError, ltcRefCount, leaked>>

\* No memory for the mutexes or the private heap.
ExtraInitFails(t) ==
    /\ Faults
    /\ ExtraInitReturns(t, "NOMEM")
    /\ initError' = "NOMEM"
    /\ UNCHANGED <<sqlcipherInit, ltc>>

\* No memory for the shield mask: everything is torn down, but the provider
\* stays activated and the result is still SQLITE_OK.
ShieldFails(t) ==
    /\ Faults
    /\ leaked < MaxLeaks
    /\ ExtraInitReturns(t, "OK")
    /\ initError' = "OK"
    /\ ltcInit' = TRUE
    /\ ltcRefCount' = ltcRefCount + 1
    /\ leaked' = leaked + 1
    /\ prng' = "ready"
    /\ UNCHANGED sqlcipherInit

\* sqlite3_shutdown(), which must not be called while the library is in use.
\* Not after ShieldFails: the provider of the heap freed there is still the
\* default one, and the next start would use it.
Shutdown ==
    /\ isInit
    /\ \A t \in Thread : pc[t] = "idle" /\ conn[t] = "none"
    /\ initError # "OK"
    /\ isInit' = FALSE
    /\ sqlcipherInit' = FALSE
    /\ initError' = "ERROR"
    /\ rc' = [t \in Thread |-> "none"]
    /\ UNCHANGED <<inProgress, initMutex, nRefInitMutex, inside, ltc, pc, uses,
                   nested, runExtraInit, session>>

-----------------------------------------------------------------------------
(* sqlcipherCodecAttach(): the connection gets its key.                     *)

Opened(t) == pc[t] = "idle" /\ rc[t] = "OK"

\* SQLCipher is not initialised: the call returns sqlcipher_init_error.
KeyUninitialised(t) ==
    /\ Opened(t)
    /\ ~sqlcipherInit
    /\ conn' = [conn EXCEPT ![t] = IF initError = "OK" THEN "plain" ELSE @]
    /\ UNCHANGED <<core, inside, cipher, ltc, pc, call, next>>

Key(t) ==
    /\ Opened(t)
    /\ sqlcipherInit
    /\ conn[t] = "none"
    /\ Goto(t, "idle", "enterActivate")
    /\ UNCHANGED <<core, inside, cipher, ltc, call, session>>

\* A codec whose key has not been used yet is freed and set up afresh.
KeyAgain(t) ==
    /\ Opened(t)
    /\ sqlcipherInit
    /\ conn[t] = "keyed"
    /\ Goto(t, "idle", "enterDeactivate")
    /\ next' = [next EXCEPT ![t] = "enterActivate"]
    /\ UNCHANGED <<core, inside, cipher, ltc, call, conn>>

\* sqlcipher_ltc_activate()
EnterActivate(t) == EnterAt("activate", t, "enterActivate", "activate")

\* A count kept only by the first activation.
MutCounted == IF ltcInit THEN ltcRefCount ELSE ltcRefCount + 1

Counted == ltcRefCount + 1

\* fortuna_start() runs once in the life of the process.
Activate(t) ==
    /\ Goto(t, "activate", "enterRandToActivate")
    /\ ltcInit' = TRUE
    /\ prng' = IF ltcInit THEN prng ELSE "started"
    /\ ltcRefCount' = Counted
    /\ UNCHANGED <<core, inside, cipher, leaked, call, session>>

EnterRandToActivate(t) ==
    EnterAt("rand", t, "enterRandToActivate", "addToActivate")

EnterRandToAdd(t) == EnterAt("rand", t, "enterRandToAdd", "add")

EnterRandToRead(t) == EnterAt("rand", t, "enterRandToRead", "read")

\* An add_random that leaves fortuna_ready() to others.
MutMixed == IF prng = "ready" THEN prng ELSE "started"

\* fortuna_add_entropy() and fortuna_ready()
Mixed == "ready"

\* sqlcipher_ltc_add_random() called by activate.
AddToActivate(t) ==
    /\ Goto(t, "addToActivate", "leaveActivate")
    /\ prng' = Mixed
    /\ Leave("rand", t)
    /\ UNCHANGED <<core, cipher, ltcInit, ltcRefCount, leaked, call, session>>

LeaveActivate(t) ==
    /\ Goto(t, "leaveActivate", "idle")
    /\ Leave("activate", t)
    /\ conn' = [conn EXCEPT ![t] = "keyed"]
    /\ UNCHANGED <<core, cipher, ltc, call, next>>

\* An error that returns with the activation mutex held.
MutSetupFails(t) ==
    /\ Faults
    /\ leaked < MaxLeaks
    /\ Goto(t, "leaveActivate", "idle")
    /\ leaked' = leaked + 1
    /\ conn' = [conn EXCEPT ![t] = "none"]
    /\ UNCHANGED <<core, inside, cipher, ltcInit, ltcRefCount, prng, call,
                   next>>

\* A later step of sqlcipher_codec_ctx_init() fails: the half built codec is
\* not attached, and not freed either.
SetupFails(t) ==
    /\ Faults
    /\ leaked < MaxLeaks
    /\ Goto(t, "leaveActivate", "idle")
    /\ Leave("activate", t)
    /\ leaked' = leaked + 1
    /\ conn' = [conn EXCEPT ![t] = "none"]
    /\ UNCHANGED <<core, cipher, ltcInit, ltcRefCount, prng, call, next>>

-----------------------------------------------------------------------------
(* A keyed connection draws random bytes, mixes some in, and closes.        *)

HasCodec(t) == conn[t] \in {"keyed", "used"}

\* A new page needs an initialisation vector: sqlcipher_ltc_random().
Random(t) ==
    /\ HasCodec(t)
    /\ Goto(t, "idle", "enterRandToRead")
    /\ UNCHANGED <<core, inside, cipher, ltc, call, session>>

Read(t) ==
    /\ Goto(t, "read", "idle")
    /\ Leave("rand", t)
    /\ conn' = [conn EXCEPT ![t] = "used"]
    /\ UNCHANGED <<core, cipher, ltc, call, next>>

\* PRAGMA cipher_add_random
AddRandom(t) ==
    /\ HasCodec(t)
    /\ Goto(t, "idle", "enterRandToAdd")
    /\ UNCHANGED <<core, inside, cipher, ltc, call, session>>

Add(t) ==
    /\ Goto(t, "add", "idle")
    /\ prng' = Mixed
    /\ Leave("rand", t)
    /\ UNCHANGED <<core, cipher, ltcInit, ltcRefCount, leaked, call, session>>

\* sqlite3_close()
Close(t) ==
    /\ HasCodec(t)
    /\ Goto(t, "idle", "enterDeactivate")
    /\ next' = [next EXCEPT ![t] = "idle"]
    /\ UNCHANGED <<core, inside, cipher, ltc, call, conn>>

ClosePlain(t) ==
    /\ pc[t] = "idle"
    /\ conn[t] = "plain"
    /\ conn' = [conn EXCEPT ![t] = "none"]
    /\ UNCHANGED <<core, inside, cipher, ltc, pc, call, next>>

\* sqlcipher_ltc_deactivate()
EnterDeactivate(t) == EnterAt("activate", t, "enterDeactivate", "deactivate")

Deactivated(t) ==
    /\ conn' = [conn EXCEPT ![t] = "none"]
    /\ Leave("activate", t)
    /\ UNCHANGED <<core, cipher, ltcInit, leaked, call, next>>

\* The last reference: fortuna_done(), and the generator is then wiped, under
\* the activation mutex but without the one that guards it elsewhere.
Deactivate(t) ==
    IF ltcRefCount = 1
    THEN /\ Goto(t, "deactivate", "wipe")
         /\ ltcRefCount' = 0
         /\ prng' = "done"
         /\ UNCHANGED <<core, inside, cipher, ltcInit, leaked, call, session>>
    ELSE /\ Goto(t, "deactivate", next[t])
         /\ ltcRefCount' = ltcRefCount - 1
         /\ UNCHANGED prng
         /\ Deactivated(t)

\* Ended by fortuna_done(), but not wiped.
MutWiped == prng

Wiped == "zero"

Wipe(t) ==
    /\ Goto(t, "wipe", next[t])
    /\ prng' = Wiped
    /\ UNCHANGED ltcRefCount
    /\ Deactivated(t)

-----------------------------------------------------------------------------
\* The steps that take a mutex.
Enters(t) ==
    \/ EnterMain(t) \/ EnterInit(t) \/ EnterMainAgain(t) \/ EnterMaster(t)
    \/ EnterActivate(t) \/ EnterRandToActivate(t) \/ EnterRandToAdd(t)
    \/ EnterRandToRead(t) \/ EnterDeactivate(t)

\* The steps of a call under way that wait for nobody.
Continues(t) ==
    \/ AllocMutex(t) \/ AllocMutexFails(t) \/ LoadMutex(t) \/ Body(t)
    \/ Register(t) \/ Finish(t) \/ LeaveInit(t) \/ Unref(t)
    \/ ExtraInit(t) \/ ExtraInitFails(t) \/ ShieldFails(t)
    \/ Activate(t) \/ AddToActivate(t) \/ LeaveActivate(t) \/ SetupFails(t)
    \/ Read(t) \/ Add(t) \/ Deactivate(t) \/ Wipe(t)

\* Calls an application may make or not.
Calls(t) ==
    \/ Initialize(t) \/ KeyUninitialised(t) \/ Key(t) \/ KeyAgain(t)
    \/ Random(t) \/ AddRandom(t) \/ Close(t) \/ ClosePlain(t)

Next == Shutdown \/ \E t \in Thread : Enters(t) \/ Continues(t) \/ Calls(t)

Spec == Init /\ [][Next]_vars

\* A thread inside a call goes on, and one that waits for a mutex gets it if
\* the mutex is free again and again.
FairSpec ==
    /\ Spec
    /\ \A t \in Thread : WF_vars(Continues(t)) /\ SF_vars(Enters(t))

-----------------------------------------------------------------------------
(* Properties.                                                             *)

Place == {"idle", "enterMain", "allocMutex", "loadMutex", "enterInit", "body",
          "register", "finish", "leaveInit", "enterMainAgain", "unref",
          "enterMaster", "extraInit", "enterActivate", "activate",
          "enterRandToActivate", "addToActivate", "leaveActivate",
          "enterRandToAdd", "add", "enterRandToRead", "read",
          "enterDeactivate", "deactivate", "wipe"}

\* Every variable keeps its type: the counters never go below zero or above
\* what the threads account for, a mutex is entered at most twice by one thread
\* and never by two, and no call returns to the application inside one.
TypeOK ==
    /\ {isInit, inProgress, initMutex, sqlcipherInit, ltcInit} \subseteq BOOLEAN
    /\ nRefInitMutex \in 0..(2 * Cardinality(Thread))
    /\ initError \in {"ERROR", "NOMEM", "OK"}
    /\ ltcRefCount \in 0..(Cardinality(Thread) + MaxLeaks)
    /\ prng \in {"zero", "started", "ready", "done"}
    /\ leaked \in 0..MaxLeaks
    /\ uses \in [Thread -> {"none", "live", "freed"}]
    /\ nested \in [Thread -> BOOLEAN]
    /\ runExtraInit \in [Thread -> BOOLEAN]
    /\ rc \in [Thread -> {"none", "OK", "NOMEM"}]
    /\ next \in [Thread -> {"idle", "enterActivate"}]
    /\ conn \in [Thread -> {"none", "keyed", "used", "plain"}]
    /\ pc \in [Thread -> Place]
    /\ \A m \in Mutex :
          /\ inside[m] \in [Thread -> 0..2]
          /\ \A t, u \in Thread : t # u => inside[m][t] = 0 \/ inside[m][u] = 0
          /\ \A t \in Thread : pc[t] = "idle" => inside[m][t] = 0

\* The count nRefInitMutex keeps the temporary mutex alive: nobody enters,
\* holds or leaves a pInitMutex that another thread has freed.
InitMutexLives == \A t \in Thread : uses[t] # "freed"

\* Between its first and its last line the initialisation runs once, in one
\* thread, and not again inside its own recursive call.
Initialising(t) == pc[t] \in {"register", "finish"} \/ nested[t]

OneInitialiser ==
    /\ \A t, u \in Thread : Initialising(t) /\ Initialising(u) => t = u
    /\ \A t \in Thread : nested[t] => pc[t] # "register"
    /\ \A t \in Thread : Initialising(t) => inProgress /\ ~isInit

\* Random bytes are read only from a generator that has been started or
\* restarted with entropy and not been ended since, and the wiping by the
\* last codec meets no other use of it: sqlcipher_ltc_deactivate() relies on
\* its count alone, not on the mutex of sqlcipher_ltc_random().
RandomIsSeeded ==
    /\ \A t \in Thread : pc[t] = "read" => prng = "ready"
    /\ \A t, u \in Thread :
          pc[t] = "wipe" => inside["rand"][u] = 0

\* The state of the generator does not outlive its last user: once no codec
\* refers to it, no call is under way and none was lost, it has been wiped.
WipedWhenUnused ==
    (\A t \in Thread : pc[t] = "idle" /\ ~HasCodec(t)) /\ leaked = 0
        => prng = "zero"

\* No call of any thread blocks for ever: the mutexes are taken in one order,
\* main before the temporary mutex has been left, activation before random,
\* and the recursive call enters what its own thread holds.
EveryCallReturns == \A t \in Thread : pc[t] # "idle" ~> pc[t] = "idle"

\* "If subsequent threads call this routine before the first thread has
\* finished the initialization process, then the subsequent threads must
\* block until the first thread finishes": who was told SQLITE_OK finds
\* SQLCipher initialised.
InitializedMeansReady == \A t \in Thread : Opened(t) => sqlcipherInit
=============================================================================
