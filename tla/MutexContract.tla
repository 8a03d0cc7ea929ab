--------------------------- MODULE MutexContract ---------------------------
(***************************************************************************)
(* What sqlite3_mutex_enter(), sqlite3_mutex_try() and sqlite3_mutex_leave()*)
(* promise for a recursive mutex: "the mutex must be exited an equal       *)
(* number of times before another thread can enter".                       *)
(***************************************************************************)
EXTENDS Naturals

CONSTANT Thread

\* depth[t] is the number of times t has entered and not yet left.
VARIABLE depth

Init == depth = [t \in Thread |-> 0]

Enter(t) ==
    /\ \A u \in Thread \ {t} : depth[u] = 0
    /\ depth' = [depth EXCEPT ![t] = @ + 1]

Leave(t) ==
    /\ depth[t] > 0
    /\ depth' = [depth EXCEPT ![t] = @ - 1]

Next == \E t \in Thread : Enter(t) \/ Leave(t)

Spec == Init /\ [][Next]_depth
=============================================================================
