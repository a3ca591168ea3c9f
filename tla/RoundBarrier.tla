---------------------------- MODULE RoundBarrier ----------------------------
(* What a reusable barrier promises: nobody leaves a round that somebody has  *)
(* not entered yet.                                                           *)
EXTENDS Naturals

CONSTANT Thread

VARIABLES entered,      \* the number of rounds each thread has entered
          left          \* the number of rounds each thread has left

vars == <<entered, left>>

Init ==
    /\ entered = [t \in Thread |-> 0]
    /\ left = [t \in Thread |-> 0]

Enter(t) ==
    /\ entered[t] = left[t]
    /\ entered' = [entered EXCEPT ![t] = @ + 1]
    /\ UNCHANGED left

Leave(t) ==
    /\ left[t] < entered[t]
    /\ \A u \in Thread : entered[t] <= entered[u]
    /\ left' = [left EXCEPT ![t] = @ + 1]
    /\ UNCHANGED entered

\* The last thread that enters a round need not wait in it.
EnterAndLeave(t) ==
    /\ entered[t] = left[t]
    /\ \A u \in Thread \ {t} : entered[t] < entered[u]
    /\ entered' = [entered EXCEPT ![t] = @ + 1]
    /\ left' = [left EXCEPT ![t] = @ + 1]

Next == \E t \in Thread : Enter(t) \/ Leave(t) \/ EnterAndLeave(t)

Spec == Init /\ [][Next]_vars
=============================================================================
