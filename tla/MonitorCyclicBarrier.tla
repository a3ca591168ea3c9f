------------------------ MODULE MonitorCyclicBarrier ------------------------
(* MonitorCyclicBarrier.java of project2, used as testMonitorBarrier.java     *)
(* does: one barrier for all threads, each of which calls await() in every    *)
(* round. await() is synchronized: a step is what a thread does from taking   *)
(* the monitor to wait() or to the end of the method.                         *)
EXTENDS Integers, FiniteSets

CONSTANTS Thread,       \* the threads that share the barrier
          ROUND         \* how often each of them calls await()

ASSUME ThreadAssumption == IsFiniteSet(Thread) /\ Thread # {}
ASSUME RoundAssumption == ROUND \in Nat

VARIABLES currentBarrierVacancies, resets,
          pc,           \* "out" of await(), "waiting" in wait(), or "notified"
          snapShotOfResetsAmount,
          round         \* the rounds that each thread has left

vars == <<currentBarrierVacancies, resets, pc, snapShotOfResetsAmount, round>>

barrierSize == Cardinality(Thread)

Init ==
    /\ currentBarrierVacancies = barrierSize
    /\ resets = 0
    /\ pc = [t \in Thread |-> "out"]
    /\ snapShotOfResetsAmount = [t \in Thread |-> 0]
    /\ round = [t \in Thread |-> 0]

-----------------------------------------------------------------------------
\* Mutant: the test of the capacity comes before the decrement.
FillsBeforeDecrement == currentBarrierVacancies = 0

\* maxCapacityReached() after the decrement in await().
FillsBarrier == currentBarrierVacancies - 1 = 0

\* Mutant: the last thread does not count the reset.
AwaitUncounted(t) ==
    /\ pc[t] = "out" /\ round[t] < ROUND
    /\ FillsBarrier
    /\ currentBarrierVacancies' = barrierSize
    /\ pc' = [u \in Thread |-> IF pc[u] = "waiting" THEN "notified" ELSE pc[u]]
    /\ round' = [round EXCEPT ![t] = @ + 1]
    /\ UNCHANGED <<resets, snapShotOfResetsAmount>>

\* The last thread of a round resets the barrier, notifies all and returns.
AwaitLast(t) ==
    /\ pc[t] = "out" /\ round[t] < ROUND
    /\ FillsBarrier
    /\ currentBarrierVacancies' = barrierSize
    /\ resets' = resets + 1
    /\ pc' = [u \in Thread |-> IF pc[u] = "waiting" THEN "notified" ELSE pc[u]]
    /\ round' = [round EXCEPT ![t] = @ + 1]
    /\ UNCHANGED snapShotOfResetsAmount

\* The others wait until the number of resets changes.
AwaitOthers(t) ==
    /\ pc[t] = "out" /\ round[t] < ROUND
    /\ ~FillsBarrier
    /\ currentBarrierVacancies' = currentBarrierVacancies - 1
    /\ snapShotOfResetsAmount' = [snapShotOfResetsAmount EXCEPT ![t] = resets]
    /\ pc' = [pc EXCEPT ![t] = "waiting"]
    /\ UNCHANGED <<resets, round>>

\* Mutant: the condition of wait() is not tested again.
RecheckOnce(t) ==
    /\ pc[t] = "notified"
    /\ pc' = [pc EXCEPT ![t] = "out"]
    /\ round' = [round EXCEPT ![t] = @ + 1]
    /\ UNCHANGED <<currentBarrierVacancies, resets, snapShotOfResetsAmount>>

\* A notified thread has the monitor again and tests its condition.
Recheck(t) ==
    /\ pc[t] = "notified"
    /\ IF snapShotOfResetsAmount[t] = resets
       THEN /\ pc' = [pc EXCEPT ![t] = "waiting"]
            /\ UNCHANGED round
       ELSE /\ pc' = [pc EXCEPT ![t] = "out"]
            /\ round' = [round EXCEPT ![t] = @ + 1]
    /\ UNCHANGED <<currentBarrierVacancies, resets, snapShotOfResetsAmount>>

\* wait() ends without a notification: spuriously, or by an interrupt, whose
\* exception is caught in putThreadToSleep().
WakeUnnotified(t) ==
    /\ pc[t] = "waiting"
    /\ pc' = [pc EXCEPT ![t] = "notified"]
    /\ UNCHANGED <<currentBarrierVacancies, resets, snapShotOfResetsAmount, round>>

Await(t) == AwaitLast(t) \/ AwaitOthers(t)

Next == \E t \in Thread : Await(t) \/ Recheck(t) \/ WakeUnnotified(t)

Spec == Init /\ [][Next]_vars

\* Each thread of the test goes on until it has done its rounds, and a notified
\* one gets the monitor at some time.
FairSpec == Spec /\ \A t \in Thread : WF_vars(Await(t)) /\ WF_vars(Recheck(t))

-----------------------------------------------------------------------------
\* Every variable has its type, and a vacancy is left for who comes last.
TypeOK ==
    /\ currentBarrierVacancies \in 1 .. barrierSize
    /\ resets \in 0 .. ROUND
    /\ pc \in [Thread -> {"out", "waiting", "notified"}]
    /\ snapShotOfResetsAmount \in [Thread -> 0 .. ROUND]
    /\ round \in [Thread -> 0 .. ROUND]

\* The rounds are those of a barrier: nobody leaves round r, by a notification,
\* a spurious one or the notification of another round, before all entered it.
Rounds ==
    INSTANCE RoundBarrier WITH
        entered <- [t \in Thread |-> IF pc[t] = "out" THEN round[t] ELSE round[t] + 1],
        left <- round

SeparatesRounds == Rounds!Spec

\* The counter of a barrier in use agrees with the threads in it: those that
\* wait for the current reset have each taken one vacancy.
VacanciesAgree ==
    currentBarrierVacancies =
        barrierSize - Cardinality({t \in Thread : pc[t] # "out" /\ snapShotOfResetsAmount[t] = resets})

\* Every thread leaves every round, though the first to leave may be in the
\* next round before the last of its round has the monitor again.
AllRoundsLeft == <>[](\A t \in Thread : pc[t] = "out" /\ round[t] = ROUND)
=============================================================================
