--------------------------- MODULE CyclicBarrier ---------------------------
(* CyclicBarrier.java of project2, used as testBarrier.java does: one barrier *)
(* for all threads, each of which calls await() in every round. Only the      *)
(* decrement of currentBarrierVacancies is in a critical section: a step is   *)
(* one read or write of it, or one call on the semaphore isBarrierFull.       *)
EXTENDS Integers, FiniteSets

CONSTANTS Thread,           \* the threads that share the barrier
          ROUND,            \* how often each of them calls await()
          MaxInterrupts     \* bound: how often a thread is interrupted

ASSUME ThreadAssumption == IsFiniteSet(Thread) /\ Thread # {}
ASSUME BoundsAssumption == ROUND \in Nat /\ MaxInterrupts \in Nat

VARIABLES currentBarrierVacancies,
          criticalSection,  \* the permits of the semaphores
          isBarrierFull,
          pc,               \* the next access of each thread: see TypeOK
          read,             \* the vacancies it has read and will decrement
          round,            \* the rounds it has left
          interrupts

vars == <<currentBarrierVacancies, criticalSection, isBarrierFull, pc, read, round, interrupts>>

barrierSize == Cardinality(Thread)

Init ==
    /\ currentBarrierVacancies = barrierSize
    /\ criticalSection = 1
    /\ isBarrierFull = 0
    /\ pc = [t \in Thread |-> "out"]
    /\ read = [t \in Thread |-> 0]
    /\ round = [t \in Thread |-> 0]
    /\ interrupts = 0

-----------------------------------------------------------------------------
\* Mutant: the barrier counts as filled when one thread is missing.
isBarrierFilledEarly == barrierSize - currentBarrierVacancies >= barrierSize - 1

isBarrierFilled == barrierSize - currentBarrierVacancies = barrierSize

Go(t, place) == pc' = [pc EXCEPT ![t] = place]

Return(t) ==
    /\ Go(t, "out")
    /\ round' = [round EXCEPT ![t] = @ + 1]

\* Mutant: the decrement is not protected by the semaphore.
ReadUnprotected(t) ==
    /\ pc[t] = "out" /\ round[t] < ROUND
    /\ read' = [read EXCEPT ![t] = currentBarrierVacancies]
    /\ Go(t, "decrement")
    /\ UNCHANGED <<currentBarrierVacancies, criticalSection, isBarrierFull, round, interrupts>>

\* criticalSection.acquire(), and the read of currentBarrierVacancies--.
EnterCriticalSection(t) ==
    /\ pc[t] = "out" /\ round[t] < ROUND
    /\ criticalSection > 0
    /\ criticalSection' = criticalSection - 1
    /\ read' = [read EXCEPT ![t] = currentBarrierVacancies]
    /\ Go(t, "decrement")
    /\ UNCHANGED <<currentBarrierVacancies, isBarrierFull, round, interrupts>>

\* An interrupt of criticalSection.acquire() ends await() with the exception,
\* which the test catches before its next round.
InterruptArrival(t) ==
    /\ pc[t] = "out" /\ round[t] < ROUND
    /\ interrupts < MaxInterrupts
    /\ interrupts' = interrupts + 1
    /\ round' = [round EXCEPT ![t] = @ + 1]
    /\ UNCHANGED <<currentBarrierVacancies, criticalSection, isBarrierFull, pc, read>>

\* The write of currentBarrierVacancies--, and criticalSection.release().
Decrement(t) ==
    /\ pc[t] = "decrement"
    /\ currentBarrierVacancies' = read[t] - 1
    /\ criticalSection' = criticalSection + 1
    /\ Go(t, "check")
    /\ UNCHANGED <<isBarrierFull, read, round, interrupts>>

\* yieldUntilBarrierFull() reads the vacancies and, unless the barrier is
\* filled, goes to acquire a permit.
CheckFilled(t) ==
    /\ pc[t] = "check"
    /\ Go(t, IF isBarrierFilled THEN "test" ELSE "acquire")
    /\ UNCHANGED <<currentBarrierVacancies, criticalSection, isBarrierFull, read, round, interrupts>>

AcquirePermit(t) ==
    /\ pc[t] = "acquire"
    /\ isBarrierFull > 0
    /\ isBarrierFull' = isBarrierFull - 1
    /\ Go(t, "test")
    /\ UNCHANGED <<currentBarrierVacancies, criticalSection, read, round, interrupts>>

\* acquireSemaphore() catches the exception of an interrupt and returns.
InterruptAcquire(t) ==
    /\ pc[t] = "acquire"
    /\ interrupts < MaxInterrupts
    /\ interrupts' = interrupts + 1
    /\ Go(t, "test")
    /\ UNCHANGED <<currentBarrierVacancies, criticalSection, isBarrierFull, read, round>>

\* await() reads the vacancies again, to see whether to trip the barrier.
TestFilled(t) ==
    /\ pc[t] = "test"
    /\ IF isBarrierFilled
       THEN Go(t, "reset") /\ UNCHANGED round
       ELSE Return(t)
    /\ UNCHANGED <<currentBarrierVacancies, criticalSection, isBarrierFull, read, interrupts>>

ResetCurrentCapacity(t) ==
    /\ pc[t] = "reset"
    /\ currentBarrierVacancies' = barrierSize
    /\ Go(t, "trip")
    /\ UNCHANGED <<criticalSection, isBarrierFull, read, round, interrupts>>

\* Mutant: one thread is released.
TripOne(t) ==
    /\ pc[t] = "trip"
    /\ isBarrierFull' = isBarrierFull + 1
    /\ Return(t)
    /\ UNCHANGED <<currentBarrierVacancies, criticalSection, read, interrupts>>

TripBarrier(t) ==
    /\ pc[t] = "trip"
    /\ isBarrierFull' = isBarrierFull + (barrierSize - 1)
    /\ Return(t)
    /\ UNCHANGED <<currentBarrierVacancies, criticalSection, read, interrupts>>

Await(t) ==
    \/ EnterCriticalSection(t)
    \/ Decrement(t)
    \/ CheckFilled(t)
    \/ AcquirePermit(t)
    \/ TestFilled(t)
    \/ ResetCurrentCapacity(t)
    \/ TripBarrier(t)

Next == \E t \in Thread : Await(t) \/ InterruptArrival(t) \/ InterruptAcquire(t)

Spec == Init /\ [][Next]_vars

\* Each thread of the test goes on until it has done its rounds. Semaphores are
\* not fair, so that a thread waiting for a permit may be passed over as long as
\* others take them.
FairSpec == Spec /\ \A t \in Thread : WF_vars(Await(t))

-----------------------------------------------------------------------------
\* Has thread t been counted in its current round?
Counted(t) == pc[t] \in {"check", "acquire", "test", "reset", "trip"}

\* Every variable has its type. Checked for a single round only: the vacancies
\* leave their range in later ones.
TypeOK ==
    /\ currentBarrierVacancies \in 0 .. barrierSize
    /\ criticalSection \in 0 .. 1
    /\ isBarrierFull \in Nat
    /\ pc \in [Thread -> {"out", "decrement", "check", "acquire", "test", "reset", "trip"}]
    /\ read \in [Thread -> 0 .. barrierSize]
    /\ round \in [Thread -> 0 .. ROUND]
    /\ interrupts \in 0 .. MaxInterrupts

\* In the first round a thread leaves before all are counted only if it was
\* interrupted, and nobody with it, although several threads may find the barrier
\* filled and one may reset it before another tests it.
EarlyOnlyByInterrupt ==
    (\E t \in Thread : round[t] = 0 /\ ~Counted(t)) =>
        Cardinality({t \in Thread : round[t] > 0}) <= interrupts

\* Every thread of the test leaves every round (testBarrier.java:22-30), if none
\* is interrupted.
AllRoundsLeft ==
    [](interrupts = 0) => <>[](\A t \in Thread : pc[t] = "out" /\ round[t] = ROUND)
=============================================================================
