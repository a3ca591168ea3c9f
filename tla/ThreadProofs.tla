---------------------------- MODULE ThreadProofs ----------------------------
(* Proofs about two classes of project2 whose threads look at shared counters *)
(* before they hold a lock. CyclicBarrier: for every finite number of threads *)
(* and every bound of interrupts. A second round may begin before the first   *)
(* one has ended and undo its vacancies, so that the proofs are about the     *)
(* first round, when it is the only one or nobody is interrupted              *)
(* (OneRoundOrQuiet). Garden: for every number of holes and of wake-ups.      *)
EXTENDS CyclicBarrier, Garden, FiniteSetTheorems, TLAPS

-----------------------------------------------------------------------------
(* CyclicBarrier *)

\* The threads that are not counted in their first round yet.
NotYet == {t \in Thread : round[t] = 0 /\ ~Counted(t)}

\* The threads that have left the barrier, or are about to.
Early == {t \in Thread : round[t] > 0 \/ pc[t] = "test"}

\* As long as there is a thread that is not counted, the vacancies are at least
\* as many as such threads, so that nobody finds the barrier filled.
FirstRound ==
    /\ Cardinality(NotYet) <= currentBarrierVacancies
    /\ isBarrierFull = 0 /\ criticalSection <= 1
    /\ Cardinality(Early) <= interrupts
    /\ \A t \in Thread :
          /\ pc[t] \notin {"reset", "trip"}
          /\ pc[t] # "out" => round[t] = 0
          /\ pc[t] = "decrement" => /\ criticalSection = 0 /\ read[t] = currentBarrierVacancies
                                    /\ \A u \in Thread : pc[u] = "decrement" => u = t

\* The types that hold in every round.
Shapes ==
    /\ currentBarrierVacancies \in Int
    /\ criticalSection \in Int
    /\ isBarrierFull \in Int
    /\ pc \in [Thread -> {"out", "decrement", "check", "acquire", "test", "reset", "trip"}]
    /\ read \in [Thread -> Int]
    /\ round \in [Thread -> Nat]
    /\ interrupts \in 0 .. MaxInterrupts

\* The inductive invariant: what holds as long as the first round lasts.
IInv == Shapes /\ (NotYet # {} => FirstRound)

-----------------------------------------------------------------------------
\* The sets of threads can be counted.
LEMMA ThreadsFinite ==
    /\ barrierSize \in Nat \ {0}
    /\ \A S : S \subseteq Thread => IsFiniteSet(S) /\ Cardinality(S) \in Nat /\ Cardinality(S) <= barrierSize
BY ThreadAssumption, FS_CardinalityType, FS_EmptySet, FS_Subset DEF barrierSize

\* So can those of the invariant.
LEMMA SetsOfThreads ==
    /\ IsFiniteSet(NotYet) /\ Cardinality(NotYet) \in Nat
    /\ IsFiniteSet(Early) /\ Cardinality(Early) \in Nat
    /\ NotYet # {} => Cardinality(NotYet) >= 1
<1>1. NotYet \subseteq Thread /\ Early \subseteq Thread
  BY DEF NotYet, Early
<1> QED  BY <1>1, ThreadsFinite, FS_EmptySet

\* At first nobody is counted, and everything is vacant.
LEMMA InitIInv == Init => IInv
<1> SUFFICES ASSUME Init PROVE IInv
  OBVIOUS
<1>1. Shapes
  BY ThreadsFinite, BoundsAssumption DEF Init, Shapes
<1>2. Early = {}
  BY DEF Init, Early
<1>3. NotYet \subseteq Thread
  BY DEF NotYet
<1>4. Cardinality(NotYet) <= currentBarrierVacancies
  BY <1>3, ThreadsFinite DEF Init
<1> QED  BY <1>1, <1>2, <1>4, FS_EmptySet DEF Init, IInv, FirstRound

\* Every step keeps the types.
LEMMA ShapesStep == Shapes /\ [Next]_vars => Shapes'
<1> SUFFICES ASSUME Shapes, [Next]_vars PROVE Shapes'
  OBVIOUS
<1> USE ThreadsFinite, BoundsAssumption DEF Shapes
<1>1. CASE UNCHANGED vars
  BY <1>1 DEF vars
<1>2. ASSUME NEW t \in Thread, EnterCriticalSection(t) \/ Decrement(t) PROVE Shapes'
  BY <1>2 DEF EnterCriticalSection, Decrement, Go
<1>3. ASSUME NEW t \in Thread, CheckFilled(t) \/ AcquirePermit(t) PROVE Shapes'
  BY <1>3 DEF CheckFilled, AcquirePermit, Go
<1>4. ASSUME NEW t \in Thread, TestFilled(t) \/ TripBarrier(t) PROVE Shapes'
  BY <1>4 DEF TestFilled, TripBarrier, Return, Go
<1>5. ASSUME NEW t \in Thread, ResetCurrentCapacity(t) PROVE Shapes'
  BY <1>5 DEF ResetCurrentCapacity, Go
<1>6. ASSUME NEW t \in Thread, InterruptArrival(t) \/ InterruptAcquire(t) PROVE Shapes'
  BY <1>6 DEF InterruptArrival, InterruptAcquire, Go
<1> QED  BY <1>1, <1>2, <1>3, <1>4, <1>5, <1>6 DEF Next, Await

\* Whoever is counted, or has left, is never again a thread that is not.
LEMMA NotYetShrinks == Shapes /\ [Next]_vars => NotYet' \subseteq NotYet
<1> SUFFICES ASSUME Shapes, [Next]_vars PROVE NotYet' \subseteq NotYet
  OBVIOUS
<1> USE DEF Shapes, NotYet, Counted
<1>1. CASE UNCHANGED vars
  BY <1>1 DEF vars
<1>2. ASSUME NEW t \in Thread, EnterCriticalSection(t) \/ Decrement(t) PROVE NotYet' \subseteq NotYet
  BY <1>2 DEF EnterCriticalSection, Decrement, Go
<1>3. ASSUME NEW t \in Thread, CheckFilled(t) \/ AcquirePermit(t) PROVE NotYet' \subseteq NotYet
  BY <1>3 DEF CheckFilled, AcquirePermit, Go
<1>4. ASSUME NEW t \in Thread, TestFilled(t) \/ TripBarrier(t) PROVE NotYet' \subseteq NotYet
  BY <1>4 DEF TestFilled, TripBarrier, Return, Go
<1>5. ASSUME NEW t \in Thread, ResetCurrentCapacity(t) PROVE NotYet' \subseteq NotYet
  BY <1>5 DEF ResetCurrentCapacity, Go
<1>6. ASSUME NEW t \in Thread, InterruptArrival(t) \/ InterruptAcquire(t) PROVE NotYet' \subseteq NotYet
  BY <1>6 DEF InterruptArrival, InterruptAcquire, Go
<1> QED  BY <1>1, <1>2, <1>3, <1>4, <1>5, <1>6 DEF Next, Await

\* Every thread does one round, or none is interrupted.
OneRoundOrQuiet == ROUND = 1 \/ MaxInterrupts = 0

\* A thread that may enter is in its first round, while the first round lasts.
LEMMA InFirstRound ==
    ASSUME IInv, OneRoundOrQuiet, NotYet # {}, NEW t \in Thread, pc[t] # "out" \/ round[t] < ROUND
    PROVE  round[t] = 0
<1>1. CASE pc[t] # "out"
  BY <1>1 DEF IInv, FirstRound
<1>2. CASE ROUND = 1
  BY <1>1, <1>2 DEF IInv, Shapes
<1>3. CASE MaxInterrupts = 0
  <2>1. Cardinality(Early) = 0
    BY <1>3, SetsOfThreads DEF IInv, FirstRound, Shapes
  <2>2. Early = {}
    BY <2>1, SetsOfThreads, FS_EmptySet
  <2> QED  BY <2>2 DEF Early, IInv, Shapes
<1> QED  BY <1>2, <1>3 DEF OneRoundOrQuiet

\* While a thread is not counted, a step moves threads one by one: a decrement takes
\* one out of NotYet, an interrupt puts at most one into Early.
LEMMA StepIInv ==
    ASSUME IInv, OneRoundOrQuiet, [Next]_vars
    PROVE  IInv'
<1>1. Shapes'
  BY ShapesStep DEF IInv
<1> SUFFICES ASSUME NotYet' # {} PROVE FirstRound'
  BY <1>1 DEF IInv
<1>2. NotYet' \subseteq NotYet /\ NotYet # {}
  BY NotYetShrinks DEF IInv
<1>3. FirstRound /\ Shapes
  BY <1>2 DEF IInv
<1>4. Cardinality(NotYet') <= Cardinality(NotYet) /\ Cardinality(NotYet) \in Nat \ {0}
      /\ Cardinality(NotYet') \in Nat /\ Cardinality(Early) \in Nat
  BY <1>2, SetsOfThreads, FS_Subset, FS_CardinalityType
<1>5. ~isBarrierFilled
  BY <1>3, <1>4, ThreadsFinite DEF isBarrierFilled, FirstRound, Shapes
<1> USE DEF FirstRound, Shapes
<1>6. CASE UNCHANGED vars
  <2>1. NotYet' = NotYet /\ Early' = Early
    BY <1>6 DEF vars, NotYet, Early, Counted
  <2> QED  BY <1>3, <1>6, <2>1 DEF vars
<1>7. ASSUME NEW t \in Thread, EnterCriticalSection(t) PROVE FirstRound'
  <2>1. round[t] = 0
    BY <1>2, <1>7, InFirstRound DEF EnterCriticalSection
  <2>2. /\ pc' = [pc EXCEPT ![t] = "decrement"] /\ pc[t] = "out" /\ criticalSection = 1 /\ criticalSection' = 0
        /\ read' = [read EXCEPT ![t] = currentBarrierVacancies]
        /\ UNCHANGED <<currentBarrierVacancies, isBarrierFull, round, interrupts>>
    BY <1>3, <1>7 DEF EnterCriticalSection, Go
  <2>3. Early' = Early
    BY <1>3, <2>2 DEF Early
  <2> QED  BY <1>3, <1>4, <2>1, <2>2, <2>3
<1>8. ASSUME NEW t \in Thread, Decrement(t) PROVE FirstRound'
  <2>1. /\ pc' = [pc EXCEPT ![t] = "check"] /\ pc[t] = "decrement" /\ criticalSection = 0 /\ criticalSection' = 1
        /\ currentBarrierVacancies' = currentBarrierVacancies - 1
        /\ UNCHANGED <<isBarrierFull, read, round, interrupts>>
    BY <1>3, <1>8 DEF Decrement, Go
  <2>2. Early' = Early
    BY <1>3, <2>1 DEF Early
  <2>3. t \in NotYet /\ NotYet' = NotYet \ {t}
    BY <1>3, <2>1 DEF NotYet, Counted
  <2>4. Cardinality(NotYet') = Cardinality(NotYet) - 1
    BY <2>3, SetsOfThreads, FS_RemoveElement
  <2>5. \A u \in Thread : pc[u] = "decrement" => u = t
    BY <1>3, <2>1
  <2> QED  BY <1>3, <1>4, <2>1, <2>2, <2>4, <2>5
<1>9. ASSUME NEW t \in Thread, CheckFilled(t) \/ AcquirePermit(t) PROVE FirstRound'
  <2>1. /\ pc[t] = "check" /\ pc' = [pc EXCEPT ![t] = "acquire"]
        /\ UNCHANGED <<currentBarrierVacancies, criticalSection, isBarrierFull, read, round, interrupts>>
    BY <1>3, <1>5, <1>9 DEF CheckFilled, AcquirePermit, Go
  <2>2. Early' = Early
    BY <1>3, <2>1 DEF Early
  <2> QED  BY <1>3, <1>4, <2>1, <2>2
<1>10. ASSUME NEW t \in Thread, TestFilled(t) PROVE FirstRound'
  <2>1. /\ pc[t] = "test" /\ pc' = [pc EXCEPT ![t] = "out"] /\ round' = [round EXCEPT ![t] = @ + 1]
        /\ UNCHANGED <<currentBarrierVacancies, criticalSection, isBarrierFull, read, interrupts>>
    BY <1>5, <1>10 DEF TestFilled, Return, Go
  <2>2. Early' = Early
    BY <1>3, <2>1 DEF Early
  <2> QED  BY <1>3, <1>4, <2>1, <2>2
<1>11. ASSUME NEW t \in Thread, ResetCurrentCapacity(t) \/ TripBarrier(t) PROVE FALSE
  BY <1>3, <1>11 DEF ResetCurrentCapacity, TripBarrier
<1>12. ASSUME NEW t \in Thread, InterruptArrival(t) \/ InterruptAcquire(t) PROVE FirstRound'
  <2>1. /\ interrupts' = interrupts + 1
        /\ UNCHANGED <<currentBarrierVacancies, criticalSection, isBarrierFull, read>>
        /\ \/ pc[t] = "out" /\ pc' = pc /\ round' = [round EXCEPT ![t] = @ + 1]
           \/ pc[t] = "acquire" /\ pc' = [pc EXCEPT ![t] = "test"] /\ round' = round
    BY <1>12 DEF InterruptArrival, InterruptAcquire, Go
  <2>2. Early' \subseteq Early \cup {t}
    BY <1>3, <2>1 DEF Early
  <2>3. IsFiniteSet(Early \cup {t}) /\ Cardinality(Early \cup {t}) \in Nat
        /\ Cardinality(Early \cup {t}) <= Cardinality(Early) + 1
    <3>1. CASE t \in Early
      <4>1. Early \cup {t} = Early
        BY <3>1
      <4>2. Cardinality(Early) <= Cardinality(Early) + 1
        BY <1>4
      <4> QED  BY <4>1, <4>2, SetsOfThreads, Zenon
    <3>2. CASE t \notin Early
      BY <3>2, SetsOfThreads, FS_AddElement
    <3> QED  BY <3>1, <3>2
  <2>4. Cardinality(Early') <= Cardinality(Early \cup {t}) /\ Cardinality(Early') \in Nat
    BY <2>2, <2>3, FS_Subset, FS_CardinalityType
  <2> QED  BY <1>3, <1>4, <2>1, <2>3, <2>4
<1> QED  BY <1>6, <1>7, <1>8, <1>9, <1>10, <1>11, <1>12 DEF Next, Await

-----------------------------------------------------------------------------
\* With no second round, and as long as one thread is not counted, the vacancies
\* stay in their range; when all are counted nobody decrements them any more.
OneRoundInv == TypeOK /\ IInv /\ \A t \in Thread : pc[t] # "out" => round[t] = 0

\* At first everything is vacant.
LEMMA InitOneRound == Init => OneRoundInv
BY InitIInv, ThreadsFinite, BoundsAssumption DEF Init, OneRoundInv, TypeOK

\* Only the decrement could leave the range.
LEMMA StepOneRound ==
    ASSUME ROUND = 1, OneRoundInv, [Next]_vars
    PROVE  OneRoundInv'
<1>1. IInv'
  BY StepIInv DEF OneRoundInv, OneRoundOrQuiet
<1> USE ThreadsFinite, BoundsAssumption DEF OneRoundInv, TypeOK
<1>2. CASE UNCHANGED vars
  BY <1>1, <1>2 DEF vars
<1>3. ASSUME NEW t \in Thread, EnterCriticalSection(t) PROVE OneRoundInv'
  BY <1>1, <1>3 DEF EnterCriticalSection, Go
<1>4. ASSUME NEW t \in Thread, Decrement(t) PROVE OneRoundInv'
  <2>1. t \in NotYet
    BY <1>4 DEF Decrement, NotYet, Counted
  <2>2. /\ criticalSection = 0 /\ read[t] = currentBarrierVacancies
        /\ Cardinality(NotYet) <= currentBarrierVacancies /\ Cardinality(NotYet) >= 1
        /\ Cardinality(NotYet) \in Nat
    BY <1>4, <2>1, SetsOfThreads DEF IInv, FirstRound, Decrement
  <2>3. read[t] - 1 \in 0 .. barrierSize
    BY <2>2
  <2> QED  BY <1>1, <1>4, <2>2, <2>3 DEF Decrement, Go
<1>5. ASSUME NEW t \in Thread, CheckFilled(t) \/ AcquirePermit(t) PROVE OneRoundInv'
  BY <1>1, <1>5 DEF CheckFilled, AcquirePermit, Go
<1>6. ASSUME NEW t \in Thread, TestFilled(t) \/ TripBarrier(t) PROVE OneRoundInv'
  BY <1>1, <1>6 DEF TestFilled, TripBarrier, Return, Go
<1>7. ASSUME NEW t \in Thread, ResetCurrentCapacity(t) PROVE OneRoundInv'
  BY <1>1, <1>7 DEF ResetCurrentCapacity, Go
<1>8. ASSUME NEW t \in Thread, InterruptArrival(t) \/ InterruptAcquire(t) PROVE OneRoundInv'
  BY <1>1, <1>8 DEF InterruptArrival, InterruptAcquire, Go
<1> QED  BY <1>2, <1>3, <1>4, <1>5, <1>6, <1>7, <1>8 DEF Next, Await

-----------------------------------------------------------------------------
\* When every thread calls await() once, the vacancies stay between 0 and the size
\* of the barrier, and the semaphores keep their permits (CyclicBarrier.java:23-63).
THEOREM FirstRoundTypes ==
    ASSUME ROUND = 1
    PROVE  Spec => []TypeOK
<1>1. OneRoundInv /\ [Next]_vars => OneRoundInv'
  BY StepOneRound
<1>2. OneRoundInv => TypeOK
  BY DEF OneRoundInv
<1> QED  BY <1>1, <1>2, InitOneRound, PTL DEF Spec

\* Nobody leaves the barrier before all threads have reached it, but for those that
\* were interrupted, when there is one round or nobody is interrupted, as in
\* testBarrier.java (CyclicBarrier.java:23-63).
THEOREM FirstRoundNotEarly ==
    ASSUME OneRoundOrQuiet
    PROVE  Spec => []EarlyOnlyByInterrupt
<1>1. IInv /\ [Next]_vars => IInv'
  BY StepIInv
<1>2. IInv => EarlyOnlyByInterrupt
  <2> SUFFICES ASSUME IInv, NEW t \in Thread, round[t] = 0, ~Counted(t)
               PROVE  Cardinality({u \in Thread : round[u] > 0}) <= interrupts
    BY DEF EarlyOnlyByInterrupt
  <2>1. t \in NotYet
    BY DEF NotYet
  <2>2. Cardinality(Early) <= interrupts
    BY <2>1 DEF IInv, FirstRound
  <2>3. {u \in Thread : round[u] > 0} \subseteq Early
    BY DEF Early
  <2>4. /\ Cardinality({u \in Thread : round[u] > 0}) <= Cardinality(Early)
        /\ Cardinality({u \in Thread : round[u] > 0}) \in Nat /\ Cardinality(Early) \in Nat
    BY <2>3, SetsOfThreads, FS_Subset, FS_CardinalityType
  <2> QED  BY <2>2, <2>4 DEF IInv, Shapes
<1> QED  BY <1>1, <1>2, InitIInv, PTL DEF Spec

-----------------------------------------------------------------------------
(* Garden *)

\* Every thread tests its own conditions, and Benjamin does not use the shovel.
Places ==
    /\ condition["Newton"] \in {"fourUnseeded", "eightUnfilled"}
    /\ condition["Benjamin"] = "oneUnseeded"
    /\ condition["Mary"] = "oneUnfilled"
    /\ doing["Newton"] \in {"shovel", "work"} => condition["Newton"] = "eightUnfilled"
    /\ doing["Benjamin"] \notin {"shovel", "unlock"}

\* The order of the holes, and what a condition that was passed, or a signal
\* that was received, still says when the thread goes on.
Counts ==
    wakeUps = 0 =>
        /\ holesFilled <= holesSeeded /\ holesSeeded <= holesDug
        /\ holesDug - holesSeeded <= 4 /\ holesDug - holesFilled <= 8
        /\ \/ condition["Newton"] = "eightUnfilled" /\ doing["Newton"] # "unlock"
           \/ condition["Newton"] = "fourUnseeded" /\ doing["Newton"] = "awake"
           => holesDug - holesSeeded < 4
        /\ \/ doing["Newton"] \in {"shovel", "work"}
           \/ condition["Newton"] = "eightUnfilled" /\ doing["Newton"] = "awake"
           => holesDug - holesFilled < 8
        /\ doing["Benjamin"] \in {"awake", "work"} => holesSeeded < holesDug
        /\ doing["Mary"] \in {"awake", "shovel", "work"} => holesFilled < holesSeeded

GardenInv == GardenTypeOK /\ Places /\ Counts

-----------------------------------------------------------------------------
LEMMA InitGardenInv == GardenInit => GardenInv /\ SignalledUnlessMissed
BY HolesAssumption DEF GardenInit, GardenInv, GardenTypeOK, Places, Counts, SignalledUnlessMissed, Gardener, Condition, First

\* After a test that lets w go on, or a signal, w is at its next step.
LEMMA GoOnMoves ==
    ASSUME GardenTypeOK, Places, NEW w \in Gardener, GoOn(w), doing[w] \in {"test", "awake"}
    PROVE  /\ doing' \in [Gardener -> {"test", "lock", "await", "awake", "shovel", "work", "unlock"}]
           /\ condition' \in [Gardener -> Condition]
           /\ Places'
           /\ \A v \in Gardener \ {w} : doing'[v] = doing[v] /\ condition'[v] = condition[v]
           /\ doing'[w] = After(condition[w])
           /\ condition'[w] = IF condition[w] = "fourUnseeded" THEN "eightUnfilled" ELSE condition[w]
<1> USE DEF GardenTypeOK, Places, Gardener, Condition
<1>1. /\ doing'[w] = After(condition[w])
      /\ condition'[w] = IF condition[w] = "fourUnseeded" THEN "eightUnfilled" ELSE condition[w]
      /\ \A v \in Gardener \ {w} : doing'[v] = doing[v] /\ condition'[v] = condition[v]
  BY DEF GoOn
<1>2. After(condition[w]) \in {"test", "shovel", "work"}
  BY DEF After
<1>3. /\ doing' \in [Gardener -> {"test", "lock", "await", "awake", "shovel", "work", "unlock"}]
      /\ condition' \in [Gardener -> Condition]
  BY <1>2 DEF GoOn
<1>4. Places'
  <2>1. CASE w = "Newton"
    BY <2>1, <1>1 DEF After
  <2>2. CASE w = "Benjamin"
    BY <2>2, <1>1 DEF After
  <2>3. CASE w = "Mary"
    BY <2>3, <1>1 DEF After
  <2> QED  BY <2>1, <2>2, <2>3
<1> QED  BY <1>1, <1>3, <1>4

LEMMA NextGardenInv ==
    ASSUME GardenInv, [GardenNext]_gardenVars
    PROVE  GardenInv'
<1> USE DEF GardenInv
<1>1. ASSUME NEW w \in Gardener, Test(w) PROVE GardenInv'
  <2>1. CASE MustWait(condition[w])
    <3>1. GardenTypeOK'
      BY <1>1, <2>1 DEF Test, GardenTypeOK, holes
    <3>2. Places'
      BY <1>1, <2>1 DEF Test, GardenTypeOK, Places, holes, Gardener
    <3>3. Counts'
      BY <1>1, <2>1 DEF Test, GardenTypeOK, Places, Counts, holes, Gardener
    <3> QED  BY <3>1, <3>2, <3>3
  <2>2. CASE ~MustWait(condition[w])
    <3>1. doing[w] = "test" /\ GoOn(w)
      BY <1>1, <2>2 DEF Test
    <3>2. GardenTypeOK'
      BY <1>1, <3>1, GoOnMoves DEF Test, GardenTypeOK, holes
    <3>3. Counts'
      BY <1>1, <2>2, <3>1, GoOnMoves DEF Test, GardenTypeOK, Places, Counts, holes, Gardener, After, MustWait
    <3> QED  BY <3>1, <3>2, <3>3, <1>1, GoOnMoves
  <2> QED  BY <2>1, <2>2
<1>2. ASSUME NEW w \in Gardener, AwaitSignal(w) PROVE GardenInv'
  <2>1. GardenTypeOK'
    BY <1>2 DEF AwaitSignal, GardenTypeOK, holes
  <2>2. Places' /\ Counts'
    BY <1>2 DEF AwaitSignal, GardenTypeOK, Places, Counts, holes, Gardener
  <2> QED  BY <2>1, <2>2
<1>3. ASSUME NEW w \in Gardener, Awake(w) PROVE GardenInv'
  <2>1. GardenTypeOK'
    BY <1>3, GoOnMoves DEF Awake, GardenTypeOK, holes
  <2>2. Counts'
    BY <1>3, GoOnMoves DEF Awake, GardenTypeOK, Places, Counts, holes, Gardener, After
  <2> QED  BY <2>1, <2>2, <1>3, GoOnMoves DEF Awake
<1>4. ASSUME NEW w \in Gardener, WakeUnsignalled(w) PROVE GardenInv'
  <2>1. GardenTypeOK'
    BY <1>4, HolesAssumption DEF WakeUnsignalled, GardenTypeOK, holes
  <2>2. Places'
    BY <1>4 DEF WakeUnsignalled, GardenTypeOK, Places, Gardener
  <2>3. Counts'
    BY <1>4 DEF WakeUnsignalled, GardenTypeOK, Counts
  <2> QED  BY <2>1, <2>2, <2>3
<1>5. ASSUME NEW w \in Gardener, LockShovel(w) PROVE GardenInv'
  <2>1. GardenTypeOK'
    BY <1>5 DEF LockShovel, GardenTypeOK, Places, holes, Gardener
  <2>2. Places' /\ Counts'
    BY <1>5 DEF LockShovel, GardenTypeOK, Places, Counts, holes, Gardener
  <2> QED  BY <2>1, <2>2
<1>6. ASSUME NEW w \in Gardener, UnlockShovel(w) PROVE GardenInv'
  <2>1. First[w] \in Condition /\ (w = "Newton" => First[w] = "fourUnseeded") /\ (w = "Mary" => First[w] = "oneUnfilled")
    BY DEF First, Condition, Gardener
  <2>2. GardenTypeOK'
    BY <1>6, <2>1 DEF UnlockShovel, GardenTypeOK, holes
  <2>3. Places' /\ Counts'
    BY <1>6, <2>1 DEF UnlockShovel, GardenTypeOK, Places, Counts, holes, Gardener
  <2> QED  BY <2>2, <2>3
<1>7. CASE DoneDigging
  <2>1. GardenTypeOK'
    BY <1>7 DEF DoneDigging, Signal, GardenTypeOK
  <2>2. Places' /\ Counts'
    BY <1>7 DEF DoneDigging, Signal, GardenTypeOK, Places, Counts, Gardener
  <2> QED  BY <2>1, <2>2
<1>8. CASE DoneSeeding
  <2>1. GardenTypeOK'
    BY <1>8 DEF DoneSeeding, Signal, GardenTypeOK
  <2>2. Places' /\ Counts'
    BY <1>8 DEF DoneSeeding, Signal, GardenTypeOK, Places, Counts, Gardener
  <2> QED  BY <2>1, <2>2
<1>9. CASE DoneFilling
  <2>1. GardenTypeOK'
    BY <1>9 DEF DoneFilling, Signal, GardenTypeOK
  <2>2. Places' /\ Counts'
    BY <1>9 DEF DoneFilling, Signal, GardenTypeOK, Places, Counts, Gardener
  <2> QED  BY <2>1, <2>2
<1>10. CASE UNCHANGED gardenVars
  BY <1>10 DEF gardenVars, GardenTypeOK, Places, Counts
<1> QED  BY <1>1, <1>2, <1>3, <1>4, <1>5, <1>6, <1>7, <1>8, <1>9, <1>10 DEF GardenNext, Step

\* A counter changes together with the signal to whoever waits for it.
LEMMA NextSignalled ==
    ASSUME GardenInv, SignalledUnlessMissed, [GardenNext]_gardenVars
    PROVE  SignalledUnlessMissed'
<1> USE DEF GardenInv, SignalledUnlessMissed
<1>1. ASSUME NEW w \in Gardener, Test(w) PROVE SignalledUnlessMissed'
  <2>1. CASE MustWait(condition[w])
    BY <1>1, <2>1 DEF Test, GardenTypeOK, MustWait, holes
  <2>2. CASE ~MustWait(condition[w])
    <3>1. doing[w] = "test" /\ GoOn(w)
      BY <1>1, <2>2 DEF Test
    <3>2. doing'[w] # "await"
      BY <3>1, GoOnMoves DEF After
    <3> QED  BY <1>1, <3>1, <3>2, GoOnMoves DEF Test, MustWait, holes
  <2> QED  BY <2>1, <2>2
<1>2. ASSUME NEW w \in Gardener, AwaitSignal(w) PROVE SignalledUnlessMissed'
  BY <1>2 DEF AwaitSignal, GardenTypeOK, MustWait, holes
<1>3. ASSUME NEW w \in Gardener, Awake(w) PROVE SignalledUnlessMissed'
  <2>1. doing[w] = "awake" /\ GoOn(w)
    BY <1>3 DEF Awake
  <2>2. doing'[w] # "await"
    BY <2>1, GoOnMoves DEF After
  <2> QED  BY <1>3, <2>1, <2>2, GoOnMoves DEF Awake, GardenTypeOK, MustWait, holes
<1>4. ASSUME NEW w \in Gardener, WakeUnsignalled(w) PROVE SignalledUnlessMissed'
  BY <1>4 DEF WakeUnsignalled, GardenTypeOK, MustWait, holes
<1>5. ASSUME NEW w \in Gardener, LockShovel(w) PROVE SignalledUnlessMissed'
  BY <1>5 DEF LockShovel, GardenTypeOK, MustWait, holes
<1>6. ASSUME NEW w \in Gardener, UnlockShovel(w) PROVE SignalledUnlessMissed'
  BY <1>6 DEF UnlockShovel, GardenTypeOK, MustWait, holes
<1>7. CASE DoneDigging
  BY <1>7 DEF DoneDigging, Signal, GardenTypeOK, Places, MustWait, Gardener
<1>8. CASE DoneSeeding
  BY <1>8 DEF DoneSeeding, Signal, GardenTypeOK, Places, MustWait, Gardener
<1>9. CASE DoneFilling
  BY <1>9 DEF DoneFilling, Signal, GardenTypeOK, Places, MustWait, Gardener
<1>10. CASE UNCHANGED gardenVars
  BY <1>10 DEF gardenVars, MustWait
<1> QED  BY <1>1, <1>2, <1>3, <1>4, <1>5, <1>6, <1>7, <1>8, <1>9, <1>10 DEF GardenNext, Step

THEOREM GardenInvariance == GardenSpec => [](GardenInv /\ SignalledUnlessMissed)
BY InitGardenInv, NextGardenInv, NextSignalled, PTL DEF GardenSpec

-----------------------------------------------------------------------------
\* Every variable has its type, for any number of holes.
THEOREM GardenTypes == GardenSpec => []GardenTypeOK
BY GardenInvariance, PTL DEF GardenInv

\* Whoever digs, seeds or fills may do so (the tests of Garden.java:29, 44, 76
\* and 106), as long as await() only ends by a signal.
THEOREM WorkInOrder == GardenSpec => []MayWork
<1>1. GardenInv => MayWork
  BY DEF GardenInv, Counts, MayWork, Places
<1> QED  BY <1>1, GardenInvariance, PTL

\* Nobody sleeps past a change of its condition that came after its test and
\* its await() (the signals of Garden.java:66, 96, 97 and 128).
THEOREM Signals == GardenSpec => []SignalledUnlessMissed
BY GardenInvariance, PTL
=============================================================================
