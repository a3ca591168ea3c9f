--------------------------- MODULE BarrierProofs ---------------------------
(* Proofs about the two barriers that implement RoundBarrier and keep to      *)
(* their own data: MonitorCyclicBarrier, for every finite number of threads   *)
(* and of rounds, and DisseminationBarrier, for every size of the             *)
(* communicator and every number of barriers.                                 *)
EXTENDS MonitorCyclicBarrier, DisseminationBarrier, FiniteSetTheorems, TLAPS

-----------------------------------------------------------------------------
(* MonitorCyclicBarrier *)

\* The threads that wait for the current round to be full.
Blocked == {t \in Thread : pc[t] # "out" /\ snapShotOfResetsAmount[t] = resets}

\* A thread outside has left as many rounds as there were resets; one inside
\* waits for the current round, or may leave the previous one.
RoundsInv ==
    \A t \in Thread :
        IF pc[t] = "out"
        THEN round[t] = resets
        ELSE /\ snapShotOfResetsAmount[t] = round[t]
             /\ round[t] = resets \/ round[t] + 1 = resets

IInv == TypeOK /\ VacanciesAgree /\ RoundsInv

\* The threads of a round can be counted.
LEMMA BlockedFinite ==
    /\ IsFiniteSet(Blocked) /\ Cardinality(Blocked) \in Nat
    /\ barrierSize \in Nat /\ barrierSize >= 1
<1>1. Blocked \subseteq Thread  BY DEF Blocked
<1>2. IsFiniteSet(Blocked) /\ Cardinality(Blocked) \in Nat
  BY <1>1, ThreadAssumption, FS_Subset, FS_CardinalityType
<1>3. barrierSize \in Nat /\ barrierSize # 0
  BY ThreadAssumption, FS_CardinalityType, FS_EmptySet DEF barrierSize
<1> QED  BY <1>2, <1>3

\* VacanciesAgree in terms of Blocked.
LEMMA VacanciesOfBlocked == VacanciesAgree <=> currentBarrierVacancies = barrierSize - Cardinality(Blocked)
BY DEF VacanciesAgree, Blocked

\* When one vacancy is left, everybody else waits for the current round.
LEMMA LastOne ==
    ASSUME IInv, NEW t \in Thread, pc[t] = "out", FillsBarrier
    PROVE  Blocked = Thread \ {t}
<1>1. Blocked \subseteq Thread \ {t}
  BY DEF Blocked
<1>2. IsFiniteSet(Thread \ {t}) /\ Cardinality(Thread \ {t}) = barrierSize - 1
  BY ThreadAssumption, FS_RemoveElement DEF barrierSize
<1>3. Cardinality(Blocked) = barrierSize - 1
  BY VacanciesOfBlocked, BlockedFinite DEF IInv, FillsBarrier, TypeOK
<1> QED  BY <1>1, <1>2, <1>3, FS_Subset

-----------------------------------------------------------------------------
LEMMA InitIInv == Init => IInv
<1> SUFFICES ASSUME Init PROVE IInv
  OBVIOUS
<1>1. Blocked = {}
  BY DEF Init, Blocked
<1>2. VacanciesAgree
  BY <1>1, VacanciesOfBlocked, BlockedFinite, FS_EmptySet DEF Init
<1>3. TypeOK
  BY BlockedFinite, RoundAssumption DEF Init, TypeOK
<1> QED  BY <1>2, <1>3 DEF Init, IInv, RoundsInv

\* The last thread of a round leaves it with everybody else on the way out.
LEMMA AwaitLastKeepsIInv ==
    ASSUME IInv, NEW t \in Thread, AwaitLast(t)
    PROVE  IInv'
<1> USE DEF IInv
<1>1. Blocked = Thread \ {t}
  BY LastOne DEF AwaitLast
<1>2. \A u \in Thread : IF u = t THEN round[u] = resets /\ pc'[u] = "out" /\ round'[u] = resets + 1
                        ELSE /\ pc'[u] # "out" /\ round'[u] = round[u]
                             /\ snapShotOfResetsAmount[u] = resets /\ round[u] = resets
  BY <1>1 DEF AwaitLast, TypeOK, RoundsInv, Blocked
<1>3. /\ resets \in Nat /\ resets' = resets + 1 /\ resets' \in 0 .. ROUND
      /\ snapShotOfResetsAmount' = snapShotOfResetsAmount
  BY <1>2, RoundAssumption DEF AwaitLast, TypeOK
<1>4. RoundsInv'
  BY <1>2, <1>3 DEF RoundsInv
<1>5. TypeOK'
  <2>1. pc' \in [Thread -> {"out", "waiting", "notified"}]
    BY DEF AwaitLast, TypeOK
  <2>2. round' \in [Thread -> 0 .. ROUND]
    BY <1>2, <1>3, RoundAssumption DEF AwaitLast, TypeOK
  <2> QED  BY <1>3, <2>1, <2>2, BlockedFinite DEF TypeOK, AwaitLast, barrierSize
<1>6. VacanciesAgree'
  <2>1. Blocked' = {}
    BY <1>2, <1>3 DEF Blocked
  <2>2. Cardinality(Blocked') = 0
    BY <2>1, FS_EmptySet
  <2>3. currentBarrierVacancies' = barrierSize - 0 /\ barrierSize' = barrierSize
    BY BlockedFinite DEF AwaitLast, barrierSize
  <2> QED  BY <2>2, <2>3 DEF VacanciesAgree, Blocked, barrierSize
<1> QED  BY <1>4, <1>5, <1>6

LEMMA AwaitOthersKeepsIInv ==
    ASSUME IInv, NEW t \in Thread, AwaitOthers(t)
    PROVE  IInv'
<1> USE DEF IInv
<1>1. /\ pc[t] = "out" /\ pc'[t] = "waiting" /\ round[t] = resets /\ snapShotOfResetsAmount'[t] = resets
      /\ \A u \in Thread \ {t} : /\ pc'[u] = pc[u]
                                 /\ snapShotOfResetsAmount'[u] = snapShotOfResetsAmount[u]
      /\ resets' = resets /\ round' = round
  BY DEF AwaitOthers, TypeOK, RoundsInv
<1>2. RoundsInv'
  BY <1>1 DEF RoundsInv
<1>3. Blocked' = Blocked \cup {t} /\ t \notin Blocked
  BY <1>1 DEF Blocked
<1>4. Cardinality(Blocked') = Cardinality(Blocked) + 1
  BY <1>3, BlockedFinite, FS_AddElement
<1>5. VacanciesAgree'
  BY <1>4, BlockedFinite DEF VacanciesAgree, Blocked, AwaitOthers, TypeOK, barrierSize
<1>6. TypeOK'
  <2>1. currentBarrierVacancies' \in 1 .. barrierSize
    BY BlockedFinite DEF AwaitOthers, FillsBarrier, TypeOK
  <2> QED  BY <2>1 DEF AwaitOthers, TypeOK, barrierSize
<1> QED  BY <1>2, <1>5, <1>6

LEMMA RecheckKeepsIInv ==
    ASSUME IInv, NEW t \in Thread, Recheck(t)
    PROVE  IInv'
<1> USE DEF IInv
<1>1. /\ pc[t] = "notified" /\ snapShotOfResetsAmount[t] = round[t]
      /\ UNCHANGED <<currentBarrierVacancies, resets, snapShotOfResetsAmount>>
  BY DEF Recheck, RoundsInv
<1>2. CASE snapShotOfResetsAmount[t] = resets
  <2>1. pc' = [pc EXCEPT ![t] = "waiting"] /\ round' = round
    BY <1>2 DEF Recheck
  <2>2. Blocked' = Blocked
    BY <1>1, <2>1 DEF Blocked, TypeOK
  <2> QED  BY <1>1, <2>1, <2>2 DEF TypeOK, RoundsInv, VacanciesAgree, Blocked, barrierSize
<1>3. CASE snapShotOfResetsAmount[t] # resets
  <2>1. pc' = [pc EXCEPT ![t] = "out"] /\ round' = [round EXCEPT ![t] = @ + 1]
    BY <1>3 DEF Recheck
  <2>2. Blocked' = Blocked
    BY <1>1, <1>3, <2>1 DEF Blocked, TypeOK
  <2>3. round[t] + 1 = resets
    BY <1>1, <1>3 DEF RoundsInv
  <2>4. RoundsInv'
    BY <1>1, <2>1, <2>3 DEF RoundsInv, TypeOK
  <2>5. TypeOK'
    BY <1>1, <2>1, <2>3, RoundAssumption DEF TypeOK, barrierSize
  <2> QED  BY <1>1, <2>2, <2>4, <2>5 DEF VacanciesAgree, Blocked, barrierSize
<1> QED  BY <1>2, <1>3

LEMMA WakeKeepsIInv ==
    ASSUME IInv, NEW t \in Thread, WakeUnnotified(t)
    PROVE  IInv'
<1> USE DEF IInv
<1>1. Blocked' = Blocked
  BY DEF Blocked, WakeUnnotified, TypeOK
<1> QED  BY <1>1 DEF WakeUnnotified, TypeOK, RoundsInv, VacanciesAgree, Blocked, barrierSize

LEMMA NextIInv == IInv /\ [Next]_vars => IInv'
<1> SUFFICES ASSUME IInv, [Next]_vars PROVE IInv'
  OBVIOUS
<1>1. CASE UNCHANGED vars
  BY <1>1 DEF vars, IInv, TypeOK, RoundsInv, VacanciesAgree, barrierSize
<1> QED
  BY <1>1, AwaitLastKeepsIInv, AwaitOthersKeepsIInv, RecheckKeepsIInv, WakeKeepsIInv
     DEF Next, Await

LEMMA Invariance == Spec => []IInv
<1> QED  BY InitIInv, NextIInv, PTL DEF Spec

-----------------------------------------------------------------------------
\* Types; in particular a vacancy is always left, so that decrementing it finds
\* the round full exactly when its last thread comes.
THEOREM TypeCorrectness == Spec => []TypeOK
<1>1. IInv => TypeOK  BY DEF IInv
<1> QED  BY <1>1, Invariance, PTL

\* The vacancies are those that the threads in the current round have not taken.
THEOREM Vacancies == Spec => []VacanciesAgree
<1>1. IInv => VacanciesAgree  BY DEF IInv
<1> QED  BY <1>1, Invariance, PTL

-----------------------------------------------------------------------------
(* The refinement. enteredRounds is what Rounds substitutes for the variable of    *)
(* RoundBarrier; left is round.                                              *)
enteredRounds == [t \in Thread |-> IF pc[t] = "out" THEN round[t] ELSE round[t] + 1]

LEMMA InitRefines == Init => Rounds!Init
BY DEF Init, Rounds!Init

\* All threads have enteredRounds the rounds that were completed.
LEMMA EnteredAll ==
    ASSUME IInv
    PROVE  \A u \in Thread : enteredRounds[u] \in Nat /\ enteredRounds[u] >= resets
BY RoundAssumption DEF IInv, RoundsInv, TypeOK, enteredRounds

LEMMA AwaitLastRefines ==
    ASSUME IInv, NEW t \in Thread, AwaitLast(t)
    PROVE  Rounds!EnterAndLeave(t)
<1> USE DEF IInv
<1>1. Blocked = Thread \ {t}
  BY LastOne DEF AwaitLast
<1>2. /\ pc[t] = "out" /\ round[t] = resets /\ pc'[t] = "out" /\ round' = [round EXCEPT ![t] = @ + 1]
      /\ \A u \in Thread \ {t} : /\ pc[u] # "out" /\ pc'[u] # "out"
                                 /\ round[u] = resets
  BY <1>1 DEF AwaitLast, TypeOK, RoundsInv, Blocked
<1>3. enteredRounds[t] = round[t] /\ \A u \in Thread \ {t} : enteredRounds[t] < enteredRounds[u]
  BY <1>2 DEF enteredRounds, TypeOK
<1>4. enteredRounds' = [enteredRounds EXCEPT ![t] = @ + 1]
  BY <1>2 DEF enteredRounds, TypeOK
<1> QED  BY <1>2, <1>3, <1>4 DEF Rounds!EnterAndLeave, enteredRounds

LEMMA AwaitOthersRefines ==
    ASSUME IInv, NEW t \in Thread, AwaitOthers(t)
    PROVE  Rounds!Enter(t)
<1>1. enteredRounds[t] = round[t] /\ enteredRounds' = [enteredRounds EXCEPT ![t] = @ + 1] /\ round' = round
  BY DEF IInv, AwaitOthers, TypeOK, enteredRounds
<1> QED  BY <1>1 DEF Rounds!Enter, enteredRounds

LEMMA RecheckRefines ==
    ASSUME IInv, NEW t \in Thread, Recheck(t)
    PROVE  Rounds!Leave(t) \/ UNCHANGED Rounds!vars
<1> USE DEF IInv
<1>1. CASE snapShotOfResetsAmount[t] = resets
  <2>1. pc[t] = "notified" /\ pc' = [pc EXCEPT ![t] = "waiting"] /\ round' = round
    BY <1>1 DEF Recheck
  <2>2. enteredRounds' = enteredRounds
    BY <2>1 DEF enteredRounds, TypeOK
  <2> QED  BY <2>1, <2>2 DEF Rounds!vars, enteredRounds
<1>2. CASE snapShotOfResetsAmount[t] # resets
  <2>1. pc[t] = "notified" /\ pc' = [pc EXCEPT ![t] = "out"] /\ round' = [round EXCEPT ![t] = @ + 1]
    BY <1>2 DEF Recheck
  <2>2. round[t] + 1 = resets /\ enteredRounds[t] = resets
    BY <1>2, <2>1 DEF RoundsInv, enteredRounds
  <2>3. enteredRounds' = enteredRounds
    BY <2>1 DEF enteredRounds, TypeOK
  <2>4. round[t] < enteredRounds[t] /\ \A u \in Thread : enteredRounds[t] <= enteredRounds[u]
    BY <2>2, EnteredAll DEF TypeOK
  <2> QED  BY <2>1, <2>3, <2>4 DEF Rounds!Leave, enteredRounds
<1> QED  BY <1>1, <1>2

LEMMA WakeRefines ==
    ASSUME IInv, NEW t \in Thread, WakeUnnotified(t)
    PROVE  UNCHANGED Rounds!vars
<1>1. enteredRounds' = enteredRounds /\ round' = round
  BY DEF IInv, WakeUnnotified, TypeOK, enteredRounds
<1> QED  BY <1>1 DEF Rounds!vars, enteredRounds

LEMMA StepRefines == IInv /\ [Next]_vars => [Rounds!Next]_(Rounds!vars)
<1> SUFFICES ASSUME IInv, [Next]_vars PROVE Rounds!Next \/ UNCHANGED Rounds!vars
  OBVIOUS
<1>1. CASE UNCHANGED vars
  BY <1>1 DEF vars, Rounds!vars
<1>2. ASSUME NEW t \in Thread, Await(t) \/ Recheck(t) \/ WakeUnnotified(t)
      PROVE  Rounds!Next \/ UNCHANGED Rounds!vars
  BY <1>2, AwaitLastRefines, AwaitOthersRefines, RecheckRefines, WakeRefines DEF Await, Rounds!Next
<1> QED  BY <1>1, <1>2 DEF Next

\* The monitor is a barrier: nobody leaves a round before all have enteredRounds it
\* (MonitorCyclicBarrier.java:18-37).
THEOREM MonitorImplementsBarrier == Spec => SeparatesRounds
<1> QED  BY InitRefines, StepRefines, Invariance, PTL DEF Spec, SeparatesRounds, Rounds!Spec

-----------------------------------------------------------------------------
(* DisseminationBarrier *)

SizeAssumption == N \in Nat \ {0}

\* How many ranks t is behind r.
Back(r, t) == IF t <= r THEN r - t ELSE r - t + N

\* The values mask takes: the smallest set with 1 that is closed under doubling.
Powers ==
    {m \in Nat : \A S \in SUBSET Nat :
        (1 \in S /\ \A x \in S : 2 * x \in S) => m \in S}

Inside(r) == left[r] < entered[r]

\* A rank is in at most one barrier, and has a mask only in it.
Shape ==
    \A r \in Peer :
        /\ left[r] = entered[r] \/ left[r] + 1 = entered[r]
        /\ Inside(r) => mask[r] \in Powers
        /\ sending[r] => Inside(r)

\* A rank in the step with distance mask knows of the mask ranks up to itself
\* that they have called the barrier.
Cover ==
    \A r, t \in Peer : Inside(r) /\ Back(r, t) < mask[r] => entered[r] <= entered[t]

\* The number of messages a rank has sent some distance ahead tells the
\* receiver how often each of as many ranks, up to the sender, has called.
SentBound ==
    \A s, d, t \in Peer :
        s # d /\ Back(s, t) < Back(d, s) => sent[s][d] <= entered[t]

\* What is still to be sent in this barrier has not been sent.
SentFew ==
    \A s, d \in Peer :
        /\ s # d /\ Inside(s)
        /\ Back(d, s) > mask[s] \/ (Back(d, s) = mask[s] /\ sending[s])
        => sent[s][d] < entered[s]

\* A rank has received a message of every earlier step of this barrier, and of
\* every step of the barriers before.
ReceivedMany ==
    \A r, s \in Peer :
        r # s /\ Back(r, s) \in Powers =>
            /\ entered[r] - 1 <= received[s][r]
            /\ ~(Inside(r) /\ mask[r] <= Back(r, s)) => entered[r] <= received[s][r]

DisseminationInv == DisseminationTypeOK /\ Shape /\ Cover /\ SentBound /\ SentFew /\ ReceivedMany

-----------------------------------------------------------------------------
LEMMA PowersClosed == 1 \in Powers /\ \A x \in Powers : x \in Nat /\ 2 * x \in Powers
<1>1. 1 \in Powers
  BY DEF Powers
<1>2. ASSUME NEW x \in Powers PROVE x \in Nat /\ 2 * x \in Powers
  <2>1. x \in Nat
    BY DEF Powers
  <2>2. ASSUME NEW S \in SUBSET Nat, 1 \in S, \A y \in S : 2 * y \in S
        PROVE  2 * x \in S
    <3>1. x \in S
      BY <2>2 DEF Powers
    <3> QED  BY <2>2, <3>1
  <2>3. 2 * x \in Nat
    BY <2>1
  <2> QED  BY <2>1, <2>2, <2>3 DEF Powers
<1> QED  BY <1>1, <1>2

\* A power of two is 1 or twice another.
LEMMA PowersHalf == \A x \in Powers : x = 1 \/ \E y \in Powers : x = 2 * y
<1> DEFINE S == {m \in Powers : m = 1 \/ \E y \in Powers : m = 2 * y}
<1>1. S \in SUBSET Nat
  BY DEF Powers
<1>2. 1 \in S
  BY PowersClosed
<1>3. \A x \in S : 2 * x \in S
  BY PowersClosed
<1> HIDE DEF S
<1>4. \A x \in Powers : x \in S
  BY <1>1, <1>2, <1>3 DEF Powers
<1> QED  BY <1>4 DEF S

LEMMA PowersPositive == \A x \in Powers : x \in Nat /\ x >= 1
<1> DEFINE S == {m \in Nat : m >= 1}
<1>1. S \in SUBSET Nat /\ 1 \in S /\ \A x \in S : 2 * x \in S
  OBVIOUS
<1> HIDE DEF S
<1>2. \A x \in Powers : x \in S
  BY <1>1 DEF Powers
<1> QED  BY <1>2 DEF S

\* No power of two lies between one and its double.
LEMMA PowersGap == \A p, q \in Powers : p < q => 2 * p <= q
<1> DEFINE S == {q \in Nat : q >= 1 /\ \A p \in Powers : p < q => 2 * p <= q}
<1>1. S \in SUBSET Nat
  OBVIOUS
<1>2. 1 \in S
  BY PowersPositive
<1>3. ASSUME NEW x \in S PROVE 2 * x \in S
  <2>1. x \in Nat /\ 2 * x \in Nat /\ 2 * x >= 1
    OBVIOUS
  <2>2. ASSUME NEW p \in Powers, p < 2 * x PROVE 2 * p <= 2 * x
    <3>1. CASE p = 1
      BY <2>1, <3>1
    <3>2. CASE \E y \in Powers : p = 2 * y
      <4>1. PICK y \in Powers : p = 2 * y
        BY <3>2
      <4>2. y < x
        BY <2>1, <2>2, <4>1, PowersPositive
      <4>3. 2 * y <= x
        BY <4>2
      <4> QED  BY <2>1, <4>1, <4>3, PowersPositive
    <3> QED  BY <3>1, <3>2, PowersHalf
  <2> QED  BY <2>1, <2>2
<1> HIDE DEF S
<1>4. \A q \in Powers : q \in S
  BY <1>1, <1>2, <1>3 DEF Powers
<1> QED  BY <1>4 DEF S

-----------------------------------------------------------------------------
\* The arithmetic of the ring.
LEMMA Modulo ==
    ASSUME NEW n \in Nat \ {0}, NEW x \in 0 .. n - 1
    PROVE  x % n = x /\ (x + n) % n = x
<1>1. x % n = x
  OBVIOUS
<1>2. (x + n) % n = x
  OBVIOUS
<1> QED  BY <1>1, <1>2

LEMMA Ring ==
    ASSUME SizeAssumption, NEW r \in Peer, NEW m \in 1 .. N - 1
    PROVE  /\ Ahead(r, m) \in Peer /\ Ahead(r, m) # r /\ Back(Ahead(r, m), r) = m
           /\ Behind(r, m) \in Peer /\ Behind(r, m) # r /\ Back(r, Behind(r, m)) = m
<1>1. Ahead(r, m) = IF r + m < N THEN r + m ELSE r + m - N
  <2>1. CASE r + m < N
    BY <2>1, Modulo DEF SizeAssumption, Peer, Ahead
  <2>2. CASE r + m >= N
    <3>1. r + m - N \in 0 .. N - 1 /\ (r + m - N) + N = r + m
      BY <2>2 DEF SizeAssumption, Peer
    <3>2. ((r + m - N) + N) % N = r + m - N
      BY <3>1, Modulo DEF SizeAssumption
    <3> QED  BY <2>2, <3>1, <3>2 DEF SizeAssumption, Peer, Ahead
  <2> QED  BY <2>1, <2>2 DEF SizeAssumption, Peer
<1>2. Behind(r, m) = IF m <= r THEN r - m ELSE r - m + N
  <2>1. CASE m <= r
    <3>1. r - m \in 0 .. N - 1
      BY <2>1 DEF SizeAssumption, Peer
    <3> QED  BY <2>1, <3>1, Modulo DEF SizeAssumption, Peer, Behind
  <2>2. CASE m > r
    <3>1. r - m + N \in 0 .. N - 1
      BY <2>2 DEF SizeAssumption, Peer
    <3> QED  BY <2>2, <3>1, Modulo DEF SizeAssumption, Peer, Behind
  <2> QED  BY <2>1, <2>2 DEF SizeAssumption, Peer
<1> QED  BY <1>1, <1>2 DEF SizeAssumption, Peer, Back

LEMMA BackType ==
    ASSUME SizeAssumption, NEW r \in Peer, NEW t \in Peer
    PROVE  /\ Back(r, t) \in 0 .. N - 1
           /\ Back(r, t) = 0 <=> r = t
BY DEF SizeAssumption, Peer, Back

\* Beyond the distance m the ranks behind r are those behind the one m behind r.
LEMMA BackSum ==
    ASSUME SizeAssumption, NEW r \in Peer, NEW s \in Peer, NEW t \in Peer,
           Back(r, s) <= Back(r, t)
    PROVE  Back(s, t) = Back(r, t) - Back(r, s)
BY DEF SizeAssumption, Peer, Back

-----------------------------------------------------------------------------
LEMMA InitDisseminationInv == SizeAssumption /\ DisseminationInit => DisseminationInv
<1> SUFFICES ASSUME SizeAssumption, DisseminationInit PROVE DisseminationInv
  OBVIOUS
<1>1. DisseminationTypeOK
  BY DEF DisseminationInit, DisseminationTypeOK, SizeAssumption
<1>2. Shape /\ Cover /\ SentFew
  BY DEF DisseminationInit, Shape, Cover, SentFew, Inside
<1>3. SentBound /\ ReceivedMany
  BY DEF DisseminationInit, SentBound, ReceivedMany, Inside
<1> QED  BY <1>1, <1>2, <1>3 DEF DisseminationInv

LEMMA EnterKeepsIInv ==
    ASSUME SizeAssumption, DisseminationInv, NEW r \in Peer, Enter(r)
    PROVE  DisseminationInv'
<1> USE DEF DisseminationInv
<1>1. DisseminationTypeOK'
  BY DEF Enter, DisseminationTypeOK, SizeAssumption
<1>2. /\ entered' = [entered EXCEPT ![r] = entered[r] + 1]
      /\ mask' = [mask EXCEPT ![r] = 1]
      /\ sending' = [sending EXCEPT ![r] = TRUE]
      /\ left' = left /\ sent' = sent /\ received' = received
      /\ left[r] = entered[r]
  BY DEF Enter
<1>3. \A t \in Peer : entered[t] \in Nat /\ left[t] \in Nat /\ mask[t] \in 0 .. N - 1
  BY DEF DisseminationTypeOK
<1>4. /\ \A t \in Peer : entered[t] <= entered'[t]
      /\ \A t \in Peer \ {r} : entered'[t] = entered[t] /\ mask'[t] = mask[t]
                               /\ sending'[t] = sending[t]
      /\ entered'[r] = entered[r] + 1 /\ mask'[r] = 1 /\ sending'[r] = TRUE
  BY <1>2, <1>3 DEF DisseminationTypeOK
<1>5. Shape'
  BY <1>2, <1>3, <1>4, PowersClosed DEF Shape, Inside
<1>6. Cover'
  <2> SUFFICES ASSUME NEW q \in Peer, NEW t \in Peer, Inside(q)', Back(q, t) < mask'[q]
               PROVE  entered'[q] <= entered'[t]
    BY DEF Cover, Back
  <2>1. CASE q = r
    <3>1. t = r
      BY <1>4, <2>1, BackType
    <3> QED  BY <2>1, <3>1, <1>3, <1>4
  <2>2. CASE q # r
    <3>1. Inside(q)
      BY <1>2, <1>4, <2>2 DEF Inside
    <3> QED  BY <1>3, <1>4, <2>2, <3>1, <1>1 DEF Cover, DisseminationTypeOK
  <2> QED  BY <2>1, <2>2
<1>7. SentBound'
  <2> SUFFICES ASSUME NEW s \in Peer, NEW d \in Peer, NEW t \in Peer,
                      s # d, Back(s, t) < Back(d, s)
               PROVE  sent'[s][d] <= entered'[t]
    BY DEF SentBound, Back
  <2>1. sent[s][d] <= entered[t] /\ sent[s][d] \in Nat
    BY DEF SentBound, DisseminationTypeOK
  <2> QED  BY <1>1, <1>2, <1>3, <1>4, <2>1 DEF DisseminationTypeOK
<1>8. SentFew'
  <2> SUFFICES ASSUME NEW s \in Peer, NEW d \in Peer, s # d, Inside(s)',
                      Back(d, s) > mask'[s] \/ (Back(d, s) = mask'[s] /\ sending'[s])
               PROVE  sent'[s][d] < entered'[s]
    BY DEF SentFew, Back
  <2>1. CASE s = r
    <3>1. Back(s, s) < Back(d, s)
      BY BackType DEF SizeAssumption
    <3>2. sent[s][d] <= entered[s] /\ sent[s][d] \in Nat
      BY <3>1 DEF SentBound, DisseminationTypeOK
    <3> QED  BY <1>2, <1>3, <1>4, <2>1, <3>2
  <2>2. CASE s # r
    <3>1. Inside(s)
      BY <1>2, <1>4, <2>2 DEF Inside
    <3> QED  BY <1>2, <1>4, <2>2, <3>1 DEF SentFew
  <2> QED  BY <2>1, <2>2
<1>9. ReceivedMany'
  <2> SUFFICES ASSUME NEW q \in Peer, NEW s \in Peer, q # s, Back(q, s) \in Powers
               PROVE  /\ entered'[q] - 1 <= received'[s][q]
                      /\ ~(Inside(q)' /\ mask'[q] <= Back(q, s)) => entered'[q] <= received'[s][q]
    BY DEF ReceivedMany, Back
  <2>0. received[s][q] \in Nat
    BY DEF DisseminationTypeOK
  <2>1. CASE q = r
    <3>1. ~Inside(r)
      BY <1>2, <1>3 DEF Inside
    <3>2. entered[r] <= received[s][r]
      BY <2>1, <3>1 DEF ReceivedMany
    <3>3. Inside(r)'
      BY <1>2, <1>3, <1>4 DEF Inside
    <3>4. 1 <= Back(q, s)
      BY BackType DEF SizeAssumption
    <3> QED  BY <1>2, <1>3, <1>4, <2>0, <2>1, <3>2, <3>3, <3>4
  <2>2. CASE q # r
    <3>1. Inside(q)' <=> Inside(q)
      BY <1>2, <1>4, <2>2 DEF Inside
    <3> QED  BY <1>2, <1>4, <2>2, <3>1 DEF ReceivedMany
  <2> QED  BY <2>1, <2>2
<1> QED  BY <1>1, <1>5, <1>6, <1>7, <1>8, <1>9

LEMMA EnterAloneKeepsIInv ==
    ASSUME SizeAssumption, DisseminationInv, NEW r \in Peer, EnterAlone(r)
    PROVE  DisseminationInv'
<1> USE DEF DisseminationInv
<1>1. DisseminationTypeOK'
  BY DEF EnterAlone, DisseminationTypeOK
<1>2. \A s, d \in Peer : s = d
  BY DEF EnterAlone, Peer
<1>3. \A t \in Peer : Back(t, t) = 0
  BY BackType
<1>4. Shape' /\ \A t \in Peer : ~Inside(t)'
  BY <1>2 DEF EnterAlone, DisseminationTypeOK, Shape, Inside
<1>5. Cover' /\ SentBound' /\ SentFew' /\ ReceivedMany'
  BY <1>2, <1>4 DEF Cover, SentBound, SentFew, ReceivedMany
<1> QED  BY <1>1, <1>4, <1>5

LEMMA SendKeepsIInv ==
    ASSUME SizeAssumption, DisseminationInv, NEW r \in Peer, Send(r)
    PROVE  DisseminationInv'
<1> USE DEF DisseminationInv
<1>1. Inside(r) /\ mask[r] \in 1 .. N - 1
  BY PowersPositive DEF Send, Shape, DisseminationTypeOK
<1> DEFINE d0 == Ahead(r, mask[r])
<1>2. d0 \in Peer /\ d0 # r /\ Back(d0, r) = mask[r]
  BY <1>1, Ring
<1> HIDE DEF d0
<1>3. /\ sent' = [sent EXCEPT ![r][d0] = sent[r][d0] + 1]
      /\ sending' = [sending EXCEPT ![r] = FALSE]
      /\ entered' = entered /\ left' = left /\ mask' = mask /\ received' = received
      /\ sending[r]
  BY DEF Send, d0
<1>4. \A s, d \in Peer : sent[s][d] \in Nat /\ entered[s] \in Nat
  BY DEF DisseminationTypeOK
<1>5. /\ sent'[r][d0] = sent[r][d0] + 1
      /\ \A s, d \in Peer : s # r \/ d # d0 => sent'[s][d] = sent[s][d]
      /\ \A s \in Peer : sending'[s] => sending[s] /\ s # r
  BY <1>2, <1>3 DEF DisseminationTypeOK
<1>6. DisseminationTypeOK'
  BY <1>2, <1>3, <1>4 DEF DisseminationTypeOK
<1>7. Shape' /\ Cover' /\ ReceivedMany'
  <2>1. Shape'
    BY <1>3, <1>5 DEF Shape, Inside
  <2>2. Cover' /\ ReceivedMany'
    BY <1>3 DEF Cover, ReceivedMany, Inside, Back
  <2> QED  BY <2>1, <2>2
<1>8. sent[r][d0] < entered[r]
  BY <1>1, <1>2, <1>3 DEF SentFew
<1>9. SentBound'
  <2> SUFFICES ASSUME NEW s \in Peer, NEW d \in Peer, NEW t \in Peer,
                      s # d, Back(s, t) < Back(d, s)
               PROVE  sent'[s][d] <= entered'[t]
    BY DEF SentBound, Back
  <2>1. CASE s = r /\ d = d0
    <3>1. entered[r] <= entered[t]
      BY <1>1, <1>2, <2>1 DEF Cover
    <3> QED  BY <1>3, <1>4, <1>5, <1>8, <2>1, <3>1
  <2>2. CASE s # r \/ d # d0
    BY <1>3, <1>5, <2>2 DEF SentBound
  <2> QED  BY <2>1, <2>2
<1>10. SentFew'
  <2> SUFFICES ASSUME NEW s \in Peer, NEW d \in Peer, s # d, Inside(s)',
                      Back(d, s) > mask'[s] \/ (Back(d, s) = mask'[s] /\ sending'[s])
               PROVE  sent'[s][d] < entered'[s]
    BY DEF SentFew, Back
  <2>1. s # r \/ d # d0
    BY <1>2, <1>3, <1>5, BackType DEF DisseminationTypeOK, SizeAssumption
  <2>2. Inside(s)
    BY <1>3 DEF Inside
  <2> QED  BY <1>3, <1>5, <2>1, <2>2 DEF SentFew
<1> QED  BY <1>6, <1>7, <1>9, <1>10

\* Whoever takes the message of its step knows of twice as many ranks.
LEMMA TakeMessageFact ==
    ASSUME SizeAssumption, DisseminationInv, NEW r \in Peer, TakeMessage(r)
    PROVE  /\ mask[r] \in 1 .. N - 1 /\ mask[r] \in Powers
           /\ \A t \in Peer : Back(r, t) < 2 * mask[r] => entered[r] <= entered[t]
           /\ received' \in [Peer -> [Peer -> Nat]]
           /\ LET s == Behind(r, mask[r]) IN
              /\ s \in Peer /\ s # r /\ Back(r, s) = mask[r]
              /\ received' = [received EXCEPT ![s][r] = received[s][r] + 1]
<1> USE DEF DisseminationInv
<1>1. Inside(r) /\ mask[r] \in 1 .. N - 1 /\ mask[r] \in Powers
  BY PowersPositive DEF TakeMessage, Inside, Shape, DisseminationTypeOK
<1> DEFINE s == Behind(r, mask[r])
<1>2. s \in Peer /\ s # r /\ Back(r, s) = mask[r]
  BY <1>1, Ring
<1>3. /\ received' = [received EXCEPT ![s][r] = received[s][r] + 1]
      /\ received[s][r] < sent[s][r]
  BY DEF TakeMessage
<1> HIDE DEF s
<1>4. /\ received[s][r] \in Nat /\ sent[s][r] \in Nat
      /\ \A t \in Peer : entered[t] \in Nat
  BY <1>2 DEF DisseminationTypeOK
<1>5. entered[r] <= sent[s][r]
  <2>1. entered[r] - 1 <= received[s][r]
    BY <1>1, <1>2 DEF ReceivedMany
  <2> QED  BY <1>3, <1>4, <2>1
<1>6. ASSUME NEW t \in Peer, Back(r, t) < 2 * mask[r]
      PROVE  entered[r] <= entered[t]
  <2>1. CASE Back(r, t) < mask[r]
    BY <1>1, <2>1 DEF Cover
  <2>2. CASE Back(r, t) >= mask[r]
    <3>1. Back(s, t) = Back(r, t) - mask[r]
      BY <1>2, <2>2, BackSum
    <3>2. Back(s, t) < Back(r, s)
      BY <1>1, <1>2, <1>6, <2>2, <3>1, BackType DEF SizeAssumption
    <3>3. sent[s][r] <= entered[t]
      BY <1>2, <3>2 DEF SentBound
    <3> QED  BY <1>4, <1>5, <3>3
  <2>3. Back(r, t) \in Int /\ mask[r] \in Int
    BY <1>1, BackType DEF SizeAssumption
  <2> QED  BY <2>1, <2>2, <2>3
<1>7. received' \in [Peer -> [Peer -> Nat]]
  BY <1>2, <1>3, <1>4 DEF DisseminationTypeOK
<1> QED  BY <1>1, <1>2, <1>3, <1>6, <1>7 DEF s

\* The receive of this step is the only one ReceivedMany asks for in addition
\* once the mask is doubled, or the barrier left.
LEMMA TakeMessageReceived ==
    ASSUME SizeAssumption, DisseminationInv, NEW r \in Peer, TakeMessage(r), UNCHANGED entered,
           \A q \in Peer \ {r} : mask'[q] = mask[q] /\ left'[q] = left[q],
           \A x \in Powers : x < N =>
               x <= mask[r] \/ (left'[r] < entered[r] /\ mask'[r] <= x)
    PROVE  ReceivedMany'
<1> USE DEF DisseminationInv
<1> DEFINE s0 == Behind(r, mask[r])
<1>1. /\ s0 \in Peer /\ s0 # r /\ Back(r, s0) = mask[r]
      /\ received' = [received EXCEPT ![s0][r] = received[s0][r] + 1]
      /\ mask[r] \in 1 .. N - 1
  BY TakeMessageFact
<1>0. Inside(r)
  BY DEF TakeMessage, Inside
<1> HIDE DEF s0
<1>2. /\ received'[s0][r] = received[s0][r] + 1
      /\ \A s, q \in Peer : s # s0 \/ q # r => received'[s][q] = received[s][q]
      /\ \A s, q \in Peer : received[s][q] \in Nat /\ entered[q] \in Nat
  BY <1>1 DEF DisseminationTypeOK
<1> SUFFICES ASSUME NEW q \in Peer, NEW s \in Peer, q # s, Back(q, s) \in Powers
             PROVE  /\ entered'[q] - 1 <= received'[s][q]
                    /\ ~(Inside(q)' /\ mask'[q] <= Back(q, s)) => entered'[q] <= received'[s][q]
  BY DEF ReceivedMany, Back
<1>3. entered[q] - 1 <= received[s][q] /\ received[s][q] <= received'[s][q]
      /\ received'[s][q] \in Nat
  BY <1>1, <1>2 DEF ReceivedMany
<1>4. CASE q # r
  <2>1. (Inside(q)' <=> Inside(q)) /\ mask'[q] = mask[q]
    BY <1>4 DEF Inside
  <2> QED  BY <1>2, <1>4, <2>1 DEF ReceivedMany
<1>5. CASE q = r /\ s = s0
  <2>1. entered[q] <= received'[s][q]
    BY <1>2, <1>3, <1>5
  <2> QED  BY <1>2, <1>3, <1>5, <2>1
<1>6. CASE q = r /\ s # s0
  <2>1. Back(r, s) # mask[r]
    BY <1>1, <1>6 DEF Back, Peer, SizeAssumption
  <2>2. Back(r, s) \in 0 .. N - 1
    BY BackType
  <2>3. CASE Back(r, s) < mask[r]
    <3>1. entered[r] <= received[s][r]
      BY <1>0, <1>1, <1>6, <2>2, <2>3 DEF ReceivedMany
    <3> QED  BY <1>2, <1>3, <1>6, <3>1
  <2>4. CASE ~(Back(r, s) < mask[r])
    <3>1. Inside(r)' /\ mask'[r] <= Back(r, s)
      BY <1>1, <1>6, <2>1, <2>2, <2>4 DEF Inside, SizeAssumption
    <3> QED  BY <1>2, <1>3, <1>6, <3>1
  <2> QED  BY <2>3, <2>4
<1> QED  BY <1>4, <1>5, <1>6

LEMMA NextStepKeepsIInv ==
    ASSUME SizeAssumption, DisseminationInv, NEW r \in Peer, NextStep(r)
    PROVE  DisseminationInv'
<1> USE DEF DisseminationInv
<1>1. TakeMessage(r)
  BY DEF NextStep
<1>2. /\ mask[r] \in 1 .. N - 1 /\ mask[r] \in Powers /\ Inside(r)
      /\ \A t \in Peer : Back(r, t) < 2 * mask[r] => entered[r] <= entered[t]
  BY <1>1, TakeMessageFact DEF TakeMessage, Inside
<1>3. /\ mask' = [mask EXCEPT ![r] = 2 * mask[r]]
      /\ sending' = [sending EXCEPT ![r] = TRUE]
      /\ entered' = entered /\ left' = left /\ sent' = sent /\ 2 * mask[r] < N
  BY DEF NextStep
<1>4. /\ mask'[r] = 2 * mask[r] /\ sending'[r] = TRUE
      /\ \A q \in Peer \ {r} : mask'[q] = mask[q] /\ sending'[q] = sending[q]
      /\ \A q \in Peer : mask[q] \in 0 .. N - 1
  BY <1>3 DEF DisseminationTypeOK
<1>5. DisseminationTypeOK'
  <2>1. received' \in [Peer -> [Peer -> Nat]]
    BY <1>1, TakeMessageFact DEF DisseminationTypeOK
  <2>2. 2 * mask[r] \in 0 .. N - 1
    BY <1>2, <1>3 DEF SizeAssumption
  <2> QED  BY <1>3, <2>1, <2>2 DEF DisseminationTypeOK
<1>6. Shape'
  BY <1>2, <1>3, <1>4, PowersClosed DEF Shape, Inside
<1>7. Cover'
  BY <1>2, <1>3, <1>4 DEF Cover, Inside, Back
<1>8. SentBound'
  BY <1>3 DEF SentBound, Back
<1>9. SentFew'
  <2> SUFFICES ASSUME NEW s \in Peer, NEW d \in Peer, s # d, Inside(s)',
                      Back(d, s) > mask'[s] \/ (Back(d, s) = mask'[s] /\ sending'[s])
               PROVE  sent'[s][d] < entered'[s]
    BY DEF SentFew, Back
  <2>1. Inside(s)
    BY <1>3 DEF Inside
  <2>2. Back(d, s) \in 0 .. N - 1
    BY BackType
  <2>3. CASE s = r
    <3>1. Back(d, s) > mask[s]
      BY <1>2, <1>4, <2>2, <2>3 DEF SizeAssumption
    <3> QED  BY <1>3, <2>1, <3>1 DEF SentFew
  <2>4. CASE s # r
    BY <1>3, <1>4, <2>1, <2>4 DEF SentFew
  <2> QED  BY <2>3, <2>4
<1>10. ReceivedMany'
  <2>1. ASSUME NEW x \in Powers, x < N
        PROVE  x <= mask[r] \/ (left'[r] < entered[r] /\ mask'[r] <= x)
    BY <1>2, <1>3, <1>4, PowersGap, PowersPositive DEF Inside
  <2> QED  BY <1>1, <1>3, <1>4, <2>1, TakeMessageReceived
<1> QED  BY <1>5, <1>6, <1>7, <1>8, <1>9, <1>10

LEMMA LeaveKeepsIInv ==
    ASSUME SizeAssumption, DisseminationInv, NEW r \in Peer, Leave(r)
    PROVE  DisseminationInv'
<1> USE DEF DisseminationInv
<1>1. TakeMessage(r)
  BY DEF Leave
<1>2. mask[r] \in 1 .. N - 1 /\ mask[r] \in Powers /\ Inside(r) /\ ~sending[r]
  BY <1>1, TakeMessageFact DEF TakeMessage, Inside
<1>3. /\ mask' = [mask EXCEPT ![r] = 0]
      /\ left' = [left EXCEPT ![r] = left[r] + 1]
      /\ entered' = entered /\ sending' = sending /\ sent' = sent /\ 2 * mask[r] >= N
  BY DEF Leave
<1>4. /\ mask'[r] = 0 /\ left'[r] = left[r] + 1 /\ left'[r] = entered[r]
      /\ \A q \in Peer \ {r} : mask'[q] = mask[q] /\ left'[q] = left[q]
      /\ \A q \in Peer : mask[q] \in 0 .. N - 1 /\ entered[q] \in Nat /\ left[q] \in Nat
  BY <1>2, <1>3 DEF DisseminationTypeOK, Shape, Inside
<1>5. DisseminationTypeOK'
  <2>1. received' \in [Peer -> [Peer -> Nat]]
    BY <1>1, TakeMessageFact
  <2>2. 0 \in 0 .. N - 1 /\ left[r] + 1 \in Nat
    BY <1>4 DEF SizeAssumption
  <2>3. mask' \in [Peer -> 0 .. N - 1] /\ left' \in [Peer -> Nat]
    BY <1>3, <2>2 DEF DisseminationTypeOK
  <2> QED  BY <1>3, <2>1, <2>3 DEF DisseminationTypeOK
<1>6. ~Inside(r)' /\ \A q \in Peer \ {r} : Inside(q)' <=> Inside(q)
  BY <1>3, <1>4 DEF Inside
<1>7. Shape' /\ Cover'
  BY <1>2, <1>3, <1>4, <1>6 DEF Shape, Cover, Back
<1>8. SentBound' /\ SentFew'
  BY <1>3, <1>4, <1>6 DEF SentBound, SentFew, Back
<1>9. ReceivedMany'
  <2>1. ASSUME NEW x \in Powers, x < N PROVE x <= mask[r]
    <3>1. x \in Nat /\ mask[r] \in Nat /\ N \in Nat
      BY <1>2, PowersPositive DEF SizeAssumption
    <3>2. mask[r] < x => 2 * mask[r] <= x
      BY <1>2, PowersGap
    <3> QED  BY <1>3, <2>1, <3>1, <3>2
  <2> QED  BY <1>1, <1>3, <1>4, <2>1, TakeMessageReceived
<1> QED  BY <1>5, <1>7, <1>8, <1>9

LEMMA NextKeepsIInv == SizeAssumption /\ DisseminationInv /\ [DisseminationNext]_disseminationVars => DisseminationInv'
<1> SUFFICES ASSUME SizeAssumption, DisseminationInv, [DisseminationNext]_disseminationVars PROVE DisseminationInv'
  OBVIOUS
<1>1. CASE UNCHANGED disseminationVars
  BY <1>1 DEF disseminationVars, DisseminationInv, DisseminationTypeOK, Shape, Cover, SentBound, SentFew, ReceivedMany,
              Inside, Back
<1>2. CASE DisseminationNext
  BY <1>2, EnterKeepsIInv, EnterAloneKeepsIInv, SendKeepsIInv, NextStepKeepsIInv,
     LeaveKeepsIInv DEF DisseminationNext
<1> QED  BY <1>1, <1>2

-----------------------------------------------------------------------------
\* Every variable keeps its type, whatever the size of the communicator.
THEOREM DisseminationTypes == ASSUME SizeAssumption PROVE DisseminationSpec => []DisseminationTypeOK
<1>1. DisseminationInit => DisseminationInv
  BY InitDisseminationInv
<1>2. DisseminationInv /\ [DisseminationNext]_disseminationVars => DisseminationInv'
  BY NextKeepsIInv
<1>3. DisseminationInv => DisseminationTypeOK
  BY DEF DisseminationInv
<1> QED  BY <1>1, <1>2, <1>3, PTL DEF DisseminationSpec

LEMMA StepImplements ==
    ASSUME SizeAssumption, DisseminationInv, [DisseminationNext]_disseminationVars
    PROVE  [Abstract!Next]_(Abstract!vars)
<1> USE DEF DisseminationInv
<1>1. CASE UNCHANGED disseminationVars
  BY <1>1 DEF disseminationVars, Abstract!vars
<1>2. ASSUME NEW r \in Peer, Enter(r) PROVE Abstract!Next
  BY <1>2 DEF Enter, Abstract!Next, Abstract!Enter
<1>3. ASSUME NEW r \in Peer, EnterAlone(r) PROVE Abstract!Next
  <2>1. Peer \ {r} = {}
    BY <1>3 DEF EnterAlone, Peer
  <2>2. Abstract!EnterAndLeave(r)
    BY <1>3, <2>1 DEF EnterAlone, Abstract!EnterAndLeave
  <2> QED  BY <2>2 DEF Abstract!Next
<1>4. ASSUME NEW r \in Peer, Send(r) PROVE UNCHANGED Abstract!vars
  BY <1>4 DEF Send, Abstract!vars
<1>5. ASSUME NEW r \in Peer, NextStep(r) PROVE UNCHANGED Abstract!vars
  BY <1>5 DEF NextStep, Abstract!vars
<1>6. ASSUME NEW r \in Peer, Leave(r) PROVE Abstract!Next
  <2>1. TakeMessage(r) /\ 2 * mask[r] >= N
    BY <1>6 DEF Leave
  <2>2. \A t \in Peer : entered[r] <= entered[t]
    <3>0. /\ mask[r] \in 1 .. N - 1
          /\ \A t \in Peer : Back(r, t) < 2 * mask[r] => entered[r] <= entered[t]
      BY <2>1, TakeMessageFact
    <3>1. mask[r] \in Nat /\ N \in Nat
      BY <3>0 DEF SizeAssumption
    <3>2. \A t \in Peer : Back(r, t) \in Nat /\ Back(r, t) < N
      BY BackType DEF SizeAssumption
    <3>3. \A t \in Peer : Back(r, t) < 2 * mask[r]
      BY <2>1, <3>1, <3>2
    <3> QED  BY <3>0, <3>3
  <2>3. Abstract!Leave(r)
    BY <1>6, <2>1, <2>2 DEF Leave, TakeMessage, Abstract!Leave
  <2> QED  BY <2>3 DEF Abstract!Next
<1> QED  BY <1>1, <1>2, <1>3, <1>4, <1>5, <1>6 DEF DisseminationNext

\* The barrier keeps its promise for every number of ranks, power of two or
\* not, and every number of rounds: a rank leaves a round only when every other
\* rank has entered it, though it has heard from a few of them alone.
THEOREM DisseminationImplementsBarrier ==
    ASSUME SizeAssumption PROVE DisseminationSpec => ImplementsBarrier
<1>1. DisseminationInit => DisseminationInv
  BY InitDisseminationInv
<1>2. DisseminationInv /\ [DisseminationNext]_disseminationVars => DisseminationInv'
  BY NextKeepsIInv
<1>3. DisseminationInit => Abstract!Init
  BY DEF DisseminationInit, Abstract!Init
<1>4. DisseminationInv /\ [DisseminationNext]_disseminationVars => [Abstract!Next]_(Abstract!vars)
  BY StepImplements
<1> QED  BY <1>1, <1>2, <1>3, <1>4, PTL DEF DisseminationSpec, ImplementsBarrier, Abstract!Spec
=============================================================================
