---------------------- MODULE FairReadWriteLockProofs ----------------------
(* Proofs about FairReadWriteLock, for every finite set of threads and every *)
(* number of requests.                                                       *)
EXTENDS FairReadWriteLock, FiniteSetTheorems, TLAPS

\* The counters count the threads inside.
CountsInv ==
    /\ numberOfReaders = Cardinality(Inside("read"))
    /\ numberOfWriters = Cardinality(Inside("write"))

\* The threads in the loop hold different tickets, none of them out of date.
TicketsInv ==
    /\ overallTurn <= readOrWritesRequested
    /\ \A t \in Pending : thisThreadTurn[t] \in overallTurn .. (readOrWritesRequested - 1)
    /\ \A t, u \in Pending : thisThreadTurn[t] = thisThreadTurn[u] => t = u

IInv == TypeOK /\ CountsInv /\ TicketsInv /\ WritersAlone /\ NoLostWakeup

-----------------------------------------------------------------------------
\* The bound is a number, which is all that the proofs need of it.
LEMMA BoundIsNat == MaxRequests \in Nat
BY RequestsAssumption, SMT

\* The threads inside are finitely many, so that they can be counted.
LEMMA InsideFinite ==
    ASSUME NEW k
    PROVE  IsFiniteSet(Inside(k)) /\ Cardinality(Inside(k)) \in Nat
<1>1. Inside(k) \subseteq Thread  BY DEF Inside
<1> QED  BY <1>1, ThreadAssumption, FS_Subset, FS_CardinalityType

\* When the counter of a kind is 0, nobody of that kind is inside.
LEMMA CountZero ==
    ASSUME NEW k
    PROVE  Cardinality(Inside(k)) = 0 <=> Inside(k) = {}
BY InsideFinite, FS_EmptySet

\* Entering adds the thread to those of its kind.
LEMMA EnterCounts ==
    ASSUME TypeOK, CountsInv, NEW t \in Thread, NEW k \in Kind,
           pc[t] # "inside", Enter(t, k), kind' = [kind EXCEPT ![t] = k]
    PROVE  /\ CountsInv'
           /\ numberOfReaders' \in Nat /\ numberOfWriters' \in Nat
           /\ pc' \in [Thread -> {"out", "waiting", "notified", "inside"}]
           /\ Inside(k)' = Inside(k) \cup {t}
           /\ \A j \in Kind \ {k} : Inside(j)' = Inside(j)
<1>1. pc' \in [Thread -> {"out", "waiting", "notified", "inside"}]
  BY DEF TypeOK, Enter, MoveNotifyAll
<1>2. /\ Inside(k)' = Inside(k) \cup {t}
      /\ \A j \in Kind \ {k} : Inside(j)' = Inside(j)
      /\ t \notin Inside(k)
  BY DEF TypeOK, Enter, MoveNotifyAll, Inside, Kind
<1>3. Cardinality(Inside(k)') = Cardinality(Inside(k)) + 1
  BY <1>2, InsideFinite, FS_AddElement
<1>4. CountsInv' /\ numberOfReaders' \in Nat /\ numberOfWriters' \in Nat
  <2>1. CASE k = "read"
    BY <2>1, <1>2, <1>3, InsideFinite DEF CountsInv, Enter, Kind, TypeOK
  <2>2. CASE k = "write"
    BY <2>2, <1>2, <1>3, InsideFinite DEF CountsInv, Enter, Kind, TypeOK
  <2> QED  BY <2>1, <2>2 DEF Kind
<1> QED  BY <1>1, <1>2, <1>4

\* Leaving takes it away.
LEMMA LeaveCounts ==
    ASSUME TypeOK, NEW t \in Thread, NEW k \in Kind,
           pc[t] = "inside", kind[t] = k, kind' = kind,
           \/ MoveNotifyAll(t, "out")
           \/ pc' = [pc EXCEPT ![t] = "out"]
    PROVE  /\ pc' \in [Thread -> {"out", "waiting", "notified", "inside"}]
           /\ Inside(k)' = Inside(k) \ {t}
           /\ \A j \in Kind \ {k} : Inside(j)' = Inside(j)
           /\ Cardinality(Inside(k)') = Cardinality(Inside(k)) - 1
           /\ Cardinality(Inside(k)') \in Nat
<1>1. /\ pc' \in [Thread -> {"out", "waiting", "notified", "inside"}]
      /\ \A u \in Thread \ {t} : pc'[u] = "inside" <=> pc[u] = "inside"
      /\ pc'[t] = "out"
  BY DEF TypeOK, MoveNotifyAll
<1>2. /\ Inside(k)' = Inside(k) \ {t}
      /\ \A j \in Kind \ {k} : Inside(j)' = Inside(j)
      /\ t \in Inside(k)
  BY <1>1 DEF Inside
<1>3. IsFiniteSet(Inside(k)')
  BY <1>2, InsideFinite, FS_RemoveElement
<1> QED  BY <1>1, <1>2, <1>3, InsideFinite, FS_RemoveElement, FS_CardinalityType

-----------------------------------------------------------------------------
\* The invariant holds when nobody has used the lock.
LEMMA InitIInv == Init => IInv
<1> SUFFICES ASSUME Init PROVE IInv
  OBVIOUS
<1>1. TypeOK
  BY BoundIsNat DEF Init, TypeOK, Kind
<1>2. Inside("read") = {} /\ Inside("write") = {} /\ Pending = {}
  BY DEF Init, Inside, Pending
<1>3. CountsInv
  BY <1>2, FS_EmptySet DEF Init, CountsInv
<1> QED  BY <1>1, <1>2, <1>3 DEF Init, IInv, TicketsInv, WritersAlone, NoLostWakeup

\* Who enters has the smallest ticket, and so out of order nobody can be.
LEMMA EnterKeepsIInv ==
    ASSUME IInv, NEW t \in Thread, NEW k \in Kind, NEW ticket \in Nat,
           pc[t] # "inside", ~MustWait(k, ticket), Enter(t, k),
           kind' = [kind EXCEPT ![t] = k],
           \/ /\ pc[t] = "out" /\ ticket = readOrWritesRequested
              /\ thisThreadTurn' = [thisThreadTurn EXCEPT ![t] = ticket]
              /\ readOrWritesRequested < MaxRequests
              /\ readOrWritesRequested' = readOrWritesRequested + 1
           \/ /\ t \in Pending /\ ticket = thisThreadTurn[t]
              /\ UNCHANGED <<thisThreadTurn, readOrWritesRequested>>
    PROVE  IInv'
<1> USE DEF IInv
<1>0. /\ CountsInv'
      /\ numberOfReaders' \in Nat /\ numberOfWriters' \in Nat
      /\ pc' \in [Thread -> {"out", "waiting", "notified", "inside"}]
      /\ Inside(k)' = Inside(k) \cup {t}
      /\ \A j \in Kind \ {k} : Inside(j)' = Inside(j)
  BY EnterCounts
<1>1. TypeOK'
  <2>1. overallTurn' \in Nat /\ kind' \in [Thread -> Kind] /\ thisThreadTurn' \in [Thread -> Nat]
    BY DEF TypeOK, Enter
  <2>2. readOrWritesRequested' \in 0 .. MaxRequests
    BY BoundIsNat DEF TypeOK
  <2> QED  BY <1>0, <2>1, <2>2 DEF TypeOK
<1>2. TicketsInv'
  <2>1. Pending' = Pending \ {t}
    BY DEF Pending, Enter, MoveNotifyAll, TypeOK
  <2>2. overallTurn' = overallTurn + 1 /\ ticket <= overallTurn
    BY DEF Enter, MustWait, TypeOK
  <2>3. \A u \in Pending \ {t} :
            /\ thisThreadTurn'[u] = thisThreadTurn[u]
            /\ thisThreadTurn[u] \in Nat
            /\ thisThreadTurn[u] # overallTurn
    BY <2>2, BoundIsNat DEF TicketsInv, Pending, TypeOK
  <2>4. readOrWritesRequested' >= readOrWritesRequested /\ readOrWritesRequested' \in Int
    BY <1>1, BoundIsNat DEF TypeOK
  <2> QED  BY <2>1, <2>2, <2>3, <2>4, BoundIsNat DEF TicketsInv, TypeOK
<1>3. WritersAlone'
  <2>1. Inside("write") = {}
    BY CountZero, InsideFinite
       DEF MustWait, readRequirementsViolated, writeRequirementsViolated, CountsInv, TypeOK, Kind
  <2>2. k = "write" => Inside("read") = {}
    BY CountZero, InsideFinite
       DEF MustWait, readRequirementsViolated, writeRequirementsViolated, CountsInv, TypeOK
  <2>3. CASE k = "read"
    BY <2>1, <2>3, <1>0 DEF WritersAlone, Kind
  <2>4. CASE k = "write"
    BY <2>1, <2>2, <2>4, <1>0 DEF WritersAlone, Kind
  <2> QED  BY <2>3, <2>4 DEF Kind
<1>4. NoLostWakeup'
  BY DEF NoLostWakeup, Enter, MoveNotifyAll, TypeOK
<1> QED  BY <1>0, <1>1, <1>2, <1>3, <1>4

\* Going to sleep changes nobody's condition, and follows the test of one's own.
LEMMA WaitKeepsIInv ==
    ASSUME IInv, NEW t \in Thread, NEW k \in Kind, NEW ticket \in Nat,
           MustWait(k, ticket), WaitForTurn(t),
           kind' = [kind EXCEPT ![t] = k],
           \/ /\ pc[t] = "out" /\ ticket = readOrWritesRequested
              /\ thisThreadTurn' = [thisThreadTurn EXCEPT ![t] = ticket]
              /\ readOrWritesRequested < MaxRequests
              /\ readOrWritesRequested' = readOrWritesRequested + 1
           \/ /\ t \in Pending /\ ticket = thisThreadTurn[t]
              /\ UNCHANGED <<thisThreadTurn, readOrWritesRequested>>
    PROVE  IInv'
<1> USE DEF IInv
<1>1. TypeOK'
  <2>1. /\ pc' \in [Thread -> {"out", "waiting", "notified", "inside"}]
        /\ kind' \in [Thread -> Kind] /\ thisThreadTurn' \in [Thread -> Nat]
    BY DEF TypeOK, WaitForTurn
  <2>2. readOrWritesRequested' \in 0 .. MaxRequests
    BY BoundIsNat DEF TypeOK
  <2> QED  BY <2>1, <2>2 DEF TypeOK, WaitForTurn, counters
<1>2. pc[t] # "inside"
  BY DEF Pending
<1>3. \A j \in Kind : Inside(j)' = Inside(j)
  BY <1>2 DEF Inside, WaitForTurn, TypeOK
<1>4. CountsInv' /\ WritersAlone'
  BY <1>3 DEF CountsInv, WritersAlone, WaitForTurn, counters, Kind
<1>5. TicketsInv'
  <2>1. Pending' = Pending \cup {t}
    BY DEF Pending, WaitForTurn, TypeOK
  <2>2. CASE t \in Pending
    BY <2>1, <2>2 DEF TicketsInv, WaitForTurn, Pending
  <2>3. CASE pc[t] = "out"
    <3>1. /\ \A u \in Pending : u # t /\ thisThreadTurn'[u] = thisThreadTurn[u]
          /\ thisThreadTurn'[t] = readOrWritesRequested
          /\ readOrWritesRequested' = readOrWritesRequested + 1
          /\ overallTurn' = overallTurn
      BY <2>3 DEF Pending, TypeOK, WaitForTurn
    <3>2. \A u \in Pending : thisThreadTurn[u] # readOrWritesRequested
      BY BoundIsNat DEF TicketsInv, TypeOK, Pending
    <3> QED  BY <2>1, <3>1, <3>2, BoundIsNat DEF TicketsInv, TypeOK, Pending
  <2> QED  BY <2>2, <2>3 DEF Pending
<1>6. NoLostWakeup'
  <2> SUFFICES ASSUME NEW u \in Thread, pc'[u] = "waiting"
               PROVE  MustWait(kind[u], thisThreadTurn[u])'
    BY DEF NoLostWakeup
  <2>1. UNCHANGED <<numberOfReaders, numberOfWriters, overallTurn>>
    BY DEF WaitForTurn, counters
  <2>2. CASE u = t
    BY <2>1, <2>2 DEF MustWait, readRequirementsViolated, writeRequirementsViolated, TypeOK
  <2>3. CASE u # t
    <3>1. pc[u] = "waiting" /\ kind'[u] = kind[u] /\ thisThreadTurn'[u] = thisThreadTurn[u]
      BY <2>3 DEF WaitForTurn, TypeOK
    <3> QED
      BY <2>1, <3>1 DEF NoLostWakeup, MustWait, readRequirementsViolated, writeRequirementsViolated
  <2> QED  BY <2>2, <2>3
<1> QED  BY <1>1, <1>4, <1>5, <1>6

\* Waking up without a reason only makes the thread test its condition again.
LEMMA WakeKeepsIInv ==
    ASSUME IInv, NEW t \in Thread, WakeUnnotified(t)
    PROVE  IInv'
<1> USE DEF IInv
<1>1. TypeOK'
  BY DEF TypeOK, WakeUnnotified, counters
<1>2. Pending' = Pending /\ \A k \in Kind : Inside(k)' = Inside(k)
  BY DEF WakeUnnotified, Pending, Inside, TypeOK
<1>3. CountsInv' /\ WritersAlone' /\ TicketsInv'
  BY <1>2 DEF CountsInv, WritersAlone, TicketsInv, WakeUnnotified, counters, Kind
<1>4. NoLostWakeup'
  BY DEF NoLostWakeup, WakeUnnotified, MustWait, readRequirementsViolated,
         writeRequirementsViolated, counters, TypeOK
<1> QED  BY <1>1, <1>3, <1>4

\* Leaving touches no thread in the loop, except that it may wake it.
LEMMA LeaveKeepsTickets ==
    ASSUME IInv, NEW t \in Thread, pc[t] = "inside",
           \/ MoveNotifyAll(t, "out")
           \/ pc' = [pc EXCEPT ![t] = "out"],
           UNCHANGED <<readOrWritesRequested, overallTurn, kind, thisThreadTurn>>
    PROVE  TicketsInv'
<1>1. Pending' = Pending
  BY DEF IInv, Pending, MoveNotifyAll, TypeOK
<1> QED  BY <1>1 DEF IInv, TicketsInv

LEMMA EndReadKeepsIInv ==
    ASSUME IInv, NEW t \in Thread, EndRead(t)
    PROVE  IInv'
<1> USE DEF IInv
<1>1. \/ numberOfReaders' = 0 /\ MoveNotifyAll(t, "out")
      \/ numberOfReaders' # 0 /\ pc' = [pc EXCEPT ![t] = "out"]
  BY DEF EndRead
<1>2. /\ pc' \in [Thread -> {"out", "waiting", "notified", "inside"}]
      /\ Inside("read")' = Inside("read") \ {t}
      /\ Inside("write")' = Inside("write")
      /\ Cardinality(Inside("read")') = Cardinality(Inside("read")) - 1
      /\ Cardinality(Inside("read")') \in Nat
  BY <1>1, LeaveCounts DEF EndRead, Kind
<1>3. CountsInv' /\ numberOfReaders' \in Nat
  BY <1>2 DEF CountsInv, EndRead
<1>4. TypeOK'
  BY <1>2, <1>3 DEF TypeOK, EndRead
<1>5. TicketsInv'
  BY <1>1, LeaveKeepsTickets DEF EndRead
<1>6. WritersAlone'
  BY <1>2 DEF WritersAlone
<1>7. NoLostWakeup'
  <2>1. CASE MoveNotifyAll(t, "out")
    BY <2>1 DEF NoLostWakeup, MoveNotifyAll, TypeOK
  <2>2. CASE numberOfReaders' # 0 /\ pc' = [pc EXCEPT ![t] = "out"]
    <3>1. numberOfReaders > 0 /\ numberOfReaders' > 0
      BY <2>2, <1>3 DEF EndRead, TypeOK
    <3>2. \A u \in Thread : pc'[u] = "waiting" => pc[u] = "waiting"
      BY <2>2 DEF TypeOK
    <3> QED  BY <3>1, <3>2 DEF NoLostWakeup, MustWait, readRequirementsViolated,
                               writeRequirementsViolated, EndRead
  <2> QED  BY <1>1, <2>1, <2>2
<1> QED  BY <1>3, <1>4, <1>5, <1>6, <1>7

LEMMA EndWriteKeepsIInv ==
    ASSUME IInv, NEW t \in Thread, EndWrite(t)
    PROVE  IInv'
<1> USE DEF IInv
<1>1. \/ numberOfWriters' = 0 /\ MoveNotifyAll(t, "out")
      \/ numberOfWriters' # 0 /\ pc' = [pc EXCEPT ![t] = "out"]
  BY DEF EndWrite
<1>2. /\ pc' \in [Thread -> {"out", "waiting", "notified", "inside"}]
      /\ Inside("write")' = Inside("write") \ {t}
      /\ Inside("read")' = Inside("read")
      /\ Cardinality(Inside("write")') = Cardinality(Inside("write")) - 1
      /\ Cardinality(Inside("write")') \in Nat
  BY <1>1, LeaveCounts DEF EndWrite, Kind
<1>3. CountsInv' /\ numberOfWriters' \in Nat
  BY <1>2 DEF CountsInv, EndWrite
<1>4. TypeOK'
  BY <1>2, <1>3 DEF TypeOK, EndWrite
<1>5. TicketsInv'
  BY <1>1, LeaveKeepsTickets DEF EndWrite
<1>6. WritersAlone'
  BY <1>2 DEF WritersAlone
<1>7. NoLostWakeup'
  <2>1. CASE MoveNotifyAll(t, "out")
    BY <2>1 DEF NoLostWakeup, MoveNotifyAll, TypeOK
  <2>2. CASE numberOfWriters' # 0 /\ pc' = [pc EXCEPT ![t] = "out"]
    <3>1. numberOfWriters > 0 /\ numberOfWriters' > 0
      BY <2>2, <1>3 DEF EndWrite, TypeOK
    <3>2. \A u \in Thread : pc'[u] = "waiting" => pc[u] = "waiting"
      BY <2>2 DEF TypeOK
    <3> QED  BY <3>1, <3>2 DEF NoLostWakeup, MustWait, readRequirementsViolated,
                               writeRequirementsViolated, EndWrite
  <2> QED  BY <1>1, <2>1, <2>2
<1> QED  BY <1>3, <1>4, <1>5, <1>6, <1>7

\* Every step keeps the invariant.
LEMMA NextIInv == IInv /\ [Next]_vars => IInv'
<1> SUFFICES ASSUME IInv, [Next]_vars PROVE IInv'
  OBVIOUS
<1>1. ASSUME NEW t \in Thread, NEW k \in Kind, Begin(t, k) PROVE IInv'
  <2>1. /\ pc[t] = "out"
        /\ readOrWritesRequested \in Nat
        /\ thisThreadTurn' = [thisThreadTurn EXCEPT ![t] = readOrWritesRequested]
        /\ readOrWritesRequested < MaxRequests
        /\ readOrWritesRequested' = readOrWritesRequested + 1
        /\ kind' = [kind EXCEPT ![t] = k]
    BY <1>1, BoundIsNat DEF Begin, IInv, TypeOK
  <2>2. CASE ~MustWait(k, readOrWritesRequested) /\ Enter(t, k)
    BY <2>1, <2>2, EnterKeepsIInv
  <2>3. CASE MustWait(k, readOrWritesRequested) /\ WaitForTurn(t)
    BY <2>1, <2>3, WaitKeepsIInv
  <2> QED  BY <1>1, <2>2, <2>3 DEF Begin, EnterOrWait
<1>2. ASSUME NEW t \in Thread, Recheck(t) PROVE IInv'
  <2>1. /\ t \in Pending /\ pc[t] # "inside"
        /\ kind[t] \in Kind /\ thisThreadTurn[t] \in Nat
        /\ kind' = [kind EXCEPT ![t] = kind[t]]
        /\ UNCHANGED <<thisThreadTurn, readOrWritesRequested>>
    BY <1>2 DEF Recheck, IInv, TypeOK, Pending
  <2>2. CASE ~MustWait(kind[t], thisThreadTurn[t]) /\ Enter(t, kind[t])
    BY <2>1, <2>2, EnterKeepsIInv
  <2>3. CASE MustWait(kind[t], thisThreadTurn[t]) /\ WaitForTurn(t)
    BY <2>1, <2>3, WaitKeepsIInv
  <2> QED  BY <1>2, <2>2, <2>3 DEF Recheck, EnterOrWait
<1>3. ASSUME UNCHANGED vars PROVE IInv'
  BY <1>3 DEF vars, IInv, TypeOK, CountsInv, TicketsInv, WritersAlone, NoLostWakeup, Inside,
              Pending, MustWait, readRequirementsViolated, writeRequirementsViolated
<1> QED
  BY <1>1, <1>2, <1>3, WakeKeepsIInv, EndReadKeepsIInv, EndWriteKeepsIInv DEF Next, End

LEMMA Invariance == Spec => []IInv
<1> QED  BY InitIInv, NextIInv, PTL DEF Spec

-----------------------------------------------------------------------------
\* Writers are alone, in every reachable state (FairReadWriteLock.java:13-59).
THEOREM Exclusion == Spec => []WritersAlone
<1>1. IInv => WritersAlone  BY DEF IInv
<1> QED  BY <1>1, Invariance, PTL

\* A thread asleep has nothing to do: notifyAll() is called wherever it must be.
THEOREM WakeUps == Spec => []NoLostWakeup
<1>1. IInv => NoLostWakeup  BY DEF IInv
<1> QED  BY <1>1, Invariance, PTL

\* The types, and counters that are never negative.
THEOREM TypeCorrectness == Spec => []TypeOK
<1>1. IInv => TypeOK  BY DEF IInv
<1> QED  BY <1>1, Invariance, PTL

-----------------------------------------------------------------------------
(* The refinement. mode and ahead are what Fifo substitutes for the variables *)
(* of FifoLock.                                                               *)
mode == [t \in Thread |-> IF t \in Pending THEN "pending" ELSE pc[t]]
ahead == [t \in Thread |->
            {u \in Pending : t \in Pending /\ thisThreadTurn[u] < thisThreadTurn[t]}]

\* Who is waiting and who holds the lock, in the terms of both modules.
LEMMA Correspondence ==
    ASSUME TypeOK
    PROVE  /\ Fifo!Waiting = Pending
           /\ Fifo!Holders = {t \in Thread : pc[t] = "inside"}
           /\ \A k \in Kind : Fifo!Compatible(k) <=>
                                \A h \in Thread : pc[h] = "inside" => k = "read" /\ kind[h] = "read"
<1>1. Fifo!Waiting = Pending
  BY DEF Fifo!Waiting, Pending, TypeOK
<1>2. Fifo!Holders = {t \in Thread : pc[t] = "inside"}
  BY DEF Fifo!Holders, Pending, TypeOK
<1> QED  BY <1>1, <1>2 DEF Fifo!Compatible

\* A request whose condition is false is compatible with the threads inside.
LEMMA FreeMeansCompatible ==
    ASSUME IInv, NEW k \in Kind, NEW ticket \in Nat, ~MustWait(k, ticket)
    PROVE  Fifo!Compatible(k)
<1> USE DEF IInv
<1>1. Inside("write") = {}
  BY CountZero DEF MustWait, readRequirementsViolated, writeRequirementsViolated,
                   CountsInv, TypeOK, Kind
<1>2. k = "write" => Inside("read") = {}
  BY CountZero DEF MustWait, readRequirementsViolated, writeRequirementsViolated,
                   CountsInv, TypeOK
<1>3. \A h \in Thread : pc[h] = "inside" => k = "read" /\ kind[h] = "read"
  BY <1>1, <1>2 DEF Inside, TypeOK, Kind
<1> QED  BY <1>3, Correspondence

LEMMA InitRefines == Init => Fifo!Init
<1> SUFFICES ASSUME Init PROVE Fifo!Init
  OBVIOUS
<1>1. Pending = {}
  BY DEF Init, Pending
<1> QED  BY <1>1 DEF Init, Fifo!Init

\* A request that finds its turn come asks for the lock and gets it.
LEMMA BeginEntersRefines ==
    ASSUME IInv, NEW t \in Thread, NEW k \in Kind, Begin(t, k),
           ~MustWait(k, readOrWritesRequested), Enter(t, k)
    PROVE  Fifo!AskAndGet(t, k)
<1> USE DEF IInv
<1>1. Pending = {} /\ Pending' = {}
  <2>1. overallTurn >= readOrWritesRequested
    BY BoundIsNat DEF MustWait, TypeOK
  <2>2. Pending = {}
    BY <2>1, BoundIsNat DEF TicketsInv, TypeOK, Pending
  <2> QED  BY <2>2 DEF Pending, Enter, MoveNotifyAll, TypeOK
<1>2. mode[t] = "out" /\ mode' = [mode EXCEPT ![t] = "inside"]
  <2>1. pc[t] = "out"
    BY DEF Begin
  <2>2. \A u \in Thread : mode[u] = pc[u] /\ mode'[u] = pc'[u]
    BY <1>1 DEF mode
  <2>3. \A u \in Thread : pc'[u] = IF u = t THEN "inside" ELSE pc[u]
    BY <1>1 DEF Enter, MoveNotifyAll, Pending
  <2> QED  BY <2>1, <2>2, <2>3 DEF mode
<1>3. ahead' = ahead
  BY <1>1 DEF ahead
<1>4. readOrWritesRequested \in Nat
  BY BoundIsNat DEF TypeOK
<1>5. Fifo!Waiting = {} /\ Fifo!Compatible(k)
  BY <1>1, <1>4, Correspondence, FreeMeansCompatible
<1> QED  BY <1>2, <1>3, <1>5 DEF Fifo!AskAndGet, mode, ahead, Begin

\* A request that must wait comes after all that wait already.
LEMMA BeginWaitsRefines ==
    ASSUME IInv, NEW t \in Thread, NEW k \in Kind, Begin(t, k), WaitForTurn(t)
    PROVE  Fifo!Ask(t, k)
<1> USE DEF IInv
<1>1. /\ pc[t] = "out" /\ t \notin Pending
      /\ Pending' = Pending \cup {t}
      /\ \A u \in Thread \ {t} : pc'[u] = pc[u] /\ thisThreadTurn'[u] = thisThreadTurn[u]
  BY DEF Begin, WaitForTurn, Pending, TypeOK
<1>2. \A u \in Pending : thisThreadTurn'[u] < thisThreadTurn'[t]
  <2>1. thisThreadTurn'[t] = readOrWritesRequested
    BY DEF Begin, TypeOK
  <2>2. \A u \in Pending : thisThreadTurn'[u] = thisThreadTurn[u]
    BY <1>1 DEF Pending
  <2> QED  BY <2>1, <2>2, BoundIsNat DEF TicketsInv, TypeOK
<1>3. mode[t] = "out" /\ mode' = [mode EXCEPT ![t] = "pending"]
  BY <1>1 DEF mode, Pending
<1>4. ahead' = [ahead EXCEPT ![t] = Pending]
  <2>1. ahead'[t] = Pending
    <3>1. thisThreadTurn'[t] \in Nat
      BY BoundIsNat DEF Begin, TypeOK
    <3> QED  BY <1>1, <1>2, <3>1 DEF ahead
  <2>2. ASSUME NEW u \in Thread, u # t PROVE ahead'[u] = ahead[u]
    <3>1. CASE u \in Pending
      <4>1. ~(thisThreadTurn'[t] < thisThreadTurn'[u])
        BY <1>2, <3>1, BoundIsNat DEF Begin, TypeOK, Pending
      <4>2. \A v \in Pending : thisThreadTurn'[v] = thisThreadTurn[v]
        BY <1>1 DEF Pending
      <4> QED  BY <1>1, <2>2, <3>1, <4>1, <4>2 DEF ahead
    <3>2. CASE u \notin Pending
      BY <1>1, <2>2, <3>2 DEF ahead
    <3> QED  BY <3>1, <3>2
  <2> QED  BY <2>1, <2>2 DEF ahead
<1> QED  BY <1>1, <1>3, <1>4, Correspondence DEF Fifo!Ask, mode, ahead, Begin

\* Who gets the lock after waiting has nobody ahead of it.
LEMMA RecheckEntersRefines ==
    ASSUME IInv, NEW t \in Thread, Recheck(t),
           ~MustWait(kind[t], thisThreadTurn[t]), Enter(t, kind[t])
    PROVE  Fifo!Get(t)
<1> USE DEF IInv
<1>1. /\ t \in Pending
      /\ Pending' = Pending \ {t}
      /\ pc'[t] = "inside"
      /\ \A u \in Thread \ {t} : (u \in Pending <=> u \in Pending') /\ (u \notin Pending => pc'[u] = pc[u])
      /\ UNCHANGED <<kind, thisThreadTurn>>
  BY DEF Recheck, Enter, MoveNotifyAll, Pending, TypeOK
<1>2. mode[t] = "pending" /\ mode' = [mode EXCEPT ![t] = "inside"]
  BY <1>1 DEF mode, Pending
<1>3. ahead[t] = {}
  BY <1>1, BoundIsNat DEF ahead, MustWait, TicketsInv, TypeOK, Pending
<1>4. ahead' = [u \in Thread |-> ahead[u] \ {t}]
  <2>1. ASSUME NEW u \in Thread PROVE ahead'[u] = ahead[u] \ {t}
    <3>1. CASE u = t
      BY <1>1, <1>3, <3>1 DEF ahead
    <3>2. CASE u # t
      BY <1>1, <3>2 DEF ahead
    <3> QED  BY <3>1, <3>2
  <2> QED  BY <2>1 DEF ahead
<1>5. Fifo!Compatible(kind[t])
  BY FreeMeansCompatible DEF TypeOK
<1> QED  BY <1>1, <1>2, <1>3, <1>4, <1>5 DEF Fifo!Get, mode, ahead

\* Leaving releases the lock, and changes nobody's place.
LEMMA EndRefines ==
    ASSUME IInv, NEW t \in Thread, End(t)
    PROVE  Fifo!Release(t)
<1> USE DEF IInv
<1>1. /\ pc[t] = "inside" /\ UNCHANGED <<kind, thisThreadTurn>>
      /\ MoveNotifyAll(t, "out") \/ pc' = [pc EXCEPT ![t] = "out"]
  BY DEF End, EndRead, EndWrite
<1>2. /\ Pending' = Pending /\ t \notin Pending /\ pc'[t] = "out"
      /\ \A u \in Thread \ {t} : u \notin Pending => pc'[u] = pc[u]
  BY <1>1 DEF Pending, MoveNotifyAll, TypeOK
<1>3. mode[t] = "inside" /\ mode' = [mode EXCEPT ![t] = "out"]
  BY <1>1, <1>2 DEF mode
<1>4. ahead' = ahead
  BY <1>1, <1>2 DEF ahead
<1> QED  BY <1>1, <1>3, <1>4 DEF Fifo!Release, mode, ahead

\* Moving between waiting and notified is not seen from outside.
LEMMA StutterRefines ==
    ASSUME IInv, NEW t \in Pending, pc' = [pc EXCEPT ![t] = "waiting"] \/ pc' = [pc EXCEPT ![t] = "notified"],
           UNCHANGED <<kind, thisThreadTurn>>
    PROVE  UNCHANGED Fifo!vars
<1>1. Pending' = Pending /\ \A u \in Thread : u \notin Pending => pc'[u] = pc[u]
  BY DEF IInv, TypeOK, Pending
<1>2. mode' = mode /\ ahead' = ahead
  BY <1>1 DEF mode, ahead
<1> QED  BY <1>2 DEF Fifo!vars, mode, ahead

LEMMA StepRefines == IInv /\ [Next]_vars => [Fifo!Next]_(Fifo!vars)
<1> SUFFICES ASSUME IInv, [Next]_vars PROVE Fifo!Next \/ UNCHANGED Fifo!vars
  OBVIOUS
<1>1. ASSUME NEW t \in Thread, NEW k \in Kind, Begin(t, k) PROVE Fifo!Next
  <2>1. Fifo!Ask(t, k) \/ Fifo!AskAndGet(t, k)
    BY <1>1, BeginEntersRefines, BeginWaitsRefines DEF Begin, EnterOrWait
  <2> QED  BY <2>1 DEF Fifo!Next, Kind
<1>2. ASSUME NEW t \in Thread, Recheck(t) PROVE Fifo!Next \/ UNCHANGED Fifo!vars
  <2>1. CASE ~MustWait(kind[t], thisThreadTurn[t]) /\ Enter(t, kind[t])
    BY <1>2, <2>1, RecheckEntersRefines DEF Fifo!Next
  <2>2. CASE WaitForTurn(t)
    BY <1>2, <2>2, StutterRefines DEF Recheck, WaitForTurn, Pending
  <2> QED  BY <1>2, <2>1, <2>2 DEF Recheck, EnterOrWait
<1>3. ASSUME NEW t \in Thread, WakeUnnotified(t) PROVE UNCHANGED Fifo!vars
  BY <1>3, StutterRefines DEF WakeUnnotified, Pending
<1>4. ASSUME NEW t \in Thread, End(t) PROVE Fifo!Next
  BY <1>4, EndRefines DEF Fifo!Next
<1>5. ASSUME UNCHANGED vars PROVE UNCHANGED Fifo!vars
  BY <1>5 DEF vars, Fifo!vars, Pending
<1> QED  BY <1>1, <1>2, <1>3, <1>4, <1>5 DEF Next

\* The monitor implements the first-come-first-served lock
\* (FairReadWriteLock.java:14-22 and 34-42).
THEOREM ImplementsFifoLock == Spec => FirstComeFirstServed
<1> QED  BY InitRefines, StepRefines, Invariance, PTL DEF Spec, FirstComeFirstServed, Fifo!Spec
=============================================================================
