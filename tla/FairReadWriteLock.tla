-------------------------- MODULE FairReadWriteLock --------------------------
(* FairReadWriteLock.java of project2: a monitor that lets readers and       *)
(* writers in, in the order of the tickets they draw. All its methods are    *)
(* synchronized, so a step is what a thread does from taking the monitor to  *)
(* wait() or to the end of the method. The model is of one lock object (the  *)
(* counters are static).                                                     *)
EXTENDS Integers, FiniteSets

CONSTANTS Thread,           \* the threads that use the lock
          MaxRequests       \* bound: how many tickets are drawn

ASSUME ThreadAssumption == IsFiniteSet(Thread)

\* Below the range of int: the tickets do not wrap.
ASSUME RequestsAssumption == MaxRequests \in Nat /\ MaxRequests <= 2147483647

VARIABLES numberOfReaders, numberOfWriters, readOrWritesRequested, overallTurn,
          pc,               \* where each thread is: see TypeOK
          kind,             \* the method of its last request
          thisThreadTurn    \* its ticket

counters == <<numberOfReaders, numberOfWriters>>
vars == <<numberOfReaders, numberOfWriters, readOrWritesRequested, overallTurn,
          pc, kind, thisThreadTurn>>

Kind == {"read", "write"}

Init ==
    /\ numberOfReaders = 0
    /\ numberOfWriters = 0
    /\ readOrWritesRequested = 0
    /\ overallTurn = 0
    /\ pc = [t \in Thread |-> "out"]
    /\ kind = [t \in Thread |-> "read"]
    /\ thisThreadTurn = [t \in Thread |-> 0]

-----------------------------------------------------------------------------
readRequirementsViolated == numberOfWriters > 0

\* Mutant: writers look at writers only.
WritersOnly == numberOfWriters > 0

writeRequirementsViolated == numberOfReaders > 0 \/ numberOfWriters > 0

\* Mutant: the turn is not tested.
MustWaitOutOfTurn(k, ticket) ==
    \/ k = "read" /\ readRequirementsViolated
    \/ k = "write" /\ writeRequirementsViolated

\* The condition of the while loops: a request of kind k keeps waiting.
MustWait(k, ticket) ==
    \/ k = "read" /\ readRequirementsViolated
    \/ k = "write" /\ writeRequirementsViolated
    \/ overallTurn < ticket

\* notifyAll() after thread t moved to place: the others that wait contend for
\* the monitor again.
MoveNotifyAll(t, place) ==
    pc' = [u \in Thread |-> IF u = t THEN place
                            ELSE IF pc[u] = "waiting" THEN "notified" ELSE pc[u]]

\* Mutant: who enters tells nobody that the turn has moved.
EnterQuietly(t, k) ==
    /\ overallTurn' = overallTurn + 1
    /\ numberOfReaders' = numberOfReaders + (IF k = "read" THEN 1 ELSE 0)
    /\ numberOfWriters' = numberOfWriters + (IF k = "write" THEN 1 ELSE 0)
    /\ pc' = [pc EXCEPT ![t] = "inside"]

\* What follows the loop.
Enter(t, k) ==
    /\ overallTurn' = overallTurn + 1
    /\ numberOfReaders' = numberOfReaders + (IF k = "read" THEN 1 ELSE 0)
    /\ numberOfWriters' = numberOfWriters + (IF k = "write" THEN 1 ELSE 0)
    /\ MoveNotifyAll(t, "inside")

WaitForTurn(t) ==
    /\ pc' = [pc EXCEPT ![t] = "waiting"]
    /\ UNCHANGED <<counters, overallTurn>>

EnterOrWait(t, k, ticket) ==
    \/ ~MustWait(k, ticket) /\ Enter(t, k)
    \/ MustWait(k, ticket) /\ WaitForTurn(t)

\* beginRead() and beginWrite() from the call to the first wait() or the end.
Begin(t, k) ==
    /\ pc[t] = "out"
    /\ readOrWritesRequested < MaxRequests
    /\ thisThreadTurn' = [thisThreadTurn EXCEPT ![t] = readOrWritesRequested]
    /\ readOrWritesRequested' = readOrWritesRequested + 1
    /\ kind' = [kind EXCEPT ![t] = k]
    /\ EnterOrWait(t, k, readOrWritesRequested)

\* A notified thread has the monitor again and tests its condition.
Recheck(t) ==
    /\ pc[t] = "notified"
    /\ EnterOrWait(t, kind[t], thisThreadTurn[t])
    /\ UNCHANGED <<readOrWritesRequested, kind, thisThreadTurn>>

\* wait() ends without a notification: spuriously, or by an interrupt, whose
\* exception is caught in putThreadToSleep().
WakeUnnotified(t) ==
    /\ pc[t] = "waiting"
    /\ pc' = [pc EXCEPT ![t] = "notified"]
    /\ UNCHANGED <<counters, readOrWritesRequested, overallTurn, kind, thisThreadTurn>>

\* Mutant: the last reader tells nobody.
EndReadQuietly(t) ==
    /\ pc[t] = "inside" /\ kind[t] = "read"
    /\ numberOfReaders' = numberOfReaders - 1
    /\ pc' = [pc EXCEPT ![t] = "out"]
    /\ UNCHANGED <<numberOfWriters, readOrWritesRequested, overallTurn, kind, thisThreadTurn>>

\* Mutant: a reader is taken off the writers.
EndReadAsWriter(t) ==
    /\ pc[t] = "inside" /\ kind[t] = "read"
    /\ numberOfWriters' = numberOfWriters - 1
    /\ pc' = [pc EXCEPT ![t] = "out"]
    /\ UNCHANGED <<numberOfReaders, readOrWritesRequested, overallTurn, kind, thisThreadTurn>>

EndRead(t) ==
    /\ pc[t] = "inside" /\ kind[t] = "read"
    /\ numberOfReaders' = numberOfReaders - 1
    /\ IF numberOfReaders' = 0
       THEN MoveNotifyAll(t, "out")
       ELSE pc' = [pc EXCEPT ![t] = "out"]
    /\ UNCHANGED <<numberOfWriters, readOrWritesRequested, overallTurn, kind, thisThreadTurn>>

EndWrite(t) ==
    /\ pc[t] = "inside" /\ kind[t] = "write"
    /\ numberOfWriters' = numberOfWriters - 1
    /\ IF numberOfWriters' = 0
       THEN MoveNotifyAll(t, "out")
       ELSE pc' = [pc EXCEPT ![t] = "out"]
    /\ UNCHANGED <<numberOfReaders, readOrWritesRequested, overallTurn, kind, thisThreadTurn>>

End(t) == EndRead(t) \/ EndWrite(t)

Next ==
    \E t \in Thread :
        \/ \E k \in Kind : Begin(t, k)
        \/ Recheck(t)
        \/ WakeUnnotified(t)
        \/ End(t)

Spec == Init /\ [][Next]_vars

\* A thread that contends for the monitor gets it at some time (nobody holds it
\* while waiting), and who has the lock gives it back.
FairSpec ==
    /\ Spec
    /\ \A t \in Thread : WF_vars(Recheck(t)) /\ WF_vars(End(t))

-----------------------------------------------------------------------------
\* The threads in the loop of a begin method, and those after it.
Pending == {t \in Thread : pc[t] \in {"waiting", "notified"}}
Inside(k) == {t \in Thread : pc[t] = "inside" /\ kind[t] = k}

\* Every variable has its type; no end method counts a thread that is not there.
TypeOK ==
    /\ numberOfReaders \in Nat
    /\ numberOfWriters \in Nat
    /\ readOrWritesRequested \in 0 .. MaxRequests
    /\ overallTurn \in Nat
    /\ pc \in [Thread -> {"out", "waiting", "notified", "inside"}]
    /\ kind \in [Thread -> Kind]
    /\ thisThreadTurn \in [Thread -> Nat]

\* A writer between beginWrite() and endWrite() is there alone, whatever the
\* order in which threads are woken and take the monitor.
WritersAlone ==
    \A w \in Inside("write") : Inside("read") = {} /\ Inside("write") = {w}

\* No wake-up is lost: a thread sleeps in wait() only while its condition is
\* false, since every change that can make it true ends with notifyAll(). The
\* end methods leave it out when others are still inside.
NoLostWakeup ==
    \A t \in Thread : pc[t] = "waiting" => MustWait(kind[t], thisThreadTurn[t])

\* The lock is a first-come-first-served readers-writers lock: drawing a ticket
\* is asking, and who has a smaller ticket and is not inside is ahead.
Fifo ==
    INSTANCE FifoLock WITH
        mode <- [t \in Thread |-> IF t \in Pending THEN "pending" ELSE pc[t]],
        ahead <- [t \in Thread |->
                    {u \in Pending : t \in Pending /\ thisThreadTurn[u] < thisThreadTurn[t]}]

FirstComeFirstServed == Fifo!Spec

\* No reader and no writer waits for ever: new requests of the other kind do
\* not overtake it, and each change of turn wakes whoever is next.
NoStarvation == \A t \in Thread : t \in Pending ~> pc[t] = "inside"

=============================================================================
