----------------------------- MODULE TimeStamp -----------------------------
(***************************************************************************)
(* project4/TimeStamp.java: a Lamport timestamp, the pair of a logical     *)
(* clock and a process identifier, the three ways a server moves its       *)
(* clock, and the comparison by which pending requests are ordered.        *)
(***************************************************************************)
EXTENDS Integers

\* The objects of class TimeStamp whose processes are in P.
Stamps(P) == [logicalClock : Nat, processID : P]

\* The constructor.
Stamp(c, p) == [logicalClock |-> c, processID |-> p]

\* 1 if a comes first, 0 if they are the same stamp, -1 if b comes first.
compare(a, b) ==
  IF \/ a.logicalClock < b.logicalClock
     \/ a.logicalClock = b.logicalClock /\ a.processID < b.processID
  THEN 1
  ELSE IF a.logicalClock = b.logicalClock /\ a.processID = b.processID
       THEN 0
       ELSE -1

\* setLogicalClockInternal and setLogicalClockSend: the same increment.
Tick(c) == c + 1

\* Mutant of Receive: the received clock is ignored.
ReceiveLocal(c, received) == c + 1

\* setLogicalClockReceive: past both the local and the received clock.
Receive(c, received) == (IF c < received THEN received ELSE c) + 1
=============================================================================
