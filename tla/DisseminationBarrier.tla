------------------------ MODULE DisseminationBarrier ------------------------
(***************************************************************************)
(* MPIR_Barrier_intra of src/project5/src/mpich-3.2/src/mpi/coll/barrier.c *)
(* on a communicator of N ranks that is not node aware.  In the step with  *)
(* distance mask a rank sends an empty message mask ranks ahead and waits  *)
(* for one from mask ranks behind; mask doubles until it reaches N.  No    *)
(* rank hears from every other one, and the messages of two rounds of the  *)
(* barrier cannot be told apart: only their number counts.                 *)
(* DisseminationInit and the like have their prefix because BarrierProofs  *)
(* extends this module beside MonitorCyclicBarrier.                        *)
(***************************************************************************)
EXTENDS Integers

CONSTANT N      \* the size of the communicator

Peer == 0 .. N - 1     \* the ranks of the communicator

VARIABLES entered,      \* the number of barriers each rank has called
          left,         \* the number of them it has returned from
          mask,         \* the distance of the step it is in, 0 outside
          sending,      \* whether it has yet to send in that step
          sent,         \* sent[s][d]: messages s has sent to d
          received      \* received[s][d]: those of them that d has received

disseminationVars == <<entered, left, mask, sending, sent, received>>

DisseminationTypeOK ==
  /\ entered \in [Peer -> Nat]
  /\ left \in [Peer -> Nat]
  /\ mask \in [Peer -> 0 .. N - 1]
  /\ sending \in [Peer -> BOOLEAN]
  /\ sent \in [Peer -> [Peer -> Nat]]
  /\ received \in [Peer -> [Peer -> Nat]]

DisseminationInit ==
  /\ entered = [r \in Peer |-> 0]
  /\ left = [r \in Peer |-> 0]
  /\ mask = [r \in Peer |-> 0]
  /\ sending = [r \in Peer |-> FALSE]
  /\ sent = [s \in Peer |-> [d \in Peer |-> 0]]
  /\ received = [s \in Peer |-> [d \in Peer |-> 0]]

Ahead(r, distance) == (r + distance) % N

Behind(r, distance) == (r - distance + N) % N

-----------------------------------------------------------------------------
Enter(r) ==
  /\ entered[r] = left[r]
  /\ N > 1
  /\ entered' = [entered EXCEPT ![r] = @ + 1]
  /\ mask' = [mask EXCEPT ![r] = 1]
  /\ sending' = [sending EXCEPT ![r] = TRUE]
  /\ UNCHANGED <<left, sent, received>>

(* "Trivial barriers return immediately." *)
EnterAlone(r) ==
  /\ entered[r] = left[r]
  /\ N = 1
  /\ entered' = [entered EXCEPT ![r] = @ + 1]
  /\ left' = [left EXCEPT ![r] = @ + 1]
  /\ UNCHANGED <<mask, sending, sent, received>>

Send(r) ==
  /\ sending[r]
  /\ sending' = [sending EXCEPT ![r] = FALSE]
  /\ sent' = [sent EXCEPT ![r][Ahead(r, mask[r])] = @ + 1]
  /\ UNCHANGED <<entered, left, mask, received>>

(* The wait for the message from behind, and the loop's mask <<= 1. *)
TakeMessage(r) ==
  LET s == Behind(r, mask[r]) IN
  /\ left[r] < entered[r]
  /\ ~sending[r]
  /\ received[s][r] < sent[s][r]
  /\ received' = [received EXCEPT ![s][r] = @ + 1]

NextStep(r) ==
  /\ TakeMessage(r)
  /\ 2 * mask[r] < N
  /\ mask' = [mask EXCEPT ![r] = 2 * @]
  /\ sending' = [sending EXCEPT ![r] = TRUE]
  /\ UNCHANGED <<entered, left, sent>>

Leave(r) ==
  /\ TakeMessage(r)
  /\ 2 * mask[r] >= N
  /\ mask' = [mask EXCEPT ![r] = 0]
  /\ left' = [left EXCEPT ![r] = @ + 1]
  /\ UNCHANGED <<entered, sending, sent>>

DisseminationNext ==
  \E r \in Peer :
    Enter(r) \/ EnterAlone(r) \/ Send(r) \/ NextStep(r) \/ Leave(r)

DisseminationSpec == DisseminationInit /\ [][DisseminationNext]_disseminationVars

-----------------------------------------------------------------------------
(* The promise of barrier.c: no rank leaves a round another has not entered. *)
Abstract == INSTANCE RoundBarrier WITH Thread <- Peer

ImplementsBarrier == Abstract!Spec
=============================================================================
