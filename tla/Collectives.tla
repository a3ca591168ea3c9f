----------------------------- MODULE Collectives -----------------------------
(***************************************************************************)
(* The collective operations the matrix program calls, as the vendored     *)
(* MPICH carries them out (src/project5/src/mpich-3.2/src/mpi/coll): for   *)
(* each rank, the sequence of point-to-point operations it goes through.   *)
(* Process 0 is the root of every collective.                              *)
(*                                                                         *)
(* node[r] is the machine rank r runs on.  When some machine runs several  *)
(* ranks, MPI_COMM_WORLD is node aware: the ranks of a machine have a      *)
(* communicator of their own ("node"), and so have the first ranks of all  *)
(* machines ("roots").                                                     *)
(***************************************************************************)
EXTENDS Integers, Sequences, SequencesExt

CONSTANTS N,                    \* number_of_processes
          GathervSsendMinProcs  \* MPIR_CVAR_GATHERV_INTER_SSEND_MIN_PROCS

(* From that many processes on, by default 32, MPI_Gatherv uses synchronous  *)
(* sends, whose packets MessageQueues does not have.                         *)
ASSUME StandardSendAssumption ==
  GathervSsendMinProcs \in Nat /\ N < GathervSsendMinProcs

Process == 0 .. N - 1

-----------------------------------------------------------------------------
(* Point-to-point operations: MPIC_Irecv, MPIC_Isend, MPIC_Wait(all). *)
IRecv(peer, tag, context) ==
  [kind |-> "irecv", peer |-> peer, tag |-> tag, context |-> context]

ISend(peer, tag, context) ==
  [kind |-> "isend", peer |-> peer, tag |-> tag, context |-> context]

Wait == [kind |-> "wait"]

-----------------------------------------------------------------------------
(* MPIU_Find_local_and_external and MPIR_Comm_commit. *)
NodeMembers(node, r) == {q \in Process : node[q] = node[r]}

NodeRoots(node) ==
  {q \in Process : \A p \in NodeMembers(node, q) : q <= p}

NodeAware(node) == NodeRoots(node) # Process

(* r's rank in a communicator, and the process that has a rank in it. *)
RankIn(members, r) == Cardinality({q \in members : q < r})

ProcessAt(members, rank) ==
  CHOOSE q \in members : RankIn(members, q) = rank

(* The loops over some of 0 .. N - 1. *)
Ascending(S) == [i \in 1 .. Cardinality(S) |-> ProcessAt(S, i - 1)]

Descending(S) == Reverse(Ascending(S))

(* The values mask takes below the size of a communicator. *)
Masks(size) ==
  LET mask[k \in 0 .. size] == IF k = 0 THEN 1 ELSE 2 * mask[k - 1]
  IN  {mask[k] : k \in 0 .. size} \intersect (1 .. size - 1)

HasBit(rank, m) == (rank \div m) % 2 = 1

-----------------------------------------------------------------------------
(***************************************************************************)
(* MPIR_Bcast_binomial: a rank receives from the one with its lowest bit   *)
(* cleared, and sends to those it has set no lower bit of, farthest first. *)
(***************************************************************************)
BinomialBcast(members, context, r) ==
  LET size == Cardinality(members)
      rank == RankIn(members, r)
      bits == {m \in Masks(size) : HasBit(rank, m)}
      lower == {m \in Masks(size) : \A b \in bits : m < b}
      lowest == CHOOSE b \in bits : \A c \in bits : b <= c
      sends == Descending({m \in lower : rank + m < size})
  IN  (IF bits = {} THEN <<>>
       ELSE <<IRecv(ProcessAt(members, rank - lowest), "bcast", context), Wait>>)
      \o [i \in DOMAIN sends |->
           ISend(ProcessAt(members, rank + sends[i]), "bcast", context)]

\* Mutant: the loop over the masks ends after its first step.
DisseminationOnce(members, context, r) ==
  LET size == Cardinality(members)
      rank == RankIn(members, r)
  IN  IF size = 1 THEN <<>>
      ELSE <<IRecv(ProcessAt(members, (rank - 1 + size) % size), "barrier", context),
             ISend(ProcessAt(members, (rank + 1) % size), "barrier", context),
             Wait>>

(* MPIR_Barrier_intra: one MPIC_Sendrecv for each mask. *)
Dissemination(members, context, r) ==
  LET size == Cardinality(members)
      rank == RankIn(members, r)
      masks == Ascending(Masks(size))
  IN  [k \in 1 .. 3 * Len(masks) |->
        LET m == masks[(k + 2) \div 3]
        IN  CASE k % 3 = 1 -> IRecv(ProcessAt(members, (rank - m + size) % size),
                                    "barrier", context)
              [] k % 3 = 2 -> ISend(ProcessAt(members, (rank + m) % size),
                                    "barrier", context)
              [] k % 3 = 0 -> Wait]

(* The part of a collective on "roots", which the others skip. *)
RootsOnly(node, r, operations) ==
  IF r \in NodeRoots(node) THEN operations ELSE <<>>

(* MPIR_Bcast_intra and MPIR_SMP_Bcast on MPI_COMM_WORLD, for a message *)
(* shorter than MPIR_CVAR_BCAST_SHORT_MSG_SIZE.                         *)
Bcast(node, r) ==
  IF NodeAware(node)
  THEN RootsOnly(node, r, BinomialBcast(NodeRoots(node), "roots", r))
         \o BinomialBcast(NodeMembers(node, r), "node", r)
  ELSE BinomialBcast(Process, "world", r)

(* MPIR_Barrier_intra and barrier_smp_intra on MPI_COMM_WORLD; the last *)
(* part releases the ranks of a node with a broadcast of one byte.      *)
Barrier(node, r) ==
  IF NodeAware(node)
  THEN Dissemination(NodeMembers(node, r), "node", r)
         \o RootsOnly(node, r, Dissemination(NodeRoots(node), "roots", r))
         \o BinomialBcast(NodeMembers(node, r), "node", r)
  ELSE Dissemination(Process, "world", r)

(* MPIR_Scatterv: count[p] tells how much p gets. *)
Scatterv(count, r) ==
  LET receivers == Ascending({p \in Process \ {0} : count[p] # 0})
  IN  IF r = 0
      THEN [i \in DOMAIN receivers |-> ISend(receivers[i], "scatterv", "world")]
             \o <<Wait>>
      ELSE <<IRecv(0, "scatterv", "world"), Wait>>

(* MPIR_Gatherv: every other caller sends one vector, whatever its length, *)
(* with MPIC_Send, since N is below GathervSsendMinProcs.                  *)
Gatherv(count, r) ==
  LET senders == Ascending({p \in Process \ {0} : count[p] # 0})
  IN  IF r = 0
      THEN [i \in DOMAIN senders |-> IRecv(senders[i], "gatherv", "world")]
             \o <<Wait>>
      ELSE <<ISend(0, "gatherv", "world"), Wait>>
=============================================================================
