----------------------------- MODULE MatrixMult -----------------------------
(***************************************************************************)
(* The matrix-vector product of src/project5/src/mpi/test/matrix_mult.c,   *)
(* with the collectives (Collectives) and the message queues               *)
(* (MessageQueues) of the vendored MPICH it runs on.                       *)
(*                                                                         *)
(* Rank 0 reads a matrix of rows by cols numbers and a vector.  Every rank *)
(* learns both sizes; the ranks below rows get a chunk of the rows and the *)
(* vector and multiply; rank 0 collects the products and writes them.  The *)
(* others go straight to the barrier that ends the program.                *)
(*                                                                         *)
(* A rank goes through the point-to-point operations of a stage one by     *)
(* one.  It handles packets only while it waits, since it has one thread.  *)
(***************************************************************************)
EXTENDS MessageQueues, Collectives

CONSTANTS Input,            \* the inputs and placements of a run
          EagerThreshold    \* the longest eager message, in bytes

(* The sizes and the vector, of at most 1000 integers, are always eager. *)
ASSUME InputAssumption ==
  /\ N \in Nat \ {0} /\ Rank = Process /\ EagerThreshold \in Nat
  /\ Handle = {"send", "recv"} \X Process
  /\ {"bcast", "barrier", "scatterv", "gatherv"} \subseteq Tag
  /\ {"world", "node", "roots"} \subseteq Context
  /\ \A i \in Input : /\ {i.rows, i.cols} \subseteq Nat /\ i.files \in BOOLEAN
                      /\ EagerThreshold >= 4 * i.cols + 4
                      /\ DOMAIN i.node = Process

VARIABLES input,     \* the files, and the machine each rank runs on
          stage,     \* the part of main each rank is in
          step,      \* its next point-to-point operation there
          errflag,   \* whether an operation of its collective failed
          fate,      \* how its process ended before it was done
          memory,    \* its variables
          result     \* what rank 0 wrote to result.txt

programVars == <<input, stage, step, errflag, fate, memory, result>>

vars == <<channel, posted, unexpected, request,
          input, stage, step, errflag, fate, memory, result>>

IntegerBytes == 4

Stage == {"files", "rows", "cols", "chunk", "vector", "products", "barrier",
          "done"}

Failed == {"returned", "crashed", "aborted"}

Sequence == Seq(Int)

TypeOK ==
  /\ QueuesTypeOK
  /\ input \in Input
  /\ stage \in [Process -> Stage]
  /\ step \in [Process -> Nat]
  /\ errflag \in [Process -> BOOLEAN]
  /\ fate \in [Process -> Failed \union {"running", "killed"}]
  /\ memory \in [Process -> [rows : Nat, cols : Nat, chunk : Sequence,
                             vector : Sequence, products : [Process -> Sequence]]]
  /\ result \in Sequence

-----------------------------------------------------------------------------
(* The numbers in the files, all different. *)
Matrix(i) == [k \in 1 .. i.rows * i.cols |-> k]

Vector(i) == [k \in 1 .. i.cols |-> k + 1]

(* Lines 76-92: the loop over the processes, which deals the rows that are *)
(* left over to the first ones.                                            *)
ChunkSize(rows, cols, p) ==
  (rows \div N) * cols + (IF p < rows % N THEN cols ELSE 0)

ChunkStart(rows, cols, p) ==
  LET start[q \in 0 .. p] ==
        IF q = 0 THEN 0 ELSE start[q - 1] + ChunkSize(rows, cols, q - 1)
  IN  start[p]

RowCount(rows, cols, p) == ChunkSize(rows, cols, p) \div cols

RowStart(rows, cols, p) == ChunkStart(rows, cols, p) \div cols

(* Lines 124-145: the loop that multiplies the rows of a chunk. *)
Product(row, v) ==
  LET sum[k \in 0 .. Len(v)] == IF k = 0 THEN 0 ELSE sum[k - 1] + row[k] * v[k]
  IN  sum[Len(v)]

\* Mutant: the rows of a chunk overlap by one number.
ComputeOverlapping(chunk, v, rowCount) ==
  [k \in 1 .. rowCount |->
    Product(SubSeq(chunk, (k - 1) * (Len(v) - 1) + 1, Len(chunk)), v)]

Compute(chunk, v, rowCount) ==
  [k \in 1 .. rowCount |->
    Product(SubSeq(chunk, (k - 1) * Len(v) + 1, k * Len(v)), v)]

-----------------------------------------------------------------------------
Init ==
  /\ QueuesInit
  /\ input \in Input
  /\ stage = [r \in Process |-> IF r = 0 THEN "files" ELSE "rows"]
  /\ step = [r \in Process |-> 1]
  /\ errflag = [r \in Process |-> FALSE]
  /\ fate = [r \in Process |-> "running"]
  /\ memory = [r \in Process |->
                [rows |-> 0, cols |-> 0, chunk |-> <<>>, vector |-> <<>>,
                 products |-> [p \in Process |-> <<>>]]]
  /\ result = <<>>

(* The counts rank r computed, of integers and of rows. *)
SendCounts(r) ==
  [p \in Process |-> ChunkSize(memory[r].rows, memory[r].cols, p)]

RowCounts(r) ==
  [p \in Process |-> RowCount(memory[r].rows, memory[r].cols, p)]

(* The collectives that depend on the placement alone. *)
BcastOf == [i \in Input |-> [r \in Process |-> Bcast(i.node, r)]]

BarrierOf == [i \in Input |-> [r \in Process |-> Barrier(i.node, r)]]

(* The operations of the collective rank r is in. *)
Operations(r) ==
  CASE stage[r] \in {"rows", "cols", "vector"} -> BcastOf[input][r]
    [] stage[r] = "chunk" -> Scatterv(SendCounts(r), r)
    [] stage[r] = "products" -> Gatherv(RowCounts(r), r)
    [] stage[r] = "barrier" -> BarrierOf[input][r]
    [] OTHER -> <<>>

InOperation(r, kind) ==
  /\ step[r] \in DOMAIN Operations(r)
  /\ Operations(r)[step[r]].kind = kind

(***************************************************************************)
(* What rank r sends to p with tag.  A message of the barrier is empty,    *)
(* and the one that ends it, of one byte, counts as a number.              *)
(***************************************************************************)
Outgoing(r, p, tag) ==
  LET m == memory[r]
      start == ChunkStart(m.rows, m.cols, p)
  IN  CASE tag = "barrier" -> <<>>
        [] tag = "scatterv" ->
             SubSeq(Matrix(input), start + 1,
                    start + ChunkSize(m.rows, m.cols, p))
        [] tag = "gatherv" -> m.products[r]
        [] OTHER -> CASE stage[r] = "rows" -> <<m.rows>>
                      [] stage[r] = "cols" -> <<m.cols>>
                      [] stage[r] = "vector" -> m.vector
                      [] stage[r] = "barrier" -> <<0>>

(* The size of the buffer of rank r for a message from p. *)
Capacity(r, p, tag) ==
  CASE tag = "barrier" -> 0
    [] tag = "scatterv" -> memory[r].rows * memory[r].cols * IntegerBytes
    [] tag = "gatherv" -> RowCounts(r)[p] * IntegerBytes
    [] OTHER -> CASE stage[r] \in {"rows", "cols"} -> IntegerBytes
                  [] stage[r] = "vector" -> memory[r].cols * IntegerBytes
                  [] stage[r] = "barrier" -> 1

Message(r, data, tag) ==
  [data |-> data, error |-> errflag[r],
   size |-> IF stage[r] = "barrier" /\ tag = "bcast" THEN 1
            ELSE Len(data) * IntegerBytes]

-----------------------------------------------------------------------------
Running(r) == fate[r] = "running" /\ stage[r] # "done"

(* The point-to-point operations of a collective: a send is eager or a *)
(* rendezvous, by the size of the message.                             *)
Isend(r) ==
  /\ Running(r)
  /\ InOperation(r, "isend")
  /\ LET op == Operations(r)[step[r]]
         envelope == [source |-> r, tag |-> op.tag, context |-> op.context]
         message == Message(r, Outgoing(r, op.peer, op.tag), op.tag)
     IN  IF message.size <= EagerThreshold
         THEN SendEager(r, op.peer, envelope, message)
         ELSE SendRndv(r, op.peer, <<"send", op.peer>>, envelope, message)
  /\ step' = [step EXCEPT ![r] = @ + 1]
  /\ UNCHANGED <<input, stage, errflag, fate, memory, result>>

Irecv(r) ==
  /\ Running(r)
  /\ InOperation(r, "irecv")
  /\ LET op == Operations(r)[step[r]]
     IN  Receive(r, <<"recv", op.peer>>,
                 [source |-> op.peer, tag |-> op.tag, context |-> op.context])
  /\ step' = [step EXCEPT ![r] = @ + 1]
  /\ UNCHANGED <<input, stage, errflag, fate, memory, result>>

(* The progress engine, which runs while the rank waits. *)
Progress(r) ==
  /\ Running(r)
  /\ InOperation(r, "wait")
  /\ ~AllComplete(r)
  /\ \E s \in Process \ {r} : Deliver(s, r)
  /\ UNCHANGED programVars

\* Mutant: the size of a message is not checked.
FaultyIfMarked(r, p) == request[r][<<"recv", p>>].payload.error

(* A message that carries the error bit, or does not have the right size. *)
Faulty(r, p) ==
  LET tag == Operations(r)[step[r] - 1].tag
      message == request[r][<<"recv", p>>].payload
      capacity == Capacity(r, p, tag)
  IN  \/ message.error
      \/ message.size > capacity
      \/ tag = "bcast" /\ message.size # capacity

WaitDone(r) ==
  LET from == {p \in Process : <<"recv", p>> \in Pending(r)}
      data == [p \in from |-> request[r][<<"recv", p>>].payload.data]
      only == data[CHOOSE p \in from : TRUE]
  IN
  /\ Running(r)
  /\ InOperation(r, "wait")
  /\ Release(r)
  /\ errflag' = [errflag EXCEPT ![r] = @ \/ \E p \in from : Faulty(r, p)]
  /\ memory' =
       IF from = {} \/ stage[r] = "barrier" THEN memory
       ELSE CASE stage[r] = "rows" -> [memory EXCEPT ![r].rows = only[1]]
              [] stage[r] = "cols" -> [memory EXCEPT ![r].cols = only[1]]
              [] stage[r] = "chunk" -> [memory EXCEPT ![r].chunk = only]
              [] stage[r] = "vector" -> [memory EXCEPT ![r].vector = only]
              [] stage[r] = "products" ->
                   [memory EXCEPT ![r].products =
                      [p \in Process |-> IF p \in from THEN data[p] ELSE @[p]]]
  /\ step' = [step EXCEPT ![r] = @ + 1]
  /\ UNCHANGED <<input, stage, fate, result>>

-----------------------------------------------------------------------------
(* The code of main between two collectives. *)
Enter(r, s) ==
  /\ stage' = [stage EXCEPT ![r] = s]
  /\ step' = [step EXCEPT ![r] = 1]
  /\ UNCHANGED <<queueVars, input, errflag, fate>>

End(r, how) ==
  /\ fate' = [fate EXCEPT ![r] = how]
  /\ UNCHANGED <<queueVars, input, stage, step, errflag, memory, result>>

Returned(r, s) ==
  /\ Running(r)
  /\ stage[r] = s
  /\ step[r] > Len(Operations(r))
  /\ ~errflag[r]

(* Every communicator has the handler MPI_ERRORS_ARE_FATAL. *)
CollectiveFails(r) ==
  /\ Running(r)
  /\ step[r] > Len(Operations(r))
  /\ errflag[r]
  /\ End(r, "aborted")

\* Mutant: the counter of the columns starts at -1.
OpenFilesOneLess(r) ==
  /\ Returned(r, "files")
  /\ \/ /\ input.files
        /\ memory' = [memory EXCEPT ![r].rows = input.rows,
                                    ![r].cols = input.cols - 1]
        /\ Enter(r, "rows")
        /\ UNCHANGED result
     \/ /\ ~input.files
        /\ End(r, "returned")

(* Lines 48-68: rank 0 reads the sizes and the vector, or leaves main. *)
OpenFiles(r) ==
  /\ Returned(r, "files")
  /\ \/ /\ input.files
        /\ memory' = [memory EXCEPT ![r].rows = input.rows,
                                    ![r].cols = input.cols]
        /\ Enter(r, "rows")
        /\ UNCHANGED result
     \/ /\ ~input.files
        /\ End(r, "returned")

LearnRows(r) ==
  /\ Returned(r, "rows")
  /\ Enter(r, "cols")
  /\ UNCHANGED <<memory, result>>

(* The ranks that have no row skip the work. *)
SkipWork(r) ==
  /\ Returned(r, "cols")
  /\ r >= memory[r].rows
  /\ Enter(r, "barrier")
  /\ UNCHANGED <<memory, result>>

(* The division by matrix_column_size in line 90. *)
DivideByZero(r) ==
  /\ Returned(r, "cols")
  /\ r < memory[r].rows
  /\ memory[r].cols = 0
  /\ End(r, "crashed")

(* Rank 0 reads the matrix; MPI_Scatterv copies its own chunk. *)
DealRows(r) ==
  /\ Returned(r, "cols")
  /\ r < memory[r].rows
  /\ memory[r].cols > 0
  /\ memory' = IF r = 0
               THEN [memory EXCEPT
                       ![r].vector = Vector(input),
                       ![r].chunk = SubSeq(Matrix(input), 1, SendCounts(r)[0])]
               ELSE memory
  /\ Enter(r, "chunk")
  /\ UNCHANGED result

TakeChunk(r) ==
  /\ Returned(r, "chunk")
  /\ Enter(r, "vector")
  /\ UNCHANGED <<memory, result>>

(***************************************************************************)
(* Lines 124-145.  matrix_computation has a row for each column of the     *)
(* matrix: a chunk of more rows overruns it, which may end the process.    *)
(***************************************************************************)
Multiply(r) ==
  /\ Returned(r, "vector")
  /\ memory' = [memory EXCEPT ![r].products[r] =
                  Compute(memory[r].chunk, memory[r].vector, RowCounts(r)[r])]
  /\ Enter(r, "products")
  /\ UNCHANGED result

OverrunProducts(r) ==
  /\ Returned(r, "vector")
  /\ RowCounts(r)[r] > memory[r].cols
  /\ End(r, "crashed")

(* Lines 158-166: rank 0 writes resultant_vector. *)
Collected(r) ==
  [k \in 1 .. memory[r].rows |->
    LET p == CHOOSE q \in Process :
               k - RowStart(memory[r].rows, memory[r].cols, q)
                 \in 1 .. RowCounts(r)[q]
    IN  memory[r].products[p][k - RowStart(memory[r].rows, memory[r].cols, p)]]

WriteResult(r) ==
  /\ Returned(r, "products")
  /\ result' = IF r = 0 THEN Collected(r) ELSE result
  /\ Enter(r, "barrier")
  /\ UNCHANGED memory

(* resultant_vector has room for as many numbers as the matrix has columns. *)
OverrunResult(r) ==
  /\ Returned(r, "products")
  /\ r = 0
  /\ memory[r].rows > memory[r].cols
  /\ End(r, "crashed")

Finish(r) ==
  /\ Returned(r, "barrier")
  /\ Enter(r, "done")
  /\ UNCHANGED <<memory, result>>

\* Mutant: a process that returned without MPI_Finalize is not noticed.
KillUnlessReturned(r) ==
  /\ Running(r)
  /\ \E p \in Process : fate[p] \in Failed \ {"returned"}
  /\ End(r, "killed")

(* The process manager ends the job when a process ended without MPI_Finalize. *)
Kill(r) ==
  /\ Running(r)
  /\ \E p \in Process : fate[p] \in Failed
  /\ End(r, "killed")

Main(r) ==
  \/ OpenFiles(r) \/ LearnRows(r) \/ SkipWork(r) \/ DivideByZero(r)
  \/ DealRows(r) \/ TakeChunk(r) \/ Multiply(r) \/ OverrunProducts(r)
  \/ WriteResult(r) \/ OverrunResult(r) \/ Finish(r) \/ CollectiveFails(r)

Communicate(r) == Isend(r) \/ Irecv(r) \/ Progress(r) \/ WaitDone(r)

Next == \E r \in Process : Main(r) \/ Communicate(r) \/ Kill(r)

Fairness ==
  \A r \in Process : WF_vars(Main(r) \/ Communicate(r)) /\ WF_vars(Kill(r))

Spec == Init /\ [][Next]_vars /\ Fairness

-----------------------------------------------------------------------------
(***************************************************************************)
(* The result, once any rank is done, is the product of the whole matrix   *)
(* and the vector: the chunks of all ranks, dealt, multiplied and          *)
(* collected (lines 75-166).  A matrix of more rows than columns overruns  *)
(* the buffers of the products and promises nothing.                       *)
(***************************************************************************)
MatrixVectorProduct ==
  [k \in 1 .. input.rows |->
    Product([c \in 1 .. input.cols |-> (k - 1) * input.cols + c], Vector(input))]

ResultCorrect ==
  \A r \in Process :
    stage[r] = "done" /\ input.rows <= input.cols
      => result = MatrixVectorProduct

(***************************************************************************)
(* The program cannot get to its end without the files, with an empty      *)
(* vector (line 90), or when ranks of one machine differ in having rows:   *)
(* then the vector, broadcast on the machine (line 120) to a rank that     *)
(* skipped the work, is taken for the message that ends the barrier of     *)
(* line 170, whose size is another.  It may fail to get there with more    *)
(* rows than columns (lines 112 and 124).  With all others no process      *)
(* fails; that they then get there is JobEnds.                             *)
(***************************************************************************)
SplitMachine ==
  \E r, p \in Process :
    r < input.rows /\ input.rows <= p /\ input.node[r] = input.node[p]

CannotFinish ==
  ~input.files \/ (input.rows > 0 /\ input.cols = 0) \/ SplitMachine

FinishesExactlyWhen ==
  /\ CannotFinish => \E r \in Process : stage[r] # "done"
  /\ (\E r \in Process : fate[r] \in Failed)
       => CannotFinish \/ input.rows > input.cols

(***************************************************************************)
(* When every rank has rows and all are done, each message has met the     *)
(* receive it was meant for: no queue and no connection holds any.         *)
(***************************************************************************)
NothingLeftBehind ==
  N <= input.rows /\ (\A r \in Process : stage[r] = "done")
    => \A r \in Process : /\ posted[r] = <<>>
                          /\ unexpected[r] = <<>>
                          /\ \A d \in Process : channel[r][d] = <<>>

(***************************************************************************)
(* "Wait for all processes to finish their respective computations before  *)
(* ending MPI session" (line 169): no rank gets past MPI_Barrier before    *)
(* every rank has called it, however the machines split the collective.    *)
(***************************************************************************)
EndBarrier ==
  INSTANCE RoundBarrier WITH
    Thread <- Process,
    entered <- [r \in Process |-> IF stage[r] \in {"barrier", "done"} THEN 1 ELSE 0],
    left <- [r \in Process |-> IF stage[r] = "done" THEN 1 ELSE 0]

WorldBarrier == EndBarrier!Spec

(***************************************************************************)
(* With one rank on each machine, the barrier on these message queues      *)
(* implements DisseminationBarrier, which counts messages instead of       *)
(* matching them.                                                          *)
(***************************************************************************)
OneRankEach ==
  \A r, p \in Process : input.node[r] = input.node[p] => r = p

InBarrier(r) ==
  OneRankEach /\ stage[r] = "barrier" /\ step[r] <= Len(BarrierOf[input][r])

AfterBarrier(r) ==
  OneRankEach /\ stage[r] \in {"barrier", "done"} /\ ~InBarrier(r)

(* How many messages of the barrier rank r has sent to p, or taken from it: *)
(* those of the operations of this kind that lie behind its last one.       *)
Passed(r, kind, p, behind) ==
  IF InBarrier(r) \/ AfterBarrier(r)
  THEN LET ops == BarrierOf[input][r]
           now == IF InBarrier(r) THEN step[r] ELSE Len(ops) + 1
       IN  Cardinality({k \in 1 .. now - behind :
                          ops[k].kind = kind /\ ops[k].peer = p})
  ELSE 0

(* What DisseminationBarrier would say of this barrier. *)
flatEntered == [r \in Process |-> IF InBarrier(r) \/ AfterBarrier(r) THEN 1 ELSE 0]

flatLeft == [r \in Process |-> IF AfterBarrier(r) THEN 1 ELSE 0]

(* There are three operations for each mask. *)
flatMask ==
  [r \in Process |-> IF InBarrier(r) THEN Ascending(Masks(N))[(step[r] + 2) \div 3]
                    ELSE 0]

flatSending == [r \in Process |-> InBarrier(r) /\ ~InOperation(r, "wait")]

flatSent == [s \in Process |-> [d \in Process |-> Passed(s, "isend", d, 1)]]

flatReceived == [s \in Process |-> [d \in Process |-> Passed(d, "irecv", s, 3)]]

Counted ==
  INSTANCE DisseminationBarrier WITH
    entered <- flatEntered, left <- flatLeft, mask <- flatMask,
    sending <- flatSending, sent <- flatSent, received <- flatReceived

FlatBarrier == Counted!DisseminationSpec

(* Every process ends, whatever the input: by itself, or killed. *)
JobEnds == <>(\A r \in Process : ~Running(r))
=============================================================================
