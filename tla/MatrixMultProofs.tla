-------------------------- MODULE MatrixMultProofs --------------------------
(***************************************************************************)
(* The matrix program, for every matrix and every number of processes for  *)
(* which MPI_Gatherv uses standard sends (StandardSendAssumption): no      *)
(* receive waits for a message that is there, whatever the placement; the  *)
(* rows are dealt without gap or overlap; multiplying the chunks and       *)
(* putting the products together is multiplying the matrix; and no request *)
(* is reused while the handshake of a rendezvous still names it.  At the   *)
(* end, what DeliveryProofs needs of the operations of each collective:    *)
(* who sends and receives what, and that each has its counterpart.         *)
(***************************************************************************)
EXTENDS MatrixMult, FiniteSetTheorems, SequenceTheorems, WellFoundedInduction, TLAPS

(* The queues are sequences; of what does not matter. *)
IsQueues(q) ==
  /\ q = [d \in Rank |-> q[d]]
  /\ \A d \in Rank : \E S : q[d] \in Seq(S)

QueuesInv == IsQueues(posted) /\ IsQueues(unexpected) /\ QueuesDisjoint

-----------------------------------------------------------------------------
(* A queue without one of its elements holds nothing new. *)
LEMMA WithoutShrinks ==
  ASSUME NEW S, NEW q \in Seq(S), NEW i \in DOMAIN q
  PROVE  /\ Without(q, i) \in Seq(S)
         /\ \A k \in DOMAIN Without(q, i) :
              \E j \in DOMAIN q : Without(q, i)[k] = q[j]
<1>1. Len(q) \in Nat /\ DOMAIN q = 1 .. Len(q) /\ Len(q) - 1 \in Nat
  OBVIOUS
<1>2. \A k \in 1 .. Len(q) - 1 : k \in DOMAIN q /\ k + 1 \in DOMAIN q
  BY <1>1
<1>3. \A k \in 1 .. Len(q) - 1 : q[k] \in S /\ q[k + 1] \in S
  BY <1>2
<1>4. Without(q, i) \in Seq(S)
  BY <1>1, <1>3 DEF Without
<1>5. DOMAIN Without(q, i) = 1 .. Len(q) - 1
  BY DEF Without
<1>6. ASSUME NEW k \in 1 .. Len(q) - 1
      PROVE  Without(q, i)[k] = q[k] \/ Without(q, i)[k] = q[k + 1]
  BY DEF Without
<1> QED
  BY <1>2, <1>4, <1>5, <1>6

(* Appending to the queue of d, or taking an element from it, leaves queues. *)
LEMMA AppendKeepsQueues ==
  ASSUME NEW q, IsQueues(q), NEW d \in Rank, NEW x,
         NEW p, p = [q EXCEPT ![d] = Append(@, x)]
  PROVE  /\ IsQueues(p)
         /\ \A e \in Rank \ {d} : p[e] = q[e]
         /\ \A k \in DOMAIN p[d] :
              p[d][k] = x \/ (k \in DOMAIN q[d] /\ p[d][k] = q[d][k])
<1>1. PICK S : q[d] \in Seq(S)
  BY DEF IsQueues
<1>2. p[d] = Append(q[d], x) /\ \A e \in Rank \ {d} : p[e] = q[e]
  BY DEF IsQueues
<1>3. q[d] \in Seq(S \union {x}) /\ x \in S \union {x}
  BY <1>1
<1>4. Append(q[d], x) \in Seq(S \union {x})
  BY <1>3
<1>5. IsQueues(p)
  BY <1>2, <1>4 DEF IsQueues
<1>6. ASSUME NEW k \in DOMAIN p[d]
      PROVE  p[d][k] = x \/ (k \in DOMAIN q[d] /\ p[d][k] = q[d][k])
  BY <1>2, <1>3
<1> QED
  BY <1>2, <1>5, <1>6

LEMMA WithoutKeepsQueues ==
  ASSUME NEW q, IsQueues(q), NEW d \in Rank, NEW i \in DOMAIN q[d],
         NEW p, p = [q EXCEPT ![d] = Without(@, i)]
  PROVE  /\ IsQueues(p)
         /\ \A e \in Rank : \A k \in DOMAIN p[e] :
              \E j \in DOMAIN q[e] : p[e][k] = q[e][j]
<1>1. PICK S : q[d] \in Seq(S)
  BY DEF IsQueues
<1>2. p[d] = Without(q[d], i) /\ \A e \in Rank \ {d} : p[e] = q[e]
  BY DEF IsQueues
<1>3. /\ Without(q[d], i) \in Seq(S)
      /\ \A k \in DOMAIN Without(q[d], i) :
           \E j \in DOMAIN q[d] : Without(q[d], i)[k] = q[d][j]
  BY <1>1, WithoutShrinks
<1>4. IsQueues(p)
  BY <1>2, <1>3 DEF IsQueues
<1> QED
  BY <1>2, <1>3, <1>4

-----------------------------------------------------------------------------
(* The steps of the queues. *)
LEMMA UnchangedQueues ==
  ASSUME QueuesInv, UNCHANGED <<posted, unexpected>>
  PROVE  QueuesInv'
BY DEF QueuesInv, IsQueues, QueuesDisjoint, Matches

LEMMA ReceiveKeepsInv ==
  ASSUME QueuesInv, NEW d \in Rank, NEW h, NEW match, Receive(d, h, match)
  PROVE  QueuesInv'
<1>1. CASE TakeUnexpected(d, h, match)
  <2>1. IsQueues(posted) /\ IsQueues(unexpected)
    BY DEF QueuesInv
  <2>2. PICK i \in DOMAIN unexpected[d] :
          unexpected' = [unexpected EXCEPT ![d] = Without(@, i)]
    BY <1>1 DEF TakeUnexpected
  <2>3. IsQueues(unexpected')
    BY <2>1, <2>2, WithoutKeepsQueues
  <2>4. \A e \in Rank : \A k \in DOMAIN unexpected'[e] :
          \E j \in DOMAIN unexpected[e] : unexpected'[e][k] = unexpected[e][j]
    BY <2>1, <2>2, WithoutKeepsQueues
  <2>5. posted' = posted
    BY <1>1 DEF TakeUnexpected
  <2>6. QueuesDisjoint'
    BY <2>4, <2>5 DEF QueuesInv, QueuesDisjoint, Matches
  <2> QED
    BY <2>3, <2>5, <2>6 DEF QueuesInv, IsQueues
<1>2. CASE PostReceive(d, h, match)
  <2>1. IsQueues(posted) /\ IsQueues(unexpected)
    BY DEF QueuesInv
  <2> DEFINE x == [match |-> match, handle |-> h]
  <2>2. /\ \A i \in DOMAIN unexpected[d] :
             ~Matches(match, unexpected[d][i].envelope)
        /\ posted' = [posted EXCEPT ![d] = Append(@, x)]
        /\ unexpected' = unexpected
    BY <1>2 DEF PostReceive
  <2>3. IsQueues(posted')
    BY <2>1, <2>2, AppendKeepsQueues
  <2>4. /\ \A e \in Rank \ {d} : posted'[e] = posted[e]
        /\ \A k \in DOMAIN posted'[d] :
             \/ posted'[d][k] = x
             \/ k \in DOMAIN posted[d] /\ posted'[d][k] = posted[d][k]
    BY <2>1, <2>2, AppendKeepsQueues
  <2>5. x.match = match
    OBVIOUS
  <2>6. QueuesDisjoint'
    <3> SUFFICES ASSUME NEW e \in Rank, NEW k \in DOMAIN posted'[e],
                        NEW j \in DOMAIN unexpected[e]
                 PROVE  ~Matches(posted'[e][k].match, unexpected[e][j].envelope)
      <4>1. QueuesDisjoint' <=>
              \A e \in Rank : \A k \in DOMAIN posted'[e],
                                j \in DOMAIN unexpected'[e] :
                ~Matches(posted'[e][k].match, unexpected'[e][j].envelope)
        BY Zenon DEF QueuesDisjoint, Matches
      <4> QED
        BY <4>1, <2>2, Zenon
    <3>1. CASE e = d /\ posted'[d][k] = x
      BY <3>1, <2>2, <2>5
    <3>2. CASE ~(e = d /\ posted'[d][k] = x)
      <4>1. k \in DOMAIN posted[e] /\ posted'[e][k] = posted[e][k]
        BY <3>2, <2>4
      <4> QED
        BY <4>1 DEF QueuesInv, QueuesDisjoint
    <3> QED
      BY <3>1, <3>2
  <2> QED
    BY <2>2, <2>3, <2>6 DEF QueuesInv, IsQueues
<1> QED
  BY <1>1, <1>2 DEF Receive

LEMMA DeliverKeepsInv ==
  ASSUME QueuesInv, NEW s \in Rank, NEW d \in Rank, Deliver(s, d)
  PROVE  QueuesInv'
<1> DEFINE packet == Head(channel[s][d])
<1>1. CASE MatchPosted(s, d)
  <2>1. IsQueues(posted) /\ IsQueues(unexpected)
    BY DEF QueuesInv
  <2>2. PICK i \in DOMAIN posted[d] :
          posted' = [posted EXCEPT ![d] = Without(@, i)]
    BY <1>1 DEF MatchPosted
  <2>3. IsQueues(posted')
    BY <2>1, <2>2, WithoutKeepsQueues
  <2>4. \A e \in Rank : \A k \in DOMAIN posted'[e] :
          \E j \in DOMAIN posted[e] : posted'[e][k] = posted[e][j]
    BY <2>1, <2>2, WithoutKeepsQueues
  <2>5. unexpected' = unexpected
    BY <1>1 DEF MatchPosted
  <2>6. QueuesDisjoint'
    BY <2>4, <2>5 DEF QueuesInv, QueuesDisjoint, Matches
  <2> QED
    BY <2>3, <2>5, <2>6 DEF QueuesInv, IsQueues
<1>2. CASE QueueUnexpected(s, d)
  <2>1. IsQueues(posted) /\ IsQueues(unexpected)
    BY DEF QueuesInv
  <2>2. /\ \A i \in DOMAIN posted[d] :
             ~Matches(posted[d][i].match, packet.envelope)
        /\ unexpected' = [unexpected EXCEPT ![d] = Append(@, packet)]
        /\ posted' = posted
    BY <1>2 DEF QueueUnexpected
  <2>3. IsQueues(unexpected')
    BY <2>1, <2>2, AppendKeepsQueues
  <2>4. /\ \A e \in Rank \ {d} : unexpected'[e] = unexpected[e]
        /\ \A k \in DOMAIN unexpected'[d] :
             \/ unexpected'[d][k] = packet
             \/ k \in DOMAIN unexpected[d] /\ unexpected'[d][k] = unexpected[d][k]
    BY <2>1, <2>2, AppendKeepsQueues
  <2>5. QueuesDisjoint'
    <3> SUFFICES ASSUME NEW e \in Rank, NEW k \in DOMAIN posted[e],
                        NEW j \in DOMAIN unexpected'[e]
                 PROVE  ~Matches(posted[e][k].match, unexpected'[e][j].envelope)
      BY <2>2 DEF QueuesDisjoint, Matches
    <3>1. CASE e = d /\ unexpected'[d][j] = packet
      BY <3>1, <2>2
    <3>2. CASE ~(e = d /\ unexpected'[d][j] = packet)
      <4>1. j \in DOMAIN unexpected[e] /\ unexpected'[e][j] = unexpected[e][j]
        BY <3>2, <2>4
      <4> QED
        BY <4>1 DEF QueuesInv, QueuesDisjoint
    <3> QED
      BY <3>1, <3>2
  <2> QED
    BY <2>2, <2>3, <2>5 DEF QueuesInv, IsQueues
<1>3. CASE HandleClearToSend(s, d) \/ HandleData(s, d)
  BY <1>3, UnchangedQueues DEF HandleClearToSend, HandleData
<1> QED
  BY <1>1, <1>2, <1>3 DEF Deliver, HandleAnnouncement

-----------------------------------------------------------------------------
LEMMA InitQueues == Init => QueuesInv
<1> SUFFICES ASSUME Init PROVE QueuesInv
  OBVIOUS
<1>1. posted = [d \in Rank |-> <<>>] /\ unexpected = [d \in Rank |-> <<>>]
  BY DEF Init, QueuesInit
<1>2. <<>> \in Seq({}) /\ DOMAIN <<>> = {}
  OBVIOUS
<1> QED
  BY <1>1, <1>2 DEF QueuesInv, IsQueues, QueuesDisjoint

(* Every step of the program is a step of the queues, or leaves them alone. *)
LEMMA StepKeepsQueues == QueuesInv /\ [Next]_vars => QueuesInv'
<1> SUFFICES ASSUME QueuesInv, [Next]_vars PROVE QueuesInv'
  OBVIOUS
<1>1. ASSUME NEW r \in Process, Isend(r) PROVE QueuesInv'
  BY <1>1, UnchangedQueues DEF Isend, SendEager, SendRndv
<1>2. ASSUME NEW r \in Process, Irecv(r) PROVE QueuesInv'
  BY <1>2, ReceiveKeepsInv, InputAssumption DEF Irecv
<1>3. ASSUME NEW r \in Process, Progress(r) PROVE QueuesInv'
  BY <1>3, DeliverKeepsInv, InputAssumption DEF Progress
<1>4. ASSUME NEW r \in Process, WaitDone(r) PROVE QueuesInv'
  BY <1>4, UnchangedQueues DEF WaitDone, Release
<1>5. ASSUME NEW r \in Process, Main(r) \/ Kill(r) PROVE QueuesInv'
  <2>1. UNCHANGED queueVars
    BY <1>5 DEF Main, Kill, Enter, End, OpenFiles, LearnRows, SkipWork,
                DivideByZero, DealRows, TakeChunk, Multiply, OverrunProducts,
                WriteResult, OverrunResult, Finish, CollectiveFails
  <2> QED
    BY <2>1, UnchangedQueues DEF queueVars
<1>6. CASE UNCHANGED vars
  BY <1>6, UnchangedQueues DEF vars
<1> QED
  BY <1>1, <1>2, <1>3, <1>4, <1>5, <1>6 DEF Next, Communicate

(***************************************************************************)
(* No receive waits in the posted queue while a message it matches waits   *)
(* among the unexpected ones (ch3u_recvq.c), for every input and every     *)
(* number of processes with standard sends in MPI_Gatherv.                 *)
(***************************************************************************)
THEOREM ProgramQueuesDisjoint == Spec => []QueuesDisjoint
<1>1. QueuesInv => QueuesDisjoint
  BY DEF QueuesInv
<1> QED
  BY <1>1, InitQueues, StepKeepsQueues, PTL DEF Spec

-----------------------------------------------------------------------------
(* How the rows are dealt (lines 76-92), and that multiplying the chunks one  *)
(* by one and putting the products together is multiplying the matrix.        *)

LEMMA LeastNumber ==
  ASSUME NEW T, T \subseteq Nat, T # {}
  PROVE  \E m \in T : \A k \in T : m <= k
<1>1. IsWellFoundedOn(OpToRel(<, Nat), Nat)
  BY NatLessThanWellFounded
<1>2. PICK m \in T : \A k \in T : <<k, m>> \notin OpToRel(<, Nat)
  <2> HIDE <1>1
  <2> QED
    BY <1>1, WFMin, Zenon
<1>3. \A k \in T : ~(k < m)
  BY <1>2 DEF OpToRel
<1> QED
  BY <1>3

LEMMA DivMod ==
  ASSUME NEW x \in Nat, NEW c \in Nat \ {0}
  PROVE  /\ x \div c \in Nat /\ x % c \in 0 .. c - 1
         /\ x = c * (x \div c) + (x % c)
OBVIOUS

LEMMA DivideProduct ==
  ASSUME NEW k \in Nat, NEW c \in Nat \ {0}
  PROVE  (k * c) \div c = k
OBVIOUS

\* The rows of process p and those before it, without the detour of the code
\* through numbers of the matrix.
RowsOf(rows, p) == (rows \div N) + (IF p < rows % N THEN 1 ELSE 0)

RowsBefore(rows, p) ==
  (rows \div N) * p + (IF p < rows % N THEN p ELSE rows % N)

LEMMA RowsBeforeStep ==
  ASSUME NEW rows \in Nat, NEW p \in Nat
  PROVE  /\ RowsOf(rows, p) \in Nat /\ RowsBefore(rows, p) \in Nat
         /\ RowsBefore(rows, 0) = 0
         /\ RowsBefore(rows, p + 1) = RowsBefore(rows, p) + RowsOf(rows, p)
         /\ RowsBefore(rows, N) = rows
<1> DEFINE d == rows \div N
           m == rows % N
<1>1. d \in Nat /\ m \in 0 .. N - 1 /\ rows = N * d + m /\ N \in Nat \ {0}
  BY DivMod, InputAssumption
<1> HIDE DEF d, m
<1>2. d * p \in Nat /\ d * (p + 1) = d * p + d /\ d * 0 = 0 /\ d * N = N * d
  BY <1>1
<1> QED
  BY <1>1, <1>2 DEF RowsOf, RowsBefore, d, m

LEMMA ChunkSizeIs ==
  ASSUME NEW rows \in Nat, NEW cols \in Nat, NEW p \in Nat
  PROVE  ChunkSize(rows, cols, p) = RowsOf(rows, p) * cols
<1> DEFINE d == rows \div N
<1>1. d \in Nat
  BY DivMod, InputAssumption
<1> HIDE DEF d
<1>2. (d + 1) * cols = d * cols + cols /\ (d + 0) * cols = d * cols + 0
  BY <1>1
<1> QED
  BY <1>2 DEF ChunkSize, RowsOf, d

\* The loop of lines 83-89, by the first process that would start elsewhere.
LEMMA ChunkStartIs ==
  ASSUME NEW rows \in Nat, NEW cols \in Nat, NEW p \in Nat
  PROVE  ChunkStart(rows, cols, p) = RowsBefore(rows, p) * cols
<1> DEFINE Loop(f) ==
             f = [q \in 0 .. p |->
                   IF q = 0 THEN 0 ELSE f[q - 1] + ChunkSize(rows, cols, q - 1)]
           start == CHOOSE f : Loop(f)
           closed == [q \in 0 .. p |-> RowsBefore(rows, q) * cols]
<1>1. ASSUME NEW q \in Nat
      PROVE  /\ RowsBefore(rows, q) * cols \in Nat
             /\ RowsBefore(rows, 0) * cols = 0
             /\ RowsBefore(rows, q + 1) * cols
                  = RowsBefore(rows, q) * cols + ChunkSize(rows, cols, q)
  <2> DEFINE b == RowsBefore(rows, q)
             s == RowsOf(rows, q)
  <2>1. b \in Nat /\ s \in Nat /\ RowsBefore(rows, 0) = 0
        /\ RowsBefore(rows, q + 1) = b + s
        /\ ChunkSize(rows, cols, q) = s * cols
    BY RowsBeforeStep, ChunkSizeIs
  <2> HIDE DEF b, s
  <2>2. b * cols \in Nat /\ (b + s) * cols = b * cols + s * cols /\ 0 * cols = 0
    BY <2>1
  <2> QED
    BY <2>1, <2>2 DEF b
<1>2. Loop(closed)
  <2>1. ASSUME NEW q \in 0 .. p
        PROVE  closed[q] = IF q = 0 THEN 0
                           ELSE closed[q - 1] + ChunkSize(rows, cols, q - 1)
    <3>1. CASE q = 0
      BY <1>1, <3>1
    <3>2. CASE q # 0
      <4>1. q - 1 \in Nat /\ q - 1 \in 0 .. p /\ (q - 1) + 1 = q
        BY <3>2
      <4> QED
        BY <1>1, <3>2, <4>1
    <3> QED
      BY <3>1, <3>2
  <2> QED
    BY <2>1
<1>3. Loop(start)
  BY <1>2
<1>4. ASSUME NEW f, Loop(f) PROVE f[p] = closed[p]
  <2> DEFINE wrong == {q \in 0 .. p : f[q] # closed[q]}
  <2>1. ASSUME wrong # {} PROVE FALSE
    <3>0. wrong \subseteq Nat
      OBVIOUS
    <3>1. PICK q \in wrong : \A k \in wrong : q <= k
      <4> HIDE DEF wrong
      <4> QED
        BY <2>1, <3>0, LeastNumber
    <3>2. CASE q = 0
      BY <1>2, <1>4, <3>1, <3>2
    <3>3. CASE q # 0
      <4>1. q - 1 \in 0 .. p /\ q - 1 \notin wrong
        BY <3>1, <3>3
      <4>2. f[q - 1] = closed[q - 1]
        BY <4>1
      <4>3. /\ f[q] = f[q - 1] + ChunkSize(rows, cols, q - 1)
            /\ closed[q] = closed[q - 1] + ChunkSize(rows, cols, q - 1)
        <5> HIDE DEF closed
        <5> QED
          BY <1>2, <1>4, <3>1, <3>3
      <4> QED
        BY <3>1, <4>2, <4>3
    <3> QED
      BY <3>2, <3>3
  <2> QED
    BY <2>1
<1>5. ChunkStart(rows, cols, p) = start[p]
  BY DEF ChunkStart
<1>6. closed[p] = RowsBefore(rows, p) * cols
  OBVIOUS
<1> HIDE DEF Loop, start, closed
<1> QED
  BY <1>3, <1>4, <1>5, <1>6

LEMMA RowCountIs ==
  ASSUME NEW rows \in Nat, NEW cols \in Nat \ {0}, NEW p \in Nat
  PROVE  /\ RowCount(rows, cols, p) = RowsOf(rows, p)
         /\ RowStart(rows, cols, p) = RowsBefore(rows, p)
BY RowsBeforeStep, ChunkSizeIs, ChunkStartIs, DivideProduct DEF RowCount, RowStart

\* The rows before a process grow with the process.
LEMMA RowsBeforeGrows ==
  ASSUME NEW rows \in Nat, NEW p \in Nat, NEW q \in Nat, p < q
  PROVE  RowsBefore(rows, p) + RowsOf(rows, p) <= RowsBefore(rows, q)
<1> DEFINE d == rows \div N
           m == rows % N
<1>1. d \in Nat /\ m \in Nat
  BY DivMod, InputAssumption
<1> HIDE DEF d, m
<1>2. d * q = d * p + d * (q - p) /\ d * (q - p) >= d /\ d * p \in Nat
  <2>1. d * q = d * p + d * (q - p) /\ d * p \in Nat
    BY <1>1
  <2>2. d * (q - p) = d * (q - p - 1) + d /\ d * (q - p - 1) \in Nat
    BY <1>1
  <2> QED
    BY <1>1, <2>1, <2>2
<1> QED
  BY <1>1, <1>2 DEF RowsBefore, RowsOf, d, m

(***************************************************************************)
(* Lines 75-92: every row is dealt to exactly one process, the sizes and   *)
(* offsets in numbers of the matrix agree with those in rows, no chunk     *)
(* reaches past the matrix, and the processes below rows, which alone call *)
(* the collectives (line 75), are exactly those with a row.                *)
(***************************************************************************)
THEOREM RowsDealtOnce ==
  ASSUME NEW rows \in Nat, NEW cols \in Nat \ {0}
  PROVE  /\ \A k \in 1 .. rows : \E p \in Process :
              /\ k - RowStart(rows, cols, p) \in 1 .. RowCount(rows, cols, p)
              /\ \A q \in Process :
                   k - RowStart(rows, cols, q) \in 1 .. RowCount(rows, cols, q) => q = p
         /\ \A p \in Process :
              /\ ChunkSize(rows, cols, p) = RowCount(rows, cols, p) * cols
              /\ ChunkStart(rows, cols, p) = RowStart(rows, cols, p) * cols
              /\ RowStart(rows, cols, p) + RowCount(rows, cols, p) <= rows
              /\ RowCount(rows, cols, p) # 0 <=> p < rows
<1> USE InputAssumption
<1>1. Process \subseteq Nat /\ Process = {p \in Nat : p < N}
  BY DEF Process
<1>2. ASSUME NEW k \in 1 .. rows
      PROVE  \E p \in Process :
               k - RowsBefore(rows, p) \in 1 .. RowsOf(rows, p)
  <2> DEFINE enough == {q \in Nat : k <= RowsBefore(rows, q)}
  <2>1. N \in enough
    BY RowsBeforeStep
  <2>2. PICK q \in enough : \A e \in enough : q <= e
    BY <2>1, LeastNumber
  <2>3. q # 0
    BY <2>2, RowsBeforeStep
  <2>4. q - 1 \in Nat /\ q - 1 \notin enough /\ q - 1 < N /\ (q - 1) + 1 = q
    BY <2>1, <2>2, <2>3
  <2>5. /\ RowsBefore(rows, q - 1) \in Nat /\ RowsOf(rows, q - 1) \in Nat
        /\ RowsBefore(rows, q) = RowsBefore(rows, q - 1) + RowsOf(rows, q - 1)
    BY <2>4, RowsBeforeStep
  <2>6. ~(k <= RowsBefore(rows, q - 1)) /\ k <= RowsBefore(rows, q)
    BY <2>2, <2>4
  <2>7. k - RowsBefore(rows, q - 1) \in 1 .. RowsOf(rows, q - 1)
    BY <2>5, <2>6
  <2> QED
    BY <1>1, <2>4, <2>7
<1>3. ASSUME NEW k \in 1 .. rows, NEW p \in Process, NEW q \in Process,
             k - RowsBefore(rows, p) \in 1 .. RowsOf(rows, p),
             k - RowsBefore(rows, q) \in 1 .. RowsOf(rows, q)
      PROVE  q = p
  <2>1. /\ RowsBefore(rows, p) \in Nat /\ RowsOf(rows, p) \in Nat
        /\ RowsBefore(rows, q) \in Nat /\ RowsOf(rows, q) \in Nat
    BY <1>1, RowsBeforeStep
  <2>2. /\ p < q => RowsBefore(rows, p) + RowsOf(rows, p) <= RowsBefore(rows, q)
        /\ q < p => RowsBefore(rows, q) + RowsOf(rows, q) <= RowsBefore(rows, p)
    BY <1>1, RowsBeforeGrows
  <2>3. p \in Nat /\ q \in Nat
    BY <1>1
  <2> QED
    BY <1>3, <2>1, <2>2, <2>3
<1>4. ASSUME NEW p \in Process
      PROVE  /\ RowsBefore(rows, p) + RowsOf(rows, p) <= rows
             /\ RowsOf(rows, p) # 0 <=> p < rows
  <2>1. RowsBefore(rows, p) + RowsOf(rows, p) <= rows
    BY <1>1, RowsBeforeGrows, RowsBeforeStep
  <2> DEFINE d == rows \div N
             m == rows % N
  <2>2. d \in Nat /\ m \in 0 .. N - 1 /\ rows = N * d + m
    BY DivMod
  <2>3. RowsOf(rows, p) = d + (IF p < m THEN 1 ELSE 0)
    BY DEF RowsOf
  <2> HIDE DEF d, m
  <2>0. p \in Nat /\ p < N /\ N \in Nat
    BY <1>1
  <2>4. CASE d = 0
    <3>1. rows = m
      BY <2>0, <2>2, <2>4
    <3> QED
      BY <2>0, <2>1, <2>2, <2>3, <2>4, <3>1
  <2>5. CASE d # 0
    <3>1. N * d = N * (d - 1) + N /\ N * (d - 1) \in Nat
      BY <2>0, <2>2, <2>5
    <3>2. p < rows
      BY <2>0, <2>2, <3>1
    <3> QED
      BY <2>1, <2>2, <2>3, <2>5, <3>2
  <2> QED
    BY <2>2, <2>4, <2>5
<1>5. \A p \in Process : /\ RowCount(rows, cols, p) = RowsOf(rows, p)
                         /\ RowStart(rows, cols, p) = RowsBefore(rows, p)
                         /\ ChunkSize(rows, cols, p) = RowsOf(rows, p) * cols
                         /\ ChunkStart(rows, cols, p) = RowsBefore(rows, p) * cols
  BY <1>1, RowCountIs, ChunkSizeIs, ChunkStartIs
<1>6. \A k \in 1 .. rows : \E p \in Process :
        /\ k - RowsBefore(rows, p) \in 1 .. RowsOf(rows, p)
        /\ \A q \in Process : k - RowsBefore(rows, q) \in 1 .. RowsOf(rows, q) => q = p
  BY <1>2, <1>3
<1> QED
  BY <1>4, <1>5, <1>6

\* A part of a sequence of numbers in ascending order.
LEMMA PartOfCount ==
  ASSUME NEW l \in Nat, NEW x \in Int, NEW q,
         q = [i \in 1 .. l |-> x + i],
         NEW a \in Nat, NEW n \in Nat, a + n <= l
  PROVE  SubSeq(q, a + 1, a + n) = [i \in 1 .. n |-> x + a + i]
<1> DEFINE part == SubSeq(q, a + 1, a + n)
<1>1. \A i \in a + 1 .. a + n : q[i] \in Int
  OBVIOUS
<1>2. a + 1 \in Int /\ a + n \in Int
  OBVIOUS
<1>3. /\ part \in Seq(Int)
      /\ Len(part) = IF a + 1 <= a + n THEN (a + n) - (a + 1) + 1 ELSE 0
      /\ \A i \in 1 .. (a + n) - (a + 1) + 1 : part[i] = q[(a + 1) + i - 1]
  BY <1>1, <1>2, SubSeqProperties
<1>4. (a + n) - (a + 1) + 1 = n
  OBVIOUS
<1> HIDE DEF part
<1>5. part \in [1 .. n -> Int]
  <2>1. Len(part) = n
    BY <1>3
  <2>2. part \in [1 .. Len(part) -> Int]
    BY <1>3
  <2> QED
    BY <2>1, <2>2
<1>6. ASSUME NEW i \in 1 .. n
      PROVE  part[i] = x + a + i
  <2>1. a + i \in 1 .. l /\ (a + 1) + i - 1 = a + i
    OBVIOUS
  <2>2. part[i] = q[(a + 1) + i - 1]
    BY <1>3, <1>4
  <2>3. q[a + i] = x + (a + i)
    BY <2>1
  <2>4. x + (a + i) = x + a + i
    OBVIOUS
  <2> QED
    BY <2>1, <2>2, <2>3, <2>4
<1> QED
  BY <1>5, <1>6 DEF part

\* Row j of a chunk of n rows that starts at row s is row s + j of the matrix.
LEMMA RowOfChunk ==
  ASSUME NEW i \in Input, i.cols > 0,
         NEW s \in Nat, NEW n \in Nat, s + n <= i.rows, NEW j \in 1 .. n
  PROVE  SubSeq(SubSeq(Matrix(i), s * i.cols + 1, s * i.cols + n * i.cols),
                (j - 1) * i.cols + 1, j * i.cols)
           = [c \in 1 .. i.cols |-> (s + j - 1) * i.cols + c]
<1> DEFINE w == i.cols
           a == s * i.cols
           b == n * i.cols
           l == i.rows * i.cols
           u == (j - 1) * i.cols
<1>1. i.rows \in Nat /\ w \in Nat \ {0}
  BY InputAssumption
<1>2. /\ a \in Nat /\ b \in Nat /\ l \in Nat /\ u \in Nat
      /\ a + b <= l /\ u + w <= b
      /\ j * i.cols = u + w
      /\ (s + j - 1) * i.cols = a + u
  <2>1. a \in Nat /\ b \in Nat /\ l \in Nat /\ u \in Nat
    BY <1>1
  <2>2. l = a + b + (i.rows - (s + n)) * i.cols /\ (i.rows - (s + n)) * i.cols \in Nat
    BY <1>1
  <2>3. b = u + w + (n - j) * i.cols /\ (n - j) * i.cols \in Nat
    BY <1>1
  <2>4. j * i.cols = u + w /\ (s + j - 1) * i.cols = a + u
    BY <1>1
  <2> QED
    BY <1>1, <2>1, <2>2, <2>3, <2>4
<1>3. Matrix(i) = [k \in 1 .. l |-> k]
  BY DEF Matrix
<1> HIDE DEF w, a, b, l, u
<1>4. SubSeq(Matrix(i), a + 1, a + b) = [k \in 1 .. b |-> a + k]
  <2>1. Matrix(i) = [k \in 1 .. l |-> 0 + k] /\ 0 \in Int
    BY <1>3
  <2>2. SubSeq(Matrix(i), a + 1, a + b) = [k \in 1 .. b |-> 0 + a + k]
    BY <1>2, <2>1, PartOfCount
  <2> QED
    BY <1>2, <2>2
<1> DEFINE chunk == SubSeq(Matrix(i), a + 1, a + b)
<1> HIDE DEF chunk
<1>5. chunk = [k \in 1 .. b |-> a + k]
  BY <1>4 DEF chunk
<1>6. SubSeq(chunk, u + 1, u + w) = [c \in 1 .. w |-> a + u + c]
  <2>1. a \in Int /\ w \in Nat
    BY <1>1, <1>2
  <2> QED
    BY <1>2, <1>5, <2>1, PartOfCount
<1>7. SubSeq(SubSeq(Matrix(i), a + 1, a + b), u + 1, u + w) = [c \in 1 .. w |-> a + u + c]
  BY <1>6 DEF chunk
<1>8. [c \in 1 .. w |-> (s + j - 1) * i.cols + c] = [c \in 1 .. w |-> a + u + c]
  BY <1>2
<1> QED
  BY <1>2, <1>7, <1>8 DEF w, a, b, u

(***************************************************************************)
(* Lines 93-166: when each process with rows has multiplied the chunk that *)
(* was dealt to it, what rank 0 puts together from their products is the   *)
(* product of the whole matrix, for every matrix and number of processes.  *)
(***************************************************************************)
THEOREM ProductsMakeTheProduct ==
  ASSUME input \in Input, input.cols > 0,
         memory[0].rows = input.rows, memory[0].cols = input.cols,
         \A p \in Process : p < input.rows =>
           memory[0].products[p] =
             Compute(Outgoing(0, p, "scatterv"), Vector(input), RowCounts(0)[p])
  PROVE  Collected(0) = MatrixVectorProduct
<1> DEFINE rows == input.rows
           cols == input.cols
           v == Vector(input)
<1>1. rows \in Nat /\ cols \in Nat \ {0} /\ Process \subseteq Nat
  BY InputAssumption DEF Process
<1>2. Len(v) = cols
  BY <1>1 DEF Vector
<1>3. ASSUME NEW k \in 1 .. rows, NEW p \in Process,
             k - RowStart(rows, cols, p) \in 1 .. RowCount(rows, cols, p)
      PROVE  memory[0].products[p][k - RowStart(rows, cols, p)] =
               Product([c \in 1 .. cols |-> (k - 1) * cols + c], v)
  <2> DEFINE s == RowStart(rows, cols, p)
             n == RowCount(rows, cols, p)
             chunk == SubSeq(Matrix(input), s * cols + 1, s * cols + n * cols)
  <2>1. /\ s \in Nat /\ n \in Nat /\ s + n <= rows /\ p < rows
        /\ ChunkSize(rows, cols, p) = n * cols
        /\ ChunkStart(rows, cols, p) = s * cols
    <3>1. s \in Nat /\ n \in Nat
      <4>1. p \in Nat
        BY <1>1
      <4>2. s = RowsBefore(rows, p) /\ n = RowsOf(rows, p)
        BY <1>1, <4>1, RowCountIs
      <4>3. RowsBefore(rows, p) \in Nat /\ RowsOf(rows, p) \in Nat
        BY <1>1, <4>1, RowsBeforeStep
      <4> HIDE DEF s, n
      <4> QED
        BY <4>2, <4>3
    <3>2. n # 0
      BY <1>3, <3>1
    <3> QED
      BY <1>1, <3>1, <3>2, RowsDealtOnce
  <2>2. Outgoing(0, p, "scatterv") = chunk
    BY <2>1 DEF Outgoing
  <2>3. RowCounts(0)[p] = n
    BY DEF RowCounts
  <2>4. memory[0].products[p] = Compute(chunk, v, n)
    BY <2>1, <2>2, <2>3
  <2> DEFINE j == k - s
  <2>5. j \in 1 .. n /\ s + j - 1 = k - 1
    BY <1>3, <2>1
  <2> HIDE DEF s, n, chunk, j
  <2>6. Compute(chunk, v, n)[j] = Product(SubSeq(chunk, (j - 1) * cols + 1, j * cols), v)
    BY <1>2, <2>5 DEF Compute
  <2>7. SubSeq(chunk, (j - 1) * cols + 1, j * cols)
          = [c \in 1 .. cols |-> (s + j - 1) * cols + c]
    BY <1>1, <2>1, <2>5, RowOfChunk DEF chunk
  <2>8. memory[0].products[p][j] = Product([c \in 1 .. cols |-> (k - 1) * cols + c], v)
    BY <2>4, <2>5, <2>6, <2>7
  <2> QED
    BY <2>8 DEF j, s
<1>4. ASSUME NEW k \in 1 .. rows
      PROVE  LET p == CHOOSE q \in Process :
                        k - RowStart(rows, cols, q) \in 1 .. RowCounts(0)[q]
             IN  memory[0].products[p][k - RowStart(rows, cols, p)]
               = Product([c \in 1 .. cols |-> (k - 1) * cols + c], v)
  <2> DEFINE Mine(q) == k - RowStart(rows, cols, q) \in 1 .. RowCounts(0)[q]
             p == CHOOSE q \in Process : Mine(q)
  <2>1. \A q \in Process : RowCounts(0)[q] = RowCount(rows, cols, q)
    BY DEF RowCounts
  <2>2. \E q \in Process : k - RowStart(rows, cols, q) \in 1 .. RowCount(rows, cols, q)
    BY <1>1, RowsDealtOnce
  <2>3. \E q \in Process : Mine(q)
    BY <2>1, <2>2
  <2>4. p \in Process /\ Mine(p)
    <3> HIDE DEF Mine
    <3> QED
      BY <2>3
  <2>5. k - RowStart(rows, cols, p) \in 1 .. RowCount(rows, cols, p)
    BY <2>1, <2>4
  <2> HIDE DEF p
  <2>6. memory[0].products[p][k - RowStart(rows, cols, p)]
          = Product([c \in 1 .. cols |-> (k - 1) * cols + c], v)
    BY <1>3, <2>4, <2>5
  <2> QED
    BY <2>6 DEF p
<1> QED
  BY <1>4 DEF Collected, MatrixVectorProduct

-----------------------------------------------------------------------------
(* The operations of the collectives are operations between processes.        *)

Operation ==
  [kind : {"irecv", "isend"}, peer : Process,
   tag : {"bcast", "barrier", "scatterv", "gatherv"},
   context : {"world", "node", "roots"}] \union {Wait}

LEMMA OperationKinds ==
  /\ \A p \in Process : \A t \in {"bcast", "barrier", "scatterv", "gatherv"} :
       \A c \in {"world", "node", "roots"} :
         IRecv(p, t, c) \in Operation /\ ISend(p, t, c) \in Operation
  /\ Wait \in Operation
  /\ \A op \in Operation : op.kind \in {"irecv", "isend"} => op.peer \in Process
BY DEF Operation, IRecv, ISend, Wait

\* Every rank below the size of a communicator is that of a member.
LEMMA MemberAt ==
  ASSUME NEW S \in SUBSET Process, NEW i \in Nat, i < Cardinality(S)
  PROVE  ProcessAt(S, i) \in S /\ RankIn(S, ProcessAt(S, i)) = i
<1> DEFINE Upto(n) == {q \in S : q < n}
           many == {n \in Nat : i < Cardinality(Upto(n))}
<1>1. /\ N \in Nat /\ S \subseteq Nat /\ Upto(N) = S /\ \A q \in S : q < N
      /\ IsFiniteSet(S)
  <2>1. N \in Nat /\ N - 1 \in Int /\ S \in SUBSET (0 .. N - 1)
    BY InputAssumption DEF Process
  <2>2. IsFiniteSet(0 .. N - 1)
    BY <2>1, FS_Interval
  <2>3. IsFiniteSet(S)
    BY <2>1, <2>2, FS_Subset
  <2>4. \A q \in S : q \in Nat /\ q < N
    BY <2>1
  <2>5. Upto(N) = S
    BY <2>4
  <2> QED
    BY <2>1, <2>3, <2>4, <2>5
<1>2. \A n : IsFiniteSet(Upto(n)) /\ Cardinality(Upto(n)) \in Nat
  <2> SUFFICES ASSUME NEW n PROVE IsFiniteSet(Upto(n)) /\ Cardinality(Upto(n)) \in Nat
    OBVIOUS
  <2>1. Upto(n) \in SUBSET S
    OBVIOUS
  <2> QED
    BY <1>1, <2>1, FS_Subset, FS_CardinalityType
<1>3. PICK n \in many : \A k \in many : n <= k
  BY <1>1, LeastNumber
<1>4. Upto(0) = {} /\ Cardinality(Upto(0)) = 0
  <2>1. \A q \in S : ~(q < 0)
    BY <1>1
  <2>2. Upto(0) = {}
    BY <2>1
  <2> QED
    BY <2>2, FS_EmptySet
<1>5. n \in Nat \ {0} /\ n - 1 \in Nat /\ n - 1 \notin many
  BY <1>3, <1>4
<1>6. Cardinality(Upto(n - 1)) <= i /\ i < Cardinality(Upto(n))
  BY <1>2, <1>3, <1>5
<1>7. Upto(n) = IF n - 1 \in S THEN Upto(n - 1) \union {n - 1} ELSE Upto(n - 1)
  <2>1. \A q \in S : q < n <=> q < n - 1 \/ q = n - 1
    BY <1>1, <1>5
  <2>2. ~(n - 1 < n - 1) /\ n - 1 < n
    BY <1>5
  <2> QED
    BY <2>1, <2>2
<1>8. n - 1 \in S
  BY <1>6, <1>7, <1>2
<1>9. Cardinality(Upto(n)) = Cardinality(Upto(n - 1)) + 1
  <2>1. n - 1 \notin Upto(n - 1)
    BY <1>5
  <2> HIDE DEF Upto
  <2> QED
    BY <1>2, <1>7, <1>8, <2>1, FS_AddElement
<1>10. Cardinality(Upto(n - 1)) = i
  <2>1. Cardinality(Upto(n - 1)) \in Nat
    BY <1>2
  <2> HIDE DEF Upto
  <2> QED
    BY <1>6, <1>9, <2>1
<1>11. \E q \in S : RankIn(S, q) = i
  BY <1>8, <1>10 DEF RankIn
<1> QED
  BY <1>11 DEF ProcessAt

LEMMA RankBelowSize ==
  ASSUME NEW S \in SUBSET Process, NEW r \in S
  PROVE  /\ Cardinality(S) \in 1 .. N
         /\ RankIn(S, r) \in Nat /\ RankIn(S, r) < Cardinality(S)
<1> DEFINE before == {q \in S : q < r}
<1>1. S \subseteq 0 .. N - 1 /\ N \in Nat /\ IsFiniteSet(0 .. N - 1)
      /\ Cardinality(0 .. N - 1) = N
  BY InputAssumption, FS_Interval DEF Process
<1>2. /\ IsFiniteSet(S) /\ Cardinality(S) <= N /\ Cardinality(S) \in Nat
  BY <1>1, FS_Subset, FS_CardinalityType
<1>3. IsFiniteSet(S \ {r}) /\ Cardinality(S \ {r}) = Cardinality(S) - 1
      /\ Cardinality(S \ {r}) \in Nat
  BY <1>2, FS_RemoveElement, FS_CardinalityType
<1>4. before \in SUBSET (S \ {r})
  BY <1>1
<1>5. Cardinality(before) \in Nat /\ Cardinality(before) <= Cardinality(S \ {r})
  BY <1>3, <1>4, FS_Subset, FS_CardinalityType
<1> QED
  BY <1>2, <1>3, <1>5 DEF RankIn

LEMMA LoopsOver ==
  ASSUME NEW S \in SUBSET Process
  PROVE  Ascending(S) \in Seq(S) /\ Descending(S) \in Seq(S)
<1>1. Cardinality(S) \in Nat
  <2>1. N - 1 \in Int /\ S \in SUBSET (0 .. N - 1)
    BY InputAssumption DEF Process
  <2>2. IsFiniteSet(0 .. N - 1)
    BY <2>1, FS_Interval
  <2>3. IsFiniteSet(S)
    BY <2>1, <2>2, FS_Subset
  <2> QED
    BY <2>3, FS_CardinalityType
<1>2. \A i \in 1 .. Cardinality(S) : ProcessAt(S, i - 1) \in S
  BY <1>1, MemberAt
<1>3. Ascending(S) \in Seq(S)
  BY <1>1, <1>2 DEF Ascending
<1> DEFINE s == Ascending(S)
<1> HIDE DEF s
<1>4. s \in Seq(S) /\ Len(s) \in Nat
  BY <1>3 DEF s
<1>5. \A i \in 1 .. Len(s) : s[(Len(s) - i) + 1] \in S
  <2> SUFFICES ASSUME NEW i \in 1 .. Len(s) PROVE s[(Len(s) - i) + 1] \in S
    OBVIOUS
  <2>1. (Len(s) - i) + 1 \in 1 .. Len(s)
    BY <1>4
  <2> QED
    BY <1>4, <2>1
<1>6. [i \in 1 .. Len(s) |-> s[(Len(s) - i) + 1]] \in Seq(S)
  BY <1>4, <1>5
<1> QED
  BY <1>3, <1>6 DEF Descending, Reverse, s

LEMMA MasksAre ==
  ASSUME NEW size \in 1 .. N
  PROVE  Masks(size) \subseteq Process /\ Masks(size) \subseteq 1 .. size - 1
BY InputAssumption DEF Masks, Process

\* MPIR_Bcast_binomial stays within the communicator.
LEMMA BinomialBcastPeers ==
  ASSUME NEW S \in SUBSET Process, NEW r \in S, NEW c \in {"world", "node", "roots"}
  PROVE  BinomialBcast(S, c, r) \in Seq(Operation)
<1> DEFINE size == Cardinality(S)
           rank == RankIn(S, r)
           bits == {m \in Masks(size) : HasBit(rank, m)}
           lower == {m \in Masks(size) : \A b \in bits : m < b}
           lowest == CHOOSE b \in bits : \A d \in bits : b <= d
           fitting == {m \in lower : rank + m < size}
           sends == Descending(fitting)
           receive == IF bits = {} THEN <<>>
                      ELSE <<IRecv(ProcessAt(S, rank - lowest), "bcast", c), Wait>>
           send == [i \in DOMAIN sends |->
                     ISend(ProcessAt(S, rank + sends[i]), "bcast", c)]
<1>1. size \in 1 .. N /\ rank \in Nat /\ rank < size
  BY RankBelowSize
<1>2. Masks(size) \subseteq Process /\ Masks(size) \subseteq 1 .. size - 1
  BY <1>1, MasksAre
<1>3. receive \in Seq(Operation)
  <2>1. CASE bits # {}
    <3>1. bits \subseteq Nat
      BY <1>1, <1>2
    <3>2. \E b \in bits : \A d \in bits : b <= d
      <4> HIDE DEF bits
      <4> QED
        BY <2>1, <3>1, LeastNumber
    <3>3. lowest \in bits
      <4> HIDE DEF bits
      <4> QED
        BY <3>2
    <3>4. lowest \in Nat \ {0} /\ HasBit(rank, lowest)
      <4>1. lowest \in 1 .. size - 1 /\ HasBit(rank, lowest)
        <5> HIDE DEF lowest
        <5> QED
          BY <1>2, <3>3
      <4> HIDE DEF lowest, size, rank
      <4> QED
        BY <1>1, <4>1
    <3>5. lowest <= rank
      <4> HIDE DEF lowest, rank
      <4>1. rank < lowest => rank \div lowest = 0
        BY <1>1, <3>4
      <4> QED
        BY <1>1, <3>4, <4>1 DEF HasBit
    <3>6. rank - lowest \in Nat /\ rank - lowest < size
      BY <1>1, <3>4, <3>5
    <3>7. ProcessAt(S, rank - lowest) \in Process
      BY <3>6, MemberAt
    <3> HIDE DEF lowest, rank, bits
    <3>8. IRecv(ProcessAt(S, rank - lowest), "bcast", c) \in Operation /\ Wait \in Operation
      BY <3>7, OperationKinds
    <3> QED
      BY <2>1, <3>8
  <2> QED
    BY <2>1
<1>4. send \in Seq(Operation)
  <2>1. fitting \subseteq Process /\ \A m \in fitting : m \in Nat /\ rank + m < size
    BY <1>1, <1>2
  <2> HIDE DEF fitting, rank
  <2>2. sends \in Seq(fitting)
    BY <2>1, LoopsOver
  <2> HIDE DEF sends, size
  <2>3. \A i \in DOMAIN sends : ISend(ProcessAt(S, rank + sends[i]), "bcast", c) \in Operation
    <3> SUFFICES ASSUME NEW i \in DOMAIN sends
                 PROVE  ISend(ProcessAt(S, rank + sends[i]), "bcast", c) \in Operation
      OBVIOUS
    <3>1. sends[i] \in fitting
      BY <2>2
    <3>2. rank + sends[i] \in Nat /\ rank + sends[i] < size
      BY <1>1, <2>1, <3>1
    <3>3. ProcessAt(S, rank + sends[i]) \in Process
      BY <3>2, MemberAt DEF size
    <3> QED
      BY <3>3, OperationKinds
  <2>4. DOMAIN sends = 1 .. Len(sends) /\ Len(sends) \in Nat
    BY <2>2
  <2> QED
    BY <2>3, <2>4
<1>5. BinomialBcast(S, c, r) = receive \o send
  BY DEF BinomialBcast
<1> HIDE DEF receive, send
<1> QED
  BY <1>3, <1>4, <1>5

\* MPIR_Barrier_intra stays within the communicator.
LEMMA DisseminationPeers ==
  ASSUME NEW S \in SUBSET Process, NEW r \in S, NEW c \in {"world", "node", "roots"}
  PROVE  Dissemination(S, c, r) \in Seq(Operation)
<1> DEFINE size == Cardinality(S)
           rank == RankIn(S, r)
           masks == Ascending(Masks(size))
           Step(k) ==
             LET m == masks[(k + 2) \div 3]
             IN  CASE k % 3 = 1 -> IRecv(ProcessAt(S, (rank - m + size) % size),
                                         "barrier", c)
                   [] k % 3 = 2 -> ISend(ProcessAt(S, (rank + m) % size),
                                         "barrier", c)
                   [] k % 3 = 0 -> Wait
<1>1. size \in 1 .. N /\ rank \in Nat /\ rank < size
  BY RankBelowSize
<1>2. Masks(size) \subseteq Process /\ Masks(size) \subseteq 1 .. size - 1
  BY <1>1, MasksAre
<1>3. masks \in Seq(Masks(size))
  BY <1>2, LoopsOver
<1> DEFINE n == Len(masks)
<1>4. n \in Nat
  BY <1>3
<1>5. ASSUME NEW k \in 1 .. 3 * n PROVE Step(k) \in Operation
  <2>1. (k + 2) \div 3 \in 1 .. n /\ k % 3 \in {0, 1, 2}
    BY <1>4
  <2> DEFINE m == masks[(k + 2) \div 3]
  <2>2. m \in 1 .. size - 1
    BY <1>2, <1>3, <2>1
  <2> HIDE DEF m, size, rank
  <2>3. /\ (rank - m + size) % size \in Nat /\ (rank - m + size) % size < size
        /\ (rank + m) % size \in Nat /\ (rank + m) % size < size
    BY <1>1, <2>2
  <2>4. /\ ProcessAt(S, (rank - m + size) % size) \in Process
        /\ ProcessAt(S, (rank + m) % size) \in Process
    BY <2>3, MemberAt DEF size
  <2>5. /\ IRecv(ProcessAt(S, (rank - m + size) % size), "barrier", c) \in Operation
        /\ ISend(ProcessAt(S, (rank + m) % size), "barrier", c) \in Operation
        /\ Wait \in Operation
    BY <2>4, OperationKinds
  <2> QED
    BY <2>1, <2>5 DEF m
<1>6. Dissemination(S, c, r) = [k \in 1 .. 3 * n |-> Step(k)]
  BY DEF Dissemination
<1> HIDE DEF Step, n
<1> QED
  BY <1>4, <1>5, <1>6

LEMMA BcastPeers ==
  ASSUME NEW node, NEW r \in Process
  PROVE  Bcast(node, r) \in Seq(Operation) /\ Barrier(node, r) \in Seq(Operation)
<1>1. /\ NodeMembers(node, r) \in SUBSET Process /\ r \in NodeMembers(node, r)
      /\ NodeRoots(node) \in SUBSET Process
  BY DEF NodeMembers, NodeRoots
<1>2. /\ BinomialBcast(NodeMembers(node, r), "node", r) \in Seq(Operation)
      /\ Dissemination(NodeMembers(node, r), "node", r) \in Seq(Operation)
      /\ BinomialBcast(Process, "world", r) \in Seq(Operation)
      /\ Dissemination(Process, "world", r) \in Seq(Operation)
  BY <1>1, BinomialBcastPeers, DisseminationPeers
<1>3. r \in NodeRoots(node) =>
        /\ BinomialBcast(NodeRoots(node), "roots", r) \in Seq(Operation)
        /\ Dissemination(NodeRoots(node), "roots", r) \in Seq(Operation)
  BY <1>1, BinomialBcastPeers, DisseminationPeers
<1>4. \A s \in Seq(Operation) : r \in NodeRoots(node) \/ RootsOnly(node, r, s) = <<>>
  BY DEF RootsOnly
<1>5. /\ RootsOnly(node, r, BinomialBcast(NodeRoots(node), "roots", r)) \in Seq(Operation)
      /\ RootsOnly(node, r, Dissemination(NodeRoots(node), "roots", r)) \in Seq(Operation)
  BY <1>3 DEF RootsOnly
<1>6. \A s, t \in Seq(Operation) : s \o t \in Seq(Operation)
  OBVIOUS
<1> QED
  BY <1>2, <1>5, <1>6 DEF Bcast, Barrier

LEMMA VectorsPeers ==
  ASSUME NEW count, NEW r \in Process
  PROVE  Scatterv(count, r) \in Seq(Operation) /\ Gatherv(count, r) \in Seq(Operation)
<1> DEFINE others == Ascending({p \in Process \ {0} : count[p] # 0})
<1>1. others \in Seq(Process)
  <2>1. {p \in Process \ {0} : count[p] # 0} \in SUBSET Process
    OBVIOUS
  <2>2. others \in Seq({p \in Process \ {0} : count[p] # 0})
    BY <2>1, LoopsOver
  <2> HIDE DEF others
  <2> QED
    BY <2>2
<1> HIDE DEF others
<1>2. \A i \in DOMAIN others : /\ ISend(others[i], "scatterv", "world") \in Operation
                               /\ IRecv(others[i], "gatherv", "world") \in Operation
  BY <1>1, OperationKinds
<1>3. 0 \in Process /\ Wait \in Operation
  BY InputAssumption, OperationKinds DEF Process
<1>4. DOMAIN others = 1 .. Len(others) /\ Len(others) \in Nat
  BY <1>1
<1>5. /\ [i \in DOMAIN others |-> ISend(others[i], "scatterv", "world")] \in Seq(Operation)
      /\ [i \in DOMAIN others |-> IRecv(others[i], "gatherv", "world")] \in Seq(Operation)
      /\ <<Wait>> \in Seq(Operation)
  BY <1>2, <1>3, <1>4
<1>6. /\ IRecv(0, "scatterv", "world") \in Operation
      /\ ISend(0, "gatherv", "world") \in Operation
  BY <1>3, OperationKinds
<1>7. /\ <<IRecv(0, "scatterv", "world"), Wait>> \in Seq(Operation)
      /\ <<ISend(0, "gatherv", "world"), Wait>> \in Seq(Operation)
  BY <1>3, <1>6
<1>8. \A s, t \in Seq(Operation) : s \o t \in Seq(Operation)
  OBVIOUS
<1> QED
  BY <1>5, <1>7, <1>8 DEF Scatterv, Gatherv, others

\* Every rank communicates with processes only.
LEMMA OperationsPeers ==
  ASSUME input \in Input, NEW r \in Process
  PROVE  /\ Operations(r) \in Seq(Operation)
         /\ \A k \in DOMAIN Operations(r) :
              Operations(r)[k].kind \in {"irecv", "isend"} =>
                Operations(r)[k].peer \in Process
<1>1. BcastOf[input][r] \in Seq(Operation) /\ BarrierOf[input][r] \in Seq(Operation)
  BY BcastPeers DEF BcastOf, BarrierOf
<1>2. /\ Scatterv(SendCounts(r), r) \in Seq(Operation)
      /\ Gatherv(RowCounts(r), r) \in Seq(Operation)
  BY VectorsPeers
<1>3. Operations(r) \in Seq(Operation)
  BY <1>1, <1>2 DEF Operations
<1> QED
  BY <1>3, OperationKinds

-----------------------------------------------------------------------------
(* The handshakes of rendezvous messages hold on to their requests.  All      *)
(* queues and connections together are one family of sequences; what is in    *)
(* them names a send, a receive, or both (a clear-to-send).                   *)

Place ==
  ({"channel"} \X Rank \X Rank) \union {<<"unexpected", d, d>> : d \in Rank}
    \union {<<"posted", d, d>> : d \in Rank}

Family(c, p, u) ==
  [q \in Place |-> IF q[1] = "channel" THEN c[q[2]][q[3]]
                   ELSE IF q[1] = "posted" THEN p[q[3]] ELSE u[q[3]]]

\* The send, and the receive, that element e of a queue names.
SendNamed(q, e) ==
  IF q[1] # "posted" /\ e.type = "rts" THEN <<e.envelope.source, e.sender>>
  ELSE IF q[1] = "channel" /\ e.type = "cts" THEN <<q[3], e.sender>>
  ELSE <<>>

ReceiveNamed(q, e) ==
  IF q[1] = "posted" THEN <<q[3], e.handle>>
  ELSE IF q[1] = "channel" /\ e.type = "cts" THEN <<q[2], e.receiver>>
  ELSE IF q[1] = "channel" /\ e.type = "data" THEN <<q[3], e.receiver>>
  ELSE <<>>

IsFamily(Q) ==
  /\ Q = [q \in Place |-> Q[q]]
  /\ \A q \in Place : \E S : Q[q] \in Seq(S)

\* No request is named twice.
NamedOnce(Q) ==
  \A q, p \in Place : \A i \in DOMAIN Q[q], j \in DOMAIN Q[p] :
    \/ q = p /\ i = j
    \/ /\ SendNamed(q, Q[q][i]) = <<>> \/ SendNamed(q, Q[q][i]) # SendNamed(p, Q[p][j])
       /\ ReceiveNamed(q, Q[q][i]) = <<>>
            \/ ReceiveNamed(q, Q[q][i]) # ReceiveNamed(p, Q[p][j])

SendFree(Q, x) ==
  \A q \in Place : \A i \in DOMAIN Q[q] : SendNamed(q, Q[q][i]) # x

ReceiveFree(Q, x) ==
  \A q \in Place : \A i \in DOMAIN Q[q] : ReceiveNamed(q, Q[q][i]) # x

Took(Q, R, q, i) == R = [Q EXCEPT ![q] = Without(@, i)]

Put(Q, R, q, e) == R = [Q EXCEPT ![q] = Append(@, e)]

LEMMA TakeKeepsFamily ==
  ASSUME NEW Q, IsFamily(Q), NamedOnce(Q), NEW q \in Place, NEW i \in DOMAIN Q[q],
         NEW R, Took(Q, R, q, i)
  PROVE  /\ IsFamily(R) /\ NamedOnce(R)
         /\ \A p \in Place : \A j \in DOMAIN R[p] :
              \E k \in DOMAIN Q[p] : R[p][j] = Q[p][k]
         /\ SendNamed(q, Q[q][i]) # <<>> => SendFree(R, SendNamed(q, Q[q][i]))
         /\ ReceiveNamed(q, Q[q][i]) # <<>> => ReceiveFree(R, ReceiveNamed(q, Q[q][i]))
<1>1. PICK S : Q[q] \in Seq(S)
  BY DEF IsFamily
<1>2. /\ R[q] = Without(Q[q], i) /\ \A p \in Place \ {q} : R[p] = Q[p]
      /\ R = [p \in Place |-> R[p]]
  BY DEF IsFamily, Took
<1>3. Without(Q[q], i) \in Seq(S)
  BY <1>1, WithoutShrinks
<1>4. IsFamily(R)
  BY <1>2, <1>3 DEF IsFamily
<1> DEFINE From(p, j) == IF p = q /\ i <= j THEN j + 1 ELSE j
<1>5. ASSUME NEW p \in Place, NEW j \in DOMAIN R[p]
      PROVE  /\ From(p, j) \in DOMAIN Q[p] /\ R[p][j] = Q[p][From(p, j)]
             /\ ~(p = q /\ From(p, j) = i)
  <2>1. CASE p = q
    <3>1. Len(Q[q]) \in Nat /\ DOMAIN Q[q] = 1 .. Len(Q[q])
      BY <1>1
    <3>2. j \in 1 .. Len(Q[q]) - 1 /\ R[q][j] = IF j < i THEN Q[q][j] ELSE Q[q][j + 1]
      BY <1>2, <2>1 DEF Without
    <3> QED
      BY <2>1, <3>1, <3>2
  <2>2. CASE p # q
    BY <1>2, <2>2
  <2> QED
    BY <2>1, <2>2
<1>6. ASSUME NEW p \in Place, NEW j \in DOMAIN R[p], NEW k \in DOMAIN R[p],
             From(p, j) = From(p, k)
      PROVE  j = k
  <2>1. PICK T : R[p] \in Seq(T)
    BY <1>4 DEF IsFamily
  <2>2. j \in Int /\ k \in Int /\ i \in Int
    BY <1>1, <2>1
  <2> QED
    BY <1>6, <2>2
<1> HIDE DEF From
<1>7. NamedOnce(R)
  <2> SUFFICES ASSUME NEW a \in Place, NEW b \in Place,
                      NEW j \in DOMAIN R[a], NEW k \in DOMAIN R[b], ~(a = b /\ j = k)
               PROVE  /\ \/ SendNamed(a, R[a][j]) = <<>>
                         \/ SendNamed(a, R[a][j]) # SendNamed(b, R[b][k])
                      /\ \/ ReceiveNamed(a, R[a][j]) = <<>>
                         \/ ReceiveNamed(a, R[a][j]) # ReceiveNamed(b, R[b][k])
    BY DEF NamedOnce
  <2>1. ~(a = b /\ From(a, j) = From(b, k))
    BY <1>6
  <2>2. /\ From(a, j) \in DOMAIN Q[a] /\ R[a][j] = Q[a][From(a, j)]
        /\ From(b, k) \in DOMAIN Q[b] /\ R[b][k] = Q[b][From(b, k)]
    BY <1>5
  <2> QED
    BY <2>1, <2>2 DEF NamedOnce
<1>8. ASSUME SendNamed(q, Q[q][i]) # <<>>
      PROVE  SendFree(R, SendNamed(q, Q[q][i]))
  <2> SUFFICES ASSUME NEW p \in Place, NEW j \in DOMAIN R[p]
               PROVE  SendNamed(p, R[p][j]) # SendNamed(q, Q[q][i])
    BY DEF SendFree
  <2> QED
    BY <1>5, <1>8 DEF NamedOnce
<1>9. ASSUME ReceiveNamed(q, Q[q][i]) # <<>>
      PROVE  ReceiveFree(R, ReceiveNamed(q, Q[q][i]))
  <2> SUFFICES ASSUME NEW p \in Place, NEW j \in DOMAIN R[p]
               PROVE  ReceiveNamed(p, R[p][j]) # ReceiveNamed(q, Q[q][i])
    BY DEF ReceiveFree
  <2> QED
    BY <1>5, <1>9 DEF NamedOnce
<1> QED
  BY <1>4, <1>5, <1>7, <1>8, <1>9

LEMMA PutKeepsFamily ==
  ASSUME NEW Q, IsFamily(Q), NamedOnce(Q), NEW q \in Place, NEW e,
         SendNamed(q, e) = <<>> \/ SendFree(Q, SendNamed(q, e)),
         ReceiveNamed(q, e) = <<>> \/ ReceiveFree(Q, ReceiveNamed(q, e)),
         NEW R, Put(Q, R, q, e)
  PROVE  /\ IsFamily(R) /\ NamedOnce(R)
         /\ \A p \in Place : \A j \in DOMAIN R[p] :
              \/ p = q /\ R[p][j] = e
              \/ j \in DOMAIN Q[p] /\ R[p][j] = Q[p][j]
<1>1. PICK S : Q[q] \in Seq(S)
  BY DEF IsFamily
<1>2. /\ R[q] = Append(Q[q], e) /\ \A p \in Place \ {q} : R[p] = Q[p]
      /\ R = [p \in Place |-> R[p]]
  BY DEF IsFamily, Put
<1>3. Q[q] \in Seq(S \union {e}) /\ e \in S \union {e}
  BY <1>1
<1>4. IsFamily(R)
  <2>1. R[q] \in Seq(S \union {e})
    BY <1>2, <1>3
  <2> QED
    BY <1>2, <2>1 DEF IsFamily
<1>5. /\ Len(Q[q]) \in Nat /\ DOMAIN Q[q] = 1 .. Len(Q[q])
      /\ DOMAIN R[q] = 1 .. Len(Q[q]) + 1
      /\ \A j \in 1 .. Len(Q[q]) : R[q][j] = Q[q][j]
      /\ R[q][Len(Q[q]) + 1] = e
  BY <1>2, <1>3
<1>6. ASSUME NEW p \in Place, NEW j \in DOMAIN R[p]
      PROVE  \/ p = q /\ j = Len(Q[q]) + 1 /\ R[p][j] = e
             \/ j \in DOMAIN Q[p] /\ R[p][j] = Q[p][j]
  BY <1>2, <1>5
<1>7. NamedOnce(R)
  <2> SUFFICES ASSUME NEW a \in Place, NEW b \in Place,
                      NEW j \in DOMAIN R[a], NEW k \in DOMAIN R[b], ~(a = b /\ j = k)
               PROVE  /\ \/ SendNamed(a, R[a][j]) = <<>>
                         \/ SendNamed(a, R[a][j]) # SendNamed(b, R[b][k])
                      /\ \/ ReceiveNamed(a, R[a][j]) = <<>>
                         \/ ReceiveNamed(a, R[a][j]) # ReceiveNamed(b, R[b][k])
    BY DEF NamedOnce
  <2>1. CASE j \in DOMAIN Q[a] /\ R[a][j] = Q[a][j] /\ k \in DOMAIN Q[b] /\ R[b][k] = Q[b][k]
    BY <2>1 DEF NamedOnce
  <2>2. CASE /\ a = q /\ j = Len(Q[q]) + 1 /\ R[a][j] = e
             /\ k \in DOMAIN Q[b] /\ R[b][k] = Q[b][k]
    BY <2>2 DEF SendFree, ReceiveFree
  <2>3. CASE /\ j \in DOMAIN Q[a] /\ R[a][j] = Q[a][j]
             /\ b = q /\ k = Len(Q[q]) + 1 /\ R[b][k] = e
    BY <2>3 DEF SendFree, ReceiveFree
  <2> QED
    BY <1>6, <2>1, <2>2, <2>3
<1> QED
  BY <1>4, <1>6, <1>7

\* What element e of q names is there: req[r][h] is request h of r.
Held(req, q, e) ==
  /\ q[1] = "unexpected" => e.type \in {"eager", "rts"}
  /\ q[1] = "channel" /\ e.type = "rts" => e.envelope.source = q[2]
  /\ SendNamed(q, e) # <<>> =>
       \E r \in Rank, h \in Handle :
         SendNamed(q, e) = <<r, h>> /\ req[r][h].state = "sending"
  /\ ReceiveNamed(q, e) # <<>> =>
       \E r \in Rank, h \in Handle :
         /\ ReceiveNamed(q, e) = <<r, h>>
         /\ req[r][h].state = IF q[1] = "posted" THEN "posted" ELSE "cleared"

Sound(Q, req) ==
  /\ IsFamily(Q) /\ NamedOnce(Q)
  /\ \A q \in Place : \A i \in DOMAIN Q[q] : Held(req, q, Q[q][i])

LEMMA SoundTake ==
  ASSUME NEW Q, NEW req, Sound(Q, req), NEW q \in Place, NEW i \in DOMAIN Q[q],
         NEW R, Took(Q, R, q, i)
  PROVE  /\ Sound(R, req)
         /\ SendNamed(q, Q[q][i]) # <<>> => SendFree(R, SendNamed(q, Q[q][i]))
         /\ ReceiveNamed(q, Q[q][i]) # <<>> => ReceiveFree(R, ReceiveNamed(q, Q[q][i]))
         /\ \A x : /\ SendFree(Q, x) => SendFree(R, x)
                   /\ ReceiveFree(Q, x) => ReceiveFree(R, x)
<1>1. IsFamily(Q) /\ NamedOnce(Q)
  BY DEF Sound
<1>2. /\ IsFamily(R) /\ NamedOnce(R)
      /\ \A p \in Place : \A j \in DOMAIN R[p] :
           \E k \in DOMAIN Q[p] : R[p][j] = Q[p][k]
      /\ SendNamed(q, Q[q][i]) # <<>> => SendFree(R, SendNamed(q, Q[q][i]))
      /\ ReceiveNamed(q, Q[q][i]) # <<>> => ReceiveFree(R, ReceiveNamed(q, Q[q][i]))
  BY <1>1, TakeKeepsFamily, Zenon
<1>3. Sound(R, req)
  <2>1. ASSUME NEW p \in Place, NEW j \in DOMAIN R[p] PROVE Held(req, p, R[p][j])
    <3>1. PICK k \in DOMAIN Q[p] : R[p][j] = Q[p][k]
      BY <1>2
    <3>2. Held(req, p, Q[p][k])
      BY DEF Sound
    <3> QED
      BY <3>1, <3>2
  <2> QED
    BY <1>2, <2>1 DEF Sound
<1>4. ASSUME NEW x
      PROVE  /\ SendFree(Q, x) => SendFree(R, x)
             /\ ReceiveFree(Q, x) => ReceiveFree(R, x)
  <2>1. ASSUME SendFree(Q, x), NEW p \in Place, NEW j \in DOMAIN R[p]
        PROVE  SendNamed(p, R[p][j]) # x
    BY <1>2, <2>1 DEF SendFree
  <2>2. ASSUME ReceiveFree(Q, x), NEW p \in Place, NEW j \in DOMAIN R[p]
        PROVE  ReceiveNamed(p, R[p][j]) # x
    BY <1>2, <2>2 DEF ReceiveFree
  <2> QED
    BY <2>1, <2>2 DEF SendFree, ReceiveFree
<1> QED
  BY <1>2, <1>3, <1>4

LEMMA SoundPut ==
  ASSUME NEW Q, NEW req, Sound(Q, req), NEW q \in Place, NEW e, Held(req, q, e),
         SendNamed(q, e) = <<>> \/ SendFree(Q, SendNamed(q, e)),
         ReceiveNamed(q, e) = <<>> \/ ReceiveFree(Q, ReceiveNamed(q, e)),
         NEW R, Put(Q, R, q, e)
  PROVE  Sound(R, req)
<1>1. IsFamily(Q) /\ NamedOnce(Q)
  BY DEF Sound
<1>2. /\ IsFamily(R) /\ NamedOnce(R)
      /\ \A p \in Place : \A j \in DOMAIN R[p] :
              \/ p = q /\ R[p][j] = e
              \/ j \in DOMAIN Q[p] /\ R[p][j] = Q[p][j]
  BY <1>1, PutKeepsFamily, SMT
<1>3. ASSUME NEW p \in Place, NEW j \in DOMAIN R[p] PROVE Held(req, p, R[p][j])
  <2>1. CASE p = q /\ R[p][j] = e
    BY <2>1
  <2>2. CASE j \in DOMAIN Q[p] /\ R[p][j] = Q[p][j]
    <3>1. Held(req, p, Q[p][j])
      BY <2>2 DEF Sound
    <3> QED
      BY <2>2, <3>1
  <2> QED
    BY <1>2, <2>1, <2>2
<1> QED
  BY <1>2, <1>3 DEF Sound

\* Nothing in Q names the requests in X, and only they differ.
AllFree(Q, X) == \A x \in X : SendFree(Q, x) /\ ReceiveFree(Q, x)

ChangedOnly(X, req, new) ==
  \A r \in Rank, h \in Handle : <<r, h>> \notin X => new[r][h] = req[r][h]

\* A request that nothing names may change.
LEMMA SoundRequest ==
  ASSUME NEW Q, NEW req, Sound(Q, req), NEW X, NEW new,
         AllFree(Q, X), ChangedOnly(X, req, new)
  PROVE  Sound(Q, new)
<1>1. ASSUME NEW q \in Place, NEW i \in DOMAIN Q[q] PROVE Held(new, q, Q[q][i])
  <2> DEFINE e == Q[q][i]
  <2>1. Held(req, q, e)
    BY DEF Sound
  <2>2. SendNamed(q, e) \notin X /\ ReceiveNamed(q, e) \notin X
    BY DEF AllFree, SendFree, ReceiveFree
  <2> HIDE DEF e
  <2>3. ASSUME SendNamed(q, e) # <<>>
        PROVE  \E r \in Rank, h \in Handle :
                 SendNamed(q, e) = <<r, h>> /\ new[r][h].state = "sending"
    <3>1. PICK r \in Rank, h \in Handle :
            SendNamed(q, e) = <<r, h>> /\ req[r][h].state = "sending"
      BY <2>1, <2>3 DEF Held
    <3> QED
      BY <2>2, <3>1 DEF ChangedOnly
  <2>4. ASSUME ReceiveNamed(q, e) # <<>>
        PROVE  \E r \in Rank, h \in Handle :
                 /\ ReceiveNamed(q, e) = <<r, h>>
                 /\ new[r][h].state = IF q[1] = "posted" THEN "posted" ELSE "cleared"
    <3>1. PICK r \in Rank, h \in Handle :
            /\ ReceiveNamed(q, e) = <<r, h>>
            /\ req[r][h].state = IF q[1] = "posted" THEN "posted" ELSE "cleared"
      BY <2>1, <2>4 DEF Held
    <3> QED
      BY <2>2, <3>1 DEF ChangedOnly
  <2> QED
    BY <2>1, <2>3, <2>4 DEF Held, e
<1> QED
  BY <1>1 DEF Sound

\* A request in another state is not named.
LEMMA NotNamed ==
  ASSUME NEW Q, NEW req, Sound(Q, req), NEW r \in Rank, NEW h \in Handle
  PROVE  /\ req[r][h].state # "sending" => SendFree(Q, <<r, h>>)
         /\ req[r][h].state \notin {"posted", "cleared"} => ReceiveFree(Q, <<r, h>>)
<1>0. <<r, h>> # <<>>
  OBVIOUS
<1>1. ASSUME req[r][h].state # "sending", NEW q \in Place, NEW i \in DOMAIN Q[q],
             SendNamed(q, Q[q][i]) = <<r, h>>
      PROVE  FALSE
  <2> DEFINE n == SendNamed(q, Q[q][i])
  <2>1. Held(req, q, Q[q][i]) /\ n # <<>> /\ n = <<r, h>>
    BY <1>0, <1>1 DEF Sound
  <2>2. PICK a \in Rank, b \in Handle : n = <<a, b>> /\ req[a][b].state = "sending"
    BY <2>1 DEF Held
  <2> HIDE DEF n
  <2> QED
    BY <1>1, <2>1, <2>2
<1>2. ASSUME req[r][h].state \notin {"posted", "cleared"}, NEW q \in Place, NEW i \in DOMAIN Q[q],
             ReceiveNamed(q, Q[q][i]) = <<r, h>>
      PROVE  FALSE
  <2> DEFINE n == ReceiveNamed(q, Q[q][i])
  <2>1. Held(req, q, Q[q][i]) /\ n # <<>> /\ n = <<r, h>>
    BY <1>0, <1>2 DEF Sound
  <2>2. PICK a \in Rank, b \in Handle :
          n = <<a, b>> /\ req[a][b].state = IF q[1] = "posted" THEN "posted" ELSE "cleared"
    BY <2>1 DEF Held
  <2> HIDE DEF n
  <2> QED
    BY <1>2, <2>1, <2>2
<1> QED
  BY <1>1, <1>2 DEF SendFree, ReceiveFree

LEMMA ChangeOne ==
  ASSUME NEW S, NEW F, F = [q \in S |-> F[q]], NEW G, G = [q \in S |-> G[q]],
         NEW a \in S, NEW x, \A q \in S : G[q] = IF q = a THEN x ELSE F[q]
  PROVE  G = [F EXCEPT ![a] = x]
OBVIOUS

LEMMA FamilyIsFunction ==
  ASSUME NEW c, NEW p, NEW u
  PROVE  Family(c, p, u) = [q \in Place |-> Family(c, p, u)[q]]
BY DEF Family

\* Connections and queues as parts of the family.
Shaped(c, p, u) ==
  /\ c = [s \in Rank |-> [d \in Rank |-> c[s][d]]]
  /\ p = [d \in Rank |-> p[d]]
  /\ u = [d \in Rank |-> u[d]]

Channel(s, d) == <<"channel", s, d>>
Posted(d) == <<"posted", d, d>>
Unexpected(d) == <<"unexpected", d, d>>

LEMMA Parts ==
  ASSUME NEW c, NEW p, NEW u, Shaped(c, p, u)
  PROVE  /\ \A s, d \in Rank : Channel(s, d) \in Place /\ Family(c, p, u)[Channel(s, d)] = c[s][d]
         /\ \A d \in Rank : /\ Posted(d) \in Place /\ Family(c, p, u)[Posted(d)] = p[d]
                            /\ Unexpected(d) \in Place /\ Family(c, p, u)[Unexpected(d)] = u[d]
BY DEF Shaped, Family, Place, Channel, Posted, Unexpected

\* G is F but for x at a, and at s and d.
SetAt(F, G, a, x) == G = [F EXCEPT ![a] = x]

SetAtTwo(F, G, s, d, x) == G = [F EXCEPT ![s][d] = x]

LEMMA ChangeChannel ==
  ASSUME NEW c, NEW p, NEW u, Shaped(c, p, u), NEW s \in Rank, NEW d \in Rank, NEW x,
         NEW e, SetAtTwo(c, e, s, d, x)
  PROVE  Shaped(e, p, u) /\ SetAt(Family(c, p, u), Family(e, p, u), Channel(s, d), x)
<1>1. /\ e = [a \in Rank |-> [b \in Rank |-> e[a][b]]]
      /\ \A a, b \in Rank : e[a][b] = IF a = s /\ b = d THEN x ELSE c[a][b]
  BY DEF Shaped, SetAtTwo
<1>2. ASSUME NEW q \in Place
      PROVE  Family(e, p, u)[q] = IF q = Channel(s, d) THEN x ELSE Family(c, p, u)[q]
  <2>1. CASE q \in {"channel"} \X Rank \X Rank
    <3>1. PICK a \in Rank, b \in Rank : q = <<"channel", a, b>>
      BY <2>1
    <3> QED
      BY <1>1, <3>1 DEF Family, Channel
  <2>2. CASE q \in {<<"unexpected", a, a>> : a \in Rank} \union {<<"posted", a, a>> : a \in Rank}
    BY <2>2 DEF Family, Channel
  <2> QED
    BY <2>1, <2>2 DEF Place
<1>3. Channel(s, d) \in Place
  BY DEF Channel, Place
<1>4. SetAt(Family(c, p, u), Family(e, p, u), Channel(s, d), x)
  <2> DEFINE F == Family(c, p, u)
             G == Family(e, p, u)
             a == Channel(s, d)
  <2>1. F = [q \in Place |-> F[q]] /\ G = [q \in Place |-> G[q]] /\ a \in Place
    BY <1>3, FamilyIsFunction
  <2>2. \A q \in Place : G[q] = IF q = a THEN x ELSE F[q]
    BY <1>2
  <2> HIDE DEF F, G, a
  <2>3. G = [F EXCEPT ![a] = x]
    BY <2>1, <2>2, ChangeOne
  <2> QED
    BY <2>3 DEF F, G, a, SetAt
<1> QED
  BY <1>1, <1>4 DEF Shaped

LEMMA ChangePosted ==
  ASSUME NEW c, NEW p, NEW u, Shaped(c, p, u), NEW d \in Rank, NEW x,
         NEW e, SetAt(p, e, d, x)
  PROVE  Shaped(c, e, u) /\ SetAt(Family(c, p, u), Family(c, e, u), Posted(d), x)
<1>1. e = [a \in Rank |-> e[a]] /\ \A a \in Rank : e[a] = IF a = d THEN x ELSE p[a]
  BY DEF Shaped, SetAt
<1>2. ASSUME NEW q \in Place
      PROVE  Family(c, e, u)[q] = IF q = Posted(d) THEN x ELSE Family(c, p, u)[q]
  <2>1. CASE q \in ({"channel"} \X Rank \X Rank) \union {<<"unexpected", a, a>> : a \in Rank}
    BY <2>1 DEF Family, Posted
  <2>2. CASE q \in {<<"posted", a, a>> : a \in Rank}
    BY <1>1, <2>2 DEF Family, Posted
  <2> QED
    BY <2>1, <2>2 DEF Place
<1>3. Posted(d) \in Place
  BY DEF Posted, Place
<1>4. SetAt(Family(c, p, u), Family(c, e, u), Posted(d), x)
  <2> DEFINE F == Family(c, p, u)
             G == Family(c, e, u)
             a == Posted(d)
  <2>1. F = [q \in Place |-> F[q]] /\ G = [q \in Place |-> G[q]] /\ a \in Place
    BY <1>3, FamilyIsFunction
  <2>2. \A q \in Place : G[q] = IF q = a THEN x ELSE F[q]
    BY <1>2
  <2> HIDE DEF F, G, a
  <2>3. G = [F EXCEPT ![a] = x]
    BY <2>1, <2>2, ChangeOne
  <2> QED
    BY <2>3 DEF F, G, a, SetAt
<1> QED
  BY <1>1, <1>4 DEF Shaped

LEMMA ChangeUnexpected ==
  ASSUME NEW c, NEW p, NEW u, Shaped(c, p, u), NEW d \in Rank, NEW x,
         NEW e, SetAt(u, e, d, x)
  PROVE  Shaped(c, p, e) /\ SetAt(Family(c, p, u), Family(c, p, e), Unexpected(d), x)
<1>1. e = [a \in Rank |-> e[a]] /\ \A a \in Rank : e[a] = IF a = d THEN x ELSE u[a]
  BY DEF Shaped, SetAt
<1>2. ASSUME NEW q \in Place
      PROVE  Family(c, p, e)[q] = IF q = Unexpected(d) THEN x ELSE Family(c, p, u)[q]
  <2>1. CASE q \in ({"channel"} \X Rank \X Rank) \union {<<"posted", a, a>> : a \in Rank}
    BY <2>1 DEF Family, Unexpected
  <2>2. CASE q \in {<<"unexpected", a, a>> : a \in Rank}
    BY <1>1, <2>2 DEF Family, Unexpected
  <2> QED
    BY <2>1, <2>2 DEF Place
<1>3. Unexpected(d) \in Place
  BY DEF Unexpected, Place
<1>4. SetAt(Family(c, p, u), Family(c, p, e), Unexpected(d), x)
  <2> DEFINE F == Family(c, p, u)
             G == Family(c, p, e)
             a == Unexpected(d)
  <2>1. F = [q \in Place |-> F[q]] /\ G = [q \in Place |-> G[q]] /\ a \in Place
    BY <1>3, FamilyIsFunction
  <2>2. \A q \in Place : G[q] = IF q = a THEN x ELSE F[q]
    BY <1>2
  <2> HIDE DEF F, G, a
  <2>3. G = [F EXCEPT ![a] = x]
    BY <2>1, <2>2, ChangeOne
  <2> QED
    BY <2>3 DEF F, G, a, SetAt
<1> QED
  BY <1>1, <1>4 DEF Shaped

\* What taking element x out of place q sets free.
Frees(Q, R, q, x) ==
  /\ SendNamed(q, x) # <<>> => SendFree(R, SendNamed(q, x))
  /\ ReceiveNamed(q, x) # <<>> => ReceiveFree(R, ReceiveNamed(q, x))
  /\ \A y : /\ SendFree(Q, y) => SendFree(R, y)
            /\ ReceiveFree(Q, y) => ReceiveFree(R, y)

\* What may be put into place q.
Fresh(Q, req, q, x) ==
  /\ Held(req, q, x)
  /\ SendNamed(q, x) = <<>> \/ SendFree(Q, SendNamed(q, x))
  /\ ReceiveNamed(q, x) = <<>> \/ ReceiveFree(Q, ReceiveNamed(q, x))

\* Everything in the connections c and the queues p and u is sound.
Good(c, p, u, req) == Shaped(c, p, u) /\ Sound(Family(c, p, u), req)

\* One element leaves a connection or a queue, or joins it.
Dequeued(F, G, s, d) == G = [F EXCEPT ![s][d] = Tail(@)]

Enqueued(F, G, s, d, x) == G = [F EXCEPT ![s][d] = Append(@, x)]

Found(F, G, d, i) == G = [F EXCEPT ![d] = Without(@, i)]

Joined(F, G, d, x) == G = [F EXCEPT ![d] = Append(@, x)]

LEMMA TakeSound ==
  ASSUME NEW Q, NEW req, Sound(Q, req), NEW q \in Place, NEW i \in DOMAIN Q[q],
         NEW R, Took(Q, R, q, i)
  PROVE  Sound(R, req) /\ Frees(Q, R, q, Q[q][i]) /\ Held(req, q, Q[q][i])
<1>1. /\ Sound(R, req)
      /\ SendNamed(q, Q[q][i]) # <<>> => SendFree(R, SendNamed(q, Q[q][i]))
      /\ ReceiveNamed(q, Q[q][i]) # <<>> => ReceiveFree(R, ReceiveNamed(q, Q[q][i]))
      /\ \A x : /\ SendFree(Q, x) => SendFree(R, x)
                /\ ReceiveFree(Q, x) => ReceiveFree(R, x)
  BY SoundTake, Zenon
<1>2. Held(req, q, Q[q][i])
  BY DEF Sound
<1> QED
  BY <1>1, <1>2 DEF Frees

LEMMA HeadIsFirst ==
  ASSUME NEW S, NEW q \in Seq(S), q # <<>>
  PROVE  1 \in DOMAIN q /\ Head(q) = q[1] /\ Tail(q) = Without(q, 1)
<1>1. Len(q) \in Nat \ {0} /\ DOMAIN q = 1 .. Len(q)
  OBVIOUS
<1>2. Tail(q) = [k \in 1 .. Len(q) - 1 |-> q[k + 1]]
  <2>1. /\ Tail(q) \in Seq(S) /\ Len(Tail(q)) = Len(q) - 1
        /\ \A k \in 1 .. Len(Tail(q)) : Tail(q)[k] = q[k + 1]
    BY HeadTailProperties
  <2> DEFINE t == Tail(q)
  <2>2. t \in Seq(S)
    BY <2>1
  <2> HIDE DEF t
  <2>3. t = [k \in 1 .. Len(t) |-> t[k]]
    BY <2>2
  <2> QED
    BY <2>1, <2>3 DEF t
<1>3. Without(q, 1) = [k \in 1 .. Len(q) - 1 |-> q[k + 1]]
  BY <1>1 DEF Without
<1> QED
  BY <1>1, <1>2, <1>3

LEMMA ChannelTake ==
  ASSUME NEW c, NEW p, NEW u, NEW req, Good(c, p, u, req),
         NEW s \in Rank, NEW d \in Rank, c[s][d] # <<>>,
         NEW e, Dequeued(c, e, s, d)
  PROVE  /\ Good(e, p, u, req)
         /\ Frees(Family(c, p, u), Family(e, p, u), Channel(s, d), Head(c[s][d]))
         /\ Held(req, Channel(s, d), Head(c[s][d]))
<1> DEFINE Q == Family(c, p, u)
           R == Family(e, p, u)
           q == Channel(s, d)
<1>1. q \in Place /\ Q[q] = c[s][d]
  BY Parts DEF Good
<1>2. \E S : Q[q] \in Seq(S)
  BY <1>1 DEF Good, Sound, IsFamily
<1>3. 1 \in DOMAIN Q[q] /\ Head(c[s][d]) = Q[q][1] /\ Tail(c[s][d]) = Without(Q[q], 1)
  BY <1>1, <1>2, HeadIsFirst
<1> DEFINE y == Without(Q[q], 1)
<1>4. SetAtTwo(c, e, s, d, y)
  BY <1>3 DEF Good, Shaped, Dequeued, SetAtTwo
<1> HIDE DEF y
<1>5. Shaped(e, p, u) /\ SetAt(Q, R, q, y)
  BY <1>4, ChangeChannel DEF Good
<1> HIDE DEF Q, R, q
<1>6. Took(Q, R, q, 1)
  BY <1>5 DEF Took, SetAt, y
<1>7. Sound(R, req) /\ Frees(Q, R, q, Q[q][1]) /\ Held(req, q, Q[q][1])
  BY <1>1, <1>3, <1>6, TakeSound DEF Good, Q
<1> QED
  BY <1>3, <1>5, <1>7 DEF Good, Q, R, q

LEMMA ChannelPut ==
  ASSUME NEW c, NEW p, NEW u, NEW req, Good(c, p, u, req),
         NEW s \in Rank, NEW d \in Rank, NEW x,
         Fresh(Family(c, p, u), req, Channel(s, d), x),
         NEW e, Enqueued(c, e, s, d, x)
  PROVE  Good(e, p, u, req)
<1> DEFINE Q == Family(c, p, u)
           R == Family(e, p, u)
           q == Channel(s, d)
<1>1. q \in Place /\ Q[q] = c[s][d]
  BY Parts DEF Good
<1> DEFINE y == Append(Q[q], x)
<1>2. SetAtTwo(c, e, s, d, y)
  BY <1>1 DEF Good, Shaped, Enqueued, SetAtTwo
<1> HIDE DEF y
<1>3. Shaped(e, p, u) /\ SetAt(Q, R, q, y)
  BY <1>2, ChangeChannel DEF Good
<1> HIDE DEF Q, R, q
<1>4. Put(Q, R, q, x)
  BY <1>3 DEF Put, SetAt, y
<1>5. Sound(R, req)
  BY <1>1, <1>4, SoundPut DEF Good, Q, q, Fresh
<1> QED
  BY <1>3, <1>5 DEF Good, R

LEMMA PostedTake ==
  ASSUME NEW c, NEW p, NEW u, NEW req, Good(c, p, u, req),
         NEW d \in Rank, NEW i \in DOMAIN p[d],
         NEW e, Found(p, e, d, i)
  PROVE  /\ Good(c, e, u, req)
         /\ Frees(Family(c, p, u), Family(c, e, u), Posted(d), p[d][i])
         /\ Held(req, Posted(d), p[d][i])
<1> DEFINE Q == Family(c, p, u)
           R == Family(c, e, u)
           q == Posted(d)
<1>1. q \in Place /\ Q[q] = p[d]
  BY Parts DEF Good
<1> DEFINE y == Without(Q[q], i)
<1>2. SetAt(p, e, d, y)
  BY <1>1 DEF Good, Shaped, Found, SetAt
<1> HIDE DEF y
<1>3. Shaped(c, e, u) /\ SetAt(Q, R, q, y)
  BY <1>2, ChangePosted DEF Good
<1> HIDE DEF Q, R, q
<1>4. Took(Q, R, q, i)
  BY <1>3 DEF Took, SetAt, y
<1>5. Sound(R, req) /\ Frees(Q, R, q, Q[q][i]) /\ Held(req, q, Q[q][i])
  BY <1>1, <1>4, TakeSound DEF Good, Q
<1> QED
  BY <1>1, <1>3, <1>5 DEF Good, Q, R, q

LEMMA PostedPut ==
  ASSUME NEW c, NEW p, NEW u, NEW req, Good(c, p, u, req),
         NEW d \in Rank, NEW x, Fresh(Family(c, p, u), req, Posted(d), x),
         NEW e, Joined(p, e, d, x)
  PROVE  Good(c, e, u, req)
<1> DEFINE Q == Family(c, p, u)
           R == Family(c, e, u)
           q == Posted(d)
<1>1. q \in Place /\ Q[q] = p[d]
  BY Parts DEF Good
<1> DEFINE y == Append(Q[q], x)
<1>2. SetAt(p, e, d, y)
  BY <1>1 DEF Good, Shaped, Joined, SetAt
<1> HIDE DEF y
<1>3. Shaped(c, e, u) /\ SetAt(Q, R, q, y)
  BY <1>2, ChangePosted DEF Good
<1> HIDE DEF Q, R, q
<1>4. Put(Q, R, q, x)
  BY <1>3 DEF Put, SetAt, y
<1>5. Sound(R, req)
  BY <1>1, <1>4, SoundPut DEF Good, Q, q, Fresh
<1> QED
  BY <1>3, <1>5 DEF Good, R

LEMMA UnexpectedTake ==
  ASSUME NEW c, NEW p, NEW u, NEW req, Good(c, p, u, req),
         NEW d \in Rank, NEW i \in DOMAIN u[d],
         NEW e, Found(u, e, d, i)
  PROVE  /\ Good(c, p, e, req)
         /\ Frees(Family(c, p, u), Family(c, p, e), Unexpected(d), u[d][i])
         /\ Held(req, Unexpected(d), u[d][i])
<1> DEFINE Q == Family(c, p, u)
           R == Family(c, p, e)
           q == Unexpected(d)
<1>1. q \in Place /\ Q[q] = u[d]
  BY Parts DEF Good
<1> DEFINE y == Without(Q[q], i)
<1>2. SetAt(u, e, d, y)
  BY <1>1 DEF Good, Shaped, Found, SetAt
<1> HIDE DEF y
<1>3. Shaped(c, p, e) /\ SetAt(Q, R, q, y)
  BY <1>2, ChangeUnexpected DEF Good
<1> HIDE DEF Q, R, q
<1>4. Took(Q, R, q, i)
  BY <1>3 DEF Took, SetAt, y
<1>5. Sound(R, req) /\ Frees(Q, R, q, Q[q][i]) /\ Held(req, q, Q[q][i])
  BY <1>1, <1>4, TakeSound DEF Good, Q
<1> QED
  BY <1>1, <1>3, <1>5 DEF Good, Q, R, q

LEMMA UnexpectedPut ==
  ASSUME NEW c, NEW p, NEW u, NEW req, Good(c, p, u, req),
         NEW d \in Rank, NEW x, Fresh(Family(c, p, u), req, Unexpected(d), x),
         NEW e, Joined(u, e, d, x)
  PROVE  Good(c, p, e, req)
<1> DEFINE Q == Family(c, p, u)
           R == Family(c, p, e)
           q == Unexpected(d)
<1>1. q \in Place /\ Q[q] = u[d]
  BY Parts DEF Good
<1> DEFINE y == Append(Q[q], x)
<1>2. SetAt(u, e, d, y)
  BY <1>1 DEF Good, Shaped, Joined, SetAt
<1> HIDE DEF y
<1>3. Shaped(c, p, e) /\ SetAt(Q, R, q, y)
  BY <1>2, ChangeUnexpected DEF Good
<1> HIDE DEF Q, R, q
<1>4. Put(Q, R, q, x)
  BY <1>3 DEF Put, SetAt, y
<1>5. Sound(R, req)
  BY <1>1, <1>4, SoundPut DEF Good, Q, q, Fresh
<1> QED
  BY <1>3, <1>5 DEF Good, R

\* The elements that name something, by the place they are put into.
LEMMA Names ==
  ASSUME NEW s, NEW d, NEW h, NEW x
  PROVE  /\ SendNamed(Channel(s, d), Eager(h, x)) = <<>>
         /\ ReceiveNamed(Channel(s, d), Eager(h, x)) = <<>>
         /\ SendNamed(Channel(s, d), ReadyToSend(h, x)) = <<h.source, x>>
         /\ ReceiveNamed(Channel(s, d), ReadyToSend(h, x)) = <<>>
         /\ SendNamed(Channel(s, d), ClearToSend(x, h)) = <<d, x>>
         /\ ReceiveNamed(Channel(s, d), ClearToSend(x, h)) = <<s, h>>
         /\ SendNamed(Channel(s, d), RndvData(h, x)) = <<>>
         /\ ReceiveNamed(Channel(s, d), RndvData(h, x)) = <<d, h>>
         /\ SendNamed(Posted(d), x) = <<>>
         /\ ReceiveNamed(Posted(d), x) = <<d, x.handle>>
         /\ x.type = "rts" => /\ SendNamed(Channel(s, d), x) = <<x.envelope.source, x.sender>>
                              /\ SendNamed(Unexpected(d), x) = <<x.envelope.source, x.sender>>
         /\ x.type = "cts" => /\ SendNamed(Channel(s, d), x) = <<d, x.sender>>
                              /\ ReceiveNamed(Channel(s, d), x) = <<s, x.receiver>>
         /\ x.type = "data" => ReceiveNamed(Channel(s, d), x) = <<d, x.receiver>>
         /\ x.type = "eager" => /\ SendNamed(Unexpected(d), x) = <<>>
                                /\ SendNamed(Channel(s, d), x) = <<>>
         /\ ReceiveNamed(Unexpected(d), x) = <<>>
BY DEF SendNamed, ReceiveNamed, Channel, Posted, Unexpected, Eager, ReadyToSend,
       ClearToSend, RndvData

\* No element in a connection or a queue names request h of r.
Unnamed(c, p, u, r, h) ==
  SendFree(Family(c, p, u), <<r, h>>) /\ ReceiveFree(Family(c, p, u), <<r, h>>)

LEMMA RequestChanges ==
  ASSUME NEW c, NEW p, NEW u, NEW req, Good(c, p, u, req),
         NEW r \in Rank, NEW h \in Handle, Unnamed(c, p, u, r, h), NEW new,
         ChangedOnly({<<r, h>>}, req, new)
  PROVE  Good(c, p, u, new)
<1> DEFINE Q == Family(c, p, u)
           X == {<<r, h>>}
<1>1. Sound(Q, req) /\ Shaped(c, p, u)
  BY DEF Good
<1>2. AllFree(Q, X) /\ ChangedOnly(X, req, new)
  BY DEF Unnamed, AllFree
<1> HIDE DEF Q, X
<1>4. Sound(Q, new)
  BY <1>1, <1>2, SoundRequest
<1> QED
  BY <1>1, <1>4 DEF Good, Q

LEMMA StateNamed ==
  ASSUME NEW c, NEW p, NEW u, NEW req, Good(c, p, u, req),
         NEW r \in Rank, NEW h \in Handle
  PROVE  /\ req[r][h].state # "sending" => SendFree(Family(c, p, u), <<r, h>>)
         /\ req[r][h].state \notin {"posted", "cleared"} =>
              ReceiveFree(Family(c, p, u), <<r, h>>)
BY NotNamed DEF Good

\* What the elements promise of the requests they name.
LEMMA HeldMeans ==
  ASSUME NEW req, NEW s \in Rank, NEW d \in Rank, NEW x
  PROVE  /\ Held(req, Channel(s, d), x) /\ x.type = "rts" =>
              /\ x.envelope.source = s /\ x.sender \in Handle
              /\ req[s][x.sender].state = "sending"
         /\ Held(req, Unexpected(d), x) /\ x.type = "rts" =>
              /\ x.envelope.source \in Rank /\ x.sender \in Handle
              /\ req[x.envelope.source][x.sender].state = "sending"
         /\ Held(req, Channel(s, d), x) /\ x.type = "cts" =>
              /\ x.sender \in Handle /\ x.receiver \in Handle
              /\ req[d][x.sender].state = "sending"
              /\ req[s][x.receiver].state = "cleared"
         /\ Held(req, Channel(s, d), x) /\ x.type = "data" =>
              x.receiver \in Handle /\ req[d][x.receiver].state = "cleared"
         /\ Held(req, Posted(d), x) =>
              x.handle \in Handle /\ req[d][x.handle].state = "posted"
<1>1. Held(req, Channel(s, d), x) /\ x.type = "rts" =>
              /\ x.envelope.source = s /\ x.sender \in Handle
              /\ req[s][x.sender].state = "sending"
  BY DEF Held, Channel, SendNamed
<1>2. Held(req, Unexpected(d), x) /\ x.type = "rts" =>
              /\ x.envelope.source \in Rank /\ x.sender \in Handle
              /\ req[x.envelope.source][x.sender].state = "sending"
  BY DEF Held, Unexpected, SendNamed
<1>3. Held(req, Channel(s, d), x) /\ x.type = "cts" =>
              /\ x.sender \in Handle /\ x.receiver \in Handle
              /\ req[d][x.sender].state = "sending"
              /\ req[s][x.receiver].state = "cleared"
  BY DEF Held, Channel, SendNamed, ReceiveNamed
<1>4. Held(req, Channel(s, d), x) /\ x.type = "data" =>
              x.receiver \in Handle /\ req[d][x.receiver].state = "cleared"
  BY DEF Held, Channel, ReceiveNamed
<1>5. Held(req, Posted(d), x) =>
              x.handle \in Handle /\ req[d][x.handle].state = "posted"
  BY DEF Held, Posted, SendNamed, ReceiveNamed
<1> QED
  BY <1>1, <1>2, <1>3, <1>4, <1>5

\* What must hold of the requests for an element to be held.
LEMMA HeldWhen ==
  ASSUME NEW req, NEW s \in Rank, NEW d \in Rank, NEW h \in Handle, NEW x
  PROVE  /\ \A e : Held(req, Channel(s, d), Eager(e, x))
         /\ \A e : e.source = s /\ req[s][h].state = "sending" =>
              Held(req, Channel(s, d), ReadyToSend(e, h))
         /\ x \in Handle /\ req[d][x].state = "sending" /\ req[s][h].state = "cleared" =>
              Held(req, Channel(s, d), ClearToSend(x, h))
         /\ req[d][h].state = "cleared" => Held(req, Channel(s, d), RndvData(h, x))
         /\ x.handle \in Handle /\ req[d][x.handle].state = "posted" =>
              Held(req, Posted(d), x)
         /\ x.type = "eager" => Held(req, Unexpected(d), x)
         /\ /\ x.type = "rts" /\ x.envelope.source \in Rank /\ x.sender \in Handle
            /\ req[x.envelope.source][x.sender].state = "sending"
            => Held(req, Unexpected(d), x)
<1>1. ASSUME NEW e PROVE Held(req, Channel(s, d), Eager(e, x))
  BY DEF Held, Channel, SendNamed, ReceiveNamed, Eager
<1>2. ASSUME NEW e, e.source = s, req[s][h].state = "sending"
      PROVE  Held(req, Channel(s, d), ReadyToSend(e, h))
  BY <1>2 DEF Held, Channel, SendNamed, ReceiveNamed, ReadyToSend
<1>3. ASSUME x \in Handle, req[d][x].state = "sending", req[s][h].state = "cleared"
      PROVE  Held(req, Channel(s, d), ClearToSend(x, h))
  BY <1>3 DEF Held, Channel, SendNamed, ReceiveNamed, ClearToSend
<1>4. ASSUME req[d][h].state = "cleared" PROVE Held(req, Channel(s, d), RndvData(h, x))
  BY <1>4 DEF Held, Channel, SendNamed, ReceiveNamed, RndvData
<1>5. ASSUME x.handle \in Handle, req[d][x.handle].state = "posted"
      PROVE  Held(req, Posted(d), x)
  BY <1>5 DEF Held, Posted, SendNamed, ReceiveNamed
<1>6. x.type = "eager" => Held(req, Unexpected(d), x)
  BY DEF Held, Unexpected, SendNamed, ReceiveNamed
<1>7. /\ x.type = "rts" /\ x.envelope.source \in Rank /\ x.sender \in Handle
      /\ req[x.envelope.source][x.sender].state = "sending"
      => Held(req, Unexpected(d), x)
  BY DEF Held, Unexpected, SendNamed, ReceiveNamed
<1> QED
  BY <1>1, <1>2, <1>3, <1>4, <1>5, <1>6, <1>7

LEMMA EagerKeepsGood ==
  ASSUME NEW c, NEW p, NEW u, NEW req, Good(c, p, u, req),
         NEW s \in Rank, NEW d \in Rank, NEW envelope, NEW payload,
         NEW e, Enqueued(c, e, s, d, Eager(envelope, payload))
  PROVE  Good(e, p, u, req)
<1> DEFINE x == Eager(envelope, payload)
<1>1. Held(req, Channel(s, d), x)
  BY DEF Held, Channel, SendNamed, ReceiveNamed, Eager
<1>2. Fresh(Family(c, p, u), req, Channel(s, d), x)
  BY <1>1, Names DEF Fresh
<1> HIDE DEF x
<1>3. Enqueued(c, e, s, d, x)
  BY DEF x
<1> QED
  BY <1>2, <1>3, ChannelPut

LEMMA RndvKeepsGood ==
  ASSUME NEW c, NEW p, NEW u, NEW req, Good(c, p, u, req),
         NEW s \in Rank, NEW d \in Rank, NEW h \in Handle, req[s][h] = None,
         NEW envelope, envelope.source = s,
         NEW new, new[s][h].state = "sending", ChangedOnly({<<s, h>>}, req, new),
         NEW e, Enqueued(c, e, s, d, ReadyToSend(envelope, h))
  PROVE  Good(e, p, u, new)
<1>1. Unnamed(c, p, u, s, h)
  BY StateNamed DEF Unnamed, None
<1>2. Good(c, p, u, new)
  BY <1>1, RequestChanges
<1> DEFINE x == ReadyToSend(envelope, h)
<1>3. Held(new, Channel(s, d), x)
  BY HeldWhen
<1>4. SendNamed(Channel(s, d), x) = <<s, h>> /\ ReceiveNamed(Channel(s, d), x) = <<>>
  BY Names
<1>5. Fresh(Family(c, p, u), new, Channel(s, d), x)
  BY <1>1, <1>3, <1>4 DEF Fresh, Unnamed
<1> HIDE DEF x
<1>6. Enqueued(c, e, s, d, x)
  BY DEF x
<1> QED
  BY <1>2, <1>5, <1>6, ChannelPut

LEMMA PostKeepsGood ==
  ASSUME NEW c, NEW p, NEW u, NEW req, Good(c, p, u, req),
         NEW d \in Rank, NEW h \in Handle, req[d][h] = None, NEW match, NEW new,
         new[d][h].state = "posted",
         ChangedOnly({<<d, h>>}, req, new),
         NEW e, Joined(p, e, d, [match |-> match, handle |-> h])
  PROVE  Good(c, e, u, new)
<1>1. Unnamed(c, p, u, d, h)
  BY StateNamed DEF Unnamed, None
<1>2. Good(c, p, u, new)
  BY <1>1, RequestChanges
<1> DEFINE x == [match |-> match, handle |-> h]
<1>3. Held(new, Posted(d), x)
  BY HeldWhen
<1>4. SendNamed(Posted(d), x) = <<>> /\ ReceiveNamed(Posted(d), x) = <<d, h>>
  BY DEF SendNamed, ReceiveNamed, Posted
<1>5. Fresh(Family(c, p, u), new, Posted(d), x)
  BY <1>1, <1>3, <1>4 DEF Fresh, Unnamed
<1> HIDE DEF x
<1>6. Joined(p, e, d, x)
  BY DEF x
<1> QED
  BY <1>2, <1>5, <1>6, PostedPut

\* Before a taken or a found element is passed on: what stays unnamed.
LEMMA StaysFree ==
  ASSUME NEW Q, NEW R, NEW q, NEW x, Frees(Q, R, q, x), NEW n
  PROVE  /\ SendFree(Q, n) => SendFree(R, n)
         /\ ReceiveFree(Q, n) => ReceiveFree(R, n)
BY DEF Frees

LEMMA TakeUnexpectedKeepsGood ==
  ASSUME NEW c, NEW p, NEW u, NEW req, Good(c, p, u, req),
         NEW d \in Rank, NEW h \in Handle, req[d][h] = None,
         NEW i \in DOMAIN u[d], NEW e, Found(u, e, d, i), NEW new,
         ChangedOnly({<<d, h>>}, req, new)
  PROVE  /\ Good(c, p, e, new)
         /\ u[d][i].type = "rts" /\ new[d][h].state = "cleared" =>
              /\ u[d][i].envelope.source \in Rank
              /\ \A f : Enqueued(c, f, d, u[d][i].envelope.source,
                                 ClearToSend(u[d][i].sender, h))
                        => Good(f, p, e, new)
<1> DEFINE m == u[d][i]
<1>1. /\ Good(c, p, e, req)
      /\ Frees(Family(c, p, u), Family(c, p, e), Unexpected(d), m)
      /\ Held(req, Unexpected(d), m)
  BY UnexpectedTake
<1>2. Unnamed(c, p, e, d, h)
  BY <1>1, StateNamed DEF Unnamed, None
<1>3. Good(c, p, e, new)
  BY <1>1, <1>2, RequestChanges
<1> HIDE DEF m
<1>4. ASSUME m.type = "rts", new[d][h].state = "cleared"
      PROVE  /\ m.envelope.source \in Rank
             /\ \A f : Enqueued(c, f, d, m.envelope.source, ClearToSend(m.sender, h))
                       => Good(f, p, e, new)
  <2> DEFINE s == m.envelope.source
             x == ClearToSend(m.sender, h)
  <2>1. s \in Rank /\ m.sender \in Handle /\ req[s][m.sender].state = "sending"
    BY <1>1, <1>4, HeldMeans
  <2>2. <<s, m.sender>> # <<d, h>>
    BY <2>1 DEF None
  <2>3. new[s][m.sender].state = "sending"
    BY <2>1, <2>2 DEF ChangedOnly
  <2>8. Held(new, Channel(d, s), x)
    BY <1>4, <2>1, <2>3, HeldWhen
  <2>4. /\ SendNamed(Channel(d, s), x) = <<s, m.sender>>
        /\ ReceiveNamed(Channel(d, s), x) = <<d, h>>
    BY Names
  <2>5. SendFree(Family(c, p, e), <<s, m.sender>>)
    BY <1>1, <1>4 DEF Frees, SendNamed, Unexpected
  <2>6. Fresh(Family(c, p, e), new, Channel(d, s), x)
    BY <1>2, <2>4, <2>5, <2>8 DEF Fresh, Unnamed
  <2> HIDE DEF x, s
  <2>7. ASSUME NEW f, Enqueued(c, f, d, s, x) PROVE Good(f, p, e, new)
    BY <1>3, <2>1, <2>6, <2>7, ChannelPut
  <2> QED
    BY <2>1, <2>7 DEF s, x
<1> QED
  BY <1>3, <1>4 DEF m

LEMMA MatchPostedKeepsGood ==
  ASSUME NEW c, NEW p, NEW u, NEW req, Good(c, p, u, req),
         NEW s \in Rank, NEW d \in Rank, c[s][d] # <<>>,
         NEW i \in DOMAIN p[d], NEW e, Found(p, e, d, i),
         NEW f, Dequeued(c, f, s, d), NEW new,
         ChangedOnly({<<d, p[d][i].handle>>}, req, new)
  PROVE  /\ Good(f, e, u, new) /\ p[d][i].handle \in Handle
         /\ Head(c[s][d]).type = "rts" /\ new[d][p[d][i].handle].state = "cleared" =>
              \A g : Enqueued(f, g, d, s,
                              ClearToSend(Head(c[s][d]).sender, p[d][i].handle))
                     => Good(g, e, u, new)
<1> DEFINE r == p[d][i]
           h == r.handle
           m == Head(c[s][d])
<1>1. /\ Good(c, e, u, req)
      /\ Frees(Family(c, p, u), Family(c, e, u), Posted(d), r)
      /\ Held(req, Posted(d), r)
  BY PostedTake
<1>2. h \in Handle /\ req[d][h].state = "posted"
  BY <1>1, HeldMeans
<1>3. ReceiveFree(Family(c, e, u), <<d, h>>)
  BY <1>1 DEF Frees, ReceiveNamed, Posted
<1>4. SendFree(Family(c, e, u), <<d, h>>)
  BY <1>1, <1>2, StateNamed
<1>5. /\ Good(f, e, u, req)
      /\ Frees(Family(c, e, u), Family(f, e, u), Channel(s, d), m)
      /\ Held(req, Channel(s, d), m)
  BY <1>1, ChannelTake
<1> HIDE DEF m
<1>6. Unnamed(f, e, u, d, h)
  BY <1>3, <1>4, <1>5, StaysFree DEF Unnamed
<1>7. Good(f, e, u, new)
  BY <1>2, <1>5, <1>6, RequestChanges
<1> HIDE DEF h, r
<1>8. ASSUME m.type = "rts", new[d][h].state = "cleared",
             NEW g, Enqueued(f, g, d, s, ClearToSend(m.sender, h))
      PROVE  Good(g, e, u, new)
  <2> DEFINE x == ClearToSend(m.sender, h)
  <2>1. m.sender \in Handle /\ req[s][m.sender].state = "sending"
    BY <1>5, <1>8, HeldMeans
  <2>2. <<s, m.sender>> # <<d, h>>
    BY <1>2, <2>1
  <2>3. new[s][m.sender].state = "sending"
    BY <2>1, <2>2 DEF ChangedOnly, h, r
  <2>4. Held(new, Channel(d, s), x)
    BY <1>2, <1>8, <2>1, <2>3, HeldWhen
  <2>5. /\ SendNamed(Channel(d, s), x) = <<s, m.sender>>
        /\ ReceiveNamed(Channel(d, s), x) = <<d, h>>
    BY Names
  <2>6. m.envelope.source = s
    BY <1>5, <1>8 DEF Held, Channel
  <2>7. SendNamed(Channel(s, d), m) = <<s, m.sender>>
    BY <1>8, <2>6 DEF SendNamed, Channel
  <2>8. SendFree(Family(f, e, u), <<s, m.sender>>)
    BY <1>5, <2>7 DEF Frees
  <2>9. Fresh(Family(f, e, u), new, Channel(d, s), x)
    BY <1>6, <2>4, <2>5, <2>8 DEF Fresh, Unnamed
  <2> HIDE DEF x
  <2>10. Enqueued(f, g, d, s, x)
    BY <1>8 DEF x
  <2> QED
    BY <1>7, <2>9, <2>10, ChannelPut
<1> QED
  BY <1>2, <1>7, <1>8 DEF h, r, m

LEMMA QueueKeepsGood ==
  ASSUME NEW c, NEW p, NEW u, NEW req, Good(c, p, u, req),
         NEW s \in Rank, NEW d \in Rank, c[s][d] # <<>>,
         Head(c[s][d]).type \in {"eager", "rts"},
         NEW f, Dequeued(c, f, s, d), NEW e, Joined(u, e, d, Head(c[s][d]))
  PROVE  Good(f, p, e, req)
<1> DEFINE m == Head(c[s][d])
<1>1. /\ Good(f, p, u, req)
      /\ Frees(Family(c, p, u), Family(f, p, u), Channel(s, d), m)
      /\ Held(req, Channel(s, d), m)
  BY ChannelTake
<1>2. m.type \in {"eager", "rts"}
  OBVIOUS
<1> HIDE DEF m
<1>3. ReceiveNamed(Unexpected(d), m) = <<>>
  BY DEF ReceiveNamed, Unexpected
<1>4. CASE m.type = "eager"
  <2>1. Held(req, Unexpected(d), m)
    BY <1>4 DEF Held, Unexpected, SendNamed, ReceiveNamed
  <2>2. SendNamed(Unexpected(d), m) = <<>>
    BY <1>4 DEF SendNamed, Unexpected
  <2>3. Fresh(Family(f, p, u), req, Unexpected(d), m)
    BY <1>3, <2>1, <2>2 DEF Fresh
  <2> QED
    BY <1>1, <2>3, UnexpectedPut DEF m
<1>5. CASE m.type = "rts"
  <2>1. /\ m.envelope.source = s /\ m.sender \in Handle
        /\ req[s][m.sender].state = "sending"
    BY <1>1, <1>5, HeldMeans
  <2>2. Held(req, Unexpected(d), m)
    BY <1>5, <2>1, HeldWhen
  <2>3. /\ SendNamed(Unexpected(d), m) = <<s, m.sender>>
        /\ SendNamed(Channel(s, d), m) = <<s, m.sender>>
    BY <1>5, <2>1 DEF SendNamed, Unexpected, Channel
  <2>4. SendFree(Family(f, p, u), <<s, m.sender>>)
    BY <1>1, <2>3 DEF Frees
  <2>5. Fresh(Family(f, p, u), req, Unexpected(d), m)
    BY <1>3, <2>2, <2>3, <2>4 DEF Fresh
  <2> QED
    BY <1>1, <2>5, UnexpectedPut DEF m
<1> QED
  BY <1>2, <1>4, <1>5

LEMMA ClearedKeepsGood ==
  ASSUME NEW c, NEW p, NEW u, NEW req, Good(c, p, u, req),
         NEW s \in Rank, NEW d \in Rank, c[s][d] # <<>>,
         Head(c[s][d]).type = "cts", NEW f, Dequeued(c, f, s, d), NEW new,
         ChangedOnly({<<d, Head(c[s][d]).sender>>}, req, new),
         NEW payload, NEW g,
         Enqueued(f, g, d, s, RndvData(Head(c[s][d]).receiver, payload))
  PROVE  Good(g, p, u, new)
<1> DEFINE m == Head(c[s][d])
<1>1. /\ Good(f, p, u, req)
      /\ Frees(Family(c, p, u), Family(f, p, u), Channel(s, d), m)
      /\ Held(req, Channel(s, d), m)
  BY ChannelTake
<1>2. m.type = "cts"
  OBVIOUS
<1>3. ChangedOnly({<<d, m.sender>>}, req, new)
  OBVIOUS
<1> DEFINE x == RndvData(m.receiver, payload)
<1>4. Enqueued(f, g, d, s, x)
  OBVIOUS
<1> HIDE DEF m
<1>5. /\ m.sender \in Handle /\ m.receiver \in Handle
      /\ req[d][m.sender].state = "sending"
      /\ req[s][m.receiver].state = "cleared"
  BY <1>1, <1>2, HeldMeans
<1>6. /\ SendNamed(Channel(s, d), m) = <<d, m.sender>>
      /\ ReceiveNamed(Channel(s, d), m) = <<s, m.receiver>>
  BY <1>2 DEF SendNamed, ReceiveNamed, Channel
<1>7. /\ SendFree(Family(f, p, u), <<d, m.sender>>)
      /\ ReceiveFree(Family(f, p, u), <<s, m.receiver>>)
  BY <1>1, <1>6 DEF Frees
<1>8. Unnamed(f, p, u, d, m.sender)
  BY <1>1, <1>5, <1>7, StateNamed DEF Unnamed
<1>9. Good(f, p, u, new)
  BY <1>1, <1>3, <1>5, <1>8, RequestChanges
<1>10. new[s][m.receiver].state = "cleared"
  <2>1. <<s, m.receiver>> # <<d, m.sender>>
    BY <1>5
  <2> QED
    BY <1>3, <1>5, <2>1 DEF ChangedOnly
<1>11. Held(new, Channel(d, s), x)
  BY <1>5, <1>10, HeldWhen
<1>12. /\ SendNamed(Channel(d, s), x) = <<>>
       /\ ReceiveNamed(Channel(d, s), x) = <<s, m.receiver>>
  BY Names
<1>13. Fresh(Family(f, p, u), new, Channel(d, s), x)
  BY <1>7, <1>11, <1>12 DEF Fresh
<1> HIDE DEF x
<1> QED
  BY <1>4, <1>9, <1>13, ChannelPut

LEMMA DataKeepsGood ==
  ASSUME NEW c, NEW p, NEW u, NEW req, Good(c, p, u, req),
         NEW s \in Rank, NEW d \in Rank, c[s][d] # <<>>,
         Head(c[s][d]).type = "data", NEW f, Dequeued(c, f, s, d), NEW new,
         ChangedOnly({<<d, Head(c[s][d]).receiver>>}, req, new)
  PROVE  Good(f, p, u, new)
<1> DEFINE m == Head(c[s][d])
<1>1. /\ Good(f, p, u, req)
      /\ Frees(Family(c, p, u), Family(f, p, u), Channel(s, d), m)
      /\ Held(req, Channel(s, d), m)
  BY ChannelTake
<1>2. m.type = "data"
  OBVIOUS
<1>3. ChangedOnly({<<d, m.receiver>>}, req, new)
  OBVIOUS
<1> HIDE DEF m
<1>4. m.receiver \in Handle /\ req[d][m.receiver].state = "cleared"
  BY <1>1, <1>2, HeldMeans
<1>5. ReceiveNamed(Channel(s, d), m) = <<d, m.receiver>>
  BY <1>2 DEF ReceiveNamed, Channel
<1>6. ReceiveFree(Family(f, p, u), <<d, m.receiver>>)
  BY <1>1, <1>5 DEF Frees
<1>7. Unnamed(f, p, u, d, m.receiver)
  BY <1>1, <1>4, <1>6, StateNamed DEF Unnamed
<1> QED
  BY <1>1, <1>3, <1>4, <1>7, RequestChanges

LEMMA ReleaseKeepsGood ==
  ASSUME NEW c, NEW p, NEW u, NEW req, Good(c, p, u, req), NEW r \in Rank,
         \A h \in Handle : req[r][h] # None => req[r][h].state = "complete",
         NEW new, \A a \in Rank \ {r} : new[a] = req[a]
  PROVE  Good(c, p, u, new)
<1> DEFINE Q == Family(c, p, u)
           X == {<<r, h>> : h \in Handle}
<1>1. ASSUME NEW h \in Handle PROVE SendFree(Q, <<r, h>>) /\ ReceiveFree(Q, <<r, h>>)
  <2>1. req[r][h].state \in {"none", "complete"}
    BY DEF None
  <2> QED
    BY <2>1, StateNamed
<1> HIDE DEF Q
<1>2. AllFree(Q, X)
  BY <1>1 DEF AllFree
<1>3. ChangedOnly(X, req, new)
  BY DEF ChangedOnly
<1> HIDE DEF X
<1>4. Sound(Q, new)
  BY <1>2, <1>3, SoundRequest DEF Good, Q
<1> QED
  BY <1>4 DEF Good, Q

RequestShape(req) == req = [r \in Rank |-> [h \in Handle |-> req[r][h]]]

HandshakeInv ==
  /\ input \in Input
  /\ RequestShape(request)
  /\ Good(channel, posted, unexpected, request)

RequestSet(req, new, r, h, x) == new = [req EXCEPT ![r][h] = x]

LEMMA SetRequest ==
  ASSUME NEW req, RequestShape(req), NEW r \in Rank, NEW h, NEW x,
         NEW new, RequestSet(req, new, r, h, x)
  PROVE  /\ RequestShape(new)
         /\ ChangedOnly({<<r, h>>}, req, new)
         /\ h \in Handle => new[r][h] = x
BY DEF RequestShape, RequestSet, ChangedOnly

LEMMA SendKeepsHandshakes ==
  ASSUME RequestShape(request), Good(channel, posted, unexpected, request),
         NEW s \in Rank, NEW d \in Rank, NEW h \in Handle, NEW envelope,
         envelope.source = s, NEW payload,
         SendEager(s, d, envelope, payload) \/ SendRndv(s, d, h, envelope, payload)
  PROVE  RequestShape(request') /\ Good(channel', posted', unexpected', request')
<1>1. CASE SendEager(s, d, envelope, payload)
  <2>1. Enqueued(channel, channel', s, d, Eager(envelope, payload))
    BY <1>1 DEF SendEager, Enqueued
  <2>2. Good(channel', posted, unexpected, request)
    BY <2>1, EagerKeepsGood
  <2> QED
    BY <1>1, <2>2 DEF SendEager
<1>2. CASE SendRndv(s, d, h, envelope, payload)
  <2>1. Enqueued(channel, channel', s, d, ReadyToSend(envelope, h))
    BY <1>2 DEF SendRndv, Enqueued
  <2>2. RequestSet(request, request', s, h, [state |-> "sending", payload |-> payload])
    BY <1>2 DEF SendRndv, RequestSet
  <2>6. /\ RequestShape(request') /\ ChangedOnly({<<s, h>>}, request, request')
        /\ request'[s][h] = [state |-> "sending", payload |-> payload]
    BY <2>2, SetRequest
  <2>3. /\ RequestShape(request') /\ request'[s][h].state = "sending"
        /\ ChangedOnly({<<s, h>>}, request, request')
    BY <2>6
  <2>5. request[s][h] = None
    BY <1>2 DEF SendRndv
  <2>4. Good(channel', posted, unexpected, request')
    BY <2>1, <2>3, <2>5, RndvKeepsGood
  <2> QED
    BY <1>2, <2>3, <2>4 DEF SendRndv
<1> QED
  BY <1>1, <1>2

LEMMA ReceiveKeepsHandshakes ==
  ASSUME RequestShape(request), Good(channel, posted, unexpected, request),
         NEW d \in Rank, NEW h \in Handle, NEW match, Receive(d, h, match)
  PROVE  RequestShape(request') /\ Good(channel', posted', unexpected', request')
<1>0. request[d][h] = None
  BY DEF Receive
<1>1. CASE PostReceive(d, h, match)
  <2>1. Joined(posted, posted', d, [match |-> match, handle |-> h])
    BY <1>1 DEF PostReceive, Joined
  <2>2. RequestSet(request, request', d, h, [state |-> "posted"])
    BY <1>1 DEF PostReceive, RequestSet
  <2>6. /\ RequestShape(request') /\ ChangedOnly({<<d, h>>}, request, request')
        /\ request'[d][h] = [state |-> "posted"]
    BY <2>2, SetRequest
  <2>3. /\ RequestShape(request') /\ request'[d][h].state = "posted"
        /\ ChangedOnly({<<d, h>>}, request, request')
    BY <2>6
  <2>4. Good(channel, posted', unexpected, request')
    BY <1>0, <2>1, <2>3, PostKeepsGood
  <2> QED
    BY <1>1, <2>3, <2>4 DEF PostReceive
<1>2. CASE TakeUnexpected(d, h, match)
  <2>1. PICK i \in DOMAIN unexpected[d] :
          /\ unexpected' = [unexpected EXCEPT ![d] = Without(@, i)]
          /\ \/ /\ unexpected[d][i].type = "eager"
                /\ request' = [request EXCEPT ![d][h] = Complete(unexpected[d][i].payload)]
                /\ UNCHANGED channel
             \/ /\ unexpected[d][i].type = "rts"
                /\ request' = [request EXCEPT ![d][h] = Cleared]
                /\ channel' = [channel EXCEPT ![d][unexpected[d][i].envelope.source] =
                                 Append(@, ClearToSend(unexpected[d][i].sender, h))]
          /\ UNCHANGED posted
    BY <1>2 DEF TakeUnexpected
  <2>2. Found(unexpected, unexpected', d, i)
    BY <2>1 DEF Found
  <2>3. CASE UNCHANGED channel
                /\ request' = [request EXCEPT ![d][h] = Complete(unexpected[d][i].payload)]
    <3>1. RequestSet(request, request', d, h, Complete(unexpected[d][i].payload))
      BY <2>3 DEF RequestSet
    <3>2. /\ RequestShape(request')
          /\ ChangedOnly({<<d, h>>}, request, request')
      BY <3>1, SetRequest
    <3>3. Good(channel, posted, unexpected', request')
      BY <1>0, <2>2, <3>2, TakeUnexpectedKeepsGood
    <3> QED
      BY <2>1, <2>3, <3>2, <3>3
  <2>4. CASE /\ unexpected[d][i].type = "rts"
             /\ request' = [request EXCEPT ![d][h] = Cleared]
             /\ channel' = [channel EXCEPT ![d][unexpected[d][i].envelope.source] =
                              Append(@, ClearToSend(unexpected[d][i].sender, h))]
    <3>1. RequestSet(request, request', d, h, Cleared)
      BY <2>4 DEF RequestSet
    <3>5. /\ RequestShape(request') /\ ChangedOnly({<<d, h>>}, request, request')
          /\ request'[d][h] = Cleared
      BY <3>1, SetRequest
    <3>2. /\ RequestShape(request') /\ request'[d][h].state = "cleared"
          /\ ChangedOnly({<<d, h>>}, request, request')
      BY <3>5 DEF Cleared
    <3>3. Enqueued(channel, channel', d, unexpected[d][i].envelope.source,
                   ClearToSend(unexpected[d][i].sender, h))
      BY <2>4 DEF Enqueued
    <3>4. Good(channel', posted, unexpected', request')
      BY <1>0, <2>2, <2>4, <3>2, <3>3, TakeUnexpectedKeepsGood
    <3> QED
      BY <2>1, <3>2, <3>4
  <2> QED
    BY <2>1, <2>3, <2>4
<1> QED
  BY <1>1, <1>2 DEF Receive

\* The EXCEPT of two connections, one after the other.
LEMMA TwoConnections ==
  ASSUME NEW c, c = [a \in Rank |-> [b \in Rank |-> c[a][b]]],
         NEW s \in Rank, NEW d \in Rank, s # d, NEW x,
         NEW g, g = [c EXCEPT ![s][d] = Tail(@), ![d][s] = Append(@, x)]
  PROVE  \E f : Dequeued(c, f, s, d) /\ Enqueued(f, g, d, s, x)
<1> DEFINE f == [c EXCEPT ![s][d] = Tail(@)]
<1>1. f[d][s] = c[d][s]
  OBVIOUS
<1>2. g = [f EXCEPT ![d][s] = Append(c[d][s], x)]
  OBVIOUS
<1>3. Dequeued(c, f, s, d)
  BY DEF Dequeued
<1> HIDE DEF f
<1>4. Enqueued(f, g, d, s, x)
  BY <1>1, <1>2 DEF Enqueued
<1> QED
  BY <1>3, <1>4

LEMMA DeliverKeepsHandshakes ==
  ASSUME RequestShape(request), Good(channel, posted, unexpected, request),
         NEW s \in Rank, NEW d \in Rank, s # d, Deliver(s, d)
  PROVE  RequestShape(request') /\ Good(channel', posted', unexpected', request')
<1> DEFINE packet == Head(channel[s][d])
<1>0. channel[s][d] # <<>>
  BY DEF Deliver, HandleAnnouncement, HandleClearToSend, HandleData, Arrived
<1>1. CASE HandleAnnouncement(s, d) /\ MatchPosted(s, d)
  <2>1. PICK i \in DOMAIN posted[d] :
          /\ posted' = [posted EXCEPT ![d] = Without(@, i)]
          /\ \/ /\ packet.type = "eager"
                /\ request' = [request EXCEPT
                                 ![d][posted[d][i].handle] = Complete(packet.payload)]
                /\ channel' = [channel EXCEPT ![s][d] = Tail(@)]
             \/ /\ packet.type = "rts"
                /\ request' = [request EXCEPT ![d][posted[d][i].handle] = Cleared]
                /\ channel' = [channel EXCEPT ![s][d] = Tail(@),
                                 ![d][s] = Append(@, ClearToSend(packet.sender,
                                                                 posted[d][i].handle))]
          /\ UNCHANGED unexpected
    BY <1>1 DEF MatchPosted
  <2> DEFINE h == posted[d][i].handle
  <2>2. Found(posted, posted', d, i)
    BY <2>1 DEF Found
  <2>3. CASE /\ request' = [request EXCEPT ![d][h] = Complete(packet.payload)]
             /\ channel' = [channel EXCEPT ![s][d] = Tail(@)]
    <3>1. RequestSet(request, request', d, h, Complete(packet.payload))
      BY <2>3 DEF RequestSet
    <3>2. /\ RequestShape(request')
          /\ ChangedOnly({<<d, h>>}, request, request')
      BY <3>1, SetRequest
    <3>3. Dequeued(channel, channel', s, d)
      BY <2>3 DEF Dequeued
    <3>4. Good(channel', posted', unexpected, request')
      BY <1>0, <2>2, <3>2, <3>3, MatchPostedKeepsGood
    <3> QED
      BY <2>1, <3>2, <3>4
  <2>4. CASE /\ packet.type = "rts"
             /\ request' = [request EXCEPT ![d][h] = Cleared]
             /\ channel' = [channel EXCEPT ![s][d] = Tail(@),
                              ![d][s] = Append(@, ClearToSend(packet.sender, h))]
    <3>1. RequestSet(request, request', d, h, Cleared)
      BY <2>4 DEF RequestSet
    <3>5. /\ RequestShape(request') /\ ChangedOnly({<<d, h>>}, request, request')
          /\ h \in Handle => request'[d][h] = Cleared
      BY <3>1, SetRequest
    <3>2. /\ h \in Handle => request'[d][h].state = "cleared"
          /\ ChangedOnly({<<d, h>>}, request, request')
      BY <3>5 DEF Cleared
    <3>3. PICK f : /\ Dequeued(channel, f, s, d)
                   /\ Enqueued(f, channel', d, s, ClearToSend(packet.sender, h))
      BY <2>4, TwoConnections DEF Good, Shaped
    <3>4. /\ h \in Handle
          /\ request'[d][h].state = "cleared" =>
               \A g : Enqueued(f, g, d, s, ClearToSend(packet.sender, h))
                      => Good(g, posted', unexpected, request')
      BY <1>0, <2>2, <2>4, <3>2, <3>3, MatchPostedKeepsGood
    <3>6. Good(channel', posted', unexpected, request')
      BY <3>2, <3>3, <3>4, <3>5
    <3> QED
      BY <2>1, <3>5, <3>6
  <2> QED
    BY <2>1, <2>3, <2>4
<1>2. CASE HandleAnnouncement(s, d) /\ QueueUnexpected(s, d)
  <2>1. packet.type \in {"eager", "rts"}
    BY <1>2 DEF HandleAnnouncement, Arrived
  <2>2. Dequeued(channel, channel', s, d) /\ Joined(unexpected, unexpected', d, packet)
    BY <1>2 DEF QueueUnexpected, Dequeued, Joined
  <2>3. Good(channel', posted, unexpected', request)
    BY <1>0, <2>1, <2>2, QueueKeepsGood
  <2> QED
    BY <1>2, <2>3 DEF QueueUnexpected
<1>3. CASE HandleClearToSend(s, d)
  <2> DEFINE h == packet.sender
             data == request[d][h].payload
  <2>1. /\ packet.type = "cts"
        /\ channel' = [channel EXCEPT ![s][d] = Tail(@),
                         ![d][s] = Append(@, RndvData(packet.receiver, data))]
        /\ request' = [request EXCEPT ![d][h].state = "complete"]
        /\ UNCHANGED <<posted, unexpected>>
    BY <1>3 DEF HandleClearToSend, Arrived
  <2>2. RequestSet(request, request', d, h, [request[d][h] EXCEPT !.state = "complete"])
    BY <2>1 DEF RequestSet, RequestShape
  <2>3. /\ RequestShape(request')
        /\ ChangedOnly({<<d, h>>}, request, request')
    BY <2>2, SetRequest
  <2>4. PICK f : /\ Dequeued(channel, f, s, d)
                 /\ Enqueued(f, channel', d, s, RndvData(packet.receiver, data))
    BY <2>1, TwoConnections DEF Good, Shaped
  <2>6. packet.type = "cts"
    BY <1>3 DEF HandleClearToSend, Arrived
  <2>5. Good(channel', posted, unexpected, request')
    BY <1>0, <2>3, <2>4, <2>6, ClearedKeepsGood
  <2> QED
    BY <2>1, <2>3, <2>5
<1>4. CASE HandleData(s, d)
  <2> DEFINE h == packet.receiver
  <2>1. /\ packet.type = "data"
        /\ channel' = [channel EXCEPT ![s][d] = Tail(@)]
        /\ request' = [request EXCEPT ![d][h] = Complete(packet.payload)]
        /\ UNCHANGED <<posted, unexpected>>
    BY <1>4 DEF HandleData, Arrived
  <2>2. RequestSet(request, request', d, h, Complete(packet.payload))
    BY <2>1 DEF RequestSet
  <2>3. /\ RequestShape(request')
        /\ ChangedOnly({<<d, h>>}, request, request')
    BY <2>2, SetRequest
  <2>4. Dequeued(channel, channel', s, d)
    BY <2>1 DEF Dequeued
  <2>5. Good(channel', posted, unexpected, request')
    BY <1>0, <2>1, <2>3, <2>4, DataKeepsGood
  <2> QED
    BY <2>1, <2>3, <2>5
<1> QED
  BY <1>1, <1>2, <1>3, <1>4 DEF Deliver, HandleAnnouncement

LEMMA ReleaseKeepsHandshakes ==
  ASSUME RequestShape(request), Good(channel, posted, unexpected, request),
         NEW r \in Rank, Release(r)
  PROVE  RequestShape(request') /\ Good(channel', posted', unexpected', request')
<1>1. /\ request' = [request EXCEPT ![r] = [h \in Handle |-> None]]
      /\ UNCHANGED <<channel, posted, unexpected>>
      /\ \A h \in Handle : request[r][h] # None => request[r][h].state = "complete"
  BY DEF Release, AllComplete, Pending
<1>2. RequestShape(request') /\ \A a \in Rank \ {r} : request'[a] = request[a]
  BY <1>1 DEF RequestShape
<1>3. Good(channel, posted, unexpected, request')
  BY <1>1, <1>2, ReleaseKeepsGood
<1> QED
  BY <1>1, <1>2, <1>3

LEMMA InitHandshakes == Init => HandshakeInv
<1> SUFFICES ASSUME Init PROVE HandshakeInv
  OBVIOUS
<1> DEFINE Q == Family(channel, posted, unexpected)
<1>1. RequestShape(request) /\ Shaped(channel, posted, unexpected)
  BY DEF Init, QueuesInit, RequestShape, Shaped
<1>2. \A q \in Place : Q[q] = <<>>
  BY DEF Init, QueuesInit, Family, Place
<1>3. Q = [q \in Place |-> Q[q]]
  BY FamilyIsFunction
<1> HIDE DEF Q
<1>4. <<>> \in Seq({}) /\ DOMAIN <<>> = {}
  OBVIOUS
<1>5. IsFamily(Q)
  BY <1>2, <1>3, <1>4 DEF IsFamily
<1>6. NamedOnce(Q)
  BY <1>2, <1>4 DEF NamedOnce
<1>7. Sound(Q, request)
  BY <1>2, <1>4, <1>5, <1>6 DEF Sound
<1> QED
  BY <1>1, <1>7 DEF HandshakeInv, Good, Q, Init

LEMMA StepKeepsHandshakes == HandshakeInv /\ [Next]_vars => HandshakeInv'
<1> SUFFICES ASSUME HandshakeInv, [Next]_vars PROVE HandshakeInv'
  OBVIOUS
<1> USE InputAssumption DEF HandshakeInv
<1>1. input' \in Input
  BY DEF vars, programVars, Next, Main, OpenFiles, LearnRows, SkipWork, DivideByZero,
     DealRows, TakeChunk, Multiply, OverrunProducts, WriteResult, OverrunResult, Finish,
     CollectiveFails, Communicate, Isend, Irecv, Progress, WaitDone, Kill, Enter, End
<1>2. ASSUME NEW r \in Process, Main(r) \/ Kill(r)
      PROVE  UNCHANGED queueVars
  BY <1>2 DEF queueVars, Main, OpenFiles, LearnRows, SkipWork, DivideByZero, DealRows,
     TakeChunk, Multiply, OverrunProducts, WriteResult, OverrunResult, Finish,
     CollectiveFails, Kill, Enter, End
<1>3. CASE UNCHANGED queueVars
  BY <1>1, <1>3 DEF queueVars
<1>4. ASSUME NEW r \in Process, Isend(r) PROVE HandshakeInv'
  <2> DEFINE op == Operations(r)[step[r]]
             envelope == [source |-> r, tag |-> op.tag, context |-> op.context]
             message == Message(r, Outgoing(r, op.peer, op.tag), op.tag)
  <2>1. op.peer \in Process
    BY <1>4, OperationsPeers DEF Isend, InOperation
  <2>2. <<"send", op.peer>> \in Handle
    BY <2>1
  <2>3. \/ SendEager(r, op.peer, envelope, message)
        \/ SendRndv(r, op.peer, <<"send", op.peer>>, envelope, message)
    BY <1>4 DEF Isend
  <2>4. envelope.source = r
    OBVIOUS
  <2> HIDE DEF op, envelope, message
  <2> QED
    BY <1>1, <2>1, <2>2, <2>3, <2>4, SendKeepsHandshakes
<1>5. ASSUME NEW r \in Process, Irecv(r) PROVE HandshakeInv'
  <2> DEFINE op == Operations(r)[step[r]]
             match == [source |-> op.peer, tag |-> op.tag, context |-> op.context]
  <2>1. op.peer \in Process
    BY <1>5, OperationsPeers DEF Irecv, InOperation
  <2>2. Receive(r, <<"recv", op.peer>>, match)
    BY <1>5 DEF Irecv
  <2>3. <<"recv", op.peer>> \in Handle
    BY <2>1
  <2> HIDE DEF op, match
  <2> QED
    BY <1>1, <2>2, <2>3, ReceiveKeepsHandshakes
<1>6. ASSUME NEW r \in Process, Progress(r) PROVE HandshakeInv'
  BY <1>1, <1>6, DeliverKeepsHandshakes DEF Progress
<1>7. ASSUME NEW r \in Process, WaitDone(r) PROVE HandshakeInv'
  <2>1. Release(r)
    BY <1>7 DEF WaitDone
  <2> QED
    BY <1>1, <2>1, ReleaseKeepsHandshakes
<1> QED
  BY <1>2, <1>3, <1>4, <1>5, <1>6, <1>7 DEF Next, Communicate, vars, queueVars

LEMMA HandshakesFollow == HandshakeInv => HandshakesHeld
<1> SUFFICES ASSUME HandshakeInv PROVE HandshakesHeld
  OBVIOUS
<1> DEFINE Q == Family(channel, posted, unexpected)
<1>1. /\ \A s, d \in Rank : Channel(s, d) \in Place /\ Q[Channel(s, d)] = channel[s][d]
      /\ \A d \in Rank : /\ Posted(d) \in Place /\ Q[Posted(d)] = posted[d]
                         /\ Unexpected(d) \in Place /\ Q[Unexpected(d)] = unexpected[d]
  BY Parts DEF HandshakeInv, Good
<1>2. \A q \in Place : \A i \in DOMAIN Q[q] : Held(request, q, Q[q][i])
  BY DEF HandshakeInv, Good, Sound
<1> HIDE DEF Q
<1>3. ASSUME NEW s \in Rank, NEW d \in Rank, NEW i \in DOMAIN channel[s][d]
      PROVE  HeldByPacket(s, d, channel[s][d][i])
  <2>1. Held(request, Channel(s, d), channel[s][d][i])
    BY <1>1, <1>2
  <2> QED
    BY <2>1, HeldMeans DEF HeldByPacket, InState
<1>4. ASSUME NEW d \in Rank, NEW i \in DOMAIN unexpected[d]
      PROVE  HeldByPacket(unexpected[d][i].envelope.source, d, unexpected[d][i])
  <2>1. Held(request, Unexpected(d), unexpected[d][i])
    BY <1>1, <1>2
  <2> QED
    BY <2>1 DEF Held, Unexpected, SendNamed, HeldByPacket, InState
<1>5. ASSUME NEW d \in Rank, NEW i \in DOMAIN posted[d]
      PROVE  InState(d, posted[d][i].handle, "posted")
  <2>1. Held(request, Posted(d), posted[d][i])
    BY <1>1, <1>2
  <2> QED
    BY <2>1 DEF Held, Posted, SendNamed, ReceiveNamed, InState
<1> QED
  BY <1>3, <1>4, <1>5 DEF HandshakesHeld

(***************************************************************************)
(* While a packet or a queue names a request, the request is there and in  *)
(* the state the handlers of ch3u_rndv.c rely on, for every input, every   *)
(* placement, and every number of processes below GathervSsendMinProcs:    *)
(* the packets of MPIC_Ssend would name requests too.                      *)
(***************************************************************************)
THEOREM ProgramHandshakesHeld == Spec => []HandshakesHeld
<1>1. Init => HandshakeInv
  BY InitHandshakes
<1>2. HandshakeInv /\ [Next]_vars => HandshakeInv'
  BY StepKeepsHandshakes
<1>3. HandshakeInv => HandshakesHeld
  BY HandshakesFollow
<1> QED
  BY <1>1, <1>2, <1>3, PTL DEF Spec

(***************************************************************************)
(* Both together: the queues of a rank agree with each other and with the  *)
(* requests of all ranks, as long as MPI_Gatherv uses standard sends.      *)
(***************************************************************************)
THEOREM ProgramQueuesAgree == Spec => []QueuesAgree
<1>1. QueuesDisjoint /\ HandshakesHeld => QueuesAgree
  BY DEF QueuesAgree
<1> QED
  BY <1>1, ProgramQueuesDisjoint, ProgramHandshakesHeld, PTL

-----------------------------------------------------------------------------
(* Ranks in a communicator. *)
LEMMA RanksInOrder ==
  ASSUME NEW S \in SUBSET Process, NEW q \in S, NEW r \in S, q < r
  PROVE  RankIn(S, q) < RankIn(S, r)
<1> DEFINE below(x) == {p \in S : p < x}
<1>1. /\ S \subseteq Nat /\ S \subseteq Int /\ IsFiniteSet(S)
  <2>1. S \subseteq 0 .. N - 1 /\ N \in Nat /\ IsFiniteSet(0 .. N - 1)
    BY InputAssumption, FS_Interval DEF Process
  <2>2. \A x \in 0 .. N - 1 : x \in Nat /\ x \in Int
    BY <2>1
  <2> QED
    BY <2>1, <2>2, FS_Subset
<1>2. below(q) \in SUBSET S /\ below(r) \in SUBSET S
  OBVIOUS
<1>3. IsFiniteSet(below(q)) /\ IsFiniteSet(below(r))
  BY <1>1, <1>2, FS_Subset
<1>4. q \notin below(q) /\ below(q) \union {q} \in SUBSET below(r)
  <2>1. ~(q < q) /\ \A p \in S : p < q => p < r
    BY <1>1
  <2> QED
    BY <2>1
<1> HIDE DEF below
<1>5. /\ Cardinality(below(q) \union {q}) = Cardinality(below(q)) + 1
      /\ Cardinality(below(q)) \in Nat /\ Cardinality(below(r)) \in Nat
      /\ Cardinality(below(q) \union {q}) <= Cardinality(below(r))
  BY <1>3, <1>4, FS_AddElement, FS_CardinalityType, FS_Subset
<1>6. Cardinality(below(q)) < Cardinality(below(r))
  BY <1>5
<1> QED
  BY <1>6 DEF RankIn, below

LEMMA MemberOfRank ==
  ASSUME NEW S \in SUBSET Process, NEW r \in S
  PROVE  /\ ProcessAt(S, RankIn(S, r)) = r
         /\ \A q \in S : RankIn(S, q) = RankIn(S, r) => q = r
         /\ \A q \in S : q < r <=> RankIn(S, q) < RankIn(S, r)
<1>1. \A x \in S : x \in Int
  BY InputAssumption DEF Process
<1>2. \A x, y \in S : /\ RankIn(S, x) \in Nat
                      /\ x < y => RankIn(S, x) < RankIn(S, y)
  BY RanksInOrder, RankBelowSize
<1>3. \A q \in S : RankIn(S, q) = RankIn(S, r) => q = r
  <2> SUFFICES ASSUME NEW q \in S, RankIn(S, q) = RankIn(S, r), q # r PROVE FALSE
    OBVIOUS
  <2>1. q < r \/ r < q
    BY <1>1
  <2> QED
    BY <1>2, <2>1
<1>4. \A q \in S : q < r <=> RankIn(S, q) < RankIn(S, r)
  <2> SUFFICES ASSUME NEW q \in S PROVE q < r <=> RankIn(S, q) < RankIn(S, r)
    OBVIOUS
  <2>1. q < r \/ r < q \/ q = r
    BY <1>1
  <2> QED
    BY <1>1, <1>2, <2>1
<1>5. ProcessAt(S, RankIn(S, r)) \in S /\ RankIn(S, ProcessAt(S, RankIn(S, r))) = RankIn(S, r)
  BY MemberAt, RankBelowSize
<1> QED
  BY <1>3, <1>4, <1>5

LEMMA DoublingExists ==
  ASSUME NEW n \in Nat
  PROVE  \E f : f = [k \in 0 .. n |-> IF k = 0 THEN 1 ELSE 2 * f[k - 1]]
<1> DEFINE Fits(f, m) == f = [k \in 0 .. m |-> IF k = 0 THEN 1 ELSE 2 * f[k - 1]]
           T == {m \in Nat : ~\E f : Fits(f, m)}
<1>1. SUFFICES ASSUME T # {} PROVE FALSE
  OBVIOUS
<1>2. PICK m \in T : \A k \in T : m <= k
  BY <1>1, LeastNumber
<1>3. m # 0
  <2>1. Fits([k \in 0 .. 0 |-> 1], 0)
    <3>1. \A k \in 0 .. 0 : k = 0
      OBVIOUS
    <3> QED
      BY <3>1
  <2> QED
    BY <2>1
<1>4. m - 1 \in Nat /\ m - 1 \notin T
  <2>1. m \in Nat /\ ~(m <= m - 1)
    BY <1>2
  <2> QED
    BY <1>2, <1>3, <2>1
<1>5. PICK f : Fits(f, m - 1)
  BY <1>4
<1> DEFINE g == [k \in 0 .. m |-> IF k = m THEN 2 * f[m - 1] ELSE f[k]]
<1>6. ASSUME NEW k \in 0 .. m PROVE g[k] = IF k = 0 THEN 1 ELSE 2 * g[k - 1]
  <2>1. CASE k = m
    <3>1. k - 1 \in 0 .. m /\ k - 1 # m /\ k # 0
      BY <1>3, <2>1
    <3> QED
      BY <2>1, <3>1
  <2>2. CASE k # m
    <3>1. k \in 0 .. m - 1 /\ (k # 0 => k - 1 \in 0 .. m /\ k - 1 # m)
      BY <2>2
    <3>2. f[k] = IF k = 0 THEN 1 ELSE 2 * f[k - 1]
      BY <1>5, <3>1
    <3> QED
      BY <2>2, <3>1, <3>2
  <2> QED
    BY <2>1, <2>2
<1>7. Fits(g, m)
  BY <1>6
<1> QED
  BY <1>2, <1>7

(* The loop mask <<= 1: 1, and each double of a mask that is not too long. *)
LEMMA MasksDouble ==
  ASSUME NEW size \in Nat
  PROVE  /\ Masks(size) \subseteq 1 .. size - 1
         /\ 1 < size => 1 \in Masks(size)
         /\ \A m \in Masks(size) : 2 * m < size => 2 * m \in Masks(size)
         /\ \A m \in Masks(size) : m = 1 \/ \E h \in Masks(size) : m = 2 * h
<1> DEFINE F(f) == f = [k \in 0 .. size |-> IF k = 0 THEN 1 ELSE 2 * f[k - 1]]
           mask == CHOOSE f : F(f)
<1>1. F(mask)
  <2>1. \E f : F(f)
    BY DoublingExists
  <2> QED
    BY <2>1
<1>2. Masks(size) = {mask[k] : k \in 0 .. size} \intersect (1 .. size - 1)
  BY DEF Masks
<1> HIDE DEF mask
<1>3. /\ mask[0] = 1
      /\ \A k \in 0 .. size : k # 0 => k - 1 \in 0 .. size /\ mask[k] = 2 * mask[k - 1]
  BY <1>1
<1>4. \A k \in 0 .. size : mask[k] \in Nat /\ mask[k] > k
  <2> DEFINE T == {k \in 0 .. size : ~(mask[k] \in Nat /\ mask[k] > k)}
  <2>1. SUFFICES ASSUME T # {} PROVE FALSE
    OBVIOUS
  <2>2. T \subseteq Nat
    OBVIOUS
  <2>3. PICK k \in T : \A j \in T : k <= j
    BY <2>1, <2>2, LeastNumber
  <2>4. k # 0
    BY <1>3, <2>3
  <2>5. k - 1 \in 0 .. size /\ mask[k - 1] \in Nat /\ mask[k - 1] > k - 1
    BY <2>3, <2>4
  <2> QED
    BY <1>3, <2>3, <2>4, <2>5
<1>5. 1 < size => 1 \in Masks(size)
  BY <1>2, <1>3
<1>6. ASSUME NEW m \in Masks(size), 2 * m < size PROVE 2 * m \in Masks(size)
  <2>1. PICK k \in 0 .. size : m = mask[k]
    BY <1>2
  <2>2. m \in 1 .. size - 1 /\ k < size
    BY <1>2, <1>4, <2>1
  <2>3. k + 1 \in 0 .. size /\ k + 1 # 0 /\ (k + 1) - 1 = k
    BY <2>2
  <2>4. mask[k + 1] = 2 * m
    BY <1>3, <2>1, <2>3
  <2> QED
    BY <1>2, <1>6, <2>2, <2>3, <2>4
<1>7. ASSUME NEW m \in Masks(size), m # 1 PROVE \E h \in Masks(size) : m = 2 * h
  <2>1. PICK k \in 0 .. size : m = mask[k]
    BY <1>2
  <2>2. k # 0
    BY <1>3, <1>7, <2>1
  <2>3. k - 1 \in 0 .. size /\ m = 2 * mask[k - 1] /\ mask[k - 1] \in Nat
    BY <1>3, <1>4, <2>1, <2>2
  <2>4. m \in 1 .. size - 1
    BY <1>2
  <2>5. mask[k - 1] \in 1 .. size - 1
    BY <2>3, <2>4
  <2> QED
    BY <1>2, <2>3, <2>5
<1> QED
  BY <1>2, <1>5, <1>6, <1>7

LEMMA MasksApart ==
  ASSUME NEW size \in Nat, NEW m \in Masks(size), NEW b \in Masks(size), m < b
  PROVE  2 * m <= b
<1> DEFINE M == Masks(size)
           T == {x \in M : \E y \in M : x < y /\ y < 2 * x}
<1>0. M \subseteq Nat /\ \A x \in M : x \in Nat /\ x >= 1
  BY MasksDouble
<1>1. SUFFICES ASSUME T # {} PROVE FALSE
  BY <1>0
<1>2. PICK x \in T : \A z \in T : x <= z
  BY <1>0, <1>1, LeastNumber
<1>3. PICK y \in M : x < y /\ y < 2 * x
  BY <1>2
<1>4. x # 1 /\ y # 1
  BY <1>0, <1>2, <1>3
<1>5. PICK v \in M : x = 2 * v
  BY <1>2, <1>4, MasksDouble
<1>6. PICK w \in M : y = 2 * w
  BY <1>3, <1>4, MasksDouble
<1>7. v < w /\ w < 2 * v
  BY <1>0, <1>3, <1>5, <1>6
<1>8. v \in T /\ v < x
  BY <1>0, <1>5, <1>6, <1>7
<1> QED
  BY <1>0, <1>2, <1>8

LEMMA AscendingIs ==
  ASSUME NEW S \in SUBSET Process
  PROVE  /\ Ascending(S) \in Seq(S) /\ Descending(S) \in Seq(S)
         /\ Len(Ascending(S)) = Cardinality(S)
         /\ \A j, k \in DOMAIN Ascending(S) : j < k => Ascending(S)[j] < Ascending(S)[k]
         /\ \A x \in S : \E k \in DOMAIN Ascending(S) : Ascending(S)[k] = x
         /\ \A j, k \in DOMAIN Descending(S) : Descending(S)[j] = Descending(S)[k] => j = k
         /\ \A x \in S : \E k \in DOMAIN Descending(S) : Descending(S)[k] = x
<1> DEFINE s == Ascending(S)
           d == Descending(S)
           n == Cardinality(S)
<1>1. s \in Seq(S) /\ d \in Seq(S)
  BY LoopsOver
<1>2. n \in Nat /\ \A x \in S : x \in Int
  <2>1. N - 1 \in Int /\ S \in SUBSET (0 .. N - 1)
    BY InputAssumption DEF Process
  <2>2. IsFiniteSet(0 .. N - 1)
    BY <2>1, FS_Interval
  <2>3. \A x \in 0 .. N - 1 : x \in Int
    OBVIOUS
  <2> QED
    BY <2>1, <2>2, <2>3, FS_Subset, FS_CardinalityType
<1>3. s = [k \in 1 .. n |-> ProcessAt(S, k - 1)]
  BY DEF Ascending
<1>4. Len(s) = n /\ DOMAIN s = 1 .. n
  BY <1>1, <1>2, <1>3
<1>5. \A k \in 1 .. n : s[k] \in S /\ RankIn(S, s[k]) = k - 1
  <2> SUFFICES ASSUME NEW k \in 1 .. n PROVE s[k] \in S /\ RankIn(S, s[k]) = k - 1
    OBVIOUS
  <2>1. k - 1 \in Nat /\ k - 1 < Cardinality(S)
    BY <1>2
  <2>2. s[k] = ProcessAt(S, k - 1)
    BY <1>3
  <2> QED
    BY <2>1, <2>2, MemberAt
<1> HIDE DEF s
<1>6. \A j, k \in 1 .. n : j < k => s[j] < s[k]
  <2> SUFFICES ASSUME NEW j \in 1 .. n, NEW k \in 1 .. n, j < k PROVE s[j] < s[k]
    OBVIOUS
  <2>1. RankIn(S, s[j]) < RankIn(S, s[k])
    BY <1>2, <1>5
  <2> QED
    BY <1>5, <2>1, MemberOfRank
<1>7. \A x \in S : \E k \in 1 .. n : s[k] = x
  <2> SUFFICES ASSUME NEW x \in S PROVE \E k \in 1 .. n : s[k] = x
    OBVIOUS
  <2>1. RankIn(S, x) \in Nat /\ RankIn(S, x) < n
    BY RankBelowSize
  <2>2. RankIn(S, x) + 1 \in 1 .. n /\ (RankIn(S, x) + 1) - 1 = RankIn(S, x)
    BY <1>2, <2>1
  <2>3. /\ s[RankIn(S, x) + 1] \in S
        /\ RankIn(S, s[RankIn(S, x) + 1]) = RankIn(S, x)
    BY <1>5, <2>2
  <2>4. s[RankIn(S, x) + 1] = x
    BY <2>3, MemberOfRank
  <2> QED
    BY <2>2, <2>4
<1>8. d = [k \in 1 .. n |-> s[(n - k) + 1]]
  BY <1>4 DEF Descending, Reverse, s
<1> HIDE DEF d, n
<1>9. Len(d) = n /\ DOMAIN d = 1 .. n
  BY <1>1, <1>2, <1>8
<1>10. \A j, k \in 1 .. n : d[j] = d[k] => j = k
  <2> SUFFICES ASSUME NEW j \in 1 .. n, NEW k \in 1 .. n, d[j] = d[k] PROVE j = k
    OBVIOUS
  <2>1. (n - j) + 1 \in 1 .. n /\ (n - k) + 1 \in 1 .. n
    BY <1>2
  <2>2. s[(n - j) + 1] = s[(n - k) + 1]
    BY <1>8
  <2>3. (n - j) + 1 = (n - k) + 1
    BY <1>5, <2>1, <2>2
  <2> QED
    BY <1>2, <2>3
<1>11. \A x \in S : \E k \in 1 .. n : d[k] = x
  <2> SUFFICES ASSUME NEW x \in S PROVE \E k \in 1 .. n : d[k] = x
    OBVIOUS
  <2>1. PICK k \in 1 .. n : s[k] = x
    BY <1>7
  <2>2. (n - k) + 1 \in 1 .. n /\ (n - ((n - k) + 1)) + 1 = k
    BY <1>2
  <2>3. d[(n - k) + 1] = x
    BY <1>8, <2>1, <2>2
  <2> QED
    BY <2>2, <2>3
<1> QED
  BY <1>1, <1>4, <1>6, <1>7, <1>9, <1>10, <1>11 DEF s, d, n

-----------------------------------------------------------------------------
\* x is a times c, and t.
Divides(x, c, a, t) == x = c * a + t

LEMMA DivisionIs ==
  ASSUME NEW c \in Nat \ {0}, NEW a \in Nat, NEW t \in 0 .. c - 1, NEW x \in Nat,
         Divides(x, c, a, t)
  PROVE  x % c = t /\ x \div c = a
<1> USE DEF Divides
<1> DEFINE q == x \div c
           u == x % c
<1>1. q \in Nat /\ u \in 0 .. c - 1 /\ x = c * q + u
  BY DivMod
<1> HIDE DEF q, u
<1>2. ASSUME a < q PROVE FALSE
  <2>1. PICK e \in Nat : q = a + 1 + e
    <3>1. q - a - 1 \in Nat /\ q = a + 1 + (q - a - 1)
      BY <1>1, <1>2
    <3> QED
      BY <3>1
  <2>2. c * q = c * a + c + c * e /\ c * e \in Nat /\ c * a \in Nat
    BY <2>1
  <2> QED
    BY <1>1, <2>2
<1>3. ASSUME q < a PROVE FALSE
  <2>1. PICK e \in Nat : a = q + 1 + e
    <3>1. a - q - 1 \in Nat /\ a = q + 1 + (a - q - 1)
      BY <1>1, <1>3
    <3> QED
      BY <3>1
  <2>2. c * a = c * q + c + c * e /\ c * e \in Nat /\ c * q \in Nat
    BY <1>1, <2>1
  <2> QED
    BY <1>1, <2>2
<1>4. a = q
  BY <1>1, <1>2, <1>3
<1>5. t = u
  BY <1>1, <1>4
<1> QED
  BY <1>4, <1>5 DEF q, u

LEMMA HalfOf ==
  ASSUME NEW x \in Nat, NEW h \in Nat \ {0}
  PROVE  /\ x % (2 * h) = 0 <=> x % h = 0 /\ ~HasBit(x, h)
         /\ x % (2 * h) = h <=> x % h = 0 /\ HasBit(x, h)
<1> DEFINE q == x \div h
           t == x % h
           u == q \div 2
           b == q % 2
<1>1. q \in Nat /\ t \in 0 .. h - 1 /\ x = h * q + t
  BY DivMod
<1>2. u \in Nat /\ b \in 0 .. 1 /\ q = 2 * u + b
  <2> HIDE DEF q
  <2> QED
    BY <1>1, DivMod
<1>3. HasBit(x, h) <=> b = 1
  BY DEF HasBit
<1> HIDE DEF q, t, u, b
<1>4. h * q = (2 * h) * u + h * b
  BY <1>1, <1>2
<1>5. h * b = IF b = 1 THEN h ELSE 0
  BY <1>2
<1>6. /\ h * b + t \in 0 .. 2 * h - 1 /\ 2 * h \in Nat \ {0}
      /\ x = (2 * h) * u + (h * b + t)
  BY <1>1, <1>2, <1>4, <1>5
<1>7. x % (2 * h) = h * b + t
  <2> DEFINE c == 2 * h
             v == h * b + t
  <2>1. c \in Nat \ {0} /\ v \in 0 .. c - 1 /\ x = c * u + v
    BY <1>6
  <2> HIDE DEF c, v
  <2>2. x % c = v
    <3>1. Divides(x, c, u, v)
      BY <2>1 DEF Divides
    <3> QED
      BY <1>2, <2>1, <3>1, DivisionIs
  <2> QED
    BY <2>2 DEF c, v
<1>8. x % h = t
  BY DEF t
<1> QED
  BY <1>1, <1>2, <1>3, <1>5, <1>7, <1>8

LEMMA LowBits ==
  ASSUME NEW size \in Nat, NEW rank \in Nat, NEW m \in Masks(size)
  PROVE  (\A b \in Masks(size) : b < m => ~HasBit(rank, b)) <=> rank % m = 0
<1> DEFINE M == Masks(size)
           None0(x) == \A b \in M : b < x => ~HasBit(rank, b)
           T == {x \in M : ~(None0(x) <=> rank % x = 0)}
<1>0. M \subseteq Nat /\ \A x \in M : x \in Nat \ {0}
  BY MasksDouble
<1>1. SUFFICES ASSUME T # {} PROVE FALSE
  OBVIOUS
<1>2. PICK x \in T : \A z \in T : x <= z
  <2>1. T \subseteq Nat
    BY <1>0
  <2> HIDE DEF T
  <2> QED
    BY <1>1, <2>1, LeastNumber
<1>3. x # 1
  <2>1. rank % 1 = 0 /\ \A b \in M : ~(b < 1)
    BY <1>0
  <2> QED
    BY <1>2, <2>1
<1>4. PICK h \in M : x = 2 * h
  BY <1>2, <1>3, MasksDouble
<1>5. h < x /\ h \notin T
  <2>1. h < x /\ ~(x <= h)
    BY <1>0, <1>4
  <2> QED
    BY <1>2, <2>1
<1>6. None0(h) <=> rank % h = 0
  BY <1>5
<1>7. \A b \in M : b < x <=> b < h \/ b = h
  <2> SUFFICES ASSUME NEW b \in M PROVE b < x <=> b < h \/ b = h
    OBVIOUS
  <2>1. h < b => 2 * h <= b
    BY MasksApart
  <2> QED
    BY <1>0, <1>4, <2>1
<1>8. None0(x) <=> None0(h) /\ ~HasBit(rank, h)
  BY <1>7
<1>9. rank % x = 0 <=> rank % h = 0 /\ ~HasBit(rank, h)
  BY <1>0, <1>4, HalfOf
<1> QED
  BY <1>2, <1>6, <1>8, <1>9

(* A rank other than 0 has a lowest bit. *)
LEMMA HasLowBit ==
  ASSUME NEW size \in Nat, NEW rank \in 1 .. size - 1
  PROVE  \E m \in Masks(size) :
           /\ rank % (2 * m) = m /\ HasBit(rank, m) /\ m <= rank
           /\ \A b \in Masks(size) : HasBit(rank, b) => m <= b
           /\ \A b \in Masks(size) : rank % (2 * b) = b => b = m
<1> DEFINE M == Masks(size)
           T == {m \in M : HasBit(rank, m)}
           above == {size - x : x \in {y \in M : y <= rank}}
<1>0. M \subseteq Nat /\ (\A x \in M : x \in Nat \ {0} /\ x < size) /\ 1 \in M
  BY MasksDouble
<1>1. T # {}
  <2>1. above \subseteq Nat /\ above # {}
    BY <1>0
  <2>2. PICK a \in above : \A z \in above : a <= z
    <3> HIDE DEF above
    <3> QED
      BY <2>1, LeastNumber
  <2>3. PICK x \in M : x <= rank /\ a = size - x
    BY <2>2
  <2>4. rank < 2 * x
    <3>1. SUFFICES ASSUME 2 * x <= rank PROVE FALSE
      BY <1>0, <2>3
    <3>2. 2 * x < size
      BY <1>0, <3>1
    <3>3. 2 * x \in M
      BY <3>2, MasksDouble
    <3>4. size - 2 * x \in above
      BY <3>1, <3>3
    <3>5. a <= size - 2 * x
      BY <2>2, <3>4
    <3> QED
      BY <1>0, <2>3, <3>5
  <2>5. Divides(rank, x, 1, rank - x) /\ rank - x \in 0 .. x - 1
    BY <1>0, <2>3, <2>4 DEF Divides
  <2>6. rank \div x = 1
    BY <1>0, <2>5, DivisionIs
  <2>7. HasBit(rank, x)
    BY <2>6 DEF HasBit
  <2> QED
    BY <2>7
<1>2. PICK m \in T : \A b \in T : m <= b
  <2>1. T \subseteq Nat
    BY <1>0
  <2> HIDE DEF T
  <2> QED
    BY <1>1, <2>1, LeastNumber
<1>3. \A b \in M : b < m => ~HasBit(rank, b)
  BY <1>0, <1>2
<1>4. rank % m = 0
  BY <1>2, <1>3, LowBits
<1>5. rank % (2 * m) = m
  BY <1>0, <1>2, <1>4, HalfOf
<1>6. m <= rank
  <2>1. rank < m => rank \div m = 0
    BY <1>0
  <2> QED
    BY <1>0, <1>2, <2>1 DEF HasBit
<1>7. ASSUME NEW b \in M, rank % (2 * b) = b PROVE b = m
  <2>1. rank % b = 0 /\ HasBit(rank, b)
    BY <1>0, <1>7, HalfOf
  <2>2. \A e \in M : e < b => ~HasBit(rank, e)
    BY <2>1, LowBits
  <2> QED
    BY <1>0, <1>2, <2>1, <2>2
<1> QED
  BY <1>2, <1>5, <1>6, <1>7

LEMMA PartsOfJoin ==
  ASSUME NEW T, NEW s \in Seq(T), NEW t \in Seq(T)
  PROVE  /\ Len(s \o t) = Len(s) + Len(t) /\ s \o t \in Seq(T)
         /\ \A k \in DOMAIN (s \o t) :
              \/ k \in DOMAIN s /\ (s \o t)[k] = s[k]
              \/ /\ k > Len(s) /\ k - Len(s) \in DOMAIN t
                 /\ (s \o t)[k] = t[k - Len(s)]
         /\ \A k \in DOMAIN s : k \in DOMAIN (s \o t) /\ (s \o t)[k] = s[k]
         /\ \A k \in DOMAIN t : /\ Len(s) + k \in DOMAIN (s \o t)
                                /\ (s \o t)[Len(s) + k] = t[k]
<1>1. /\ Len(s) \in Nat /\ Len(t) \in Nat /\ DOMAIN s = 1 .. Len(s)
      /\ DOMAIN t = 1 .. Len(t) /\ s \o t \in Seq(T)
      /\ Len(s \o t) = Len(s) + Len(t) /\ DOMAIN (s \o t) = 1 .. Len(s \o t)
  OBVIOUS
<1>2. \A k \in 1 .. Len(s) + Len(t) :
        (s \o t)[k] = IF k <= Len(s) THEN s[k] ELSE t[k - Len(s)]
  OBVIOUS
<1>3. ASSUME NEW k \in DOMAIN t
      PROVE Len(s) + k \in DOMAIN (s \o t) /\ (s \o t)[Len(s) + k] = t[k]
  <2>1. Len(s) + k \in 1 .. Len(s) + Len(t) /\ ~(Len(s) + k <= Len(s))
        /\ (Len(s) + k) - Len(s) = k
    BY <1>1
  <2> QED
    BY <1>1, <1>2, <2>1
<1> QED
  BY <1>1, <1>2, <1>3

(* The parent of a member in the binomial tree of its communicator: the rank *)
(* with the lowest bit cleared.                                              *)
Parent(S, r) ==
  ProcessAt(S, RankIn(S, r) - (CHOOSE m \in Masks(Cardinality(S)) :
                                 RankIn(S, r) % (2 * m) = m))

LEMMA LowBitIs ==
  ASSUME NEW S \in SUBSET Process, NEW r \in S, RankIn(S, r) > 0
  PROVE  \E m \in Masks(Cardinality(S)) :
           /\ m \in 1 .. RankIn(S, r)
           /\ RankIn(S, r) % (2 * m) = m /\ HasBit(RankIn(S, r), m)
           /\ \A b \in Masks(Cardinality(S)) : HasBit(RankIn(S, r), b) => m <= b
           /\ \A b \in Masks(Cardinality(S)) : RankIn(S, r) % (2 * b) = b => b = m
           /\ Parent(S, r) = ProcessAt(S, RankIn(S, r) - m)
           /\ Parent(S, r) \in S /\ RankIn(S, Parent(S, r)) = RankIn(S, r) - m
           /\ Parent(S, r) < r
<1> DEFINE size == Cardinality(S)
           rank == RankIn(S, r)
<1>1. size \in Nat /\ rank \in 1 .. size - 1
  BY RankBelowSize
<1> HIDE DEF size, rank
<1>2. PICK m \in Masks(size) :
        /\ rank % (2 * m) = m /\ HasBit(rank, m) /\ m <= rank
        /\ \A b \in Masks(size) : HasBit(rank, b) => m <= b
        /\ \A b \in Masks(size) : rank % (2 * b) = b => b = m
  BY <1>1, HasLowBit
<1>3. m \in 1 .. rank
  BY <1>1, <1>2, MasksDouble
<1>4. (CHOOSE b \in Masks(size) : rank % (2 * b) = b) = m
  BY <1>2
<1>5. Parent(S, r) = ProcessAt(S, rank - m)
  BY <1>4 DEF Parent, size, rank
<1>6. rank - m \in Nat /\ rank - m < size /\ rank - m < rank
  BY <1>1, <1>3
<1>7. Parent(S, r) \in S /\ RankIn(S, Parent(S, r)) = rank - m
  BY <1>5, <1>6, MemberAt DEF size
<1>8. Parent(S, r) < r
  BY <1>6, <1>7, MemberOfRank DEF rank
<1> QED
  BY <1>2, <1>3, <1>5, <1>7, <1>8 DEF size, rank

(* The distances to the children, farthest first. *)
Reach(S, r) ==
  Descending({m \in Masks(Cardinality(S)) :
                /\ RankIn(S, r) % (2 * m) = 0
                /\ RankIn(S, r) + m < Cardinality(S)})

LEMMA BinomialParts ==
  ASSUME NEW S \in SUBSET Process, NEW r \in S, NEW c
  PROVE  BinomialBcast(S, c, r) =
           (IF RankIn(S, r) = 0 THEN <<>>
            ELSE <<IRecv(Parent(S, r), "bcast", c), Wait>>)
           \o [k \in DOMAIN Reach(S, r) |->
                ISend(ProcessAt(S, RankIn(S, r) + Reach(S, r)[k]), "bcast", c)]
<1> DEFINE size == Cardinality(S)
           rank == RankIn(S, r)
           M == Masks(size)
           bits == {m \in M : HasBit(rank, m)}
           lower == {m \in M : \A b \in bits : m < b}
           lowest == CHOOSE b \in bits : \A d \in bits : b <= d
<1>1. size \in Nat /\ rank \in Nat /\ rank < size
  BY RankBelowSize
<1>2. M \subseteq Nat /\ \A m \in M : m \in Nat \ {0}
  BY <1>1, MasksDouble
<1>3. \A m \in M : (\A b \in bits : m < b) <=> rank % (2 * m) = 0
  <2> SUFFICES ASSUME NEW m \in M
               PROVE  (\A b \in bits : m < b) <=> rank % (2 * m) = 0
    OBVIOUS
  <2> HIDE DEF rank, size
  <2>1. (\A b \in bits : m < b) <=>
          (\A b \in M : b < m => ~HasBit(rank, b)) /\ ~HasBit(rank, m)
    BY <1>2
  <2>2. (\A b \in M : b < m => ~HasBit(rank, b)) <=> rank % m = 0
    BY <1>1, LowBits
  <2>3. rank % (2 * m) = 0 <=> rank % m = 0 /\ ~HasBit(rank, m)
    BY <1>1, <1>2, HalfOf
  <2> QED
    BY <2>1, <2>2, <2>3
<1>4. {m \in lower : rank + m < size} =
        {m \in M : rank % (2 * m) = 0 /\ rank + m < size}
  BY <1>3
<1>5. rank = 0 => bits = {}
  <2> SUFFICES ASSUME rank = 0 PROVE bits = {}
    OBVIOUS
  <2>1. \A m \in M : 0 \div m = 0
    BY <1>2
  <2> QED
    BY <2>1 DEF HasBit
<1>6. rank # 0 => bits # {} /\ ProcessAt(S, rank - lowest) = Parent(S, r)
  <2> SUFFICES ASSUME rank # 0 PROVE bits # {} /\ ProcessAt(S, rank - lowest) = Parent(S, r)
    OBVIOUS
  <2>1. rank > 0
    BY <1>1
  <2>2. PICK m \in M : /\ HasBit(rank, m)
                       /\ \A b \in M : HasBit(rank, b) => m <= b
                       /\ Parent(S, r) = ProcessAt(S, rank - m)
    BY <2>1, LowBitIs
  <2>3. m \in bits /\ \A d \in bits : m <= d
    BY <2>2
  <2>4. \A e \in bits : (\A d \in bits : e <= d) => e = m
    BY <1>2, <2>3
  <2> HIDE DEF bits
  <2>5. lowest = m
    BY <2>3, <2>4
  <2> QED
    BY <2>2, <2>3, <2>5
<1>7. BinomialBcast(S, c, r) =
        (IF bits = {} THEN <<>>
         ELSE <<IRecv(ProcessAt(S, rank - lowest), "bcast", c), Wait>>)
        \o [k \in DOMAIN Descending({m \in lower : rank + m < size}) |->
             ISend(ProcessAt(S, rank + Descending({m \in lower : rank + m < size})[k]),
                   "bcast", c)]
  BY DEF BinomialBcast
<1>8. Descending({m \in lower : rank + m < size}) = Reach(S, r)
  BY <1>4 DEF Reach
<1>9. (IF bits = {} THEN <<>>
       ELSE <<IRecv(ProcessAt(S, rank - lowest), "bcast", c), Wait>>)
      = (IF rank = 0 THEN <<>> ELSE <<IRecv(Parent(S, r), "bcast", c), Wait>>)
  <2> HIDE DEF bits, lowest
  <2>1. CASE rank = 0
    BY <1>5, <2>1
  <2>2. CASE rank # 0
    BY <1>6, <2>2
  <2> QED
    BY <2>1, <2>2
<1> HIDE DEF bits, lowest, lower, M
<1> QED
  BY <1>7, <1>8, <1>9

-----------------------------------------------------------------------------
(* The binomial trees of MPI_Bcast, and its plan in both parts.            *)

LEMMA NarrowSeq ==
  ASSUME NEW T, NEW U, T \subseteq U, NEW s \in Seq(T)
  PROVE  s \in Seq(U)
<1>1. Len(s) \in Nat /\ s = [k \in 1 .. Len(s) |-> s[k]] /\ \A k \in 1 .. Len(s) : s[k] \in U
  OBVIOUS
<1> QED
  BY <1>1

LEMMA AddToMultiple ==
  ASSUME NEW c \in Nat \ {0}, NEW w \in Nat, NEW x \in 0 .. c - 1
  PROVE  /\ w % c = 0 => (w + x) % c = x
         /\ (w + x) % c = x => w % c = 0
<1>1. ASSUME w % c = 0 PROVE (w + x) % c = x
  <2> DEFINE a == w \div c
  <2>1. a \in Nat /\ w % c \in 0 .. c - 1 /\ w = c * a + (w % c)
    BY DivMod
  <2> HIDE DEF a
  <2> DEFINE v == w + x
  <2>2. Divides(v, c, a, x) /\ v \in Nat
    BY <1>1, <2>1 DEF Divides
  <2> HIDE DEF v
  <2>3. v % c = x
    BY <2>1, <2>2, DivisionIs
  <2> QED
    BY <2>3 DEF v
<1>2. ASSUME (w + x) % c = x PROVE w % c = 0
  <2> DEFINE v == w + x
             a == v \div c
  <2>1. v \in Nat
    OBVIOUS
  <2> HIDE DEF v
  <2>2. a \in Nat /\ v % c \in 0 .. c - 1 /\ v = c * a + (v % c)
    BY <2>1, DivMod
  <2>3. v % c = x
    BY <1>2 DEF v
  <2> HIDE DEF a
  <2>4. Divides(w, c, a, 0)
    BY <2>1, <2>2, <2>3 DEF v, Divides
  <2>5. 0 \in 0 .. c - 1
    OBVIOUS
  <2> QED
    BY <2>2, <2>4, <2>5, DivisionIs
<1> QED
  BY <1>1, <1>2

LEMMA ReachIs ==
  ASSUME NEW S \in SUBSET Process, NEW r \in S
  PROVE  /\ Reach(S, r) \in Seq(Nat)
         /\ \A k \in DOMAIN Reach(S, r) :
              LET q == ProcessAt(S, RankIn(S, r) + Reach(S, r)[k])
              IN  q \in S /\ RankIn(S, q) > 0 /\ Parent(S, q) = r /\ r < q
         /\ \A j, k \in DOMAIN Reach(S, r) :
              ProcessAt(S, RankIn(S, r) + Reach(S, r)[j])
                = ProcessAt(S, RankIn(S, r) + Reach(S, r)[k]) => j = k
         /\ \A q \in S : RankIn(S, q) > 0 /\ Parent(S, q) = r =>
              \E k \in DOMAIN Reach(S, r) :
                ProcessAt(S, RankIn(S, r) + Reach(S, r)[k]) = q
<1> DEFINE size == Cardinality(S)
           rank == RankIn(S, r)
           M == Masks(size)
           far == {m \in M : rank % (2 * m) = 0 /\ rank + m < size}
<1>1. size \in Nat /\ rank \in Nat /\ rank < size /\ size \in 1 .. N
  BY RankBelowSize
<1>2. \A m \in M : m \in Nat \ {0}
  BY <1>1, MasksDouble
<1>3. far \in SUBSET Process
  <2>1. M \subseteq Process
    BY <1>1, MasksAre
  <2> QED
    BY <2>1
<1>4. Reach(S, r) = Descending(far)
  BY DEF Reach
<1>5. /\ Reach(S, r) \in Seq(far)
      /\ \A j, k \in DOMAIN Reach(S, r) : Reach(S, r)[j] = Reach(S, r)[k] => j = k
      /\ \A x \in far : \E k \in DOMAIN Reach(S, r) : Reach(S, r)[k] = x
  <2> HIDE DEF far
  <2>1. Descending(far) \in Seq(far)
    BY <1>3, LoopsOver
  <2> QED
    BY <1>3, <1>4, <2>1, AscendingIs
<1>6. far \subseteq Nat
  BY <1>2
<1> DEFINE at(x) == ProcessAt(S, rank + x)
<1>7. ASSUME NEW x \in far
      PROVE  /\ at(x) \in S /\ RankIn(S, at(x)) = rank + x /\ RankIn(S, at(x)) > 0
             /\ Parent(S, at(x)) = r /\ r < at(x)
  <2>1. x \in M /\ x \in Nat \ {0} /\ rank % (2 * x) = 0 /\ rank + x < size
    BY <1>2, <1>7
  <2>2. rank + x \in Nat
    BY <1>1, <2>1
  <2>3. at(x) \in S /\ RankIn(S, at(x)) = rank + x
    BY <2>1, <2>2, MemberAt
  <2> HIDE DEF rank, at
  <2>4. RankIn(S, at(x)) > 0
    BY <1>1, <2>1, <2>3
  <2>5. (rank + x) % (2 * x) = x
    <3> DEFINE c == 2 * x
    <3>1. c \in Nat \ {0} /\ x \in 0 .. c - 1 /\ rank % c = 0
      BY <2>1
    <3> HIDE DEF c
    <3>2. (rank + x) % c = x
      BY <1>1, <3>1, AddToMultiple
    <3> QED
      BY <3>2 DEF c
  <2>6. Parent(S, at(x)) = ProcessAt(S, (rank + x) - x)
    <3>1. PICK m \in M :
            /\ \A b \in M : RankIn(S, at(x)) % (2 * b) = b => b = m
            /\ Parent(S, at(x)) = ProcessAt(S, RankIn(S, at(x)) - m)
      BY <2>3, <2>4, LowBitIs
    <3>2. x = m
      BY <2>1, <2>3, <2>5, <3>1
    <3> QED
      BY <2>3, <3>1, <3>2
  <2>7. (rank + x) - x = rank
    BY <1>1, <2>1
  <2>8. Parent(S, at(x)) = r
    <3>1. ProcessAt(S, rank) = r
      BY MemberOfRank DEF rank
    <3> QED
      BY <2>6, <2>7, <3>1
  <2>9. rank < RankIn(S, at(x))
    BY <1>1, <2>1, <2>3
  <2>10. r < at(x)
    BY <2>3, <2>9, MemberOfRank DEF rank
  <2> QED
    BY <2>3, <2>4, <2>8, <2>10
<1>8. ASSUME NEW x \in far, NEW y \in far, at(x) = at(y) PROVE x = y
  <2>1. rank + x = rank + y
    BY <1>7, <1>8
  <2> QED
    BY <1>1, <1>6, <2>1
<1>9. ASSUME NEW q \in S, RankIn(S, q) > 0, Parent(S, q) = r
      PROVE  \E x \in far : at(x) = q
  <2>1. PICK m \in M :
          /\ m \in 1 .. RankIn(S, q) /\ RankIn(S, q) % (2 * m) = m
          /\ RankIn(S, Parent(S, q)) = RankIn(S, q) - m
    BY <1>9, LowBitIs
  <2>2. rank = RankIn(S, q) - m
    BY <1>9, <2>1
  <2> DEFINE w == RankIn(S, q)
  <2>3. w \in Nat /\ w < size
    BY RankBelowSize
  <2>4. w = rank + m
    BY <1>1, <2>1, <2>2, <2>3
  <2>5. rank % (2 * m) = 0
    <3> DEFINE c == 2 * m
    <3>1. c \in Nat \ {0} /\ m \in 0 .. c - 1 /\ (rank + m) % c = m
      BY <2>1, <2>4
    <3> HIDE DEF c, rank
    <3>2. rank % c = 0
      BY <1>1, <3>1, AddToMultiple
    <3> QED
      BY <3>2 DEF c
  <2>6. m \in far
    BY <2>3, <2>4, <2>5
  <2>7. at(m) = ProcessAt(S, RankIn(S, q))
    BY <2>4
  <2> QED
    BY <2>6, <2>7, MemberOfRank
<1> HIDE DEF far
<1>10. Reach(S, r) \in Seq(Nat)
  BY <1>5, <1>6, NarrowSeq
<1>11. \A k \in DOMAIN Reach(S, r) : Reach(S, r)[k] \in far
  BY <1>5
<1> QED
  BY <1>5, <1>7, <1>8, <1>9, <1>10, <1>11

-----------------------------------------------------------------------------
\* Operation op occurs in a rank's part of a collective.
Has(s, op) == \E k \in DOMAIN s : s[k] = op

\* What rank r does in a broadcast in communicator c of the members S.
TreePart(S, c, r, B) ==
  /\ B \in Seq(Operation)
  /\ RankIn(S, r) = 0 => \A k \in DOMAIN B : B[k].kind = "isend"
  /\ RankIn(S, r) > 0 =>
       /\ Parent(S, r) \in S /\ Parent(S, r) < r
       /\ Len(B) >= 2 /\ B[1] = IRecv(Parent(S, r), "bcast", c) /\ B[2] = Wait
       /\ \A k \in DOMAIN B : k > 2 => B[k].kind = "isend"
  /\ \A k \in DOMAIN B : B[k].kind = "isend" =>
       \E q \in S : /\ B[k] = ISend(q, "bcast", c) /\ RankIn(S, q) > 0
                    /\ Parent(S, q) = r
  /\ \A q \in S : RankIn(S, q) > 0 /\ Parent(S, q) = r =>
       Has(B, ISend(q, "bcast", c))
  /\ \A j, k \in DOMAIN B : B[j].kind = "isend" /\ B[j] = B[k] => j = k

LEMMA BinomialIs ==
  ASSUME NEW S \in SUBSET Process, NEW r \in S, NEW c \in {"world", "node", "roots"}
  PROVE  TreePart(S, c, r, BinomialBcast(S, c, r))
<1> DEFINE B == BinomialBcast(S, c, r)
<1> DEFINE reach == Reach(S, r)
           first == IF RankIn(S, r) = 0 THEN <<>>
                    ELSE <<IRecv(Parent(S, r), "bcast", c), Wait>>
           to(k) == ProcessAt(S, RankIn(S, r) + reach[k])
           sends == [k \in DOMAIN reach |-> ISend(to(k), "bcast", c)]
<1>1. B = first \o sends
  BY BinomialParts
<1> HIDE DEF B
<1>2. RankIn(S, r) \in Nat
  BY RankBelowSize
<1>3. /\ reach \in Seq(Nat)
      /\ \A k \in DOMAIN reach :
           to(k) \in S /\ RankIn(S, to(k)) > 0 /\ Parent(S, to(k)) = r /\ r < to(k)
      /\ \A j, k \in DOMAIN reach : to(j) = to(k) => j = k
      /\ \A q \in S : RankIn(S, q) > 0 /\ Parent(S, q) = r =>
           \E k \in DOMAIN reach : to(k) = q
  BY ReachIs
<1>4. RankIn(S, r) > 0 => Parent(S, r) \in S /\ Parent(S, r) < r
  BY LowBitIs
<1> HIDE DEF reach, to
<1>5. first \in Seq(Operation)
  <2>1. CASE RankIn(S, r) = 0
    BY <2>1
  <2>2. CASE RankIn(S, r) # 0
    <3>1. IRecv(Parent(S, r), "bcast", c) \in Operation /\ Wait \in Operation
      BY <1>2, <1>4, <2>2, OperationKinds
    <3> QED
      BY <2>2, <3>1
  <2> QED
    BY <2>1, <2>2
<1>6. \A k \in DOMAIN reach : ISend(to(k), "bcast", c) \in Operation
  BY <1>3, OperationKinds
<1>7. sends \in Seq(Operation) /\ DOMAIN sends = DOMAIN reach
  BY <1>3, <1>6
<1>8. \A k \in DOMAIN sends : sends[k] = ISend(to(k), "bcast", c)
  OBVIOUS
<1>9. /\ RankIn(S, r) = 0 => Len(first) = 0 /\ DOMAIN first = {}
      /\ RankIn(S, r) # 0 => /\ Len(first) = 2 /\ DOMAIN first = {1, 2}
                             /\ first[1] = IRecv(Parent(S, r), "bcast", c) /\ first[2] = Wait
  <2>1. CASE RankIn(S, r) = 0
    BY <2>1
  <2>2. CASE RankIn(S, r) # 0
    BY <2>2
  <2> QED
    BY <2>1, <2>2
<1>10. \A p : ISend(p, "bcast", c).kind = "isend" /\ IRecv(p, "bcast", c).kind = "irecv"
              /\ ISend(p, "bcast", c).peer = p
  BY DEF ISend, IRecv
<1>11. Wait.kind = "wait"
  BY DEF Wait
<1> HIDE DEF first, sends
<1>12. /\ Len(B) = Len(first) + Len(sends) /\ B \in Seq(Operation)
       /\ \A k \in DOMAIN B :
            \/ k \in DOMAIN first /\ B[k] = first[k]
            \/ /\ k > Len(first) /\ k - Len(first) \in DOMAIN sends
               /\ B[k] = sends[k - Len(first)]
       /\ \A k \in DOMAIN first : k \in DOMAIN B /\ B[k] = first[k]
       /\ \A k \in DOMAIN sends : /\ Len(first) + k \in DOMAIN B
                                  /\ B[Len(first) + k] = sends[k]
  BY <1>1, <1>5, <1>7, PartsOfJoin, SMTT(20)
<1>13. Len(sends) \in Nat /\ Len(first) \in Nat
  BY <1>5, <1>7
<1>14. \A k \in DOMAIN B : B[k].kind = "isend" =>
         /\ k > Len(first) /\ k - Len(first) \in DOMAIN reach
         /\ B[k] = ISend(to(k - Len(first)), "bcast", c)
  <2> SUFFICES ASSUME NEW k \in DOMAIN B, B[k].kind = "isend"
               PROVE  /\ k > Len(first) /\ k - Len(first) \in DOMAIN reach
                      /\ B[k] = ISend(to(k - Len(first)), "bcast", c)
    OBVIOUS
  <2>1. ~(k \in DOMAIN first /\ B[k] = first[k])
    BY <1>9, <1>10, <1>11
  <2> QED
    BY <1>7, <1>8, <1>12, <2>1
<1>15. \A k \in DOMAIN B : k > Len(first) => B[k].kind = "isend"
  <2> SUFFICES ASSUME NEW k \in DOMAIN B, k > Len(first) PROVE B[k].kind = "isend"
    OBVIOUS
  <2>1. k \notin DOMAIN first
    BY <1>5
  <2> QED
    BY <1>8, <1>10, <1>12, <2>1
<1>16. \A k \in DOMAIN B : B[k].kind = "isend" =>
         \E q \in S : /\ B[k] = ISend(q, "bcast", c) /\ RankIn(S, q) > 0
                      /\ Parent(S, q) = r
  BY <1>3, <1>14
<1>17. ASSUME NEW q \in S, RankIn(S, q) > 0, Parent(S, q) = r
       PROVE  Has(B, ISend(q, "bcast", c))
  <2>1. PICK k \in DOMAIN reach : to(k) = q
    BY <1>3, <1>17
  <2>2. Len(first) + k \in DOMAIN B /\ B[Len(first) + k] = ISend(q, "bcast", c)
    BY <1>7, <1>8, <1>12, <2>1
  <2> QED
    BY <2>2 DEF Has
<1>18. ASSUME NEW j \in DOMAIN B, NEW k \in DOMAIN B, B[j].kind = "isend", B[j] = B[k]
       PROVE  j = k
  <2>1. /\ j > Len(first) /\ k > Len(first)
        /\ j - Len(first) \in DOMAIN reach /\ k - Len(first) \in DOMAIN reach
        /\ ISend(to(j - Len(first)), "bcast", c) = ISend(to(k - Len(first)), "bcast", c)
    BY <1>14, <1>18
  <2>2. to(j - Len(first)) = to(k - Len(first))
    BY <1>10, <2>1
  <2>3. j - Len(first) = k - Len(first)
    BY <1>3, <2>1, <2>2
  <2>4. j \in Nat /\ k \in Nat
    BY <1>12
  <2> QED
    BY <1>13, <2>3, <2>4
<1>19. RankIn(S, r) = 0 => \A k \in DOMAIN B : B[k].kind = "isend"
  <2>1. \A k \in DOMAIN B : k > 0
    BY <1>12
  <2> QED
    BY <1>9, <1>15, <2>1
<1>20. RankIn(S, r) > 0 =>
         /\ Len(B) >= 2 /\ B[1] = IRecv(Parent(S, r), "bcast", c) /\ B[2] = Wait
         /\ \A k \in DOMAIN B : k > 2 => B[k].kind = "isend"
  BY <1>9, <1>12, <1>13, <1>15
<1> QED
  BY <1>4, <1>12, <1>16, <1>17, <1>18, <1>19, <1>20 DEF TreePart, B

-----------------------------------------------------------------------------
(* The partners of a member in step m of the dissemination. *)
Behind(S, r, m) ==
  ProcessAt(S, (RankIn(S, r) - m + Cardinality(S)) % Cardinality(S))

Ahead(S, r, m) == ProcessAt(S, (RankIn(S, r) + m) % Cardinality(S))

LEMMA AroundOnce ==
  ASSUME NEW size \in Nat \ {0}, NEW x \in Nat, x < 2 * size
  PROVE  x % size = IF x < size THEN x ELSE x - size
<1>1. CASE x < size
  <2>1. Divides(x, size, 0, x) /\ x \in 0 .. size - 1
    BY <1>1 DEF Divides
  <2>2. x % size = x
    BY <2>1, DivisionIs
  <2> QED
    BY <1>1, <2>2
<1>2. CASE x >= size
  <2> DEFINE t == x - size
  <2>1. Divides(x, size, 1, t) /\ t \in 0 .. size - 1
    BY <1>2 DEF Divides
  <2> HIDE DEF t
  <2>2. x % size = t
    BY <2>1, DivisionIs
  <2> QED
    BY <1>2, <2>2 DEF t
<1> QED
  BY <1>1, <1>2

LEMMA PartnersAre ==
  ASSUME NEW S \in SUBSET Process, NEW r \in S, NEW m \in 1 .. Cardinality(S) - 1
  PROVE  /\ Behind(S, r, m) \in S /\ Ahead(S, r, m) \in S
         /\ RankIn(S, Behind(S, r, m)) =
              IF RankIn(S, r) < m THEN RankIn(S, r) - m + Cardinality(S)
              ELSE RankIn(S, r) - m
         /\ RankIn(S, Ahead(S, r, m)) =
              IF RankIn(S, r) + m < Cardinality(S) THEN RankIn(S, r) + m
              ELSE RankIn(S, r) + m - Cardinality(S)
         /\ Behind(S, Ahead(S, r, m), m) = r
         /\ Ahead(S, Behind(S, r, m), m) = r
         /\ \A k \in 1 .. Cardinality(S) - 1 :
              /\ Behind(S, r, m) = Behind(S, r, k) => m = k
              /\ Ahead(S, r, m) = Ahead(S, r, k) => m = k
<1> DEFINE size == Cardinality(S)
           back(x, k) == IF x < k THEN x - k + size ELSE x - k
           ahead(x, k) == IF x + k < size THEN x + k ELSE x + k - size
<1>1. size \in Nat \ {0}
  BY RankBelowSize
<1>2. ASSUME NEW q \in S, NEW k \in 1 .. size - 1
      PROVE  /\ Behind(S, q, k) \in S /\ RankIn(S, Behind(S, q, k)) = back(RankIn(S, q), k)
             /\ Ahead(S, q, k) \in S /\ RankIn(S, Ahead(S, q, k)) = ahead(RankIn(S, q), k)
  <2> DEFINE x == RankIn(S, q)
             y == x - k + size
             z == x + k
  <2>1. x \in Nat /\ x < size
    BY RankBelowSize
  <2> HIDE DEF size, x
  <2>2. y \in Nat /\ y < 2 * size /\ z \in Nat /\ z < 2 * size
    BY <1>1, <2>1
  <2>3. y % size = IF y < size THEN y ELSE y - size
    <3> HIDE DEF y
    <3> QED
      BY <1>1, <2>2, AroundOnce
  <2>4. z % size = IF z < size THEN z ELSE z - size
    <3> HIDE DEF z
    <3> QED
      BY <1>1, <2>2, AroundOnce
  <2>5. y % size = back(x, k) /\ z % size = ahead(x, k)
    BY <1>1, <2>1, <2>3, <2>4
  <2>6. /\ back(x, k) \in Nat /\ back(x, k) < size
        /\ ahead(x, k) \in Nat /\ ahead(x, k) < size
    BY <1>1, <2>1
  <2>7. /\ ProcessAt(S, back(x, k)) \in S /\ RankIn(S, ProcessAt(S, back(x, k))) = back(x, k)
        /\ ProcessAt(S, ahead(x, k)) \in S /\ RankIn(S, ProcessAt(S, ahead(x, k))) = ahead(x, k)
    <3> HIDE DEF back, ahead
    <3> QED
      BY <2>6, MemberAt DEF size
  <2>8. Behind(S, q, k) = ProcessAt(S, y % size) /\ Ahead(S, q, k) = ProcessAt(S, z % size)
    BY DEF Behind, Ahead, size, x
  <2> HIDE DEF y, z, back, ahead
  <2>9. Behind(S, q, k) = ProcessAt(S, back(x, k)) /\ Ahead(S, q, k) = ProcessAt(S, ahead(x, k))
    BY <2>5, <2>8
  <2> QED
    BY <2>7, <2>9 DEF x
<1>3. \A x, y \in S : RankIn(S, x) = RankIn(S, y) => x = y
  BY MemberOfRank
<1>4. \A q \in S : RankIn(S, q) \in Nat /\ RankIn(S, q) < size
  BY RankBelowSize
<1> HIDE DEF size
<1>5. m \in 1 .. size - 1
  BY DEF size
<1>6. Behind(S, Ahead(S, r, m), m) = r
  <2>1. back(ahead(RankIn(S, r), m), m) = RankIn(S, r)
    BY <1>1, <1>4, <1>5
  <2> HIDE DEF back, ahead
  <2> QED
    BY <1>2, <1>3, <1>5, <2>1
<1>7. Ahead(S, Behind(S, r, m), m) = r
  <2>1. ahead(back(RankIn(S, r), m), m) = RankIn(S, r)
    BY <1>1, <1>4, <1>5
  <2> HIDE DEF back, ahead
  <2> QED
    BY <1>2, <1>3, <1>5, <2>1
<1>8. ASSUME NEW k \in 1 .. size - 1
      PROVE  /\ Behind(S, r, m) = Behind(S, r, k) => m = k
             /\ Ahead(S, r, m) = Ahead(S, r, k) => m = k
  <2>1. /\ back(RankIn(S, r), m) = back(RankIn(S, r), k) => m = k
        /\ ahead(RankIn(S, r), m) = ahead(RankIn(S, r), k) => m = k
    BY <1>1, <1>4, <1>5
  <2> HIDE DEF back, ahead
  <2> QED
    BY <1>2, <1>5, <2>1
<1>9. /\ Behind(S, r, m) \in S /\ Ahead(S, r, m) \in S
      /\ RankIn(S, Behind(S, r, m)) = back(RankIn(S, r), m)
      /\ RankIn(S, Ahead(S, r, m)) = ahead(RankIn(S, r), m)
  BY <1>2, <1>5
<1> QED
  BY <1>6, <1>7, <1>8, <1>9 DEF size

\* The mask of the k-th step.
MaskAt(S, k) == Ascending(Masks(Cardinality(S)))[k]

Rounds(S) == Cardinality(Masks(Cardinality(S)))

LEMMA MasksInOrder ==
  ASSUME NEW S \in SUBSET Process, NEW r \in S
  PROVE  /\ Rounds(S) \in Nat /\ Len(Ascending(Masks(Cardinality(S)))) = Rounds(S)
         /\ \A k \in 1 .. Rounds(S) : MaskAt(S, k) \in Masks(Cardinality(S))
         /\ \A k \in 1 .. Rounds(S) : MaskAt(S, k) \in 1 .. Cardinality(S) - 1
         /\ \A j, k \in 1 .. Rounds(S) : j < k => MaskAt(S, j) < MaskAt(S, k)
         /\ \A m \in Masks(Cardinality(S)) : \E k \in 1 .. Rounds(S) : MaskAt(S, k) = m
<1> DEFINE M == Masks(Cardinality(S))
           a == Ascending(M)
<1>1. Cardinality(S) \in 1 .. N /\ Cardinality(S) \in Nat
  BY RankBelowSize
<1>2. M \in SUBSET Process /\ M \subseteq 1 .. Cardinality(S) - 1
  BY <1>1, MasksAre
<1> HIDE DEF M
<1>3. /\ a \in Seq(M) /\ Len(a) = Cardinality(M)
      /\ \A j, k \in DOMAIN a : j < k => a[j] < a[k]
      /\ \A x \in M : \E k \in DOMAIN a : a[k] = x
  BY <1>2, AscendingIs, LoopsOver
<1> HIDE DEF a
<1>4. DOMAIN a = 1 .. Cardinality(M) /\ Cardinality(M) \in Nat
  BY <1>3
<1>5. \A k \in 1 .. Cardinality(M) : a[k] \in M
  BY <1>3, <1>4
<1>6. Rounds(S) = Cardinality(M) /\ \A k : MaskAt(S, k) = a[k]
  BY DEF Rounds, MaskAt, M, a
<1> DEFINE n == Rounds(S)
<1>7. n = Cardinality(M) /\ n \in Nat /\ Len(a) = n
  BY <1>3, <1>4, <1>6
<1> HIDE DEF n
<1>8. /\ \A k \in 1 .. n : MaskAt(S, k) \in M /\ MaskAt(S, k) \in 1 .. Cardinality(S) - 1
      /\ \A j, k \in 1 .. n : j < k => MaskAt(S, j) < MaskAt(S, k)
      /\ \A m \in M : \E k \in 1 .. n : MaskAt(S, k) = m
  <2>1. DOMAIN a = 1 .. n /\ \A k : MaskAt(S, k) = a[k]
    BY <1>4, <1>6, <1>7
  <2>2. \A k \in 1 .. n : a[k] \in M
    BY <1>5, <1>7
  <2>3. \A k \in 1 .. n : MaskAt(S, k) \in M
    BY <2>1, <2>2
  <2>4. \A k \in 1 .. n : MaskAt(S, k) \in 1 .. Cardinality(S) - 1
    BY <1>2, <2>3
  <2>5. \A j, k \in 1 .. n : j < k => MaskAt(S, j) < MaskAt(S, k)
    BY <1>3, <2>1
  <2>6. \A m \in M : \E k \in 1 .. n : MaskAt(S, k) = m
    BY <1>3, <2>1
  <2> QED
    BY <2>3, <2>4, <2>5, <2>6
<1> QED
  BY <1>7, <1>8 DEF M, a, n

LEMMA DisseminationIs ==
  ASSUME NEW S \in SUBSET Process, NEW r \in S, NEW c \in {"world", "node", "roots"},
         NEW B, B = Dissemination(S, c, r)
  PROVE  /\ B \in Seq(Operation) /\ Len(B) = 3 * Rounds(S)
         /\ \A k \in 1 .. Rounds(S) :
              /\ B[3 * k - 2] = IRecv(Behind(S, r, MaskAt(S, k)), "barrier", c)
              /\ B[3 * k - 1] = ISend(Ahead(S, r, MaskAt(S, k)), "barrier", c)
              /\ B[3 * k] = Wait
         /\ \A j \in DOMAIN B : \E k \in 1 .. Rounds(S) : j \in {3 * k - 2, 3 * k - 1, 3 * k}
<1> DEFINE size == Cardinality(S)
           rank == RankIn(S, r)
           n == Rounds(S)
           mk == Ascending(Masks(size))
           Step(k) ==
             LET m == mk[(k + 2) \div 3]
             IN  CASE k % 3 = 1 -> IRecv(ProcessAt(S, (rank - m + size) % size),
                                         "barrier", c)
                   [] k % 3 = 2 -> ISend(ProcessAt(S, (rank + m) % size),
                                         "barrier", c)
                   [] k % 3 = 0 -> Wait
<1>1. n \in Nat /\ Len(mk) = n
  BY MasksInOrder
<1>2. B \in Seq(Operation)
  BY DisseminationPeers
<1>3. B = [k \in 1 .. 3 * n |-> Step(k)]
  BY <1>1 DEF Dissemination
<1>4. \A k : /\ Behind(S, r, MaskAt(S, k)) = ProcessAt(S, (rank - mk[k] + size) % size)
             /\ Ahead(S, r, MaskAt(S, k)) = ProcessAt(S, (rank + mk[k]) % size)
  BY DEF Behind, Ahead, MaskAt
<1> HIDE DEF mk, n, rank, size
<1>5. ASSUME NEW k \in 1 .. n
      PROVE  /\ Step(3 * k - 2) = IRecv(Behind(S, r, MaskAt(S, k)), "barrier", c)
             /\ Step(3 * k - 1) = ISend(Ahead(S, r, MaskAt(S, k)), "barrier", c)
             /\ Step(3 * k) = Wait
  <2>1. /\ (3 * k - 2) % 3 = 1 /\ (3 * k - 1) % 3 = 2 /\ (3 * k) % 3 = 0
        /\ ((3 * k - 2) + 2) \div 3 = k /\ ((3 * k - 1) + 2) \div 3 = k
    BY <1>1
  <2>2. Step(3 * k - 2) = IRecv(ProcessAt(S, (rank - mk[k] + size) % size), "barrier", c)
    BY <2>1
  <2>3. Step(3 * k - 1) = ISend(ProcessAt(S, (rank + mk[k]) % size), "barrier", c)
    BY <2>1
  <2>4. Step(3 * k) = Wait
    BY <2>1
  <2> QED
    BY <1>4, <2>2, <2>3, <2>4
<1> HIDE DEF Step
<1>6. ASSUME NEW k \in 1 .. n
      PROVE  3 * k - 2 \in 1 .. 3 * n /\ 3 * k - 1 \in 1 .. 3 * n /\ 3 * k \in 1 .. 3 * n
  BY <1>1
<1>7. ASSUME NEW j \in 1 .. 3 * n
      PROVE  \E k \in 1 .. n : j \in {3 * k - 2, 3 * k - 1, 3 * k}
  <2>1. (j + 2) \div 3 \in 1 .. n
    BY <1>1
  <2>2. \/ j = 3 * ((j + 2) \div 3) - 2 \/ j = 3 * ((j + 2) \div 3) - 1
        \/ j = 3 * ((j + 2) \div 3)
    BY <1>1
  <2> QED
    BY <2>1, <2>2
<1>8. DOMAIN B = 1 .. 3 * n /\ Len(B) = 3 * n
  BY <1>1, <1>2, <1>3
<1>9. \A k \in 1 .. 3 * n : B[k] = Step(k)
  BY <1>3
<1> HIDE DEF Behind, Ahead
<1>10. \A k \in 1 .. n :
         /\ B[3 * k - 2] = IRecv(Behind(S, r, MaskAt(S, k)), "barrier", c)
         /\ B[3 * k - 1] = ISend(Ahead(S, r, MaskAt(S, k)), "barrier", c)
         /\ B[3 * k] = Wait
  BY <1>5, <1>6, <1>9
<1> QED
  BY <1>2, <1>7, <1>8, <1>10 DEF n

(***************************************************************************)
(* A rank starts no operation twice in a collective, waits for what it     *)
(* starts, except for the eager sends of a broadcast, and the operation    *)
(* before a wait has the tag of the receives the wait is for.              *)
(***************************************************************************)
Once(s) == \A j, k \in DOMAIN s : s[j] = s[k] /\ s[j] # Wait => j = k

NeedsWait(op) == op.kind = "irecv" \/ (op.kind = "isend" /\ op.tag # "bcast")

Awaited(s) ==
  \A j \in DOMAIN s : NeedsWait(s[j]) => \E k \in DOMAIN s : j < k /\ s[k] = Wait

\* No wait lies between operation j and operation k.
Since(s, j, k) == j < k /\ \A l \in j .. k - 1 : s[l] # Wait

TagsAgree(s) ==
  \A j, k \in DOMAIN s : s[j].kind = "irecv" /\ s[k] = Wait /\ Since(s, j, k) =>
    s[k - 1] # Wait /\ s[k - 1].tag = s[j].tag

Orderly(s) == s \in Seq(Operation) /\ Once(s) /\ Awaited(s) /\ TagsAgree(s)

LEMMA KindsApart ==
  \A p, t, c, q, u, e :
    /\ ISend(p, t, c).kind = "isend" /\ ISend(p, t, c).peer = p
    /\ ISend(p, t, c).tag = t /\ ISend(p, t, c).context = c
    /\ IRecv(p, t, c).kind = "irecv" /\ IRecv(p, t, c).peer = p
    /\ IRecv(p, t, c).tag = t /\ IRecv(p, t, c).context = c
    /\ Wait.kind = "wait" /\ ISend(p, t, c) # Wait /\ IRecv(p, t, c) # Wait
    /\ ISend(p, t, c) # IRecv(q, u, e)
<1> SUFFICES ASSUME NEW p, NEW t, NEW c, NEW q, NEW u, NEW e
    PROVE  /\ ISend(p, t, c).kind = "isend" /\ ISend(p, t, c).peer = p
           /\ ISend(p, t, c).tag = t /\ ISend(p, t, c).context = c
           /\ IRecv(p, t, c).kind = "irecv" /\ IRecv(p, t, c).peer = p
           /\ IRecv(p, t, c).tag = t /\ IRecv(p, t, c).context = c
           /\ Wait.kind = "wait" /\ ISend(p, t, c) # Wait /\ IRecv(p, t, c) # Wait
           /\ ISend(p, t, c) # IRecv(q, u, e)
  OBVIOUS
<1>1. /\ ISend(p, t, c).kind = "isend" /\ IRecv(p, t, c).kind = "irecv"
      /\ IRecv(q, u, e).kind = "irecv" /\ Wait.kind = "wait"
      /\ ISend(p, t, c).peer = p /\ ISend(p, t, c).tag = t /\ ISend(p, t, c).context = c
      /\ IRecv(p, t, c).peer = p /\ IRecv(p, t, c).tag = t /\ IRecv(p, t, c).context = c
  BY DEF ISend, IRecv, Wait
<1> QED
  BY <1>1

LEMMA JoinOrderly ==
  ASSUME NEW s, NEW t, Orderly(s), Orderly(t),
         \A j \in DOMAIN s, k \in DOMAIN t : s[j] # Wait => s[j] # t[k]
  PROVE  /\ Orderly(s \o t)
         /\ \A op : Has(s \o t, op) <=> Has(s, op) \/ Has(t, op)
<1> DEFINE w == s \o t
           n == Len(s)
<1>1. s \in Seq(Operation) /\ t \in Seq(Operation)
  BY DEF Orderly
<1>2. /\ Len(w) = n + Len(t) /\ w \in Seq(Operation) /\ n \in Nat /\ Len(t) \in Nat
      /\ DOMAIN w = 1 .. n + Len(t) /\ DOMAIN s = 1 .. n /\ DOMAIN t = 1 .. Len(t)
  BY <1>1, PartsOfJoin
<1>3. /\ \A k \in DOMAIN w :
           \/ k \in DOMAIN s /\ w[k] = s[k]
           \/ k > n /\ k - n \in DOMAIN t /\ w[k] = t[k - n]
      /\ \A k \in DOMAIN s : k \in DOMAIN w /\ w[k] = s[k]
      /\ \A k \in DOMAIN t : n + k \in DOMAIN w /\ w[n + k] = t[k]
  BY <1>1, PartsOfJoin
<1> HIDE DEF w, n
<1>4. Once(w)
  <2> SUFFICES ASSUME NEW j \in DOMAIN w, NEW k \in DOMAIN w, w[j] = w[k], w[j] # Wait
               PROVE  j = k
    BY DEF Once
  <2>1. CASE j \in DOMAIN s /\ w[j] = s[j]
    <3>1. k \in DOMAIN s /\ w[k] = s[k]
      BY <1>3, <2>1
    <3> QED
      BY <2>1, <3>1 DEF Orderly, Once
  <2>2. CASE j > n /\ j - n \in DOMAIN t /\ w[j] = t[j - n]
    <3>1. k > n /\ k - n \in DOMAIN t /\ w[k] = t[k - n]
      BY <1>3, <2>2
    <3>2. j - n = k - n
      BY <2>2, <3>1 DEF Orderly, Once
    <3> QED
      BY <1>2, <3>2
  <2> QED
    BY <1>3, <2>1, <2>2
<1>5. Awaited(w)
  <2> SUFFICES ASSUME NEW j \in DOMAIN w, NeedsWait(w[j])
               PROVE  \E k \in DOMAIN w : j < k /\ w[k] = Wait
    BY DEF Awaited
  <2>1. CASE j \in DOMAIN s /\ w[j] = s[j]
    <3>1. PICK k \in DOMAIN s : j < k /\ s[k] = Wait
      BY <2>1 DEF Orderly, Awaited
    <3> QED
      BY <1>3, <3>1
  <2>2. CASE j > n /\ j - n \in DOMAIN t /\ w[j] = t[j - n]
    <3>1. PICK k \in DOMAIN t : j - n < k /\ t[k] = Wait
      BY <2>2 DEF Orderly, Awaited
    <3>2. n + k \in DOMAIN w /\ w[n + k] = Wait
      BY <1>3, <3>1
    <3>3. j < n + k
      BY <1>2, <3>1
    <3> QED
      BY <3>2, <3>3
  <2> QED
    BY <1>3, <2>1, <2>2
<1>6. TagsAgree(w)
  <2> SUFFICES ASSUME NEW j \in DOMAIN w, NEW k \in DOMAIN w, w[j].kind = "irecv",
                      w[k] = Wait, Since(w, j, k)
               PROVE  w[k - 1] # Wait /\ w[k - 1].tag = w[j].tag
    BY DEF TagsAgree
  <2>1. j \in Nat /\ k \in Nat /\ j < k
    BY <1>2 DEF Since
  <2>2. CASE j \in DOMAIN s /\ w[j] = s[j]
    <3>1. PICK m \in DOMAIN s : j < m /\ s[m] = Wait
      BY <2>2 DEF Orderly, Awaited, NeedsWait
    <3>2. k <= m
      <4>1. SUFFICES ASSUME m < k PROVE FALSE
        BY <1>2, <2>1
      <4>2. m \in j .. k - 1 /\ w[m] = Wait
        BY <1>2, <1>3, <2>1, <3>1, <4>1
      <4> QED
        BY <4>2 DEF Since
    <3>3. k \in DOMAIN s /\ k - 1 \in DOMAIN s
      BY <1>2, <2>1, <2>2, <3>2
    <3>4. s[k] = w[k] /\ s[k - 1] = w[k - 1]
      BY <1>3, <3>3
    <3>5. Since(s, j, k)
      <4>1. \A l \in j .. k - 1 : l \in DOMAIN s
        BY <1>2, <2>2, <3>3
      <4> QED
        BY <1>3, <4>1 DEF Since
    <3> QED
      BY <2>2, <3>3, <3>4, <3>5 DEF Orderly, TagsAgree
  <2>3. CASE j > n /\ j - n \in DOMAIN t /\ w[j] = t[j - n]
    <3>1. k - n \in DOMAIN t /\ (k - n) - 1 \in DOMAIN t
      BY <1>2, <2>1, <2>3
    <3>2. t[k - n] = w[k] /\ t[(k - n) - 1] = w[k - 1]
      <4>1. n + (k - n) = k /\ n + ((k - n) - 1) = k - 1
        BY <1>2, <2>1
      <4>2. w[n + (k - n)] = t[k - n] /\ w[n + ((k - n) - 1)] = t[(k - n) - 1]
        BY <1>3, <3>1
      <4> QED
        BY <4>1, <4>2
    <3>3. Since(t, j - n, k - n)
      <4>1. j - n < k - n
        BY <1>2, <2>1
      <4>2. ASSUME NEW l \in j - n .. (k - n) - 1 PROVE t[l] # Wait
        <5>1. l \in DOMAIN t /\ n + l \in j .. k - 1
          BY <1>2, <2>1, <2>3, <3>1
        <5>2. w[n + l] = t[l]
          BY <1>3, <5>1
        <5> QED
          BY <5>1, <5>2 DEF Since
      <4> QED
        BY <4>1, <4>2 DEF Since
    <3> QED
      BY <2>3, <3>1, <3>2, <3>3 DEF Orderly, TagsAgree
  <2> QED
    BY <1>3, <2>2, <2>3
<1>7. \A op : Has(w, op) <=> Has(s, op) \/ Has(t, op)
  BY <1>3 DEF Has
<1> QED
  BY <1>2, <1>4, <1>5, <1>6, <1>7 DEF Orderly, w

LEMMA EmptyOrderly == Orderly(<<>>) /\ \A op : ~Has(<<>>, op)
BY DEF Orderly, Once, Awaited, TagsAgree, Has

TreeOp(S, c, r, op) ==
  \/ RankIn(S, r) > 0 /\ op = IRecv(Parent(S, r), "bcast", c)
  \/ \E q \in S : /\ RankIn(S, q) > 0 /\ Parent(S, q) = r
                  /\ op = ISend(q, "bcast", c)

DissOp(S, c, r, op) ==
  \E k \in 1 .. Rounds(S) :
    op \in {IRecv(Behind(S, r, MaskAt(S, k)), "barrier", c),
            ISend(Ahead(S, r, MaskAt(S, k)), "barrier", c)}

LEMMA BinomialOrderly ==
  ASSUME NEW S \in SUBSET Process, NEW r \in S, NEW c \in {"world", "node", "roots"},
         NEW B, TreePart(S, c, r, B)
  PROVE  /\ Orderly(B)
         /\ \A op : Has(B, op) /\ op # Wait <=> TreeOp(S, c, r, op)
<1>1. /\ B \in Seq(Operation)
      /\ RankIn(S, r) = 0 => \A k \in DOMAIN B : B[k].kind = "isend"
      /\ RankIn(S, r) > 0 =>
           /\ Len(B) >= 2 /\ B[1] = IRecv(Parent(S, r), "bcast", c) /\ B[2] = Wait
           /\ \A k \in DOMAIN B : k > 2 => B[k].kind = "isend"
      /\ \A k \in DOMAIN B : B[k].kind = "isend" =>
           \E q \in S : /\ B[k] = ISend(q, "bcast", c) /\ RankIn(S, q) > 0
                        /\ Parent(S, q) = r
      /\ \A q \in S : RankIn(S, q) > 0 /\ Parent(S, q) = r =>
           Has(B, ISend(q, "bcast", c))
      /\ \A j, k \in DOMAIN B : B[j].kind = "isend" /\ B[j] = B[k] => j = k
  BY DEF TreePart
<1>2. RankIn(S, r) \in Nat /\ DOMAIN B = 1 .. Len(B) /\ Len(B) \in Nat
  <2>1. B \in Seq(Operation)
    BY <1>1
  <2> QED
    BY <2>1, RankBelowSize
<1>3. \A k \in DOMAIN B : \/ B[k].kind = "isend"
                          \/ /\ RankIn(S, r) > 0
                             /\ \/ k = 1 /\ B[k] = IRecv(Parent(S, r), "bcast", c)
                                \/ k = 2 /\ B[k] = Wait
  BY <1>1, <1>2
<1>4. Once(B)
  <2> SUFFICES ASSUME NEW j \in DOMAIN B, NEW k \in DOMAIN B, B[j] = B[k], B[j] # Wait
               PROVE  j = k
    BY DEF Once
  <2>1. B[j].kind = "isend" => j = k
    BY <1>1
  <2> QED
    BY <1>3, <2>1, KindsApart
<1>5. \A k \in DOMAIN B : B[k].kind = "isend" => B[k].tag = "bcast"
  BY <1>1, KindsApart
<1>6. Awaited(B)
  <2> SUFFICES ASSUME NEW j \in DOMAIN B, NeedsWait(B[j])
               PROVE  \E k \in DOMAIN B : j < k /\ B[k] = Wait
    BY DEF Awaited
  <2>1. RankIn(S, r) > 0 /\ j = 1
    BY <1>3, <1>5, KindsApart DEF NeedsWait
  <2>2. 2 \in DOMAIN B /\ B[2] = Wait
    BY <1>1, <1>2, <2>1
  <2> QED
    BY <2>1, <2>2
<1>7. TagsAgree(B)
  <2> SUFFICES ASSUME NEW j \in DOMAIN B, NEW k \in DOMAIN B, B[j].kind = "irecv",
                      B[k] = Wait, Since(B, j, k)
               PROVE  B[k - 1] # Wait /\ B[k - 1].tag = B[j].tag
    BY DEF TagsAgree
  <2>1. j = 1 /\ k = 2
    BY <1>3, KindsApart
  <2> QED
    BY <1>3, <2>1, KindsApart
<1>8. ASSUME NEW op
      PROVE  Has(B, op) <=>
              \/ RankIn(S, r) > 0 /\ op \in {IRecv(Parent(S, r), "bcast", c), Wait}
              \/ \E q \in S : /\ RankIn(S, q) > 0 /\ Parent(S, q) = r
                              /\ op = ISend(q, "bcast", c)
  <2>1. ASSUME Has(B, op)
        PROVE  \/ RankIn(S, r) > 0 /\ op \in {IRecv(Parent(S, r), "bcast", c), Wait}
               \/ \E q \in S : /\ RankIn(S, q) > 0 /\ Parent(S, q) = r
                               /\ op = ISend(q, "bcast", c)
    <3>1. PICK k \in DOMAIN B : B[k] = op
      BY <2>1 DEF Has
    <3> QED
      BY <1>1, <1>3, <3>1
  <2>2. ASSUME RankIn(S, r) > 0 /\ op \in {IRecv(Parent(S, r), "bcast", c), Wait}
        PROVE  Has(B, op)
    <3>1. 1 \in DOMAIN B /\ 2 \in DOMAIN B
      BY <1>1, <1>2, <2>2
    <3> QED
      BY <1>1, <2>2, <3>1 DEF Has
  <2> QED
    BY <1>1, <2>1, <2>2
<1>9. \A op : Has(B, op) /\ op # Wait <=> TreeOp(S, c, r, op)
  BY <1>8, KindsApart DEF TreeOp
<1> QED
  BY <1>1, <1>4, <1>6, <1>7, <1>9 DEF Orderly

-----------------------------------------------------------------------------
(* What a rank does in a dissemination, and in a whole barrier.            *)

DissPart(S, c, r, B) ==
  /\ B \in Seq(Operation) /\ Len(B) = 3 * Rounds(S)
  /\ \A k \in 1 .. Rounds(S) :
       /\ B[3 * k - 2] = IRecv(Behind(S, r, MaskAt(S, k)), "barrier", c)
       /\ B[3 * k - 1] = ISend(Ahead(S, r, MaskAt(S, k)), "barrier", c)
       /\ B[3 * k] = Wait
  /\ \A j \in DOMAIN B : \E k \in 1 .. Rounds(S) : j \in {3 * k - 2, 3 * k - 1, 3 * k}

LEMMA DisseminationOrderly ==
  ASSUME NEW S \in SUBSET Process, NEW r \in S, NEW c \in {"world", "node", "roots"},
         NEW B, DissPart(S, c, r, B)
  PROVE  /\ Orderly(B)
         /\ \A op : Has(B, op) /\ op # Wait <=>
              \E k \in 1 .. Rounds(S) :
                op \in {IRecv(Behind(S, r, MaskAt(S, k)), "barrier", c),
                        ISend(Ahead(S, r, MaskAt(S, k)), "barrier", c)}
<1> DEFINE n == Rounds(S)
           from(k) == IRecv(Behind(S, r, MaskAt(S, k)), "barrier", c)
           to(k) == ISend(Ahead(S, r, MaskAt(S, k)), "barrier", c)
<1>1. /\ B \in Seq(Operation) /\ Len(B) = 3 * n
      /\ \A k \in 1 .. n : B[3 * k - 2] = from(k) /\ B[3 * k - 1] = to(k) /\ B[3 * k] = Wait
      /\ \A j \in DOMAIN B : \E k \in 1 .. n : j \in {3 * k - 2, 3 * k - 1, 3 * k}
  BY DEF DissPart
<1>2. n \in Nat
  BY MasksInOrder
<1>3. DOMAIN B = 1 .. 3 * n
  BY <1>1, <1>2
<1>4. \A j, k \in 1 .. n : MaskAt(S, j) = MaskAt(S, k) => j = k
  <2> SUFFICES ASSUME NEW j \in 1 .. n, NEW k \in 1 .. n, MaskAt(S, j) = MaskAt(S, k)
               PROVE  j = k
    OBVIOUS
  <2>1. /\ MaskAt(S, j) \in 1 .. Cardinality(S) - 1
        /\ j < k => MaskAt(S, j) < MaskAt(S, k)
        /\ k < j => MaskAt(S, k) < MaskAt(S, j)
    BY MasksInOrder
  <2> QED
    BY <1>2, <2>1
<1>5. \A j, k \in 1 .. n : /\ from(j) = from(k) => j = k
                           /\ to(j) = to(k) => j = k
  <2> SUFFICES ASSUME NEW j \in 1 .. n, NEW k \in 1 .. n
               PROVE  (from(j) = from(k) => j = k) /\ (to(j) = to(k) => j = k)
    OBVIOUS
  <2>1. MaskAt(S, j) \in 1 .. Cardinality(S) - 1 /\ MaskAt(S, k) \in 1 .. Cardinality(S) - 1
    BY MasksInOrder
  <2>2. /\ Behind(S, r, MaskAt(S, j)) = Behind(S, r, MaskAt(S, k)) => MaskAt(S, j) = MaskAt(S, k)
        /\ Ahead(S, r, MaskAt(S, j)) = Ahead(S, r, MaskAt(S, k)) => MaskAt(S, j) = MaskAt(S, k)
    BY <2>1, PartnersAre
  <2>3. /\ from(j).peer = Behind(S, r, MaskAt(S, j)) /\ from(k).peer = Behind(S, r, MaskAt(S, k))
        /\ to(j).peer = Ahead(S, r, MaskAt(S, j)) /\ to(k).peer = Ahead(S, r, MaskAt(S, k))
    BY KindsApart
  <2> QED
    BY <1>4, <2>2, <2>3
<1>6. \A k : /\ from(k).kind = "irecv" /\ from(k).tag = "barrier" /\ from(k) # Wait
             /\ to(k).kind = "isend" /\ to(k).tag = "barrier" /\ to(k) # Wait
             /\ Wait.kind = "wait"
  BY KindsApart
<1> HIDE DEF n, from, to
<1>7. \A k \in 1 .. n : 3 * k - 2 \in DOMAIN B /\ 3 * k - 1 \in DOMAIN B /\ 3 * k \in DOMAIN B
  BY <1>2, <1>3
<1>8. Once(B)
  <2> SUFFICES ASSUME NEW x \in DOMAIN B, NEW y \in DOMAIN B, B[x] = B[y], B[x] # Wait
               PROVE  x = y
    BY DEF Once
  <2>1. PICK j \in 1 .. n : x \in {3 * j - 2, 3 * j - 1, 3 * j}
    BY <1>1
  <2>2. PICK k \in 1 .. n : y \in {3 * k - 2, 3 * k - 1, 3 * k}
    BY <1>1
  <2>3. \/ x = 3 * j - 2 /\ B[x] = from(j)
        \/ x = 3 * j - 1 /\ B[x] = to(j)
    BY <1>1, <2>1
  <2>4. \/ y = 3 * k - 2 /\ B[y] = from(k)
        \/ y = 3 * k - 1 /\ B[y] = to(k)
    BY <1>1, <2>2
  <2>5. CASE x = 3 * j - 2 /\ B[x] = from(j)
    <3>1. y = 3 * k - 2 /\ B[y] = from(k)
      BY <1>6, <2>4, <2>5
    <3> QED
      BY <1>5, <2>5, <3>1
  <2>6. CASE x = 3 * j - 1 /\ B[x] = to(j)
    <3>1. y = 3 * k - 1 /\ B[y] = to(k)
      BY <1>6, <2>4, <2>6
    <3> QED
      BY <1>5, <2>6, <3>1
  <2> QED
    BY <2>3, <2>5, <2>6
<1>9. Awaited(B)
  <2> SUFFICES ASSUME NEW x \in DOMAIN B, NeedsWait(B[x])
               PROVE  \E k \in DOMAIN B : x < k /\ B[k] = Wait
    BY DEF Awaited
  <2>1. PICK j \in 1 .. n : x \in {3 * j - 2, 3 * j - 1, 3 * j}
    BY <1>1
  <2>2. x # 3 * j
    BY <1>1, <1>6 DEF NeedsWait
  <2>3. x < 3 * j
    BY <1>2, <2>1, <2>2
  <2> QED
    BY <1>1, <1>7, <2>3
<1>10. TagsAgree(B)
  <2> SUFFICES ASSUME NEW x \in DOMAIN B, NEW y \in DOMAIN B, B[x].kind = "irecv",
                      B[y] = Wait, Since(B, x, y)
               PROVE  B[y - 1] # Wait /\ B[y - 1].tag = B[x].tag
    BY DEF TagsAgree
  <2>1. PICK j \in 1 .. n : x \in {3 * j - 2, 3 * j - 1, 3 * j}
    BY <1>1
  <2>2. PICK k \in 1 .. n : y \in {3 * k - 2, 3 * k - 1, 3 * k}
    BY <1>1
  <2>3. x = 3 * j - 2 /\ B[x] = from(j)
    BY <1>1, <1>6, <2>1
  <2>4. y = 3 * k
    BY <1>1, <1>6, <2>2
  <2>5. B[y - 1] = to(k)
    BY <1>1, <2>4
  <2> QED
    BY <1>6, <2>3, <2>5
<1>11. ASSUME NEW op
       PROVE  Has(B, op) /\ op # Wait <=> \E k \in 1 .. n : op \in {from(k), to(k)}
  <2>1. ASSUME Has(B, op), op # Wait PROVE \E k \in 1 .. n : op \in {from(k), to(k)}
    <3>1. PICK x \in DOMAIN B : B[x] = op
      BY <2>1 DEF Has
    <3>2. PICK j \in 1 .. n : x \in {3 * j - 2, 3 * j - 1, 3 * j}
      BY <1>1
    <3> QED
      BY <1>1, <2>1, <3>1, <3>2
  <2>2. ASSUME NEW k \in 1 .. n, op \in {from(k), to(k)} PROVE Has(B, op) /\ op # Wait
    BY <1>1, <1>6, <1>7, <2>2 DEF Has
  <2> QED
    BY <2>1, <2>2
<1> QED
  BY <1>1, <1>8, <1>9, <1>10, <1>11 DEF Orderly, n, from, to

\* The peers of rank 0 in a scatter or a gather.
LEMMA ScatterOrderly ==
  ASSUME NEW count, NEW r \in Process, NEW B, B = Scatterv(count, r)
  PROVE  /\ Orderly(B)
         /\ \A op : Has(B, op) /\ op # Wait <=>
              IF r = 0 THEN \E p \in Process \ {0} :
                              count[p] # 0 /\ op = ISend(p, "scatterv", "world")
              ELSE op = IRecv(0, "scatterv", "world")
         /\ r # 0 => Len(B) = 2 /\ B[1] = IRecv(0, "scatterv", "world") /\ B[2] = Wait
<1> DEFINE T == {p \in Process \ {0} : count[p] # 0}
           others == Ascending(T)
           part == [k \in DOMAIN others |-> ISend(others[k], "scatterv", "world")]
<1>0. 0 \in Process
  BY InputAssumption DEF Process
<1>1. B \in Seq(Operation)
  BY VectorsPeers
<1>2. CASE r # 0
  <2>1. B = <<IRecv(0, "scatterv", "world"), Wait>>
    BY <1>2 DEF Scatterv
  <2>2. Len(B) = 2 /\ DOMAIN B = {1, 2} /\ B[1] = IRecv(0, "scatterv", "world") /\ B[2] = Wait
    BY <2>1
  <2> HIDE DEF T, others, part
  <2>3. Once(B)
    BY <2>2 DEF Once
  <2>4. Awaited(B)
    BY <2>2, KindsApart DEF Awaited, NeedsWait
  <2>5. TagsAgree(B)
    BY <2>2, KindsApart DEF TagsAgree, Since
  <2>6. \A op : Has(B, op) /\ op # Wait <=> op = IRecv(0, "scatterv", "world")
    BY <2>2, KindsApart DEF Has
  <2> QED
    BY <1>1, <1>2, <2>2, <2>3, <2>4, <2>5, <2>6 DEF Orderly
<1>3. CASE r = 0
  <2>1. B = part \o <<Wait>>
    BY <1>3 DEF Scatterv
  <2>2. T \in SUBSET Process
    OBVIOUS
  <2>3. /\ others \in Seq(T)
        /\ \A j, k \in DOMAIN others : j < k => others[j] < others[k]
        /\ \A x \in T : \E k \in DOMAIN others : others[k] = x
    <3> HIDE DEF T
    <3> QED
      BY <2>2, LoopsOver, AscendingIs
  <2> HIDE DEF others
  <2>4. DOMAIN others = 1 .. Len(others) /\ Len(others) \in Nat
    BY <2>3
  <2>5. \A k \in DOMAIN others : others[k] \in Process /\ others[k] # 0 /\ count[others[k]] # 0
    BY <2>3
  <2>6. \A k \in DOMAIN others : ISend(others[k], "scatterv", "world") \in Operation
    BY <2>5, OperationKinds
  <2>7. part \in Seq(Operation) /\ Len(part) = Len(others) /\ DOMAIN part = DOMAIN others
    BY <2>4, <2>6
  <2>8. \A k \in DOMAIN others : part[k] = ISend(others[k], "scatterv", "world")
    OBVIOUS
  <2>9. Wait \in Operation /\ <<Wait>> \in Seq(Operation) /\ DOMAIN <<Wait>> = {1}
        /\ <<Wait>>[1] = Wait /\ Len(<<Wait>>) = 1
    BY OperationKinds
  <2> HIDE DEF part, T
  <2> DEFINE n == Len(others)
  <2>10. /\ DOMAIN B = 1 .. n + 1 /\ B[n + 1] = Wait
         /\ \A k \in 1 .. n : B[k] = ISend(others[k], "scatterv", "world")
    <3>1. /\ Len(B) = n + 1
          /\ \A k \in DOMAIN part : B[k] = part[k]
          /\ \A k \in DOMAIN <<Wait>> : B[n + k] = <<Wait>>[k]
      BY <2>1, <2>7, <2>9, PartsOfJoin
    <3> QED
      BY <1>1, <2>4, <2>7, <2>8, <2>9, <3>1
  <2>11. \A j, k \in 1 .. n : others[j] = others[k] => j = k
    <3>1. \A k \in 1 .. n : others[k] \in Int
      BY <2>4, <2>5 DEF Process
    <3> QED
      BY <2>3, <2>4, <3>1
  <2>12. \A k \in 1 .. n : /\ B[k].kind = "isend" /\ B[k] # Wait /\ B[k].peer = others[k]
    BY <2>10, KindsApart
  <2>13. Once(B)
    <3> SUFFICES ASSUME NEW j \in 1 .. n + 1, NEW k \in 1 .. n + 1, B[j] = B[k], B[j] # Wait
                 PROVE  j = k
      BY <2>10 DEF Once
    <3>1. j \in 1 .. n /\ k \in 1 .. n
      BY <2>4, <2>10
    <3> QED
      BY <2>11, <2>12, <3>1
  <2>14. Awaited(B)
    <3> SUFFICES ASSUME NEW j \in 1 .. n + 1, NeedsWait(B[j])
                 PROVE  \E k \in 1 .. n + 1 : j < k /\ B[k] = Wait
      BY <2>10 DEF Awaited
    <3>1. j # n + 1
      BY <2>10, KindsApart DEF NeedsWait
    <3>2. n + 1 \in 1 .. n + 1 /\ j < n + 1
      BY <2>4, <3>1
    <3> QED
      BY <2>10, <3>2
  <2>15. TagsAgree(B)
    <3>1. \A k \in 1 .. n + 1 : B[k].kind # "irecv"
      <4>1. B[n + 1].kind = "wait"
        BY <2>10, KindsApart
      <4>2. \A k \in 1 .. n + 1 : k \in 1 .. n \/ k = n + 1
        BY <2>4
      <4> QED
        BY <2>12, <4>1, <4>2
    <3> QED
      BY <2>10, <3>1 DEF TagsAgree
  <2>16. ASSUME NEW op
         PROVE  Has(B, op) /\ op # Wait <=>
                  \E p \in Process \ {0} : count[p] # 0 /\ op = ISend(p, "scatterv", "world")
    <3>1. ASSUME Has(B, op), op # Wait
          PROVE  \E p \in Process \ {0} : count[p] # 0 /\ op = ISend(p, "scatterv", "world")
      <4>1. PICK k \in 1 .. n + 1 : B[k] = op
        BY <2>10, <3>1 DEF Has
      <4>2. k \in 1 .. n
        BY <2>4, <2>10, <3>1, <4>1
      <4> QED
        BY <2>4, <2>5, <2>10, <4>1, <4>2
    <3>2. ASSUME NEW p \in Process \ {0}, count[p] # 0, op = ISend(p, "scatterv", "world")
          PROVE  Has(B, op) /\ op # Wait
      <4>1. p \in T
        BY <3>2 DEF T
      <4>2. PICK k \in 1 .. n : others[k] = p
        BY <2>3, <2>4, <4>1
      <4>3. k \in 1 .. n + 1 /\ B[k] = op
        BY <2>4, <2>10, <3>2, <4>2
      <4> QED
        BY <2>10, <2>12, <4>2, <4>3 DEF Has
    <3> QED
      BY <3>1, <3>2
  <2> QED
    BY <1>1, <1>3, <2>13, <2>14, <2>15, <2>16 DEF Orderly
<1> QED
  BY <1>2, <1>3

LEMMA GatherOrderly ==
  ASSUME NEW count, NEW r \in Process, NEW B, B = Gatherv(count, r)
  PROVE  /\ Orderly(B)
         /\ \A op : Has(B, op) /\ op # Wait <=>
              IF r = 0 THEN \E p \in Process \ {0} :
                              count[p] # 0 /\ op = IRecv(p, "gatherv", "world")
              ELSE op = ISend(0, "gatherv", "world")
         /\ r # 0 => Len(B) = 2 /\ B[1] = ISend(0, "gatherv", "world") /\ B[2] = Wait
<1> DEFINE T == {p \in Process \ {0} : count[p] # 0}
           others == Ascending(T)
           part == [k \in DOMAIN others |-> IRecv(others[k], "gatherv", "world")]
<1>0. 0 \in Process
  BY InputAssumption DEF Process
<1>1. B \in Seq(Operation)
  BY VectorsPeers
<1>2. CASE r # 0
  <2>1. B = <<ISend(0, "gatherv", "world"), Wait>>
    BY <1>2 DEF Gatherv
  <2>2. Len(B) = 2 /\ DOMAIN B = {1, 2} /\ B[1] = ISend(0, "gatherv", "world") /\ B[2] = Wait
    BY <2>1
  <2> HIDE DEF T, others, part
  <2>3. Once(B)
    BY <2>2 DEF Once
  <2>4. Awaited(B)
    BY <2>2, KindsApart DEF Awaited, NeedsWait
  <2>5. TagsAgree(B)
    BY <2>2, KindsApart DEF TagsAgree, Since
  <2>6. \A op : Has(B, op) /\ op # Wait <=> op = ISend(0, "gatherv", "world")
    BY <2>2, KindsApart DEF Has
  <2> QED
    BY <1>1, <1>2, <2>2, <2>3, <2>4, <2>5, <2>6 DEF Orderly
<1>3. CASE r = 0
  <2>1. B = part \o <<Wait>>
    BY <1>3 DEF Gatherv
  <2>2. T \in SUBSET Process
    OBVIOUS
  <2>3. /\ others \in Seq(T)
        /\ \A j, k \in DOMAIN others : j < k => others[j] < others[k]
        /\ \A x \in T : \E k \in DOMAIN others : others[k] = x
    <3> HIDE DEF T
    <3> QED
      BY <2>2, LoopsOver, AscendingIs
  <2> HIDE DEF others
  <2>4. DOMAIN others = 1 .. Len(others) /\ Len(others) \in Nat
    BY <2>3
  <2>5. \A k \in DOMAIN others : others[k] \in Process /\ others[k] # 0 /\ count[others[k]] # 0
    BY <2>3
  <2>6. \A k \in DOMAIN others : IRecv(others[k], "gatherv", "world") \in Operation
    BY <2>5, OperationKinds
  <2>7. part \in Seq(Operation) /\ Len(part) = Len(others) /\ DOMAIN part = DOMAIN others
    BY <2>4, <2>6
  <2>8. \A k \in DOMAIN others : part[k] = IRecv(others[k], "gatherv", "world")
    OBVIOUS
  <2>9. Wait \in Operation /\ <<Wait>> \in Seq(Operation) /\ DOMAIN <<Wait>> = {1}
        /\ <<Wait>>[1] = Wait /\ Len(<<Wait>>) = 1
    BY OperationKinds
  <2> HIDE DEF part, T
  <2> DEFINE n == Len(others)
  <2>10. /\ DOMAIN B = 1 .. n + 1 /\ B[n + 1] = Wait
         /\ \A k \in 1 .. n : B[k] = IRecv(others[k], "gatherv", "world")
    <3>1. /\ Len(B) = n + 1
          /\ \A k \in DOMAIN part : B[k] = part[k]
          /\ \A k \in DOMAIN <<Wait>> : B[n + k] = <<Wait>>[k]
      BY <2>1, <2>7, <2>9, PartsOfJoin
    <3> QED
      BY <1>1, <2>4, <2>7, <2>8, <2>9, <3>1
  <2>11. \A j, k \in 1 .. n : others[j] = others[k] => j = k
    <3>1. \A k \in 1 .. n : others[k] \in Int
      BY <2>4, <2>5 DEF Process
    <3> QED
      BY <2>3, <2>4, <3>1
  <2>12. \A k \in 1 .. n : /\ B[k].kind = "irecv" /\ B[k].tag = "gatherv" /\ B[k] # Wait /\ B[k].peer = others[k]
    BY <2>10, KindsApart
  <2>13. Once(B)
    <3> SUFFICES ASSUME NEW j \in 1 .. n + 1, NEW k \in 1 .. n + 1, B[j] = B[k], B[j] # Wait
                 PROVE  j = k
      BY <2>10 DEF Once
    <3>1. j \in 1 .. n /\ k \in 1 .. n
      BY <2>4, <2>10
    <3> QED
      BY <2>11, <2>12, <3>1
  <2>14. Awaited(B)
    <3> SUFFICES ASSUME NEW j \in 1 .. n + 1, NeedsWait(B[j])
                 PROVE  \E k \in 1 .. n + 1 : j < k /\ B[k] = Wait
      BY <2>10 DEF Awaited
    <3>1. j # n + 1
      BY <2>10, KindsApart DEF NeedsWait
    <3>2. n + 1 \in 1 .. n + 1 /\ j < n + 1
      BY <2>4, <3>1
    <3> QED
      BY <2>10, <3>2
  <2>15. TagsAgree(B)
    <3> SUFFICES ASSUME NEW j \in 1 .. n + 1, NEW k \in 1 .. n + 1, B[j].kind = "irecv",
                        B[k] = Wait, Since(B, j, k)
                 PROVE  B[k - 1] # Wait /\ B[k - 1].tag = B[j].tag
      BY <2>10 DEF TagsAgree
    <3>1. j < k /\ k \notin 1 .. n
      BY <2>12 DEF Since
    <3>2. k - 1 \in 1 .. n /\ j \in 1 .. n
      BY <2>4, <3>1
    <3> QED
      BY <2>12, <3>2
  <2>16. ASSUME NEW op
         PROVE  Has(B, op) /\ op # Wait <=>
                  \E p \in Process \ {0} : count[p] # 0 /\ op = IRecv(p, "gatherv", "world")
    <3>1. ASSUME Has(B, op), op # Wait
          PROVE  \E p \in Process \ {0} : count[p] # 0 /\ op = IRecv(p, "gatherv", "world")
      <4>1. PICK k \in 1 .. n + 1 : B[k] = op
        BY <2>10, <3>1 DEF Has
      <4>2. k \in 1 .. n
        BY <2>4, <2>10, <3>1, <4>1
      <4> QED
        BY <2>4, <2>5, <2>10, <4>1, <4>2
    <3>2. ASSUME NEW p \in Process \ {0}, count[p] # 0, op = IRecv(p, "gatherv", "world")
          PROVE  Has(B, op) /\ op # Wait
      <4>1. p \in T
        BY <3>2 DEF T
      <4>2. PICK k \in 1 .. n : others[k] = p
        BY <2>3, <2>4, <4>1
      <4>3. k \in 1 .. n + 1 /\ B[k] = op
        BY <2>4, <2>10, <3>2, <4>2
      <4> QED
        BY <2>10, <2>12, <4>2, <4>3 DEF Has
    <3> QED
      BY <3>1, <3>2
  <2> QED
    BY <1>1, <1>3, <2>13, <2>14, <2>15, <2>16 DEF Orderly
<1> QED
  BY <1>2, <1>3

(* The communicators a rank uses on MPI_COMM_WORLD, and their members. *)
Uses(node, r, c) ==
  \/ c = "world" /\ ~NodeAware(node)
  \/ c = "node" /\ NodeAware(node)
  \/ c = "roots" /\ NodeAware(node) /\ r \in NodeRoots(node)

Members(node, r, c) ==
  IF c = "world" THEN Process
  ELSE IF c = "node" THEN NodeMembers(node, r) ELSE NodeRoots(node)

LEMMA MembersAre ==
  ASSUME NEW node, NEW r \in Process, NEW c \in {"world", "node", "roots"},
         Uses(node, r, c)
  PROVE  /\ Members(node, r, c) \in SUBSET Process /\ r \in Members(node, r, c)
         /\ \A q \in Members(node, r, c) :
              Uses(node, q, c) /\ Members(node, q, c) = Members(node, r, c)
         /\ \A q \in Process : Uses(node, q, c) /\ r \in Members(node, q, c)
              => q \in Members(node, r, c)
<1>1. /\ NodeMembers(node, r) \in SUBSET Process /\ r \in NodeMembers(node, r)
      /\ NodeRoots(node) \in SUBSET Process
      /\ \A q \in NodeMembers(node, r) : NodeMembers(node, q) = NodeMembers(node, r)
      /\ \A q \in Process : r \in NodeMembers(node, q) => q \in NodeMembers(node, r)
  BY DEF NodeMembers, NodeRoots
<1>2. CASE c = "world"
  BY <1>2 DEF Uses, Members
<1>3. CASE c = "node"
  BY <1>1, <1>3 DEF Uses, Members
<1>4. CASE c = "roots"
  BY <1>1, <1>4 DEF Uses, Members
<1> QED
  BY <1>2, <1>3, <1>4

LEMMA TreeOpIs ==
  ASSUME NEW S \in SUBSET Process, NEW r \in S, NEW c \in {"world", "node", "roots"},
         NEW op, TreeOp(S, c, r, op)
  PROVE  /\ op.tag = "bcast" /\ op.context = c /\ op.kind \in {"irecv", "isend"}
         /\ op.peer \in S /\ op # Wait
         /\ op.kind = "irecv" => op.peer < r
         /\ op.kind = "irecv" => op = IRecv(op.peer, "bcast", c)
         /\ op.kind = "isend" => op = ISend(op.peer, "bcast", c)
<1>1. CASE RankIn(S, r) > 0 /\ op = IRecv(Parent(S, r), "bcast", c)
  <2>1. Parent(S, r) \in S /\ Parent(S, r) < r
    BY <1>1, LowBitIs
  <2> QED
    BY <1>1, <2>1, KindsApart
<1>2. CASE \E q \in S : /\ RankIn(S, q) > 0 /\ Parent(S, q) = r
                        /\ op = ISend(q, "bcast", c)
  BY <1>2, KindsApart
<1> QED
  BY <1>1, <1>2 DEF TreeOp

LEMMA TreeMirror ==
  ASSUME NEW S \in SUBSET Process, NEW r \in S, NEW q \in S,
         NEW c \in {"world", "node", "roots"}
  PROVE  TreeOp(S, c, r, IRecv(q, "bcast", c)) <=> TreeOp(S, c, q, ISend(r, "bcast", c))
<1>1. TreeOp(S, c, r, IRecv(q, "bcast", c)) <=> RankIn(S, r) > 0 /\ q = Parent(S, r)
  BY KindsApart DEF TreeOp
<1>2. TreeOp(S, c, q, ISend(r, "bcast", c)) <=> RankIn(S, r) > 0 /\ Parent(S, r) = q
  BY KindsApart DEF TreeOp
<1> QED
  BY <1>1, <1>2

LEMMA DissOpIs ==
  ASSUME NEW S \in SUBSET Process, NEW r \in S, NEW c \in {"world", "node", "roots"},
         NEW op, DissOp(S, c, r, op)
  PROVE  /\ op.tag = "barrier" /\ op.context = c /\ op.kind \in {"irecv", "isend"}
         /\ op.peer \in S /\ op # Wait
         /\ op.kind = "irecv" => op = IRecv(op.peer, "barrier", c)
         /\ op.kind = "isend" => op = ISend(op.peer, "barrier", c)
<1>1. PICK k \in 1 .. Rounds(S) :
        op \in {IRecv(Behind(S, r, MaskAt(S, k)), "barrier", c),
                ISend(Ahead(S, r, MaskAt(S, k)), "barrier", c)}
  BY DEF DissOp
<1>2. MaskAt(S, k) \in 1 .. Cardinality(S) - 1
  BY MasksInOrder
<1>3. Behind(S, r, MaskAt(S, k)) \in S /\ Ahead(S, r, MaskAt(S, k)) \in S
  BY <1>2, PartnersAre
<1> QED
  BY <1>1, <1>3, KindsApart

LEMMA DissMirror ==
  ASSUME NEW S \in SUBSET Process, NEW r \in S, NEW q \in S,
         NEW c \in {"world", "node", "roots"}
  PROVE  DissOp(S, c, r, IRecv(q, "barrier", c)) <=> DissOp(S, c, q, ISend(r, "barrier", c))
<1>1. \A k \in 1 .. Rounds(S) : q = Behind(S, r, MaskAt(S, k)) <=> r = Ahead(S, q, MaskAt(S, k))
  <2> SUFFICES ASSUME NEW k \in 1 .. Rounds(S)
               PROVE  q = Behind(S, r, MaskAt(S, k)) <=> r = Ahead(S, q, MaskAt(S, k))
    OBVIOUS
  <2>1. MaskAt(S, k) \in 1 .. Cardinality(S) - 1
    BY MasksInOrder
  <2>2. /\ Behind(S, Ahead(S, q, MaskAt(S, k)), MaskAt(S, k)) = q
        /\ Ahead(S, Behind(S, r, MaskAt(S, k)), MaskAt(S, k)) = r
    BY <2>1, PartnersAre
  <2> QED
    BY <2>2
<1>2. DissOp(S, c, r, IRecv(q, "barrier", c)) <=>
        \E k \in 1 .. Rounds(S) : q = Behind(S, r, MaskAt(S, k))
  BY KindsApart DEF DissOp
<1>3. DissOp(S, c, q, ISend(r, "barrier", c)) <=>
        \E k \in 1 .. Rounds(S) : r = Ahead(S, q, MaskAt(S, k))
  BY KindsApart DEF DissOp
<1> QED
  BY <1>1, <1>2, <1>3

-----------------------------------------------------------------------------
LEMMA DissPartIs ==
  ASSUME NEW S \in SUBSET Process, NEW r \in S, NEW c \in {"world", "node", "roots"}
  PROVE  DissPart(S, c, r, Dissemination(S, c, r))
BY DisseminationIs DEF DissPart

LEMMA TreeSequence ==
  ASSUME NEW S \in SUBSET Process, NEW r \in S, NEW c \in {"world", "node", "roots"}
  PROVE  /\ Orderly(BinomialBcast(S, c, r))
         /\ \A op : Has(BinomialBcast(S, c, r), op) /\ op # Wait <=> TreeOp(S, c, r, op)
<1>1. TreePart(S, c, r, BinomialBcast(S, c, r))
  BY BinomialIs
<1> QED
  BY <1>1, BinomialOrderly

LEMMA DissSequence ==
  ASSUME NEW S \in SUBSET Process, NEW r \in S, NEW c \in {"world", "node", "roots"}
  PROVE  /\ Orderly(Dissemination(S, c, r))
         /\ \A op : Has(Dissemination(S, c, r), op) /\ op # Wait <=> DissOp(S, c, r, op)
<1>1. DissPart(S, c, r, Dissemination(S, c, r))
  BY DissPartIs
<1> QED
  BY <1>1, DisseminationOrderly DEF DissOp

LEMMA OpsDiffer ==
  ASSUME NEW s, NEW t,
         \A op, e : Has(s, op) /\ op # Wait /\ Has(t, e) /\ e # Wait =>
           op.tag # e.tag \/ op.context # e.context
  PROVE  \A j \in DOMAIN s, k \in DOMAIN t : s[j] # Wait => s[j] # t[k]
BY DEF Has

LEMMA BcastOps ==
  ASSUME NEW node, NEW r \in Process
  PROVE  /\ Orderly(Bcast(node, r))
         /\ \A op : Has(Bcast(node, r), op) /\ op # Wait <=>
              \E c \in {"world", "node", "roots"} :
                Uses(node, r, c) /\ TreeOp(Members(node, r, c), c, r, op)
<1>1. CASE ~NodeAware(node)
  <2>1. Bcast(node, r) = BinomialBcast(Process, "world", r)
    BY <1>1 DEF Bcast
  <2>2. \A c \in {"world", "node", "roots"} :
          Uses(node, r, c) <=> c = "world"
    BY <1>1 DEF Uses
  <2>3. Members(node, r, "world") = Process
    BY DEF Members
  <2>4. /\ Orderly(BinomialBcast(Process, "world", r))
        /\ \A op : Has(BinomialBcast(Process, "world", r), op) /\ op # Wait <=>
             TreeOp(Process, "world", r, op)
    BY TreeSequence
  <2> QED
    BY <2>1, <2>2, <2>3, <2>4
<1>2. CASE NodeAware(node)
  <2> DEFINE s == RootsOnly(node, r, BinomialBcast(NodeRoots(node), "roots", r))
             t == BinomialBcast(NodeMembers(node, r), "node", r)
  <2>1. Bcast(node, r) = s \o t
    BY <1>2 DEF Bcast
  <2>2. /\ NodeMembers(node, r) \in SUBSET Process /\ r \in NodeMembers(node, r)
        /\ NodeRoots(node) \in SUBSET Process
    BY DEF NodeMembers, NodeRoots
  <2>3. Orderly(t) /\ \A op : Has(t, op) /\ op # Wait <=> TreeOp(NodeMembers(node, r), "node", r, op)
    BY <2>2, TreeSequence
  <2>4. /\ Orderly(s)
        /\ \A op : Has(s, op) /\ op # Wait <=>
             r \in NodeRoots(node) /\ TreeOp(NodeRoots(node), "roots", r, op)
    <3>1. CASE r \in NodeRoots(node)
      <4>1. s = BinomialBcast(NodeRoots(node), "roots", r)
        BY <3>1 DEF RootsOnly
      <4> QED
        BY <2>2, <3>1, <4>1, TreeSequence
    <3>2. CASE r \notin NodeRoots(node)
      <4>1. s = <<>>
        BY <3>2 DEF RootsOnly
      <4> QED
        BY <3>2, <4>1, EmptyOrderly
    <3> QED
      BY <3>1, <3>2
  <2> HIDE DEF s, t
  <2>5. \A j \in DOMAIN s, k \in DOMAIN t : s[j] # Wait => s[j] # t[k]
    <3>1. ASSUME NEW op, NEW e, Has(s, op), op # Wait, Has(t, e), e # Wait
          PROVE  op.context # e.context
      <4>1. op.context = "roots"
        BY <2>2, <2>4, <3>1, TreeOpIs
      <4>2. e.context = "node"
        BY <2>2, <2>3, <3>1, TreeOpIs
      <4> QED
        BY <4>1, <4>2
    <3> QED
      BY <3>1, OpsDiffer
  <2>6. Orderly(s \o t) /\ \A op : Has(s \o t, op) <=> Has(s, op) \/ Has(t, op)
    BY <2>3, <2>4, <2>5, JoinOrderly
  <2>7. /\ Uses(node, r, "node") /\ ~Uses(node, r, "world")
        /\ Uses(node, r, "roots") <=> r \in NodeRoots(node)
        /\ Members(node, r, "node") = NodeMembers(node, r)
        /\ Members(node, r, "roots") = NodeRoots(node)
    BY <1>2 DEF Uses, Members
  <2> QED
    BY <2>1, <2>3, <2>4, <2>6, <2>7
<1> QED
  BY <1>1, <1>2

LEMMA BarrierOps ==
  ASSUME NEW node, NEW r \in Process
  PROVE  /\ Orderly(Barrier(node, r))
         /\ \A op : Has(Barrier(node, r), op) /\ op # Wait <=>
              \/ \E c \in {"world", "node", "roots"} :
                   Uses(node, r, c) /\ DissOp(Members(node, r, c), c, r, op)
              \/ Uses(node, r, "node") /\ TreeOp(Members(node, r, "node"), "node", r, op)
<1>1. CASE ~NodeAware(node)
  <2>1. Barrier(node, r) = Dissemination(Process, "world", r)
    BY <1>1 DEF Barrier
  <2>2. \A c \in {"world", "node", "roots"} :
          Uses(node, r, c) <=> c = "world"
    BY <1>1 DEF Uses
  <2>3. Members(node, r, "world") = Process
    BY DEF Members
  <2>4. /\ Orderly(Dissemination(Process, "world", r))
        /\ \A op : Has(Dissemination(Process, "world", r), op) /\ op # Wait <=>
             DissOp(Process, "world", r, op)
    BY DissSequence
  <2> QED
    BY <2>1, <2>2, <2>3, <2>4
<1>2. CASE NodeAware(node)
  <2> DEFINE s == Dissemination(NodeMembers(node, r), "node", r)
             t == RootsOnly(node, r, Dissemination(NodeRoots(node), "roots", r))
             u == BinomialBcast(NodeMembers(node, r), "node", r)
  <2>1. Barrier(node, r) = (s \o t) \o u
    BY <1>2 DEF Barrier
  <2>2. /\ NodeMembers(node, r) \in SUBSET Process /\ r \in NodeMembers(node, r)
        /\ NodeRoots(node) \in SUBSET Process
    BY DEF NodeMembers, NodeRoots
  <2>3. Orderly(u) /\ \A op : Has(u, op) /\ op # Wait <=> TreeOp(NodeMembers(node, r), "node", r, op)
    BY <2>2, TreeSequence
  <2>4. Orderly(s) /\ \A op : Has(s, op) /\ op # Wait <=> DissOp(NodeMembers(node, r), "node", r, op)
    BY <2>2, DissSequence
  <2>5. /\ Orderly(t)
        /\ \A op : Has(t, op) /\ op # Wait <=>
             r \in NodeRoots(node) /\ DissOp(NodeRoots(node), "roots", r, op)
    <3>1. CASE r \in NodeRoots(node)
      <4>1. t = Dissemination(NodeRoots(node), "roots", r)
        BY <3>1 DEF RootsOnly
      <4> QED
        BY <2>2, <3>1, <4>1, DissSequence
    <3>2. CASE r \notin NodeRoots(node)
      <4>1. t = <<>>
        BY <3>2 DEF RootsOnly
      <4> QED
        BY <3>2, <4>1, EmptyOrderly
    <3> QED
      BY <3>1, <3>2
  <2> HIDE DEF s, t, u
  <2>6. /\ \A op : Has(s, op) /\ op # Wait => op.tag = "barrier" /\ op.context = "node"
        /\ \A op : Has(t, op) /\ op # Wait => op.tag = "barrier" /\ op.context = "roots"
        /\ \A op : Has(u, op) /\ op # Wait => op.tag = "bcast"
    BY <2>2, <2>3, <2>4, <2>5, DissOpIs, TreeOpIs
  <2>7. \A j \in DOMAIN s, k \in DOMAIN t : s[j] # Wait => s[j] # t[k]
    BY <2>6, OpsDiffer
  <2>8. Orderly(s \o t) /\ \A op : Has(s \o t, op) <=> Has(s, op) \/ Has(t, op)
    BY <2>4, <2>5, <2>7, JoinOrderly
  <2> DEFINE v == s \o t
  <2> HIDE DEF v
  <2>9. Orderly(v) /\ \A op : Has(v, op) <=> Has(s, op) \/ Has(t, op)
    BY <2>8 DEF v
  <2>10. \A op : Has(v, op) /\ op # Wait => op.tag = "barrier"
    BY <2>6, <2>9
  <2>11. \A j \in DOMAIN v, k \in DOMAIN u : v[j] # Wait => v[j] # u[k]
    BY <2>6, <2>10, OpsDiffer
  <2>12. Orderly(v \o u) /\ \A op : Has(v \o u, op) <=> Has(v, op) \/ Has(u, op)
    BY <2>3, <2>9, <2>11, JoinOrderly
  <2>13. /\ Uses(node, r, "node") /\ ~Uses(node, r, "world")
         /\ Uses(node, r, "roots") <=> r \in NodeRoots(node)
         /\ Members(node, r, "node") = NodeMembers(node, r)
         /\ Members(node, r, "roots") = NodeRoots(node)
    BY <1>2 DEF Uses, Members
  <2>14. Barrier(node, r) = v \o u
    BY <2>1 DEF v
  <2> QED
    BY <2>3, <2>4, <2>5, <2>9, <2>12, <2>13, <2>14
<1> QED
  BY <1>1, <1>2

-----------------------------------------------------------------------------
(* The stages in the order main goes through them, and the ranks that do. *)
StageNo(st) ==
  IF st = "files" THEN 0 ELSE IF st = "rows" THEN 1 ELSE IF st = "cols" THEN 2
  ELSE IF st = "chunk" THEN 3 ELSE IF st = "vector" THEN 4
  ELSE IF st = "products" THEN 5 ELSE IF st = "barrier" THEN 6 ELSE 7

Joins(i, r, st) ==
  st \in {"chunk", "vector", "products"} => r < i.rows /\ i.cols > 0

(* What rank r does in a stage when it knows the sizes. *)
Plan(i, r, st) ==
  IF st \in {"rows", "cols", "vector"} THEN BcastOf[i][r]
  ELSE IF st = "chunk"
       THEN Scatterv([p \in Process |-> ChunkSize(i.rows, i.cols, p)], r)
  ELSE IF st = "products"
       THEN Gatherv([p \in Process |-> RowsOf(i.rows, p)], r)
  ELSE IF st = "barrier" THEN BarrierOf[i][r]
  ELSE <<>>

Planned(i, r, st, op) == Joins(i, r, st) /\ Has(Plan(i, r, st), op) /\ op # Wait

BcastOp(i, r, op) ==
  \E c \in {"world", "node", "roots"} :
    Uses(i.node, r, c) /\ TreeOp(Members(i.node, r, c), c, r, op)

BarrierOp(i, r, op) ==
  \E c \in {"world", "node", "roots"} :
    Uses(i.node, r, c) /\ DissOp(Members(i.node, r, c), c, r, op)

ReleaseOp(i, r, op) ==
  Uses(i.node, r, "node") /\ TreeOp(Members(i.node, r, "node"), "node", r, op)

LEMMA OpFields ==
  ASSUME NEW p, NEW t, NEW c
  PROVE  /\ IRecv(p, t, c).kind = "irecv" /\ IRecv(p, t, c).peer = p
         /\ IRecv(p, t, c).tag = t /\ IRecv(p, t, c).context = c
         /\ ISend(p, t, c).kind = "isend" /\ ISend(p, t, c).peer = p
         /\ ISend(p, t, c).tag = t /\ ISend(p, t, c).context = c
BY DEF IRecv, ISend

LEMMA StageNumbers ==
  /\ \A a \in Stage : StageNo(a) \in 0 .. 7
  /\ \A a, b \in Stage : StageNo(a) = StageNo(b) => a = b
BY DEF Stage, StageNo

LEMMA BcastOpIs ==
  ASSUME NEW i, NEW r \in Process, NEW op, BcastOp(i, r, op)
  PROVE  /\ op.tag = "bcast" /\ op.context \in {"world", "node", "roots"}
         /\ op.kind \in {"irecv", "isend"} /\ op.peer \in Process /\ op # Wait
         /\ op.kind = "irecv" => op.peer < r
         /\ op.kind = "irecv" => op = IRecv(op.peer, "bcast", op.context)
         /\ op.kind = "isend" => op = ISend(op.peer, "bcast", op.context)
<1>1. PICK c \in {"world", "node", "roots"} :
        Uses(i.node, r, c) /\ TreeOp(Members(i.node, r, c), c, r, op)
  BY DEF BcastOp
<1>2. Members(i.node, r, c) \in SUBSET Process /\ r \in Members(i.node, r, c)
  BY <1>1, MembersAre
<1> QED
  BY <1>1, <1>2, TreeOpIs

LEMMA BarrierOpIs ==
  ASSUME NEW i, NEW r \in Process, NEW op, BarrierOp(i, r, op)
  PROVE  /\ op.tag = "barrier" /\ op.context \in {"world", "node", "roots"}
         /\ op.kind \in {"irecv", "isend"} /\ op.peer \in Process /\ op # Wait
         /\ op.kind = "irecv" => op = IRecv(op.peer, "barrier", op.context)
         /\ op.kind = "isend" => op = ISend(op.peer, "barrier", op.context)
<1>1. PICK c \in {"world", "node", "roots"} :
        Uses(i.node, r, c) /\ DissOp(Members(i.node, r, c), c, r, op)
  BY DEF BarrierOp
<1>2. Members(i.node, r, c) \in SUBSET Process /\ r \in Members(i.node, r, c)
  BY <1>1, MembersAre
<1> QED
  BY <1>1, <1>2, DissOpIs

LEMMA ReleaseOpIs ==
  ASSUME NEW i, NEW r \in Process, NEW op, ReleaseOp(i, r, op)
  PROVE  BcastOp(i, r, op) /\ op.context = "node" /\ i.node[op.peer] = i.node[r]
<1>1. /\ Members(i.node, r, "node") \in SUBSET Process /\ r \in Members(i.node, r, "node")
      /\ Members(i.node, r, "node") = NodeMembers(i.node, r)
  BY MembersAre DEF ReleaseOp, Members
<1>2. op.context = "node" /\ op.peer \in NodeMembers(i.node, r)
  BY <1>1, TreeOpIs DEF ReleaseOp
<1> QED
  BY <1>2 DEF ReleaseOp, BcastOp, NodeMembers

LEMMA TreeNames ==
  ASSUME NEW S \in SUBSET Process, NEW r \in S, NEW e \in {"world", "node", "roots"},
         NEW q, NEW t, NEW c
  PROVE  /\ TreeOp(S, e, r, IRecv(q, t, c)) => t = "bcast" /\ c = e /\ q \in S
         /\ TreeOp(S, e, r, ISend(q, t, c)) => t = "bcast" /\ c = e /\ q \in S
<1>1. ASSUME NEW op, TreeOp(S, e, r, op)
      PROVE  op.tag = "bcast" /\ op.context = e /\ op.peer \in S
  BY <1>1, TreeOpIs
<1>2. TreeOp(S, e, r, IRecv(q, t, c)) =>
        /\ IRecv(q, t, c).tag = "bcast" /\ IRecv(q, t, c).context = e
        /\ IRecv(q, t, c).peer \in S
  BY <1>1
<1>3. TreeOp(S, e, r, ISend(q, t, c)) =>
        /\ ISend(q, t, c).tag = "bcast" /\ ISend(q, t, c).context = e
        /\ ISend(q, t, c).peer \in S
  BY <1>1
<1> QED
  BY <1>2, <1>3, OpFields

LEMMA DissNames ==
  ASSUME NEW S \in SUBSET Process, NEW r \in S, NEW e \in {"world", "node", "roots"},
         NEW q, NEW t, NEW c
  PROVE  /\ DissOp(S, e, r, IRecv(q, t, c)) => t = "barrier" /\ c = e /\ q \in S
         /\ DissOp(S, e, r, ISend(q, t, c)) => t = "barrier" /\ c = e /\ q \in S
<1>1. ASSUME NEW op, DissOp(S, e, r, op)
      PROVE  op.tag = "barrier" /\ op.context = e /\ op.peer \in S
  BY <1>1, DissOpIs
<1>2. DissOp(S, e, r, IRecv(q, t, c)) =>
        /\ IRecv(q, t, c).tag = "barrier" /\ IRecv(q, t, c).context = e
        /\ IRecv(q, t, c).peer \in S
  BY <1>1
<1>3. DissOp(S, e, r, ISend(q, t, c)) =>
        /\ ISend(q, t, c).tag = "barrier" /\ ISend(q, t, c).context = e
        /\ ISend(q, t, c).peer \in S
  BY <1>1
<1> QED
  BY <1>2, <1>3, OpFields

LEMMA BcastMirror ==
  ASSUME NEW i, NEW r \in Process, NEW q \in Process, NEW t, NEW c
  PROVE  BcastOp(i, r, IRecv(q, t, c)) <=> BcastOp(i, q, ISend(r, t, c))
<1>1. ASSUME BcastOp(i, r, IRecv(q, t, c)) PROVE BcastOp(i, q, ISend(r, t, c))
  <2>1. PICK e \in {"world", "node", "roots"} :
          Uses(i.node, r, e) /\ TreeOp(Members(i.node, r, e), e, r, IRecv(q, t, c))
    BY <1>1 DEF BcastOp
  <2>2. /\ Members(i.node, r, e) \in SUBSET Process /\ r \in Members(i.node, r, e)
        /\ \A p \in Members(i.node, r, e) :
             Uses(i.node, p, e) /\ Members(i.node, p, e) = Members(i.node, r, e)
    BY <2>1, MembersAre
  <2>3. t = "bcast" /\ c = e /\ q \in Members(i.node, r, e)
    <3> DEFINE S == Members(i.node, r, e)
    <3>1. S \in SUBSET Process /\ r \in S /\ TreeOp(S, e, r, IRecv(q, t, c))
      BY <2>1, <2>2
    <3> HIDE DEF S
    <3>2. t = "bcast" /\ c = e /\ q \in S
      BY <3>1, TreeNames
    <3> QED
      BY <3>2 DEF S
  <2>4. TreeOp(Members(i.node, r, e), e, q, ISend(r, t, c))
    BY <2>1, <2>2, <2>3, TreeMirror
  <2> QED
    BY <2>2, <2>3, <2>4 DEF BcastOp
<1>2. ASSUME BcastOp(i, q, ISend(r, t, c)) PROVE BcastOp(i, r, IRecv(q, t, c))
  <2>1. PICK e \in {"world", "node", "roots"} :
          Uses(i.node, q, e) /\ TreeOp(Members(i.node, q, e), e, q, ISend(r, t, c))
    BY <1>2 DEF BcastOp
  <2>2. /\ Members(i.node, q, e) \in SUBSET Process /\ q \in Members(i.node, q, e)
        /\ \A p \in Members(i.node, q, e) :
             Uses(i.node, p, e) /\ Members(i.node, p, e) = Members(i.node, q, e)
    BY <2>1, MembersAre
  <2>3. t = "bcast" /\ c = e /\ r \in Members(i.node, q, e)
    <3> DEFINE S == Members(i.node, q, e)
    <3>1. S \in SUBSET Process /\ q \in S /\ TreeOp(S, e, q, ISend(r, t, c))
      BY <2>1, <2>2
    <3> HIDE DEF S
    <3>2. t = "bcast" /\ c = e /\ r \in S
      BY <3>1, TreeNames
    <3> QED
      BY <3>2 DEF S
  <2>4. TreeOp(Members(i.node, q, e), e, r, IRecv(q, t, c))
    BY <2>1, <2>2, <2>3, TreeMirror
  <2> QED
    BY <2>2, <2>3, <2>4 DEF BcastOp
<1> QED
  BY <1>1, <1>2

LEMMA BarrierMirror ==
  ASSUME NEW i, NEW r \in Process, NEW q \in Process, NEW t, NEW c
  PROVE  BarrierOp(i, r, IRecv(q, t, c)) <=> BarrierOp(i, q, ISend(r, t, c))
<1>1. ASSUME BarrierOp(i, r, IRecv(q, t, c)) PROVE BarrierOp(i, q, ISend(r, t, c))
  <2>1. PICK e \in {"world", "node", "roots"} :
          Uses(i.node, r, e) /\ DissOp(Members(i.node, r, e), e, r, IRecv(q, t, c))
    BY <1>1 DEF BarrierOp
  <2>2. /\ Members(i.node, r, e) \in SUBSET Process /\ r \in Members(i.node, r, e)
        /\ \A p \in Members(i.node, r, e) :
             Uses(i.node, p, e) /\ Members(i.node, p, e) = Members(i.node, r, e)
    BY <2>1, MembersAre
  <2>3. t = "barrier" /\ c = e /\ q \in Members(i.node, r, e)
    <3> DEFINE S == Members(i.node, r, e)
    <3>1. S \in SUBSET Process /\ r \in S /\ DissOp(S, e, r, IRecv(q, t, c))
      BY <2>1, <2>2
    <3> HIDE DEF S
    <3>2. t = "barrier" /\ c = e /\ q \in S
      BY <3>1, DissNames
    <3> QED
      BY <3>2 DEF S
  <2>4. DissOp(Members(i.node, r, e), e, q, ISend(r, t, c))
    BY <2>1, <2>2, <2>3, DissMirror
  <2> QED
    BY <2>2, <2>3, <2>4 DEF BarrierOp
<1>2. ASSUME BarrierOp(i, q, ISend(r, t, c)) PROVE BarrierOp(i, r, IRecv(q, t, c))
  <2>1. PICK e \in {"world", "node", "roots"} :
          Uses(i.node, q, e) /\ DissOp(Members(i.node, q, e), e, q, ISend(r, t, c))
    BY <1>2 DEF BarrierOp
  <2>2. /\ Members(i.node, q, e) \in SUBSET Process /\ q \in Members(i.node, q, e)
        /\ \A p \in Members(i.node, q, e) :
             Uses(i.node, p, e) /\ Members(i.node, p, e) = Members(i.node, q, e)
    BY <2>1, MembersAre
  <2>3. t = "barrier" /\ c = e /\ r \in Members(i.node, q, e)
    <3> DEFINE S == Members(i.node, q, e)
    <3>1. S \in SUBSET Process /\ q \in S /\ DissOp(S, e, q, ISend(r, t, c))
      BY <2>1, <2>2
    <3> HIDE DEF S
    <3>2. t = "barrier" /\ c = e /\ r \in S
      BY <3>1, DissNames
    <3> QED
      BY <3>2 DEF S
  <2>4. DissOp(Members(i.node, q, e), e, r, IRecv(q, t, c))
    BY <2>1, <2>2, <2>3, DissMirror
  <2> QED
    BY <2>2, <2>3, <2>4 DEF BarrierOp
<1> QED
  BY <1>1, <1>2

LEMMA ReleaseMirror ==
  ASSUME NEW i, NEW r \in Process, NEW q \in Process, NEW t, NEW c
  PROVE  ReleaseOp(i, r, IRecv(q, t, c)) <=> ReleaseOp(i, q, ISend(r, t, c))
<1>1. ASSUME ReleaseOp(i, r, IRecv(q, t, c)) PROVE ReleaseOp(i, q, ISend(r, t, c))
  <2>2. /\ Members(i.node, r, "node") \in SUBSET Process /\ r \in Members(i.node, r, "node")
        /\ \A p \in Members(i.node, r, "node") :
             Uses(i.node, p, "node") /\ Members(i.node, p, "node") = Members(i.node, r, "node")
    BY <1>1, MembersAre DEF ReleaseOp
  <2>3. t = "bcast" /\ c = "node" /\ q \in Members(i.node, r, "node")
    BY <1>1, <2>2, TreeNames DEF ReleaseOp
  <2>4. TreeOp(Members(i.node, r, "node"), "node", q, ISend(r, t, c))
    BY <1>1, <2>2, <2>3, TreeMirror DEF ReleaseOp
  <2> QED
    BY <2>2, <2>3, <2>4 DEF ReleaseOp
<1>2. ASSUME ReleaseOp(i, q, ISend(r, t, c)) PROVE ReleaseOp(i, r, IRecv(q, t, c))
  <2>2. /\ Members(i.node, q, "node") \in SUBSET Process /\ q \in Members(i.node, q, "node")
        /\ \A p \in Members(i.node, q, "node") :
             Uses(i.node, p, "node") /\ Members(i.node, p, "node") = Members(i.node, q, "node")
    BY <1>2, MembersAre DEF ReleaseOp
  <2>3. t = "bcast" /\ c = "node" /\ r \in Members(i.node, q, "node")
    BY <1>2, <2>2, TreeNames DEF ReleaseOp
  <2>4. TreeOp(Members(i.node, q, "node"), "node", r, IRecv(q, t, c))
    BY <1>2, <2>2, <2>3, TreeMirror DEF ReleaseOp
  <2> QED
    BY <2>2, <2>3, <2>4 DEF ReleaseOp
<1> QED
  BY <1>1, <1>2

-----------------------------------------------------------------------------
LEMMA RowsOfIs ==
  ASSUME NEW rows \in Nat, NEW p \in Process
  PROVE  RowsOf(rows, p) \in 0 .. rows /\ (RowsOf(rows, p) # 0 <=> p < rows)
<1>1. 1 \in Nat \ {0} /\ p \in Nat
  BY DEF Process
<1>2. RowCount(rows, 1, p) = RowsOf(rows, p) /\ RowStart(rows, 1, p) = RowsBefore(rows, p)
  BY <1>1, RowCountIs
<1>3. /\ RowStart(rows, 1, p) + RowCount(rows, 1, p) <= rows
      /\ RowCount(rows, 1, p) # 0 <=> p < rows
  BY <1>1, RowsDealtOnce
<1>4. RowsOf(rows, p) \in Nat /\ RowsBefore(rows, p) \in Nat
  BY <1>1, RowsBeforeStep
<1> QED
  BY <1>2, <1>3, <1>4

LEMMA InputIs ==
  ASSUME NEW i \in Input
  PROVE  /\ i.rows \in Nat /\ i.cols \in Nat /\ i.files \in BOOLEAN
         /\ EagerThreshold >= 4 * i.cols + 4
         /\ \A r \in Process : BcastOf[i][r] = Bcast(i.node, r)
         /\ \A r \in Process : BarrierOf[i][r] = Barrier(i.node, r)
         /\ 0 \in Process /\ Process \subseteq Nat /\ Rank = Process
BY InputAssumption DEF BcastOf, BarrierOf, Process

\* The operations of the scatter and of the gather.
ScatterOp(i, r, op) ==
  IF r = 0 THEN \E p \in Process \ {0} : p < i.rows /\ op = ISend(p, "scatterv", "world")
  ELSE op = IRecv(0, "scatterv", "world")

GatherOp(i, r, op) ==
  IF r = 0 THEN \E p \in Process \ {0} : p < i.rows /\ op = IRecv(p, "gatherv", "world")
  ELSE op = ISend(0, "gatherv", "world")

StageOp(i, r, st, op) ==
  \/ st \in {"rows", "cols", "vector"} /\ BcastOp(i, r, op)
  \/ st = "chunk" /\ ScatterOp(i, r, op)
  \/ st = "products" /\ GatherOp(i, r, op)
  \/ st = "barrier" /\ (BarrierOp(i, r, op) \/ ReleaseOp(i, r, op))

LEMMA PlanIs ==
  ASSUME NEW i \in Input, NEW r \in Process, NEW st \in Stage
  PROVE  /\ Orderly(Plan(i, r, st))
         /\ \A op : Planned(i, r, st, op) <=> Joins(i, r, st) /\ StageOp(i, r, st, op)
<1>1. CASE st \in {"rows", "cols", "vector"}
  <2>1. Plan(i, r, st) = Bcast(i.node, r)
    BY <1>1, InputIs DEF Plan
  <2>2. \A op : StageOp(i, r, st, op) <=> BcastOp(i, r, op)
    BY <1>1 DEF StageOp
  <2>3. /\ Orderly(Bcast(i.node, r))
        /\ \A op : Has(Bcast(i.node, r), op) /\ op # Wait <=> BcastOp(i, r, op)
    BY BcastOps DEF BcastOp
  <2> QED
    BY <2>1, <2>2, <2>3 DEF Planned
<1>2. CASE st = "barrier"
  <2>1. Plan(i, r, st) = Barrier(i.node, r)
    BY <1>2, InputIs DEF Plan
  <2>2. \A op : StageOp(i, r, st, op) <=> BarrierOp(i, r, op) \/ ReleaseOp(i, r, op)
    BY <1>2 DEF StageOp
  <2>3. /\ Orderly(Barrier(i.node, r))
        /\ \A op : Has(Barrier(i.node, r), op) /\ op # Wait <=>
             BarrierOp(i, r, op) \/ ReleaseOp(i, r, op)
    BY BarrierOps DEF BarrierOp, ReleaseOp
  <2> QED
    BY <2>1, <2>2, <2>3 DEF Planned
<1>3. CASE st = "chunk"
  <2> DEFINE count == [p \in Process |-> ChunkSize(i.rows, i.cols, p)]
  <2>1. Plan(i, r, st) = Scatterv(count, r)
    BY <1>3 DEF Plan
  <2>2. \A op : StageOp(i, r, st, op) <=> ScatterOp(i, r, op)
    BY <1>3 DEF StageOp
  <2>3. ASSUME i.cols > 0, NEW p \in Process PROVE count[p] # 0 <=> p < i.rows
    <3>1. p \in Nat /\ i.rows \in Nat /\ i.cols \in Nat \ {0}
      BY <2>3, InputIs
    <3>2. count[p] = RowsOf(i.rows, p) * i.cols
      BY <3>1, ChunkSizeIs
    <3>3. RowsOf(i.rows, p) \in Nat
      BY <3>1, RowsOfIs
    <3>4. \A a \in Nat, b \in Nat \ {0} : a * b # 0 <=> a # 0
      OBVIOUS
    <3> QED
      BY <3>1, <3>2, <3>3, <3>4, RowsOfIs
  <2>4. Joins(i, r, st) => i.cols > 0
    BY <1>3 DEF Joins
  <2> HIDE DEF count
  <2>5. /\ Orderly(Scatterv(count, r))
        /\ \A op : Has(Scatterv(count, r), op) /\ op # Wait <=>
             IF r = 0 THEN \E p \in Process \ {0} :
                             count[p] # 0 /\ op = ISend(p, "scatterv", "world")
             ELSE op = IRecv(0, "scatterv", "world")
    BY ScatterOrderly
  <2> QED
    BY <2>1, <2>2, <2>3, <2>4, <2>5 DEF Planned, ScatterOp
<1>4. CASE st = "products"
  <2> DEFINE count == [p \in Process |-> RowsOf(i.rows, p)]
  <2>1. Plan(i, r, st) = Gatherv(count, r)
    BY <1>4 DEF Plan
  <2>2. \A op : StageOp(i, r, st, op) <=> GatherOp(i, r, op)
    BY <1>4 DEF StageOp
  <2>3. \A p \in Process : count[p] # 0 <=> p < i.rows
    BY InputIs, RowsOfIs
  <2> HIDE DEF count
  <2>5. /\ Orderly(Gatherv(count, r))
        /\ \A op : Has(Gatherv(count, r), op) /\ op # Wait <=>
             IF r = 0 THEN \E p \in Process \ {0} :
                             count[p] # 0 /\ op = IRecv(p, "gatherv", "world")
             ELSE op = ISend(0, "gatherv", "world")
    BY GatherOrderly
  <2> QED
    BY <2>1, <2>2, <2>3, <2>5 DEF Planned, GatherOp
<1>5. CASE st \in {"files", "done"}
  <2>1. Plan(i, r, st) = <<>>
    BY <1>5 DEF Plan
  <2>2. \A op : ~StageOp(i, r, st, op)
    BY <1>5 DEF StageOp
  <2> QED
    BY <2>1, <2>2, EmptyOrderly DEF Planned
<1> QED
  BY <1>1, <1>2, <1>3, <1>4, <1>5 DEF Stage

(* What is planned, by the stage. *)
LEMMA PlannedIs ==
  ASSUME NEW i \in Input, NEW r \in Process, NEW st \in Stage, NEW op,
         Planned(i, r, st, op)
  PROVE  /\ Joins(i, r, st) /\ st \notin {"files", "done"}
         /\ op.kind \in {"irecv", "isend"} /\ op.peer \in Process /\ op # Wait
         /\ op.context \in {"world", "node", "roots"}
         /\ st \in {"rows", "cols", "vector"} => op.tag = "bcast" /\ BcastOp(i, r, op)
         /\ st = "chunk" => op.tag = "scatterv" /\ ScatterOp(i, r, op)
         /\ st = "products" => op.tag = "gatherv" /\ GatherOp(i, r, op)
         /\ st = "barrier" => op.tag \in {"barrier", "bcast"}
         /\ st = "barrier" /\ op.tag = "bcast" => ReleaseOp(i, r, op) /\ BcastOp(i, r, op)
         /\ st = "barrier" /\ op.tag = "barrier" => BarrierOp(i, r, op)
         /\ op.kind = "irecv" => op = IRecv(op.peer, op.tag, op.context)
         /\ op.kind = "isend" => op = ISend(op.peer, op.tag, op.context)
<1>1. Joins(i, r, st) /\ StageOp(i, r, st, op)
  BY PlanIs
<1>2. CASE st \in {"rows", "cols", "vector"}
  BY <1>1, <1>2, BcastOpIs DEF StageOp
<1>3. CASE st = "chunk"
  <2>1. ScatterOp(i, r, op)
    BY <1>1, <1>3 DEF StageOp
  <2> QED
    BY <1>1, <1>3, <2>1, OpFields, KindsApart, InputIs DEF ScatterOp
<1>4. CASE st = "products"
  <2>1. GatherOp(i, r, op)
    BY <1>1, <1>4 DEF StageOp
  <2> QED
    BY <1>1, <1>4, <2>1, OpFields, KindsApart, InputIs DEF GatherOp
<1>5. CASE st = "barrier"
  <2>1. CASE BarrierOp(i, r, op)
    BY <1>1, <1>5, <2>1, BarrierOpIs
  <2>2. CASE ReleaseOp(i, r, op)
    <3>1. BcastOp(i, r, op)
      BY <2>2, ReleaseOpIs
    <3>2. /\ op.tag = "bcast" /\ op.context \in {"world", "node", "roots"}
          /\ op.kind \in {"irecv", "isend"} /\ op.peer \in Process /\ op # Wait
          /\ op.kind = "irecv" => op = IRecv(op.peer, "bcast", op.context)
          /\ op.kind = "isend" => op = ISend(op.peer, "bcast", op.context)
      BY <3>1, BcastOpIs
    <3> QED
      BY <1>1, <1>5, <2>2, <3>1, <3>2
  <2> QED
    BY <1>1, <1>5, <2>1, <2>2 DEF StageOp
<1> QED
  BY <1>1, <1>2, <1>3, <1>4, <1>5 DEF StageOp

(* Whoever is to receive in a stage is sent to in it. *)
LEMMA RecvMirrored ==
  ASSUME NEW i \in Input, NEW d \in Process, NEW st \in Stage, NEW s, NEW t, NEW c,
         Planned(i, d, st, IRecv(s, t, c))
  PROVE  s \in Process /\ Planned(i, s, st, ISend(d, t, c))
<1> DEFINE op == IRecv(s, t, c)
<1>1. op.kind = "irecv" /\ op.peer = s /\ op.tag = t /\ op.context = c
  BY OpFields
<1>2. Planned(i, d, st, op)
  OBVIOUS
<1> HIDE DEF op
<1>3. s \in Process
  BY <1>1, <1>2, PlannedIs
<1>4. Joins(i, d, st) /\ StageOp(i, d, st, op)
  BY <1>2, PlanIs
<1>5. d \in Nat /\ s \in Nat /\ i.rows \in Nat /\ 0 \in Process
  BY <1>3, InputIs
<1>6. CASE st \in {"rows", "cols", "vector"}
  <2>1. BcastOp(i, d, op)
    BY <1>4, <1>6 DEF StageOp
  <2>2. s < d
    BY <1>1, <2>1, BcastOpIs
  <2>3. BcastOp(i, s, ISend(d, t, c))
    BY <1>3, <2>1, BcastMirror DEF op
  <2>4. Joins(i, s, st)
    BY <1>4, <1>5, <1>6, <2>2 DEF Joins
  <2> QED
    BY <1>3, <1>6, <2>3, <2>4, PlanIs DEF StageOp
<1>7. CASE st = "chunk"
  <2>1. d # 0 /\ op = IRecv(0, "scatterv", "world")
    BY <1>1, <1>4, <1>7, OpFields DEF StageOp, ScatterOp
  <2>2. s = 0 /\ t = "scatterv" /\ c = "world"
    BY <1>1, <2>1, OpFields
  <2>3. ScatterOp(i, s, ISend(d, t, c)) /\ Joins(i, s, st)
    BY <1>4, <1>5, <1>7, <2>1, <2>2 DEF ScatterOp, Joins
  <2> QED
    BY <1>3, <1>7, <2>3, PlanIs DEF StageOp
<1>8. CASE st = "products"
  <2>1. d = 0 /\ \E p \in Process \ {0} : p < i.rows /\ op = IRecv(p, "gatherv", "world")
    BY <1>1, <1>4, <1>8, OpFields DEF StageOp, GatherOp
  <2>2. s # 0 /\ s < i.rows /\ t = "gatherv" /\ c = "world"
    BY <1>1, <2>1, OpFields
  <2>3. GatherOp(i, s, ISend(d, t, c)) /\ Joins(i, s, st)
    BY <1>4, <1>5, <1>8, <2>1, <2>2 DEF GatherOp, Joins
  <2> QED
    BY <1>3, <1>8, <2>3, PlanIs DEF StageOp
<1>9. CASE st = "barrier"
  <2>1. BarrierOp(i, d, op) \/ ReleaseOp(i, d, op)
    BY <1>4, <1>9 DEF StageOp
  <2>2. BarrierOp(i, s, ISend(d, t, c)) \/ ReleaseOp(i, s, ISend(d, t, c))
    BY <1>3, <2>1, BarrierMirror, ReleaseMirror DEF op
  <2>3. Joins(i, s, st)
    BY <1>9 DEF Joins
  <2> QED
    BY <1>3, <1>9, <2>2, <2>3, PlanIs DEF StageOp
<1> QED
  BY <1>4, <1>6, <1>7, <1>8, <1>9 DEF StageOp

(* Whoever is sent to in a stage is to receive in it, except a rank without  *)
(* rows, which is sent the vector.                                           *)
LEMMA SendMirrored ==
  ASSUME NEW i \in Input, NEW s \in Process, NEW st \in Stage, NEW d, NEW t, NEW c,
         Planned(i, s, st, ISend(d, t, c))
  PROVE  /\ d \in Process
         /\ \/ Planned(i, d, st, IRecv(s, t, c))
            \/ st = "vector" /\ t = "bcast" /\ s < i.rows /\ i.rows <= d
<1> DEFINE op == ISend(d, t, c)
<1>1. op.kind = "isend" /\ op.peer = d /\ op.tag = t /\ op.context = c
  BY OpFields
<1>2. Planned(i, s, st, op)
  OBVIOUS
<1> HIDE DEF op
<1>3. d \in Process
  BY <1>1, <1>2, PlannedIs
<1>4. Joins(i, s, st) /\ StageOp(i, s, st, op)
  BY <1>2, PlanIs
<1>5. d \in Nat /\ s \in Nat /\ i.rows \in Nat /\ 0 \in Process
  BY <1>3, InputIs
<1>6. CASE st \in {"rows", "cols", "vector"}
  <2>1. BcastOp(i, s, op)
    BY <1>4, <1>6 DEF StageOp
  <2>2. t = "bcast"
    BY <1>1, <2>1, BcastOpIs
  <2>3. BcastOp(i, d, IRecv(s, t, c))
    BY <1>3, <2>1, BcastMirror DEF op
  <2>4. Joins(i, d, st) => Planned(i, d, st, IRecv(s, t, c))
    BY <1>3, <1>6, <2>3, PlanIs DEF StageOp
  <2>5. Joins(i, d, st) \/ (st = "vector" /\ s < i.rows /\ i.rows <= d)
    BY <1>4, <1>5, <1>6 DEF Joins
  <2> QED
    BY <1>3, <2>2, <2>4, <2>5
<1>7. CASE st = "chunk"
  <2>1. s = 0 /\ \E p \in Process \ {0} : p < i.rows /\ op = ISend(p, "scatterv", "world")
    BY <1>1, <1>4, <1>7, OpFields DEF StageOp, ScatterOp
  <2>2. d # 0 /\ d < i.rows /\ t = "scatterv" /\ c = "world"
    BY <1>1, <2>1, OpFields
  <2>3. ScatterOp(i, d, IRecv(s, t, c)) /\ Joins(i, d, st)
    BY <1>4, <1>5, <1>7, <2>1, <2>2 DEF ScatterOp, Joins
  <2> QED
    BY <1>3, <1>7, <2>3, PlanIs DEF StageOp
<1>8. CASE st = "products"
  <2>1. s # 0 /\ op = ISend(0, "gatherv", "world")
    BY <1>1, <1>4, <1>8, OpFields DEF StageOp, GatherOp
  <2>2. d = 0 /\ t = "gatherv" /\ c = "world"
    BY <1>1, <2>1, OpFields
  <2>3. GatherOp(i, d, IRecv(s, t, c)) /\ Joins(i, d, st)
    BY <1>4, <1>5, <1>8, <2>1, <2>2 DEF GatherOp, Joins
  <2> QED
    BY <1>3, <1>8, <2>3, PlanIs DEF StageOp
<1>9. CASE st = "barrier"
  <2>1. BarrierOp(i, s, op) \/ ReleaseOp(i, s, op)
    BY <1>4, <1>9 DEF StageOp
  <2>2. BarrierOp(i, d, IRecv(s, t, c)) \/ ReleaseOp(i, d, IRecv(s, t, c))
    BY <1>3, <2>1, BarrierMirror, ReleaseMirror DEF op
  <2>3. Joins(i, d, st)
    BY <1>9 DEF Joins
  <2> QED
    BY <1>3, <1>9, <2>2, <2>3, PlanIs DEF StageOp
<1> QED
  BY <1>4, <1>6, <1>7, <1>8, <1>9 DEF StageOp

(* The broadcast that ends the barrier sends where that of the vector does. *)
LEMMA ReleaseLikeVector ==
  ASSUME NEW i \in Input, NEW r \in Process, NEW op,
         Planned(i, r, "barrier", op), op.tag = "bcast", Joins(i, r, "vector")
  PROVE  Planned(i, r, "vector", op)
<1>1. "barrier" \in Stage /\ "vector" \in Stage
  BY DEF Stage
<1>2. BcastOp(i, r, op)
  BY <1>1, PlannedIs
<1> QED
  BY <1>1, <1>2, PlanIs DEF StageOp
=============================================================================
