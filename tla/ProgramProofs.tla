--------------------------- MODULE ProgramProofs ---------------------------
(***************************************************************************)
(* The matrix program as a whole: the end of a wait and the code between   *)
(* two collectives keep the invariant of DeliveryProofs, which, with what  *)
(* holds of the ends of the processes (SystemInv), is inductive.  From it: *)
(* the result is right, the program finishes exactly when it can, leaves no *)
(* message behind and keeps its types; its last barrier is a barrier, and  *)
(* with one rank on each machine is the one of DisseminationBarrier.  All  *)
(* of this for any number of processes that MPI_Gatherv serves with        *)
(* standard sends (StandardSendAssumption): fewer than 32 by default.      *)
(***************************************************************************)
EXTENDS DeliveryProofs

-----------------------------------------------------------------------------
(* The end of a wait: what the rank makes of its messages.                 *)

SumsUpTo(row, v, n, f) ==
  f = [k \in 0 .. n |-> IF k = 0 THEN 0 ELSE f[k - 1] + row[k] * v[k]]

LEMMA PartialSums ==
  ASSUME NEW v \in Seq(Int), NEW row, \A k \in 1 .. Len(v) : row[k] \in Int,
         NEW n \in 0 .. Len(v)
  PROVE  \E f : SumsUpTo(row, v, n, f) /\ \A k \in 0 .. n : f[k] \in Int
<1> DEFINE Fits(f, m) == f = [k \in 0 .. m |-> IF k = 0 THEN 0 ELSE f[k - 1] + row[k] * v[k]]
           Whole(f, m) == \A k \in 0 .. m : f[k] \in Int
           T == {m \in 0 .. Len(v) : ~\E f : Fits(f, m) /\ Whole(f, m)}
<1>1. SUFFICES ASSUME T # {} PROVE FALSE
  BY DEF SumsUpTo
<1>2. PICK m \in T : \A k \in T : m <= k
  <2>1. T \subseteq Nat  OBVIOUS
  <2> HIDE DEF T
  <2> QED  BY <1>1, <2>1, LeastNumber
<1>3. m \in 0 .. Len(v) /\ Len(v) \in Nat /\ m \in Nat
  BY <1>2
<1>4. m # 0
  <2>1. Fits([k \in 0 .. 0 |-> 0], 0) /\ Whole([k \in 0 .. 0 |-> 0], 0)
    <3>1. \A k \in 0 .. 0 : k = 0  OBVIOUS
    <3> QED  BY <3>1
  <2> QED  BY <1>2, <2>1
<1>5. m - 1 \in 0 .. Len(v) /\ m - 1 \notin T
  <2>1. m - 1 \in 0 .. Len(v) /\ ~(m <= m - 1)  BY <1>3, <1>4
  <2> QED  BY <1>2, <2>1
<1>6. PICK f : Fits(f, m - 1) /\ Whole(f, m - 1)
  BY <1>5
<1> DEFINE g == [k \in 0 .. m |-> IF k = m THEN f[m - 1] + row[m] * v[m] ELSE f[k]]
<1>7. ASSUME NEW k \in 0 .. m
      PROVE  g[k] = (IF k = 0 THEN 0 ELSE g[k - 1] + row[k] * v[k]) /\ g[k] \in Int
  <2>1. CASE k = m
    <3>1. k - 1 \in 0 .. m /\ k - 1 # m /\ k # 0 /\ m - 1 \in 0 .. m - 1 /\ m \in 1 .. Len(v)
      BY <1>3, <1>4, <2>1
    <3>2. f[m - 1] \in Int /\ row[m] \in Int /\ v[m] \in Int
      BY <1>6, <3>1
    <3> QED
      BY <2>1, <3>1, <3>2
  <2>2. CASE k # m
    <3>1. k \in 0 .. m - 1 /\ (k # 0 => k - 1 \in 0 .. m /\ k - 1 # m)
      BY <1>3, <2>2
    <3>2. f[k] = IF k = 0 THEN 0 ELSE f[k - 1] + row[k] * v[k]
      BY <1>6, <3>1
    <3>3. f[k] \in Int  BY <1>6, <3>1
    <3> QED
      BY <2>2, <3>1, <3>2, <3>3
  <2> QED
    BY <2>1, <2>2
<1>8. Fits(g, m) /\ Whole(g, m)
  BY <1>7
<1>9. \E h : Fits(h, m) /\ Whole(h, m)  BY <1>8
<1> QED
  BY <1>2, <1>9

LEMMA ProductIsNumber ==
  ASSUME NEW v \in Seq(Int), NEW row, \A k \in 1 .. Len(v) : row[k] \in Int
  PROVE  Product(row, v) \in Int
<1> DEFINE Sums(f) == SumsUpTo(row, v, Len(v), f)
           sum == CHOOSE f : Sums(f)
           T == {k \in 0 .. Len(v) : sum[k] \notin Int}
<1>1. Len(v) \in Nat  OBVIOUS
<1>2. \E f : Sums(f)
  <2>1. Len(v) \in 0 .. Len(v)  BY <1>1
  <2> QED  BY <2>1, PartialSums
<1>3. Sums(sum)  BY <1>2
<1>4. T = {}
  <2>1. SUFFICES ASSUME T # {} PROVE FALSE  OBVIOUS
  <2>2. PICK m \in T : \A k \in T : m <= k
    <3>1. T \subseteq Nat  BY <1>1
    <3> HIDE DEF T
    <3> QED  BY <2>1, <3>1, LeastNumber
  <2>3. m \in 0 .. Len(v) /\ sum[m] \notin Int  BY <2>2
  <2> HIDE DEF sum
  <2>4. sum[m] = IF m = 0 THEN 0 ELSE sum[m - 1] + row[m] * v[m]  BY <1>3, <2>3 DEF SumsUpTo
  <2>5. m # 0  BY <2>3, <2>4
  <2>6. m - 1 \in 0 .. Len(v) /\ m \in 1 .. Len(v)  BY <1>1, <2>3, <2>5
  <2>7. m - 1 \notin T
    <3>1. ~(m <= m - 1)  BY <2>3
    <3> HIDE DEF T
    <3> QED  BY <2>2, <3>1
  <2>8. sum[m - 1] \in Int  BY <2>6, <2>7
  <2>9. row[m] \in Int /\ v[m] \in Int  BY <2>6
  <2> QED  BY <2>3, <2>4, <2>5, <2>8, <2>9
<1>5. Len(v) \notin T  BY <1>4
<1>6. sum[Len(v)] \in Int  BY <1>1, <1>5
<1>7. Product(row, v) = sum[Len(v)]  BY DEF Product, SumsUpTo
<1> HIDE DEF sum
<1> QED  BY <1>6, <1>7

LEMMA VectorIs ==
  ASSUME NEW i \in Input
  PROVE  Vector(i) \in Seq(Int) /\ Len(Vector(i)) = i.cols
BY InputIs DEF Vector

\* The chunk that is dealt to p, and what it makes of it.
LEMMA ChunkIs ==
  ASSUME NEW i \in Input, i.cols > 0, NEW p \in Process
  PROVE  /\ ChunkOf(i, p) \in Seq(Int) /\ ProductsOf(i, p) \in Seq(Int)
         /\ Len(ChunkOf(i, p)) = ChunkSize(i.rows, i.cols, p)
         /\ Len(ProductsOf(i, p)) = RowCount(i.rows, i.cols, p)
         /\ RowCount(i.rows, i.cols, p) \in 0 .. i.rows
         /\ Len(ChunkOf(i, p)) <= i.rows * i.cols
<1> DEFINE s == RowStart(i.rows, i.cols, p)
           n == RowCount(i.rows, i.cols, p)
<1>1. i.rows \in Nat /\ i.cols \in Nat \ {0} /\ p \in Nat
  BY InputIs
<1>2. s \in Nat /\ n \in Nat
  <2>1. s = RowsBefore(i.rows, p) /\ n = RowsOf(i.rows, p)  BY <1>1, RowCountIs
  <2>2. RowsBefore(i.rows, p) \in Nat /\ RowsOf(i.rows, p) \in Nat  BY <1>1, RowsBeforeStep
  <2> HIDE DEF s, n
  <2> QED  BY <2>1, <2>2
<1>3. /\ s + n <= i.rows
      /\ ChunkSize(i.rows, i.cols, p) = n * i.cols
      /\ ChunkStart(i.rows, i.cols, p) = s * i.cols
  BY <1>1, <1>2, RowsDealtOnce
<1> HIDE DEF s, n
<1> DEFINE a == s * i.cols
           b == n * i.cols
           l == i.rows * i.cols
<1>4. a \in Nat /\ b \in Nat /\ l \in Nat /\ a + b <= l /\ b <= l
  <2>1. a \in Nat /\ b \in Nat /\ l \in Nat  BY <1>1, <1>2
  <2>2. l = a + b + (i.rows - (s + n)) * i.cols /\ (i.rows - (s + n)) * i.cols \in Nat
    BY <1>1, <1>2, <1>3
  <2> HIDE DEF a, b, l
  <2> QED  BY <2>1, <2>2
<1>5. ChunkOf(i, p) = SubSeq(Matrix(i), a + 1, a + b)
  BY <1>3 DEF ChunkOf
<1>6. SubSeq(Matrix(i), a + 1, a + b) = [k \in 1 .. b |-> 0 + a + k]
  <2>1. Matrix(i) = [k \in 1 .. l |-> 0 + k] /\ 0 \in Int  BY <1>4 DEF Matrix
  <2> HIDE DEF a, b, l
  <2> QED  BY <1>4, <2>1, PartOfCount
<1>7. ChunkOf(i, p) \in Seq(Int) /\ Len(ChunkOf(i, p)) = b
  <2> HIDE DEF a, b
  <2>1. ChunkOf(i, p) = [k \in 1 .. b |-> 0 + a + k]  BY <1>5, <1>6
  <2> QED  BY <1>4, <2>1
<1>8. Len(Vector(i)) = i.cols /\ Vector(i) \in Seq(Int)  BY VectorIs
<1>9. ProductsOf(i, p) = [j \in 1 .. n |->
         Product(SubSeq(ChunkOf(i, p), (j - 1) * i.cols + 1, j * i.cols), Vector(i))]
  BY <1>8 DEF ProductsOf, Compute, n
<1>10. ASSUME NEW j \in 1 .. n
       PROVE  Product(SubSeq(ChunkOf(i, p), (j - 1) * i.cols + 1, j * i.cols), Vector(i)) \in Int
  <2> DEFINE row == SubSeq(ChunkOf(i, p), (j - 1) * i.cols + 1, j * i.cols)
             x == (s + j - 1) * i.cols
  <2>1. row = [c \in 1 .. i.cols |-> x + c]
    <3>1. ChunkOf(i, p) = SubSeq(Matrix(i), s * i.cols + 1, s * i.cols + n * i.cols)
      BY <1>5
    <3>2. i.cols > 0  OBVIOUS
    <3>3. SubSeq(SubSeq(Matrix(i), s * i.cols + 1, s * i.cols + n * i.cols),
                 (j - 1) * i.cols + 1, j * i.cols) = [c \in 1 .. i.cols |-> (s + j - 1) * i.cols + c]
      BY <1>2, <1>3, <3>2, RowOfChunk
    <3> QED  BY <3>1, <3>3
  <2>2. x \in Int  BY <1>1, <1>2
  <2> HIDE DEF x, row
  <2>3. \A k \in 1 .. Len(Vector(i)) : row[k] \in Int  BY <1>1, <1>8, <2>1, <2>2
  <2>4. Product(row, Vector(i)) \in Int  BY <1>8, <2>3, ProductIsNumber
  <2> QED  BY <2>4 DEF row
<1>11. ProductsOf(i, p) \in Seq(Int) /\ Len(ProductsOf(i, p)) = n
  BY <1>2, <1>9, <1>10
<1>12. n \in 0 .. i.rows  BY <1>1, <1>2, <1>3
<1> QED  BY <1>3, <1>4, <1>7, <1>11, <1>12 DEF n

\* Rank r, in stage a, has got message m with the receive op.
GotOK(i, all, r, a, op, m) ==
  /\ Right(i, all, op.peer, r, Meant(i, op.peer, r, a, op.tag), op.tag, m)
  /\ Planned(i, r, a, op) /\ op.kind = "irecv"

\* Rank r waits for op, among others, and all is complete.
Completes(r, op) ==
  /\ step[r] \in DOMAIN Operations(r) /\ Operations(r)[step[r]] = Wait
  /\ AllComplete(r)
  /\ Open(Plan(input, r, stage[r]), step[r], op) /\ op.kind = "irecv"

LEMMA Gathered ==
  ASSUME CommInv, NEW r \in Process, NEW op, Completes(r, op)
  PROVE  /\ op.peer \in Process /\ <<"recv", op.peer>> \in Pending(r)
         /\ Operations(r)[step[r] - 1].tag = op.tag
         /\ GotOK(input, AllEntered(stage), r, stage[r], op,
                  request[r][<<"recv", op.peer>>].payload)
<1> DEFINE s == Plan(input, r, stage[r])
           n == step[r]
           h == <<"recv", op.peer>>
           x == request[r][h]
           all == AllEntered(stage)
<1>1. /\ input \in Input /\ Operations(r) = s /\ Orderly(s) /\ Asked(s, n, request[r])
      /\ stage[r] \in Stage
  BY Basics
<1>2. n \in DOMAIN s /\ s[n] = Wait /\ AllComplete(r) /\ Open(s, n, op) /\ op.kind = "irecv"
  BY <1>1 DEF Completes
<1>3. op.peer \in Process /\ Planned(input, r, stage[r], op)
  BY <1>2, HoldsNow, OpenIs, <1>1
<1>4. h \in Handle  BY <1>3, HandlesAre
<1>5. x # None  BY <1>2, <1>1 DEF Asked
<1>6. h \in Pending(r)  BY <1>4, <1>5 DEF Pending
<1>7. x.state = "complete"  BY <1>2, <1>6 DEF AllComplete
<1>8. Operations(r)[n - 1].tag = op.tag
  <2> HIDE DEF s, n
  <2> QED  BY <1>1, <1>2, StepsOn
<1>9. RecvOK(input, all, r, stage[r], op, x)
  BY <1>2, HoldsNow DEF RequestsOK
<1>10. PICK m : /\ x = Complete(m)
                /\ Right(input, all, op.peer, r, Meant(input, op.peer, r, stage[r], op.tag),
                         op.tag, m)
  <2>1. x # Cleared /\ x # [state |-> "posted"]  BY <1>7 DEF Cleared
  <2> QED  BY <1>9, <2>1 DEF RecvOK
<1>11. x.payload = m  BY <1>10 DEF Complete
<1>12. GotOK(input, all, r, stage[r], op, x.payload)
  BY <1>2, <1>3, <1>10, <1>11 DEF GotOK
<1> QED  BY <1>3, <1>6, <1>8, <1>12

\* What the message holds.
Delivers(i, r, a, op, m) ==
  /\ a = "rows" => m.data = <<i.rows>> /\ m.size = 4
  /\ a = "cols" => m.data = <<i.cols>> /\ m.size = 4
  /\ a = "vector" => m.data = Vector(i) /\ m.size = i.cols * 4
  /\ a = "chunk" => /\ m.data = ChunkOf(i, r) /\ i.cols > 0
                    /\ m.size = ChunkSize(i.rows, i.cols, r) * 4
                    /\ ChunkSize(i.rows, i.cols, r) <= i.rows * i.cols
  /\ a = "products" => /\ m.data = ProductsOf(i, op.peer) /\ i.cols > 0
                       /\ m.size = RowCount(i.rows, i.cols, op.peer) * 4
  /\ m.error \in BOOLEAN /\ (m.error => a = "barrier" /\ Split(i))

LEMMA GotContent ==
  ASSUME NEW i \in Input, NEW all, NEW r \in Process, NEW a \in Stage, NEW op, NEW m,
         GotOK(i, all, r, a, op, m)
  PROVE  Delivers(i, r, a, op, m)
<1> DEFINE b == Meant(i, op.peer, r, a, op.tag)
           C == Content(i, op.peer, r, b, op.tag)
<1>1. /\ m = [data |-> C, error |-> m.error,
              size |-> IF b = "barrier" /\ op.tag = "bcast" THEN 1 ELSE Len(C) * 4]
      /\ m.error \in BOOLEAN /\ (m.error => b = "barrier" /\ Split(i))
  BY DEF GotOK, Right, IntegerBytes
<1>2. a # "barrier" => b = a  BY DEF Meant, Exempt
<1>3. a = "barrier" => b \in {"barrier", "vector"}  BY DEF Meant
<1>4. op.peer \in Process /\ Joins(i, r, a)  BY PlannedIs DEF GotOK
<1>5. m.data = C /\ m.size = IF b = "barrier" /\ op.tag = "bcast" THEN 1 ELSE Len(C) * 4
  BY <1>1
<1> HIDE DEF b
<1>6. a \in {"rows", "cols"} => Len(C) = 1  BY <1>2 DEF Content
<1>7. a = "vector" => C = Vector(i) /\ Len(C) = i.cols  BY <1>2, VectorIs DEF Content
<1>8. a = "chunk" => /\ C = ChunkOf(i, r) /\ i.cols > 0
                     /\ Len(C) = ChunkSize(i.rows, i.cols, r) /\ Len(C) <= i.rows * i.cols
  <2>1. a = "chunk" => C = ChunkOf(i, r) /\ i.cols > 0  BY <1>2, <1>4 DEF Content, Joins
  <2> HIDE DEF C
  <2> QED  BY <2>1, ChunkIs
<1>9. a = "products" => /\ C = ProductsOf(i, op.peer) /\ i.cols > 0
                        /\ Len(C) = RowCount(i.rows, i.cols, op.peer)
  <2>1. a = "products" => C = ProductsOf(i, op.peer) /\ i.cols > 0
    BY <1>2, <1>4 DEF Content, Joins
  <2> HIDE DEF C
  <2> QED  BY <1>4, <2>1, ChunkIs
<1>10. (a = "rows" => C = <<i.rows>>) /\ (a = "cols" => C = <<i.cols>>)
  BY <1>2 DEF Content
<1>11. m.error => a = "barrier" /\ Split(i)  BY <1>1, <1>2
<1> HIDE DEF C
<1>12. CASE a = "barrier"  BY <1>1, <1>11, <1>12 DEF Delivers
<1>13. CASE a # "barrier"
  <2>1. m.size = Len(C) * 4  BY <1>2, <1>5, <1>13
  <2>2. (a = "rows" => m.data = <<i.rows>> /\ m.size = 4)
        /\ (a = "cols" => m.data = <<i.cols>> /\ m.size = 4)
    <3>1. a \in {"rows", "cols"} => m.size = 4
      <4>1. a \in {"rows", "cols"} => Len(C) = 1  BY <1>6
      <4> DEFINE l == Len(C)
      <4>2. m.size = l * 4  BY <2>1
      <4>3. a \in {"rows", "cols"} => l = 1  BY <4>1
      <4> HIDE DEF l
      <4> QED  BY <4>2, <4>3
    <3> QED  BY <1>5, <1>10, <3>1
  <2>3. a = "vector" => m.data = Vector(i) /\ m.size = i.cols * 4
    BY <1>5, <1>7, <2>1
  <2>4. a = "chunk" => /\ m.data = ChunkOf(i, r) /\ i.cols > 0
                       /\ m.size = ChunkSize(i.rows, i.cols, r) * 4
                       /\ ChunkSize(i.rows, i.cols, r) <= i.rows * i.cols
    BY <1>5, <1>8, <2>1
  <2>5. a = "products" => /\ m.data = ProductsOf(i, op.peer) /\ i.cols > 0
                          /\ m.size = RowCount(i.rows, i.cols, op.peer) * 4
    BY <1>5, <1>9, <2>1
  <2> QED  BY <1>1, <1>11, <1>13, <2>2, <2>3, <2>4, <2>5 DEF Delivers
<1> QED  BY <1>12, <1>13

LEMMA CapacityIs ==
  ASSUME CommInv, NEW r \in Process, NEW op, Planned(input, r, stage[r], op)
  PROVE  /\ stage[r] \in {"rows", "cols"} => Capacity(r, op.peer, op.tag) = 4
         /\ stage[r] = "vector" => Capacity(r, op.peer, op.tag) = input.cols * 4
         /\ stage[r] = "chunk" =>
              Capacity(r, op.peer, op.tag) = input.rows * input.cols * 4
         /\ stage[r] = "products" =>
              Capacity(r, op.peer, op.tag) = RowCount(input.rows, input.cols, op.peer) * 4
         /\ stage[r] = "barrier" =>
              /\ op.tag \in {"barrier", "bcast"}
              /\ Capacity(r, op.peer, op.tag) = IF op.tag = "bcast" THEN 1 ELSE 0
<1> DEFINE a == stage[r]
<1>1. /\ input \in Input /\ a \in Stage /\ step[r] \in Nat
      /\ Remembers(input, AllEntered(stage), r, a, step[r], memory[r], errflag[r])
  BY Basics
<1>2. StageNo(a) > 2 => memory[r].rows = input.rows /\ memory[r].cols = input.cols
  <2> DEFINE all == AllEntered(stage)
  <2>1. Remembers(input, all, r, a, step[r], memory[r], errflag[r])  BY <1>1
  <2> HIDE DEF all, a
  <2> QED  BY <1>1, <2>1, KnowsSizes
<1>3. /\ a \in {"rows", "cols", "vector"} => op.tag = "bcast"
      /\ a = "chunk" => op.tag = "scatterv"
      /\ a = "products" => op.tag = "gatherv"
      /\ a = "barrier" => op.tag \in {"barrier", "bcast"}
      /\ op.peer \in Process
  BY <1>1, PlannedIs
<1>4. a \in {"rows", "cols"} => Capacity(r, op.peer, op.tag) = 4
  BY <1>3 DEF Capacity, IntegerBytes
<1>5. a = "vector" => Capacity(r, op.peer, op.tag) = input.cols * 4
  BY <1>2, <1>3 DEF Capacity, IntegerBytes, StageNo
<1>6. a = "chunk" => Capacity(r, op.peer, op.tag) = input.rows * input.cols * 4
  BY <1>2, <1>3 DEF Capacity, IntegerBytes, StageNo
<1>7. a = "products" =>
        Capacity(r, op.peer, op.tag) = RowCount(input.rows, input.cols, op.peer) * 4
  BY <1>2, <1>3 DEF Capacity, IntegerBytes, StageNo, RowCounts
<1>8. a = "barrier" => Capacity(r, op.peer, op.tag) = IF op.tag = "bcast" THEN 1 ELSE 0
  BY <1>3 DEF Capacity
<1> QED  BY <1>3, <1>4, <1>5, <1>6, <1>7, <1>8

\* An operation fails only in the barrier, on a machine that is split; and the
\* release of the barrier either fails or comes after all have entered.
LEMMA FaultMeans ==
  ASSUME CommInv, NEW r \in Process, NEW op, Completes(r, op)
  PROVE  /\ Faulty(r, op.peer) \in BOOLEAN
         /\ Faulty(r, op.peer) => stage[r] = "barrier" /\ Split(input)
         /\ stage[r] = "barrier" /\ op.tag = "bcast" =>
              \/ Faulty(r, op.peer)
              \/ AllEntered(stage) /\ ~Exempt(input, op.peer, r, "barrier", "bcast")
<1> DEFINE a == stage[r]
           m == request[r][<<"recv", op.peer>>].payload
           all == AllEntered(stage)
           y == Capacity(r, op.peer, op.tag)
<1>1. input \in Input /\ a \in Stage  BY Basics
<1>2. /\ GotOK(input, all, r, a, op, m) /\ op.peer \in Process
      /\ Operations(r)[step[r] - 1].tag = op.tag
  BY Gathered
<1>3. Faulty(r, op.peer) <=> m.error \/ m.size > y \/ (op.tag = "bcast" /\ m.size # y)
  BY <1>2 DEF Faulty
<1>4. Planned(input, r, a, op)  BY <1>2 DEF GotOK
<1>5. /\ a = "rows" => m.size = 4
      /\ a = "cols" => m.size = 4
      /\ a = "vector" => m.size = input.cols * 4
      /\ a = "chunk" => /\ m.size = ChunkSize(input.rows, input.cols, r) * 4
                        /\ ChunkSize(input.rows, input.cols, r) <= input.rows * input.cols
                        /\ input.cols > 0
      /\ a = "products" => m.size = RowCount(input.rows, input.cols, op.peer) * 4
                           /\ input.cols > 0
      /\ m.error \in BOOLEAN /\ (m.error => a = "barrier" /\ Split(input))
  <2>1. GotOK(input, all, r, a, op, m) /\ input \in Input /\ a \in Stage  BY <1>1, <1>2
  <2> HIDE DEF all, a, m
  <2>2. Delivers(input, r, a, op, m)  BY <2>1, GotContent
  <2> QED  BY <2>2 DEF Delivers
<1>6. /\ a \in {"rows", "cols"} => y = 4
      /\ a = "vector" => y = input.cols * 4
      /\ a = "chunk" => y = input.rows * input.cols * 4
      /\ a = "products" => y = RowCount(input.rows, input.cols, op.peer) * 4
      /\ a = "barrier" => /\ op.tag \in {"barrier", "bcast"}
                          /\ y = IF op.tag = "bcast" THEN 1 ELSE 0
  BY <1>4, CapacityIs
<1>7. input.cols \in Nat /\ input.rows \in Nat  BY <1>1, InputIs
<1>8. ASSUME a # "barrier" PROVE ~Faulty(r, op.peer)
  <2>1. a \in {"rows", "cols", "vector", "chunk", "products"}
    BY <1>1, <1>4, <1>8, PlannedIs DEF Stage
  <2>2. ~m.error  BY <1>5, <1>8
  <2>3. ASSUME a # "chunk" PROVE m.size = y /\ m.size \in Nat
    <3>1. CASE a = "products"
      <4>1. RowCount(input.rows, input.cols, op.peer) \in Nat
        BY <1>1, <1>2, <1>5, <3>1, <1>7, ChunkIs
      <4> HIDE DEF m, y, a
      <4> QED  BY <1>5, <1>6, <3>1, <4>1
    <3>2. CASE a \in {"rows", "cols"}  BY <1>5, <1>6, <3>2
    <3>3. CASE a = "vector"  BY <1>5, <1>6, <1>7, <3>3
    <3> QED  BY <2>1, <2>3, <3>1, <3>2, <3>3
  <2>4. ASSUME a = "chunk" PROVE m.size \in Nat /\ m.size <= y /\ op.tag # "bcast"
    <3> DEFINE w == ChunkSize(input.rows, input.cols, r)
               l == input.rows * input.cols
    <3>1. w \in Nat
      <4>1. r \in Nat /\ w = RowsOf(input.rows, r) * input.cols  BY <1>1, <1>7, InputIs, ChunkSizeIs
      <4>2. RowsOf(input.rows, r) \in Nat  BY <1>7, <4>1, RowsBeforeStep
      <4> HIDE DEF w
      <4> QED  BY <1>7, <4>1, <4>2
    <3>2. l \in Nat  BY <1>7
    <3>3. m.size = w * 4 /\ y = l * 4 /\ w <= l  BY <1>5, <1>6, <2>4
    <3>4. op.tag = "scatterv"  BY <1>1, <1>4, <2>4, PlannedIs
    <3> HIDE DEF w, l, m, y
    <3> QED  BY <3>1, <3>2, <3>3, <3>4
  <2> HIDE DEF m, y, a
  <2>5. CASE a # "chunk"  BY <1>3, <2>2, <2>3, <2>5
  <2>6. CASE a = "chunk"
    <3>1. ~(m.size > y)
      <4>1. \E z \in Nat : y = z * 4  BY <1>6, <1>7, <2>6
      <4> QED  BY <2>4, <2>6, <4>1
    <3> QED  BY <1>3, <2>2, <2>4, <2>6, <3>1
  <2> QED  BY <2>5, <2>6
<1>9. ASSUME a = "barrier"
      PROVE  /\ Faulty(r, op.peer) => Split(input)
             /\ op.tag = "bcast" => \/ Faulty(r, op.peer)
                                    \/ all /\ ~Exempt(input, op.peer, r, "barrier", "bcast")
  <2> DEFINE b == Meant(input, op.peer, r, a, op.tag)
             C == Content(input, op.peer, r, b, op.tag)
  <2>1. /\ m.size = IF b = "barrier" /\ op.tag = "bcast" THEN 1 ELSE Len(C) * 4
        /\ b = "barrier" /\ op.tag = "bcast" => m.error \/ all
    <3>1. /\ m = [data |-> C, error |-> m.error,
                  size |-> IF b = "barrier" /\ op.tag = "bcast" THEN 1 ELSE Len(C) * IntegerBytes]
          /\ b = "barrier" /\ op.tag = "bcast" => m.error \/ all
      BY <1>2 DEF GotOK, Right
    <3> QED  BY <3>1 DEF IntegerBytes
  <2>2. CASE op.tag = "barrier"
    <3>1. b = "barrier"  BY <1>9, <2>2 DEF Meant, Exempt
    <3>2. Len(C) = 0  BY <2>2, <3>1 DEF Content
    <3>3. m.size = 0 /\ y = 0  BY <1>6, <1>9, <2>1, <2>2, <3>2
    <3> HIDE DEF m, y
    <3>4. ~Faulty(r, op.peer) \/ m.error  BY <1>3, <2>2, <3>3
    <3> QED  BY <1>5, <2>2, <3>4
  <2>3. CASE op.tag = "bcast" /\ ~Exempt(input, op.peer, r, "barrier", "bcast")
    <3>1. b = "barrier"  BY <1>9, <2>3 DEF Meant
    <3>2. m.size = 1 /\ y = 1  BY <1>6, <1>9, <2>1, <2>3, <3>1
    <3>3. m.error \/ all  BY <2>1, <2>3, <3>1
    <3> HIDE DEF m, y
    <3>4. Faulty(r, op.peer) <=> m.error  BY <1>3, <3>2
    <3> QED  BY <1>5, <2>3, <3>3, <3>4
  <2>4. CASE op.tag = "bcast" /\ Exempt(input, op.peer, r, "barrier", "bcast")
    <3>1. b = "vector"  BY <1>9, <2>4 DEF Meant
    <3>2. Len(C) = input.cols
      <4>1. C = Vector(input)  BY <3>1 DEF Content
      <4> HIDE DEF C
      <4> QED  BY <1>1, <4>1, VectorIs
    <3>3. m.size = input.cols * 4 /\ y = 1
      <4>1. m.size = Len(C) * 4  BY <2>1, <3>1
      <4> HIDE DEF C, m, y
      <4> QED  BY <1>6, <1>9, <2>4, <3>2, <4>1
    <3>4. Faulty(r, op.peer)
      <4> HIDE DEF m, y
      <4> QED  BY <1>3, <1>7, <2>4, <3>3
    <3>5. Split(input)
      <4>1. op.peer < input.rows /\ input.rows <= r  BY <2>4 DEF Exempt
      <4>2. ReleaseOp(input, r, op)  BY <1>1, <1>4, <1>9, <2>4, PlannedIs
      <4>3. input.node[op.peer] = input.node[r]  BY <1>1, <4>2, ReleaseOpIs
      <4> QED  BY <1>2, <4>1, <4>3 DEF Split
    <3> QED  BY <3>4, <3>5
  <2> QED  BY <1>6, <1>9, <2>2, <2>3, <2>4
<1>10. Faulty(r, op.peer) \in BOOLEAN  BY DEF Faulty
<1> QED  BY <1>8, <1>9, <1>10

ProgramShape ==
  /\ memory = [r \in Process |-> memory[r]] /\ errflag = [r \in Process |-> errflag[r]]
  /\ fate \in [Process -> Failed \union {"running", "killed"}]

\* From memory m, with the messages from F in stage a, to memory y.
Stored(i, r, a, F, m, y) ==
  /\ y \in MemoryType
  /\ y.rows = IF a = "rows" /\ F # {} THEN i.rows ELSE m.rows
  /\ y.cols = IF a = "cols" /\ F # {} THEN i.cols ELSE m.cols
  /\ y.chunk = IF a = "chunk" /\ F # {} THEN ChunkOf(i, r) ELSE m.chunk
  /\ y.vector = IF a = "vector" /\ F # {} THEN Vector(i) ELSE m.vector
  /\ \A p \in Process :
       y.products[p] = IF a = "products" /\ p \in F THEN ProductsOf(i, p) ELSE m.products[p]

From(r) == {p \in Process : <<"recv", p>> \in Pending(r)}

LEMMA WaitsHere ==
  ASSUME CommInv, NEW r \in Process, InOperation(r, "wait")
  PROVE  /\ step[r] \in DOMAIN Plan(input, r, stage[r])
         /\ Plan(input, r, stage[r])[step[r]] = Wait
         /\ Operations(r) = Plan(input, r, stage[r])
         /\ stage[r] \in {"rows", "cols", "chunk", "vector", "products", "barrier"}
<1> DEFINE s == Plan(input, r, stage[r])
<1>1. Operations(r) = s /\ Orderly(s) /\ stage[r] \in Stage  BY Basics
<1>2. step[r] \in DOMAIN s /\ s[step[r]].kind = "wait"  BY <1>1 DEF InOperation
<1>3. s[step[r]] \in Operation  BY <1>1, <1>2 DEF Orderly
<1>4. s[step[r]] = Wait  BY <1>2, <1>3 DEF Operation, Wait
<1>5. stage[r] \notin {"files", "done"}
  <2>1. stage[r] \in {"files", "done"} => s = <<>>  BY DEF Plan
  <2> HIDE DEF s
  <2> QED  BY <1>2, <2>1
<1> QED  BY <1>1, <1>2, <1>4, <1>5 DEF Stage

\* What came from p was waited for.
LEMMA FromIs ==
  ASSUME CommInv, NEW r \in Process, InOperation(r, "wait"), AllComplete(r),
         NEW p \in From(r)
  PROVE  \E op : /\ Completes(r, op) /\ op.peer = p
                 /\ Delivers(input, r, stage[r], op, request[r][<<"recv", p>>].payload)
<1>1. /\ input \in Input /\ stage[r] \in Stage
      /\ Asked(Plan(input, r, stage[r]), step[r], request[r])
  BY Basics
<1>2. p \in Process /\ request[r][<<"recv", p>>] # None  BY DEF From, Pending
<1>3. PICK op : /\ Open(Plan(input, r, stage[r]), step[r], op)
                /\ op.kind = "irecv" /\ op.peer = p
  BY <1>1, <1>2 DEF Asked
<1>4. Completes(r, op)  BY <1>3, WaitsHere DEF Completes
<1> DEFINE m == request[r][<<"recv", op.peer>>].payload
           all == AllEntered(stage)
<1>5. GotOK(input, all, r, stage[r], op, m)  BY <1>4, Gathered
<1>6. Delivers(input, r, stage[r], op, m)
  <2> HIDE DEF m, all
  <2> QED  BY <1>1, <1>5, GotContent
<1> QED  BY <1>3, <1>4, <1>6

LEMMA MemoryAfter ==
  ASSUME CommInv, ProgramShape, NEW r \in Process, WaitDone(r)
  PROVE  /\ Stored(input, r, stage[r], From(r), memory[r], memory'[r])
         /\ memory' = [q \in Process |-> memory'[q]]
         /\ \A q \in Process \ {r} : memory'[q] = memory[q]
<1> DEFINE a == stage[r]
           F == From(r)
           data == [p \in F |-> request[r][<<"recv", p>>].payload.data]
           only == data[CHOOSE p \in F : TRUE]
           m == memory[r]
<1>1. /\ InOperation(r, "wait") /\ AllComplete(r)  BY DEF WaitDone, Release
<1>2. a \in {"rows", "cols", "chunk", "vector", "products", "barrier"}  BY <1>1, WaitsHere
<1>3. input \in Input /\ m \in MemoryType  BY Basics DEF Remembers
<1>4. input.rows \in Nat /\ input.cols \in Nat  BY <1>3, InputIs
<1>5. ASSUME NEW p \in F
      PROVE  /\ a = "rows" => data[p] = <<input.rows>>
             /\ a = "cols" => data[p] = <<input.cols>>
             /\ a = "chunk" => data[p] = ChunkOf(input, r) /\ input.cols > 0
             /\ a = "vector" => data[p] = Vector(input)
             /\ a = "products" => data[p] = ProductsOf(input, p) /\ input.cols > 0
  <2>1. PICK op : /\ op.peer = p
                  /\ Delivers(input, r, a, op, request[r][<<"recv", p>>].payload)
    BY <1>1, FromIs
  <2>2. data[p] = request[r][<<"recv", p>>].payload.data  OBVIOUS
  <2> QED  BY <2>1, <2>2 DEF Delivers
<1>6. memory' =
        IF F = {} \/ a = "barrier" THEN memory
        ELSE CASE a = "rows" -> [memory EXCEPT ![r].rows = only[1]]
               [] a = "cols" -> [memory EXCEPT ![r].cols = only[1]]
               [] a = "chunk" -> [memory EXCEPT ![r].chunk = only]
               [] a = "vector" -> [memory EXCEPT ![r].vector = only]
               [] a = "products" ->
                    [memory EXCEPT ![r].products =
                       [p \in Process |-> IF p \in F THEN data[p] ELSE @[p]]]
  BY Zenon DEF WaitDone, From
<1>7. F # {} => (CHOOSE p \in F : TRUE) \in F  OBVIOUS
<1>8. F # {} => /\ a = "rows" => only = <<input.rows>>
                /\ a = "cols" => only = <<input.cols>>
                /\ a = "chunk" => only = ChunkOf(input, r) /\ input.cols > 0
                /\ a = "vector" => only = Vector(input)
  <2> DEFINE p == CHOOSE q \in F : TRUE
  <2>1. F # {} => p \in F  BY <1>7
  <2> HIDE DEF p, data, F
  <2> QED  BY <1>5, <2>1 DEF p
<1>9. memory = [q \in Process |-> memory[q]]  BY DEF ProgramShape
<1> HIDE DEF only, F
<1>10. CASE F = {} \/ a = "barrier"
  BY <1>2, <1>3, <1>6, <1>9, <1>10 DEF Stored, F
<1>11. CASE F # {} /\ a = "rows"
  <2>1. memory' = [memory EXCEPT ![r].rows = input.rows]
    <3>1. only[1] = input.rows
      <4>1. only = <<input.rows>>  BY <1>8, <1>11
      <4> QED  BY <4>1
    <3>2. memory' = [memory EXCEPT ![r].rows = only[1]]  BY <1>6, <1>11
    <3> QED  BY <3>1, <3>2
  <2>2. memory'[r] = [m EXCEPT !.rows = input.rows]  BY <1>9, <2>1
  <2>3. Stored(input, r, a, F, m, memory'[r])
    BY <1>3, <1>4, <1>11, <2>2 DEF Stored, MemoryType
  <2> QED  BY <1>9, <2>1, <2>3 DEF F
<1>12. CASE F # {} /\ a = "cols"
  <2>1. memory' = [memory EXCEPT ![r].cols = input.cols]
    <3>1. only[1] = input.cols
      <4>1. only = <<input.cols>>  BY <1>8, <1>12
      <4> QED  BY <4>1
    <3>2. memory' = [memory EXCEPT ![r].cols = only[1]]  BY <1>6, <1>12
    <3> QED  BY <3>1, <3>2
  <2>2. memory'[r] = [m EXCEPT !.cols = input.cols]  BY <1>9, <2>1
  <2>3. Stored(input, r, a, F, m, memory'[r])
    BY <1>3, <1>4, <1>12, <2>2 DEF Stored, MemoryType
  <2> QED  BY <1>9, <2>1, <2>3 DEF F
<1>13. CASE F # {} /\ a = "chunk"
  <2>1. memory' = [memory EXCEPT ![r].chunk = ChunkOf(input, r)]  BY <1>6, <1>8, <1>13
  <2>2. memory'[r] = [m EXCEPT !.chunk = ChunkOf(input, r)]  BY <1>9, <2>1
  <2>3. ChunkOf(input, r) \in Sequence  BY <1>3, <1>8, <1>13, ChunkIs DEF Sequence
  <2>4. Stored(input, r, a, F, m, memory'[r])
    BY <1>3, <1>13, <2>2, <2>3 DEF Stored, MemoryType
  <2> QED  BY <1>9, <2>1, <2>4 DEF F
<1>14. CASE F # {} /\ a = "vector"
  <2>1. memory' = [memory EXCEPT ![r].vector = Vector(input)]  BY <1>6, <1>8, <1>14
  <2>2. memory'[r] = [m EXCEPT !.vector = Vector(input)]  BY <1>9, <2>1
  <2>3. Vector(input) \in Sequence  BY <1>3, VectorIs DEF Sequence
  <2>4. Stored(input, r, a, F, m, memory'[r])
    BY <1>3, <1>14, <2>2, <2>3 DEF Stored, MemoryType
  <2> QED  BY <1>9, <2>1, <2>4 DEF F
<1>15. CASE F # {} /\ a = "products"
  <2> DEFINE y == [p \in Process |-> IF p \in F THEN data[p] ELSE m.products[p]]
  <2>1. memory' = [memory EXCEPT ![r].products = y]  BY <1>6, <1>15
  <2>2. \A p \in F : data[p] = ProductsOf(input, p) /\ input.cols > 0  BY <1>5, <1>15
  <2> HIDE DEF data
  <2>3. ASSUME NEW p \in Process
        PROVE  /\ y[p] = IF p \in F THEN ProductsOf(input, p) ELSE m.products[p]
               /\ y[p] \in Sequence
    <3>1. CASE p \in F
      BY <1>3, <2>2, <3>1, ChunkIs DEF Sequence
    <3>2. CASE p \notin F
      BY <1>3, <3>2 DEF MemoryType
    <3> QED  BY <3>1, <3>2
  <2>4. y \in [Process -> Sequence]  BY <2>3
  <2> HIDE DEF y
  <2>5. memory'[r] = [m EXCEPT !.products = y]  BY <1>9, <2>1
  <2>6. Stored(input, r, a, F, m, memory'[r])
    BY <1>3, <1>15, <2>3, <2>4, <2>5 DEF Stored, MemoryType
  <2> QED  BY <1>9, <2>1, <2>6 DEF F
<1> QED  BY <1>2, <1>10, <1>11, <1>12, <1>13, <1>14, <1>15

\* The error flag of a rank that has waited, before and after.
Tells(i, all, r, a, n, F, x, z) ==
  /\ z \in BOOLEAN /\ (x => z) /\ (z => x \/ (a = "barrier" /\ Split(i)))
  /\ \A op : Open(Plan(i, r, a), n, op) /\ op.kind = "irecv" =>
       /\ op.peer \in F
       /\ a = "barrier" /\ op.tag = "bcast" =>
            z \/ (all /\ ~Exempt(i, op.peer, r, "barrier", "bcast"))

LEMMA StoredRemembers ==
  ASSUME NEW i \in Input, NEW all, NEW r \in Process, NEW a \in Stage,
         NEW n \in DOMAIN Plan(i, r, a), Plan(i, r, a)[n] = Wait,
         NEW m, NEW x, Remembers(i, all, r, a, n, m, x),
         NEW F, NEW y, Stored(i, r, a, F, m, y),
         NEW z, Tells(i, all, r, a, n, F, x, z)
  PROVE  Remembers(i, all, r, a, n + 1, y, z)
<1> DEFINE s == Plan(i, r, a)
<1>1. y \in MemoryType /\ z \in BOOLEAN  BY DEF Stored, Tells
<1>2. z => a = "barrier" /\ Split(i)  BY DEF Tells, Remembers
<1>3. ASSUME NEW b, NEW op, Waited(i, r, a, n + 1, b, op)
      PROVE  Absorbed(i, all, r, y, z, b, op)
  <2>1. Waited(i, r, a, n, b, op) \/ (b = a /\ op.kind = "irecv" /\ Open(s, n, op))
    BY <1>3, WaitedSteps
  <2>2. op.peer \in Process
    <3>1. Planned(i, r, b, op)  BY <1>3 DEF Waited
    <3>2. b \in Stage
      <4>1. b \notin Stage => Plan(i, r, b) = <<>>  BY DEF Stage, Plan
      <4>2. Has(Plan(i, r, b), op)  BY <3>1 DEF Planned
      <4> QED  BY <4>1, <4>2 DEF Has
    <3> QED  BY <3>1, <3>2, PlannedIs
  <2>3. CASE Waited(i, r, a, n, b, op)
    <3>1. Absorbed(i, all, r, m, x, b, op)  BY <2>3 DEF Remembers
    <3> QED  BY <2>2, <3>1 DEF Absorbed, Stored, Tells
  <2>4. CASE b = a /\ op.kind = "irecv" /\ Open(s, n, op)
    <3>1. op.peer \in F  BY <2>4 DEF Tells
    <3>2. a = "barrier" /\ op.tag = "bcast" =>
            z \/ (all /\ ~Exempt(i, op.peer, r, "barrier", "bcast"))
      BY <2>4 DEF Tells
    <3> QED  BY <2>2, <2>4, <3>1, <3>2 DEF Absorbed, Stored
  <2> QED  BY <2>1, <2>3, <2>4
<1>4. Own(i, r, a, y)
  <2>1. Own(i, r, a, m)  BY DEF Remembers
  <2> QED  BY <2>1 DEF Own, Stored
<1> QED  BY <1>1, <1>2, <1>3, <1>4 DEF Remembers

LEMMA FlagAfter ==
  ASSUME CommInv, ProgramShape, NEW r \in Process, WaitDone(r)
  PROVE  /\ Tells(input, AllEntered(stage), r, stage[r], step[r], From(r),
                  errflag[r], errflag'[r])
         /\ errflag' = [q \in Process |-> errflag'[q]]
         /\ \A q \in Process \ {r} : errflag'[q] = errflag[q]
<1> DEFINE s == Plan(input, r, stage[r])
           n == step[r]
<1>1. InOperation(r, "wait") /\ AllComplete(r)  BY DEF WaitDone, Release
<1>2. errflag' = [errflag EXCEPT ![r] = @ \/ \E p \in From(r) : Faulty(r, p)]
  BY DEF WaitDone, From
<1>3. errflag = [q \in Process |-> errflag[q]]  BY DEF ProgramShape
<1>4. errflag'[r] = (errflag[r] \/ \E p \in From(r) : Faulty(r, p))
  BY <1>2, <1>3
<1>5. errflag[r] \in BOOLEAN  BY Basics DEF Remembers
<1>6. ASSUME NEW op, Open(s, n, op), op.kind = "irecv"
      PROVE  /\ op.peer \in From(r)
             /\ stage[r] = "barrier" /\ op.tag = "bcast" =>
                  \/ Faulty(r, op.peer)
                  \/ AllEntered(stage) /\ ~Exempt(input, op.peer, r, "barrier", "bcast")
  <2>1. Completes(r, op)  BY <1>1, <1>6, WaitsHere DEF Completes
  <2>2. op.peer \in From(r)  BY <2>1, Gathered DEF From
  <2> QED  BY <2>1, <2>2, FaultMeans
<1>7. ASSUME NEW p \in From(r), Faulty(r, p)
      PROVE  stage[r] = "barrier" /\ Split(input)
  <2>1. PICK op : Completes(r, op) /\ op.peer = p  BY <1>1, FromIs
  <2> QED  BY <1>7, <2>1, FaultMeans
<1>8. Tells(input, AllEntered(stage), r, stage[r], n, From(r), errflag[r], errflag'[r])
  <2>1. errflag'[r] \in BOOLEAN  BY <1>4, <1>5
  <2>2. errflag'[r] => errflag[r] \/ (stage[r] = "barrier" /\ Split(input))
    BY <1>4, <1>7
  <2>3. errflag[r] => errflag'[r]  BY <1>4
  <2>4. \A p \in From(r) : Faulty(r, p) => errflag'[r]  BY <1>4
  <2> QED  BY <1>6, <2>1, <2>2, <2>3, <2>4 DEF Tells
<1> QED  BY <1>2, <1>3, <1>8

LEMMA NothingPosted ==
  ASSUME CommInv, NEW r \in Process, \A h \in Handle : request[r][h].state # "posted"
  PROVE  posted[r] = <<>>
<1>1. Shaped(channel, posted, unexpected) /\ Sound(Family(channel, posted, unexpected), request)
      /\ Rank = Process
  BY Basics
<1>2. \E S : posted[r] \in Seq(S)
  <2> DEFINE Q == Family(channel, posted, unexpected)
  <2>1. Posted(r) \in Place /\ Q[Posted(r)] = posted[r]  BY <1>1, Parts
  <2>2. IsFamily(Q)  BY <1>1 DEF Sound
  <2> HIDE DEF Q
  <2>3. \E S : Q[Posted(r)] \in Seq(S)  BY <2>1, <2>2 DEF IsFamily
  <2> QED  BY <2>1, <2>3
<1>3. ASSUME NEW k \in DOMAIN posted[r] PROVE FALSE
  <2>1. PICK p \in Process, t \in OperationTag, c \in Communicator :
          Waiting(input, stage, step, request, r, IRecv(p, t, c))
    BY PostedIs
  <2>2. request[r][<<"recv", p>>].state = "posted"  BY <2>1, OpFields DEF Waiting
  <2> QED  BY <2>2, HandlesAre
<1>4. Len(posted[r]) = 0
  <2>1. Len(posted[r]) # 0 => 1 \in DOMAIN posted[r]  BY <1>2
  <2> QED  BY <1>3, <2>1
<1> QED  BY <1>2, <1>4

\* What the release of its requests means for rank r.
LEMMA ReleaseMeans ==
  ASSUME CommInv, NEW r \in Process, WaitDone(r), NEW new, new = request'
  PROVE  /\ Unused(new[r]) /\ RequestShape(new) /\ Renewed(request, new, r, new[r])
         /\ \A h \in Handle : request[r][h].state # "posted" /\ request[r][h].state # "sending"
         /\ posted[r] = <<>>
         /\ Further(step, step', r)
         /\ UNCHANGED <<channel, posted, unexpected, input, stage>>
<1>1. /\ InOperation(r, "wait") /\ AllComplete(r) /\ Further(step, step', r)
      /\ request' = [request EXCEPT ![r] = [h \in Handle |-> None]]
      /\ UNCHANGED <<channel, posted, unexpected, input, stage>>
  BY DEF WaitDone, Release, Further
<1>2. RequestShape(request) /\ Rank = Process  BY Basics
<1>3. Unused(new[r]) /\ RequestShape(new) /\ Renewed(request, new, r, new[r])
  <2>1. request = [a \in Rank |-> [h \in Handle |-> request[a][h]]]  BY <1>2 DEF RequestShape
  <2>2. new[r] = [h \in Handle |-> None] /\ \A q \in Process \ {r} : new[q] = request[q]
    BY <1>1, <1>2, <2>1
  <2>3. new = [a \in Rank |-> [h \in Handle |-> new[a][h]]]
    BY <1>1, <1>2, <2>1, <2>2
  <2> QED  BY <2>2, <2>3 DEF Unused, Renewed, RequestShape
<1>4. ASSUME NEW h \in Handle
      PROVE  request[r][h].state # "posted" /\ request[r][h].state # "sending"
  <2>1. CASE request[r][h] = None  BY <2>1 DEF None
  <2>2. CASE request[r][h] # None
    <3>1. request[r][h].state = "complete"  BY <1>1, <2>2 DEF AllComplete, Pending
    <3> QED  BY <3>1
  <2> QED  BY <2>1, <2>2
<1>5. posted[r] = <<>>  BY <1>4, NothingPosted
<1> QED  BY <1>1, <1>3, <1>4, <1>5

\* Requests of rank r that nothing names are released.
LEMMA ReleasedKept ==
  ASSUME NEW st, NEW req, NEW Q, Sound(Q, req), Rank = Process, NEW r \in Process,
         \A h \in Handle : req[r][h].state # "sending",
         NEW new, Renewed(req, new, r, new[r])
  PROVE  Kept(Q, st, st, req, new)
<1>1. ASSUME NEW a \in Process, NEW p \in Process
      PROVE  \/ SendFree(Q, <<a, <<"send", p>>>>)
             \/ new[a][<<"send", p>>].payload = req[a][<<"send", p>>].payload
  <2>1. CASE a # r  BY <2>1 DEF Renewed
  <2>2. CASE a = r
    <3>1. <<"send", p>> \in Handle  BY HandlesAre
    <3>2. req[r][<<"send", p>>].state # "sending"  BY <3>1
    <3> QED  BY <2>2, <3>1, <3>2, NotNamed
  <2> QED  BY <2>1, <2>2
<1> QED  BY <1>1 DEF Kept, SendsKept, StagesKept

LEMMA DidWait ==
  ASSUME NEW i \in Input, NEW st, NEW sp, NEW req, Standing(i, st, sp, req),
         NEW r \in Process, NEW tp, Further(sp, tp, r),
         sp[r] \in DOMAIN Plan(i, r, st[r]), Plan(i, r, st[r])[sp[r]] = Wait
  PROVE  DidOf(i, st, tp) = DidOf(i, st, sp)
<1> DEFINE a == st[r]
           s == Plan(i, r, a)
           op == s[sp[r]]
<1>1. /\ op # Wait =>
           /\ Planned(i, r, a, op) /\ <<r, a, op>> \notin DidOf(i, st, sp)
           /\ DidOf(i, st, tp) = DidOf(i, st, sp) \union {<<r, a, op>>}
      /\ op = Wait => DidOf(i, st, tp) = DidOf(i, st, sp)
  <2>1. s = Plan(i, r, a) /\ op = s[sp[r]] /\ a = st[r] /\ sp[r] \in DOMAIN s
    OBVIOUS
  <2> HIDE DEF op, s, a
  <2> QED  BY <2>1, DidStep
<1> QED  BY <1>1

LEMMA WaitDoneKeeps ==
  ASSUME CommInv, ProgramShape, NEW r \in Process, WaitDone(r)
  PROVE  FlowInv' /\ RanksInv' /\ ProgramShape'
<1> DEFINE new == request'
           tp == step'
           s == Plan(input, r, stage[r])
           n == step[r]
           Q == Family(channel, posted, unexpected)
<1>1. /\ input \in Input /\ Rank = Process /\ Sound(Q, request)
      /\ Orderly(s) /\ Asked(s, n, request[r]) /\ n \in Nat
  BY Basics
<1>2. /\ Unused(new[r]) /\ RequestShape(new) /\ Renewed(request, new, r, new[r])
      /\ \A h \in Handle : request[r][h].state # "posted" /\ request[r][h].state # "sending"
      /\ posted[r] = <<>>
      /\ Further(step, tp, r)
      /\ UNCHANGED <<channel, posted, unexpected, input, stage>>
  <2> HIDE DEF new
  <2>1. new = request'  BY DEF new
  <2> QED  BY <2>1, ReleaseMeans
<1>3. n \in DOMAIN s /\ s[n] = Wait
  BY WaitsHere DEF WaitDone
<1>4. Standing(input, stage, step, request) /\ Flow(input, stage, step, request, Q)
  BY HoldsNow
<1>5. Standing(input, stage, tp, new)
  <2> DEFINE rr == new[r]
  <2>1. Asked(s, n + 1, rr)  BY <1>1, <1>2, <1>3, AskWait
  <2>2. Renewed(request, new, r, rr)  BY <1>2
  <2> HIDE DEF new, tp, rr
  <2> QED  BY <1>1, <1>2, <1>3, <1>4, <2>1, <2>2, StandStep
<1>6. WaitOf(input, stage, tp, new) = WaitOf(input, stage, step, request)
  <2>1. \A q \in Process \ {r} : new[q] = request[q]  BY <1>2 DEF Renewed
  <2>2. \A h \in Handle : request[r][h].state # "posted"  BY <1>2
  <2> HIDE DEF new, tp
  <2> QED  BY <1>1, <1>2, <1>3, <1>4, <1>5, <2>1, <2>2, WaitWait
<1>7. DidOf(input, stage, tp) = DidOf(input, stage, step)
  <2> HIDE DEF tp
  <2> QED  BY <1>1, <1>2, <1>3, <1>4, DidWait
<1>8. Kept(Q, stage, stage, request, new)
  <2>1. \A h \in Handle : request[r][h].state # "sending"  BY <1>2
  <2> HIDE DEF new, Q
  <2> QED  BY <1>1, <1>2, <2>1, ReleasedKept
<1>9. Flow(input, stage, tp, new, Q)
  <2> HIDE DEF new, tp, Q
  <2> QED  BY <1>4, <1>6, <1>7, <1>8, FlowSame
<1>10. FlowInv'
  <2>1. Family(channel', posted', unexpected') = Q /\ input' = input /\ stage' = stage
    BY <1>2
  <2> QED  BY <1>5, <1>9, <2>1 DEF FlowInv
<1>11. tp[r] = n + 1 /\ \A q \in Process \ {r} : tp[q] = step[q]
  <2>1. step = [q \in Process |-> step[q]]  BY <1>4 DEF Standing
  <2> HIDE DEF tp
  <2> QED  BY <1>2, <2>1 DEF Further
<1>12. \A op : ~Open(s, n + 1, op)  BY <1>1, <1>3, StepsOn
<1>13. RequestsOK(input, AllEntered(stage), r, stage[r], n + 1, new[r])
  <2>1. \A p \in Process : new[r][<<"send", p>>] = None
    BY <1>2, HandlesAre DEF Unused
  <2> QED  BY <1>12, <2>1 DEF RequestsOK
<1>14. PostedOK(input, r, stage[r], n + 1, posted[r])
  BY <1>2 DEF PostedOK
<1>15. Remembers(input, AllEntered(stage), r, stage[r], n + 1, memory'[r], errflag'[r])
  <2> DEFINE all == AllEntered(stage)
             y == memory'[r]
             z == errflag'[r]
             F == From(r)
  <2>1. Remembers(input, all, r, stage[r], n, memory[r], errflag[r])  BY Basics
  <2>2. Stored(input, r, stage[r], F, memory[r], y)  BY MemoryAfter
  <2>3. Tells(input, all, r, stage[r], n, F, errflag[r], z)  BY FlagAfter
  <2>4. stage[r] \in Stage  BY Basics
  <2> HIDE DEF all, y, z, F
  <2>5. Remembers(input, all, r, stage[r], n + 1, y, z)
    BY <1>1, <1>3, <2>1, <2>2, <2>3, <2>4, StoredRemembers
  <2> QED  BY <2>5 DEF all, y, z
<1>16. HoldsOK(r)'
  <2>1. RankOK(input, AllEntered(stage), r, stage[r], n + 1, new[r], posted[r],
               memory'[r], errflag'[r])
    BY <1>13, <1>14, <1>15 DEF RankOK
  <2> QED  BY <1>2, <1>11, <2>1 DEF HoldsOK
<1>17. RanksInv'
  <2>1. \A q \in Process \ {r} :
          /\ stage'[q] = stage[q] /\ step'[q] = step[q] /\ request'[q] = request[q]
          /\ posted'[q] = posted[q] /\ memory'[q] = memory[q] /\ errflag'[q] = errflag[q]
    <3>1. \A q \in Process \ {r} : request'[q] = request[q]  BY <1>2 DEF Renewed
    <3>2. \A q \in Process \ {r} : memory'[q] = memory[q] /\ errflag'[q] = errflag[q]
      BY MemoryAfter, FlagAfter
    <3> QED  BY <1>2, <1>11, <3>1, <3>2
  <2>2. AllEntered(stage) => AllEntered(stage')  BY <1>2
  <2> QED  BY <1>2, <1>16, <2>1, <2>2, OthersHold
<1>18. ProgramShape'
  <2>1. fate' = fate  BY DEF WaitDone
  <2>2. memory' = [q \in Process |-> memory'[q]]  BY MemoryAfter
  <2>3. errflag' = [q \in Process |-> errflag'[q]]  BY FlagAfter
  <2> QED  BY <2>1, <2>2, <2>3 DEF ProgramShape
<1> QED  BY <1>10, <1>17, <1>18

-----------------------------------------------------------------------------
(* The code of main between two collectives.                               *)

\* Rank r, at the end of what it does in a stage, goes on to stage b.
Goes(r, b) ==
  /\ step[r] > Len(Plan(input, r, stage[r]))
  /\ StageNo(stage[r]) < StageNo(b) /\ b \in Stage /\ Joins(input, r, b)
  /\ \A c \in Stage : StageNo(stage[r]) < StageNo(c) /\ StageNo(c) < StageNo(b)
       => ~Joins(input, r, c)
  /\ Enter(r, b)

LEMMA GoesFlow ==
  ASSUME CommInv, NEW r \in Process, NEW b, Goes(r, b),
         NEW ut, NEW tp, ut = stage', tp = step'
  PROVE  /\ FlowInv' /\ Moved(stage, ut, step, tp, r, b)
         /\ Unused(request[r]) /\ posted[r] = <<>>
         /\ AllEntered(stage) => AllEntered(ut)
<1> DEFINE s == Plan(input, r, stage[r])
           n == step[r]
           Q == Family(channel, posted, unexpected)
<1>1. /\ input \in Input /\ Rank = Process /\ Sound(Q, request)
      /\ Orderly(s) /\ Asked(s, n, request[r]) /\ n \in Nat /\ stage[r] \in Stage
  BY Basics
<1>2. Moved(stage, ut, step, tp, r, b)  BY DEF Goes, Enter, Moved
<1>3. UNCHANGED <<channel, posted, unexpected, request, input>>
  BY DEF Goes, Enter, queueVars
<1>4. Unused(request[r])
  <2>1. n > Len(s)  BY DEF Goes
  <2> HIDE DEF s, n
  <2> QED  BY <1>1, <2>1, Idle
<1>5. \A h \in Handle : /\ request[r][h].state # "posted"
                        /\ request[r][h].state \notin {"posted", "cleared"}
  BY <1>4 DEF Unused, None
<1>6. posted[r] = <<>>  BY <1>5, NothingPosted
<1>7. Standing(input, stage, step, request) /\ Flow(input, stage, step, request, Q)
  BY HoldsNow
<1>8. Standing(input, ut, tp, request)
  <2>1. b \in Stage /\ Joins(input, r, b)  BY DEF Goes
  <2> QED  BY <1>1, <1>2, <1>4, <1>7, <2>1, StandMove
<1>9. DidOf(input, ut, tp) = DidOf(input, stage, step)
  <2>1. /\ b \in Stage /\ step[r] > Len(Plan(input, r, stage[r]))
        /\ StageNo(stage[r]) < StageNo(b)
        /\ \A c \in Stage : StageNo(stage[r]) < StageNo(c) /\ StageNo(c) < StageNo(b)
             => ~Joins(input, r, c)
    BY DEF Goes
  <2> QED  BY <1>1, <1>2, <1>7, <2>1, DidEnter
<1>10. /\ \A q \in Process \ {r} : ut[q] = stage[q] /\ tp[q] = step[q]
       /\ ut[r] = b /\ tp[r] = 1
  <2>1. stage = [q \in Process |-> stage[q]] /\ step = [q \in Process |-> step[q]]
    BY <1>7 DEF Standing
  <2> QED  BY <1>2, <2>1 DEF Moved
<1>11. WaitOf(input, ut, tp, request) = WaitOf(input, stage, step, request)
  <2>1. ASSUME NEW q \in Process, NEW e
        PROVE  /\ Waiting(input, ut, tp, request, q, e)
                    <=> Waiting(input, stage, step, request, q, e)
               /\ Waiting(input, stage, step, request, q, e) => ut[q] = stage[q]
    <3>1. CASE q # r  BY <1>10, <3>1 DEF Waiting
    <3>2. CASE q = r
      <4>1. ~Waiting(input, ut, tp, request, r, e)
        <5>1. Orderly(Plan(input, r, b))  BY <1>1, PlannedOperation DEF Goes
        <5>2. ~Open(Plan(input, r, b), 1, e)  BY <5>1, AtTheEnds
        <5> QED  BY <1>10, <5>2 DEF Waiting
      <4>2. ~Waiting(input, stage, step, request, r, e)
        <5>1. ASSUME Waiting(input, stage, step, request, r, e)
              PROVE  FALSE
          <6>1. /\ Open(Plan(input, r, stage[r]), step[r], e)
                /\ request[r][<<"recv", e.peer>>].state = "posted"
            BY <5>1 DEF Waiting
          <6>2. e.peer \in Process  BY <1>1, <1>7, <6>1, OpenIs
          <6>3. <<"recv", e.peer>> \in Handle  BY <6>2, HandlesAre
          <6> QED  BY <1>5, <6>1, <6>3
        <5> QED  BY <5>1
      <4> QED  BY <3>2, <4>1, <4>2
    <3> QED  BY <3>1, <3>2
  <2> QED  BY <1>1, <1>7, <1>8, <2>1, SameWaits
<1>12. AllEntered(stage) => AllEntered(ut)
  <2>1. ASSUME AllEntered(stage) PROVE AllEntered(ut)
    <3>1. stage[r] \in {"barrier", "done"}  BY <2>1 DEF AllEntered
    <3>2. b \in {"barrier", "done"}
      BY <3>1 DEF Goes, StageNo, Stage
    <3> QED  BY <1>10, <2>1, <3>2 DEF AllEntered
  <2> QED  BY <2>1
<1>13. Kept(Q, stage, ut, request, request)
  <2>1. SendsKept(Q, request, request)  BY DEF SendsKept
  <2>2. StagesKept(Q, stage, ut)
    <3>1. ASSUME NEW p \in Process PROVE ReceiveFree(Q, <<r, <<"recv", p>>>>)
      <4>1. <<"recv", p>> \in Handle  BY HandlesAre
      <4>2. request[r][<<"recv", p>>].state \notin {"posted", "cleared"}
        BY <1>5, <4>1
      <4> HIDE DEF Q
      <4> QED  BY <1>1, <4>1, <4>2, NotNamed
    <3> QED  BY <1>10, <3>1 DEF StagesKept
  <2> QED  BY <1>12, <2>1, <2>2 DEF Kept
<1>14. Flow(input, ut, tp, request, Q)
  <2> HIDE DEF Q
  <2> QED  BY <1>7, <1>9, <1>11, <1>13, FlowSame
<1>15. FlowInv'
  <2>1. /\ Family(channel', posted', unexpected') = Q /\ input' = input
        /\ request' = request /\ stage' = ut /\ step' = tp
    BY <1>3
  <2> QED  BY <1>8, <1>14, <2>1 DEF FlowInv
<1> QED  BY <1>2, <1>4, <1>6, <1>12, <1>15

LEMMA WaitedStage ==
  ASSUME NEW i \in Input, NEW r \in Process, NEW a, NEW n, NEW c, NEW op,
         Waited(i, r, a, n, c, op)
  PROVE  c \in Stage /\ op.kind = "irecv" /\ op.peer \in Process
         /\ Planned(i, r, c, op)
<1>1. Planned(i, r, c, op) /\ op.kind = "irecv"  BY DEF Waited
<1>2. c \in Stage
  <2>1. c \notin Stage => Plan(i, r, c) = <<>>  BY DEF Stage, Plan
  <2>2. Has(Plan(i, r, c), op)  BY <1>1 DEF Planned
  <2> QED  BY <2>1, <2>2 DEF Has
<1>3. op.peer \in Process  BY <1>1, <1>2, PlannedIs
<1> QED  BY <1>1, <1>2, <1>3

\* What rank r makes of its variables, y, between two stages.
Keeps(r, b, y) ==
  /\ y \in MemoryType /\ Own(input, r, b, y)
  /\ \A c, op : Waited(input, r, stage[r], step[r], c, op) =>
       Absorbed(input, AllEntered(stage), r, y, FALSE, c, op)

LEMMA GoesRemembers ==
  ASSUME NEW i \in Input, NEW all, NEW bll, all => bll, NEW r \in Process,
         NEW a \in Stage, NEW b \in Stage, NEW n \in Nat, n > Len(Plan(i, r, a)),
         StageNo(a) < StageNo(b),
         \A c \in Stage : StageNo(a) < StageNo(c) /\ StageNo(c) < StageNo(b)
           => ~Joins(i, r, c),
         NEW y \in MemoryType, Own(i, r, b, y),
         \A c, op : Waited(i, r, a, n, c, op) => Absorbed(i, all, r, y, FALSE, c, op)
  PROVE  Remembers(i, bll, r, b, 1, y, FALSE)
<1>1. ASSUME NEW c, NEW op, Waited(i, r, b, 1, c, op)
      PROVE  Absorbed(i, bll, r, y, FALSE, c, op)
  <2>1. c \in Stage  BY <1>1, WaitedStage
  <2>2. Waited(i, r, a, n, c, op)  BY <1>1, <2>1, WaitedMove
  <2>3. Absorbed(i, all, r, y, FALSE, c, op)  BY <2>2
  <2> QED  BY <2>3 DEF Absorbed
<1> QED  BY <1>1 DEF Remembers

LEMMA GoesKeeps ==
  ASSUME CommInv, NEW r \in Process, NEW b, Goes(r, b), errflag[r] = FALSE,
         Keeps(r, b, memory'[r]),
         \A q \in Process \ {r} : memory'[q] = memory[q]
  PROVE  FlowInv' /\ RanksInv'
<1> DEFINE ut == stage'
           tp == step'
           y == memory'[r]
           n == step[r]
<1>1. /\ FlowInv' /\ Moved(stage, ut, step, tp, r, b)
      /\ Unused(request[r]) /\ posted[r] = <<>>
      /\ AllEntered(stage) => AllEntered(ut)
  <2>1. ut = stage' /\ tp = step'  OBVIOUS
  <2> HIDE DEF ut, tp
  <2> QED  BY <2>1, GoesFlow
<1>2. input \in Input /\ stage[r] \in Stage /\ n \in Nat  BY Basics
<1>3. UNCHANGED <<channel, posted, unexpected, request, input, errflag>>
  BY DEF Goes, Enter, queueVars
<1>4. /\ \A q \in Process \ {r} : ut[q] = stage[q] /\ tp[q] = step[q]
      /\ ut[r] = b /\ tp[r] = 1
  <2>1. Standing(input, stage, step, request)  BY HoldsNow
  <2>2. stage = [q \in Process |-> stage[q]] /\ step = [q \in Process |-> step[q]]
    BY <2>1 DEF Standing
  <2> QED  BY <1>1, <2>2 DEF Moved
<1>5. Remembers(input, AllEntered(ut), r, b, 1, y, FALSE)
  <2> DEFINE all == AllEntered(stage)
             bll == AllEntered(ut)
  <2>1. all => bll  BY <1>1
  <2>2. /\ b \in Stage /\ n > Len(Plan(input, r, stage[r]))
        /\ StageNo(stage[r]) < StageNo(b)
        /\ \A c \in Stage : StageNo(stage[r]) < StageNo(c) /\ StageNo(c) < StageNo(b)
             => ~Joins(input, r, c)
    BY DEF Goes
  <2>3. /\ y \in MemoryType /\ Own(input, r, b, y)
        /\ \A c, op : Waited(input, r, stage[r], n, c, op) =>
             Absorbed(input, all, r, y, FALSE, c, op)
    BY DEF Keeps
  <2> HIDE DEF all, bll, y, n
  <2> QED  BY <1>2, <2>1, <2>2, <2>3, GoesRemembers DEF bll
<1>6. \A op : ~Open(Plan(input, r, b), 1, op)
  <2>1. Orderly(Plan(input, r, b))  BY <1>2, PlannedOperation DEF Goes
  <2> QED  BY <2>1, AtTheEnds
<1>7. RequestsOK(input, AllEntered(ut), r, b, 1, request[r])
  <2>1. \A p \in Process : request[r][<<"send", p>>] = None
    BY <1>1, HandlesAre DEF Unused
  <2> QED  BY <1>6, <2>1 DEF RequestsOK
<1>8. PostedOK(input, r, b, 1, posted[r])  BY <1>1 DEF PostedOK
<1>9. HoldsOK(r)'
  <2>1. RankOK(input, AllEntered(ut), r, b, 1, request[r], posted[r], y, FALSE)
    BY <1>5, <1>7, <1>8 DEF RankOK
  <2> QED  BY <1>3, <1>4, <2>1 DEF HoldsOK
<1>10. RanksInv'
  <2>1. \A q \in Process \ {r} :
          /\ stage'[q] = stage[q] /\ step'[q] = step[q] /\ request'[q] = request[q]
          /\ posted'[q] = posted[q] /\ memory'[q] = memory[q] /\ errflag'[q] = errflag[q]
    BY <1>3, <1>4
  <2> QED  BY <1>1, <1>3, <1>9, <2>1, OthersHold
<1> QED  BY <1>1, <1>10

\* What rank r knows when a stage is over.
LEMMA AtReturn ==
  ASSUME CommInv, NEW r \in Process, NEW a, Returned(r, a)
  PROVE  /\ a = stage[r] /\ a \in Stage /\ step[r] > Len(Plan(input, r, a))
         /\ step[r] \in Nat /\ input \in Input /\ errflag[r] = FALSE
         /\ Joins(input, r, a)
         /\ Remembers(input, AllEntered(stage), r, a, step[r], memory[r], FALSE)
         /\ memory[r] \in MemoryType /\ Own(input, r, a, memory[r])
         /\ StageNo(a) >= 2 => memory[r].rows = input.rows /\ memory[r].cols = input.cols
<1> DEFINE n == step[r]
           m == memory[r]
           all == AllEntered(stage)
<1>1. a = stage[r] /\ a \in Stage /\ n > Len(Plan(input, r, a)) /\ ~errflag[r]
      /\ n \in Nat /\ input \in Input /\ Joins(input, r, a)
  BY Basics DEF Returned
<1>2. Remembers(input, all, r, a, n, m, errflag[r])  BY <1>1, Basics
<1>3. errflag[r] = FALSE  BY <1>1, <1>2 DEF Remembers
<1>4. Remembers(input, all, r, a, n, m, FALSE)  BY <1>2, <1>3
<1>5. m \in MemoryType /\ Own(input, r, a, m)  BY <1>4 DEF Remembers
<1>6. StageNo(a) >= 2 => m.rows = input.rows /\ m.cols = input.cols
  <2>1. ASSUME StageNo(a) >= 2
        PROVE  m.rows = input.rows /\ m.cols = input.cols
    <3>1. StageNo(a) > 2 \/ (a = "cols" /\ n > Len(Plan(input, r, a)))
      BY <1>1, <2>1 DEF StageNo, Stage
    <3> DEFINE i == input
               x == FALSE
    <3>2. Remembers(i, all, r, a, n, m, x) /\ i \in Input /\ n \in Nat /\ a \in Stage
      BY <1>1, <1>4
    <3>3. StageNo(a) > 2 \/ (a = "cols" /\ n > Len(Plan(i, r, a)))  BY <3>1
    <3> HIDE DEF all, m, n, i, x
    <3>4. m.rows = i.rows /\ m.cols = i.cols  BY <3>2, <3>3, KnowsSizes
    <3> QED  BY <3>4 DEF i
  <2> QED  BY <2>1
<1> QED  BY <1>1, <1>3, <1>4, <1>5, <1>6

\* The stage after another.
LEMMA NextStages ==
  ASSUME NEW i, NEW r
  PROVE  /\ \A c \in Stage : ~(StageNo("files") < StageNo(c) /\ StageNo(c) < StageNo("rows"))
         /\ \A c \in Stage : ~(StageNo("rows") < StageNo(c) /\ StageNo(c) < StageNo("cols"))
         /\ \A c \in Stage : ~(StageNo("cols") < StageNo(c) /\ StageNo(c) < StageNo("chunk"))
         /\ \A c \in Stage : ~(StageNo("chunk") < StageNo(c) /\ StageNo(c) < StageNo("vector"))
         /\ \A c \in Stage : ~(StageNo("vector") < StageNo(c) /\ StageNo(c) < StageNo("products"))
         /\ \A c \in Stage : ~(StageNo("products") < StageNo(c) /\ StageNo(c) < StageNo("barrier"))
         /\ \A c \in Stage : ~(StageNo("barrier") < StageNo(c) /\ StageNo(c) < StageNo("done"))
         /\ \A c \in Stage : StageNo("cols") < StageNo(c) /\ StageNo(c) < StageNo("barrier")
              => c \in {"chunk", "vector", "products"}
BY DEF Stage, StageNo

LEMMA ReturnGoes ==
  ASSUME CommInv, NEW r \in Process, NEW a, Returned(r, a), NEW b, Enter(r, b),
         \/ <<a, b>> \in {<<"files", "rows">>, <<"rows", "cols">>, <<"cols", "chunk">>,
                          <<"chunk", "vector">>, <<"vector", "products">>,
                          <<"products", "barrier">>, <<"barrier", "done">>}
         \/ a = "cols" /\ b = "barrier" /\ ~Joins(input, r, "chunk"),
         Joins(input, r, b)
  PROVE  Goes(r, b)
<1>1. a = stage[r] /\ a \in Stage /\ step[r] > Len(Plan(input, r, a))  BY AtReturn
<1>2. b \in Stage /\ StageNo(a) < StageNo(b)  BY DEF Stage, StageNo
<1>3. \A c \in Stage : StageNo(a) < StageNo(c) /\ StageNo(c) < StageNo(b)
        => ~Joins(input, r, c)
  <2>1. CASE a = "cols" /\ b = "barrier" /\ ~Joins(input, r, "chunk")
    BY <2>1, NextStages DEF Joins
  <2>2. CASE <<a, b>> \in {<<"files", "rows">>, <<"rows", "cols">>, <<"cols", "chunk">>,
                          <<"chunk", "vector">>, <<"vector", "products">>,
                          <<"products", "barrier">>, <<"barrier", "done">>}
    BY <2>2, NextStages
  <2> QED  BY <2>1, <2>2
<1> QED  BY <1>1, <1>2, <1>3 DEF Goes

\* Between two stages rank r leaves its variables alone.
LEMMA PassKeeps ==
  ASSUME CommInv, ProgramShape, NEW r \in Process, NEW a, Returned(r, a),
         NEW b, Goes(r, b), UNCHANGED memory, Own(input, r, b, memory[r])
  PROVE  FlowInv' /\ RanksInv' /\ ProgramShape'
<1>1. /\ a = stage[r] /\ errflag[r] = FALSE
      /\ Remembers(input, AllEntered(stage), r, a, step[r], memory[r], FALSE)
      /\ memory[r] \in MemoryType
  BY AtReturn
<1>2. Keeps(r, b, memory'[r])  BY <1>1 DEF Keeps, Remembers
<1>3. ProgramShape'  BY DEF Goes, Enter, ProgramShape
<1> QED  BY <1>1, <1>2, <1>3, GoesKeeps

LEMMA StoreKeeps ==
  ASSUME CommInv, ProgramShape, NEW r \in Process, NEW a, Returned(r, a),
         NEW b, Goes(r, b), NEW y, memory' = [memory EXCEPT ![r] = y], Keeps(r, b, y)
  PROVE  FlowInv' /\ RanksInv' /\ ProgramShape'
<1>1. memory'[r] = y /\ \A q \in Process \ {r} : memory'[q] = memory[q]
      /\ memory' = [p \in Process |-> memory'[p]]
  BY DEF ProgramShape
<1>2. errflag[r] = FALSE  BY AtReturn
<1>3. ProgramShape'  BY <1>1 DEF Goes, Enter, ProgramShape
<1> QED  BY <1>1, <1>2, <1>3, GoesKeeps

LEMMA FilesKeeps ==
  ASSUME CommInv, ProgramShape, NEW r \in Process, OpenFiles(r), stage' # stage
  PROVE  FlowInv' /\ RanksInv' /\ ProgramShape'
<1> DEFINE m == memory[r]
           y == [m EXCEPT !.rows = input.rows, !.cols = input.cols]
<1>1. /\ Returned(r, "files") /\ Enter(r, "rows")
      /\ memory' = [memory EXCEPT ![r].rows = input.rows, ![r].cols = input.cols]
  BY DEF OpenFiles, End
<1>2. m \in MemoryType /\ input \in Input /\ "files" = stage[r]  BY <1>1, AtReturn
<1>3. Goes(r, "rows")
  <2>1. Joins(input, r, "rows")  BY DEF Joins
  <2> QED  BY <1>1, <2>1, ReturnGoes
<1>4. memory' = [memory EXCEPT ![r] = y]
  BY <1>1 DEF ProgramShape
<1>5. Keeps(r, "rows", y)
  <2>1. input.rows \in Nat /\ input.cols \in Nat  BY <1>2, InputIs
  <2>2. y \in MemoryType /\ y.rows = input.rows /\ y.cols = input.cols
    BY <1>2, <2>1 DEF MemoryType
  <2>3. Own(input, r, "rows", y)  BY <2>2 DEF Own, StageNo
  <2>4. ASSUME NEW c, NEW op, Waited(input, r, "files", step[r], c, op)
        PROVE  FALSE
    <3>1. c \in Stage /\ Planned(input, r, c, op)  BY <1>2, <2>4, WaitedStage
    <3>2. c # "files"  BY <1>2, <3>1, PlannedIs
    <3>3. StageNo(c) < StageNo("files") \/ c = "files"  BY <2>4 DEF Waited
    <3>4. ~(StageNo(c) < StageNo("files"))  BY <3>1 DEF StageNo, Stage
    <3> QED  BY <3>2, <3>3, <3>4
  <2> HIDE DEF y
  <2> QED  BY <1>2, <2>2, <2>3, <2>4 DEF Keeps
<1> HIDE DEF y
<1> QED  BY <1>1, <1>3, <1>4, <1>5, StoreKeeps

LEMMA PassesKeep ==
  ASSUME CommInv, ProgramShape, NEW r \in Process,
         LearnRows(r) \/ SkipWork(r) \/ TakeChunk(r) \/ WriteResult(r) \/ Finish(r)
  PROVE  FlowInv' /\ RanksInv' /\ ProgramShape'
<1>1. CASE LearnRows(r)
  <2>1. Returned(r, "rows") /\ Enter(r, "cols") /\ UNCHANGED memory  BY <1>1 DEF LearnRows
  <2>2. Own(input, r, "rows", memory[r])  BY <2>1, AtReturn
  <2>3. Own(input, r, "cols", memory[r])  BY <2>2 DEF Own, StageNo
  <2>4. Goes(r, "cols")
    <3>1. Joins(input, r, "cols")  BY DEF Joins
    <3> QED  BY <2>1, <3>1, ReturnGoes
  <2> QED  BY <2>1, <2>3, <2>4, PassKeeps
<1>2. CASE SkipWork(r)
  <2>1. Returned(r, "cols") /\ Enter(r, "barrier") /\ UNCHANGED memory /\ r >= memory[r].rows
    BY <1>2 DEF SkipWork
  <2>2. Own(input, r, "cols", memory[r]) /\ memory[r].rows = input.rows /\ input \in Input
    <3>1. StageNo("cols") >= 2  BY DEF StageNo
    <3> QED  BY <2>1, <3>1, AtReturn
  <2>3. ~Joins(input, r, "chunk") /\ ~Joins(input, r, "products")
    BY <2>1, <2>2, InputIs DEF Joins
  <2>4. Own(input, r, "barrier", memory[r])  BY <2>2, <2>3 DEF Own, StageNo
  <2>5. Goes(r, "barrier")
    <3>1. Joins(input, r, "barrier")  BY DEF Joins
    <3> QED  BY <2>1, <2>3, <3>1, ReturnGoes
  <2> QED  BY <2>1, <2>4, <2>5, PassKeeps
<1>3. CASE TakeChunk(r)
  <2>1. Returned(r, "chunk") /\ Enter(r, "vector") /\ UNCHANGED memory  BY <1>3 DEF TakeChunk
  <2>2. Own(input, r, "chunk", memory[r]) /\ Joins(input, r, "chunk")  BY <2>1, AtReturn
  <2>3. Own(input, r, "vector", memory[r])  BY <2>2 DEF Own, StageNo
  <2>4. Goes(r, "vector")
    <3>1. Joins(input, r, "vector")  BY <2>2 DEF Joins
    <3> QED  BY <2>1, <3>1, ReturnGoes
  <2> QED  BY <2>1, <2>3, <2>4, PassKeeps
<1>4. CASE WriteResult(r)
  <2>1. Returned(r, "products") /\ Enter(r, "barrier") /\ UNCHANGED memory
    BY <1>4 DEF WriteResult
  <2>2. Own(input, r, "products", memory[r])  BY <2>1, AtReturn
  <2>3. Own(input, r, "barrier", memory[r])  BY <2>2 DEF Own, StageNo
  <2>4. Goes(r, "barrier")
    <3>1. Joins(input, r, "barrier")  BY DEF Joins
    <3> QED  BY <2>1, <3>1, ReturnGoes
  <2> QED  BY <2>1, <2>3, <2>4, PassKeeps
<1>5. CASE Finish(r)
  <2>1. Returned(r, "barrier") /\ Enter(r, "done") /\ UNCHANGED memory  BY <1>5 DEF Finish
  <2>2. Own(input, r, "barrier", memory[r])  BY <2>1, AtReturn
  <2>3. Own(input, r, "done", memory[r])  BY <2>2 DEF Own, StageNo
  <2>4. Goes(r, "done")
    <3>1. Joins(input, r, "done")  BY DEF Joins
    <3> QED  BY <2>1, <3>1, ReturnGoes
  <2> QED  BY <2>1, <2>3, <2>4, PassKeeps
<1> QED  BY <1>1, <1>2, <1>3, <1>4, <1>5

LEMMA DealKeeps ==
  ASSUME CommInv, ProgramShape, NEW r \in Process, DealRows(r)
  PROVE  FlowInv' /\ RanksInv' /\ ProgramShape'
<1> DEFINE m == memory[r]
           y == IF r = 0 THEN [m EXCEPT !.vector = Vector(input), !.chunk = ChunkOf(input, 0)]
                ELSE m
<1>1. /\ Returned(r, "cols") /\ Enter(r, "chunk") /\ r < m.rows /\ m.cols > 0
      /\ memory' = IF r = 0
                   THEN [memory EXCEPT
                           ![r].vector = Vector(input),
                           ![r].chunk = SubSeq(Matrix(input), 1, SendCounts(r)[0])]
                   ELSE memory
  BY DEF DealRows
<1>2. /\ m \in MemoryType /\ input \in Input /\ "cols" = stage[r]
      /\ m.rows = input.rows /\ m.cols = input.cols /\ Own(input, r, "cols", m)
      /\ Remembers(input, AllEntered(stage), r, "cols", step[r], m, FALSE)
  <2>1. StageNo("cols") >= 2  BY DEF StageNo
  <2> QED  BY <1>1, <2>1, AtReturn
<1>3. Goes(r, "chunk")
  <2>1. Joins(input, r, "chunk")  BY <1>1, <1>2 DEF Joins
  <2> QED  BY <1>1, <2>1, ReturnGoes
<1>4. /\ input.rows \in Nat /\ input.cols \in Nat /\ 0 \in Process /\ input.cols > 0
      /\ Vector(input) \in Sequence /\ ChunkOf(input, 0) \in Sequence
  BY <1>1, <1>2, InputIs, VectorIs, ChunkIs DEF Sequence
<1>5. SubSeq(Matrix(input), 1, SendCounts(r)[0]) = ChunkOf(input, 0)
  <2>1. SendCounts(r)[0] = ChunkSize(input.rows, input.cols, 0)  BY <1>2, <1>4 DEF SendCounts
  <2>2. ChunkStart(input.rows, input.cols, 0) = 0
    <3>1. ChunkStart(input.rows, input.cols, 0) = RowsBefore(input.rows, 0) * input.cols
      BY <1>4, ChunkStartIs
    <3>2. RowsBefore(input.rows, 0) = 0  BY <1>4, RowsBeforeStep
    <3> QED  BY <1>4, <3>1, <3>2
  <2>3. ChunkSize(input.rows, input.cols, 0) \in Nat
    <3>1. ChunkSize(input.rows, input.cols, 0) = RowsOf(input.rows, 0) * input.cols
      BY <1>4, ChunkSizeIs
    <3>2. RowsOf(input.rows, 0) \in Nat  BY <1>4, RowsBeforeStep
    <3> QED  BY <1>4, <3>1, <3>2
  <2> QED  BY <2>1, <2>2, <2>3 DEF ChunkOf
<1>6. memory' = [memory EXCEPT ![r] = y]
  BY <1>1, <1>5 DEF ProgramShape
<1>7. Keeps(r, "chunk", y)
  <2>1. /\ y \in MemoryType /\ y.rows = m.rows /\ y.cols = m.cols
        /\ r = 0 => y.chunk = ChunkOf(input, r) /\ y.vector = Vector(input)
    <3> HIDE DEF m
    <3>1. [m EXCEPT !.vector = Vector(input), !.chunk = ChunkOf(input, 0)] \in MemoryType
      BY <1>2, <1>4 DEF MemoryType
    <3> QED  BY <1>2, <3>1 DEF MemoryType
  <2> HIDE DEF y, m
  <2>2. Own(input, r, "chunk", y)  BY <1>2, <2>1 DEF Own, StageNo
  <2>3. ASSUME NEW c, NEW op, Waited(input, r, "cols", step[r], c, op)
        PROVE  Absorbed(input, AllEntered(stage), r, y, FALSE, c, op)
    <3>1. Absorbed(input, AllEntered(stage), r, m, FALSE, c, op)  BY <1>2, <2>3 DEF Remembers
    <3>2. c \in Stage  BY <1>2, <2>3, WaitedStage
    <3>3. StageNo(c) < StageNo("cols") \/ c = "cols"  BY <2>3 DEF Waited
    <3>4. c \in {"files", "rows", "cols"}  BY <3>2, <3>3 DEF StageNo, Stage
    <3> QED  BY <2>1, <3>1, <3>4 DEF Absorbed
  <2> QED  BY <1>2, <2>1, <2>2, <2>3 DEF Keeps
<1> HIDE DEF y
<1> QED  BY <1>1, <1>3, <1>6, <1>7, StoreKeeps

\* What rank r has of the matrix when it multiplies.
LEMMA HasChunk ==
  ASSUME CommInv, NEW r \in Process, Returned(r, "vector")
  PROVE  memory[r].chunk = ChunkOf(input, r) /\ memory[r].vector = Vector(input)
<1> DEFINE m == memory[r]
           n == step[r]
           all == AllEntered(stage)
<1>1. /\ "vector" = stage[r] /\ n > Len(Plan(input, r, "vector")) /\ n \in Nat
      /\ input \in Input /\ Joins(input, r, "vector")
      /\ Remembers(input, all, r, "vector", n, m, FALSE)
      /\ Own(input, r, "vector", m)
  BY AtReturn
<1>2. Joins(input, r, "chunk")  BY <1>1 DEF Joins
<1>3. CASE r = 0
  BY <1>1, <1>2, <1>3 DEF Own, StageNo
<1>4. CASE r # 0
  <2>1. \E op : Waited(input, r, "vector", n, "chunk", op)
    <3>1. StageNo("chunk") < StageNo("vector") /\ "vector" \in Stage  BY DEF StageNo, Stage
    <3> QED  BY <1>1, <1>2, <1>4, <3>1, ChunkDone
  <2>2. \E op : Waited(input, r, "vector", n, "vector", op)
    <3>1. n > 2
      <4>1. Relay(Bcast(input.node, r), r)  BY <1>1, BcastRelays
      <4>2. Plan(input, r, "vector") = Bcast(input.node, r)  BY <1>1, InputIs DEF Plan
      <4>3. Len(Plan(input, r, "vector")) >= 2 /\ Len(Plan(input, r, "vector")) \in Nat
        BY <1>4, <4>1, <4>2 DEF Relay
      <4> QED  BY <1>1, <4>3
    <3>2. "vector" \in Stage /\ "vector" \in {"rows", "cols", "vector"}  BY DEF Stage
    <3> HIDE DEF n
    <3> QED  BY <1>1, <1>4, <3>1, <3>2, BcastDone
  <2> QED  BY <1>1, <2>1, <2>2 DEF Remembers, Absorbed
<1> QED  BY <1>3, <1>4

LEMMA MultiplyKeeps ==
  ASSUME CommInv, ProgramShape, NEW r \in Process, Multiply(r)
  PROVE  FlowInv' /\ RanksInv' /\ ProgramShape'
<1> DEFINE m == memory[r]
           z == ProductsOf(input, r)
           y == [m EXCEPT !.products[r] = z]
<1>1. /\ Returned(r, "vector") /\ Enter(r, "products")
      /\ memory' = [memory EXCEPT ![r].products[r] = Compute(m.chunk, m.vector, RowCounts(r)[r])]
  BY DEF Multiply
<1>2. /\ m \in MemoryType /\ input \in Input /\ "vector" = stage[r]
      /\ m.rows = input.rows /\ m.cols = input.cols /\ Own(input, r, "vector", m)
      /\ Remembers(input, AllEntered(stage), r, "vector", step[r], m, FALSE)
      /\ Joins(input, r, "vector")
  <2>1. StageNo("vector") >= 2  BY DEF StageNo
  <2> QED  BY <1>1, <2>1, AtReturn
<1>3. Goes(r, "products")
  <2>1. Joins(input, r, "products")  BY <1>2 DEF Joins
  <2> QED  BY <1>1, <2>1, ReturnGoes
<1>4. Compute(m.chunk, m.vector, RowCounts(r)[r]) = z
  <2>1. RowCounts(r)[r] = RowCount(input.rows, input.cols, r)  BY <1>2 DEF RowCounts
  <2>2. m.chunk = ChunkOf(input, r) /\ m.vector = Vector(input)  BY <1>1, HasChunk
  <2> QED  BY <2>1, <2>2 DEF ProductsOf
<1>5. z \in Sequence
  <2>1. input.cols > 0  BY <1>2 DEF Joins
  <2> QED  BY <1>2, <2>1, ChunkIs DEF Sequence
<1> HIDE DEF z
<1>6. memory' = [memory EXCEPT ![r] = y]
  BY <1>1, <1>4 DEF ProgramShape
<1>7. Keeps(r, "products", y)
  <2>1. /\ y \in MemoryType /\ y.rows = m.rows /\ y.cols = m.cols
        /\ y.chunk = m.chunk /\ y.vector = m.vector /\ y.products[r] = z
    BY <1>2, <1>5 DEF MemoryType
  <2> HIDE DEF y, m
  <2>2. Own(input, r, "products", y)  BY <1>2, <2>1 DEF Own, StageNo, z
  <2>3. ASSUME NEW c, NEW op, Waited(input, r, "vector", step[r], c, op)
        PROVE  Absorbed(input, AllEntered(stage), r, y, FALSE, c, op)
    <3>1. Absorbed(input, AllEntered(stage), r, m, FALSE, c, op)  BY <1>2, <2>3 DEF Remembers
    <3>2. c \in Stage  BY <1>2, <2>3, WaitedStage
    <3>3. StageNo(c) < StageNo("vector") \/ c = "vector"  BY <2>3 DEF Waited
    <3>4. c \in {"files", "rows", "cols", "chunk", "vector"}  BY <3>2, <3>3 DEF StageNo, Stage
    <3> QED  BY <2>1, <3>1, <3>4 DEF Absorbed
  <2> QED  BY <1>2, <2>1, <2>2, <2>3 DEF Keeps
<1> HIDE DEF y
<1> QED  BY <1>1, <1>3, <1>6, <1>7, StoreKeeps

-----------------------------------------------------------------------------
(* All of it: what holds of the program from its start, after every step. *)
ProgramInv == QueuesInv /\ CommInv /\ ProgramShape

LEMMA StayKeeps ==
  ASSUME CommInv, UNCHANGED <<channel, posted, unexpected, request,
                              input, stage, step, errflag, memory>>
  PROVE  FlowInv' /\ RanksInv'
BY DEF CommInv, FlowInv, RanksInv, HoldsOK

LEMMA EndKeeps ==
  ASSUME CommInv, ProgramShape, NEW r \in Process, NEW how, End(r, how),
         how \in Failed \union {"killed"}
  PROVE  FlowInv' /\ RanksInv' /\ ProgramShape'
<1>1. UNCHANGED <<channel, posted, unexpected, request, input, stage, step, errflag, memory>>
  BY DEF End, queueVars
<1>2. fate' = [fate EXCEPT ![r] = how]  BY DEF End
<1>3. ProgramShape'  BY <1>1, <1>2 DEF ProgramShape
<1> QED  BY <1>1, <1>3, StayKeeps

LEMMA MainKeeps ==
  ASSUME CommInv, ProgramShape, NEW r \in Process, Main(r)
  PROVE  FlowInv' /\ RanksInv' /\ ProgramShape'
<1>1. CASE OpenFiles(r)
  <2>1. CASE End(r, "returned")  BY <2>1, EndKeeps DEF Failed
  <2>2. CASE input.files /\ Enter(r, "rows") /\ Returned(r, "files")
    <3>1. stage' # stage
      <4>1. stage[r] = "files" /\ stage' = [stage EXCEPT ![r] = "rows"]
        BY <2>2 DEF Enter, Returned
      <4>2. stage = [q \in Process |-> stage[q]]  BY HoldsNow DEF Standing
      <4>3. stage'[r] = "rows"  BY <4>1, <4>2
      <4> QED  BY <4>1, <4>3
    <3> QED  BY <1>1, <3>1, FilesKeeps
  <2> QED  BY <1>1, <2>1, <2>2 DEF OpenFiles
<1>2. CASE LearnRows(r) \/ SkipWork(r) \/ TakeChunk(r) \/ WriteResult(r) \/ Finish(r)
  BY <1>2, PassesKeep
<1>3. CASE DealRows(r)  BY <1>3, DealKeeps
<1>4. CASE Multiply(r)  BY <1>4, MultiplyKeeps
<1>5. CASE DivideByZero(r) \/ OverrunProducts(r) \/ OverrunResult(r)
  BY <1>5, EndKeeps DEF DivideByZero, OverrunProducts, OverrunResult, Failed
<1>6. CASE CollectiveFails(r)  BY <1>6, EndKeeps DEF CollectiveFails, Failed
<1> QED  BY <1>1, <1>2, <1>3, <1>4, <1>5, <1>6 DEF Main

LEMMA CommunicateKeeps ==
  ASSUME CommInv, QueuesInv, ProgramShape, NEW r \in Process, Communicate(r)
  PROVE  FlowInv' /\ RanksInv' /\ ProgramShape'
<1>1. CASE Isend(r)
  <2>1. UNCHANGED <<memory, errflag, fate>>  BY <1>1 DEF Isend
  <2> QED  BY <1>1, <2>1, IsendKeeps DEF ProgramShape
<1>2. CASE Irecv(r)
  <2>1. UNCHANGED <<memory, errflag, fate>>  BY <1>2 DEF Irecv
  <2> QED  BY <1>2, <2>1, IrecvKeeps DEF ProgramShape
<1>3. CASE Progress(r)
  <2>1. UNCHANGED <<memory, errflag, fate>>  BY <1>3 DEF Progress, programVars
  <2> QED  BY <1>3, <2>1, ProgressKeeps DEF ProgramShape
<1>4. CASE WaitDone(r)  BY <1>4, WaitDoneKeeps
<1> QED  BY <1>1, <1>2, <1>3, <1>4 DEF Communicate

LEMMA StepKeepsProgram == ProgramInv /\ [Next]_vars => ProgramInv'
<1> SUFFICES ASSUME ProgramInv, [Next]_vars PROVE ProgramInv'  OBVIOUS
<1>1. CommInv /\ QueuesInv /\ ProgramShape /\ HandshakeInv  BY DEF ProgramInv, CommInv
<1>2. HandshakeInv' /\ QueuesInv'  BY <1>1, StepKeepsHandshakes, StepKeepsQueues
<1>3. FlowInv' /\ RanksInv' /\ ProgramShape'
  <2>1. CASE UNCHANGED vars
    <3>1. UNCHANGED <<channel, posted, unexpected, request,
                      input, stage, step, errflag, memory, fate>>
      BY <2>1 DEF vars
    <3> QED  BY <1>1, <3>1, StayKeeps DEF ProgramShape
  <2>2. ASSUME NEW r \in Process, Main(r) \/ Communicate(r) \/ Kill(r)
        PROVE  FlowInv' /\ RanksInv' /\ ProgramShape'
    <3>1. CASE Main(r)  BY <1>1, <3>1, MainKeeps
    <3>2. CASE Communicate(r)  BY <1>1, <3>2, CommunicateKeeps
    <3>3. CASE Kill(r)
      <4>1. End(r, "killed")  BY <3>3 DEF Kill
      <4> QED  BY <1>1, <4>1, EndKeeps
    <3> QED  BY <2>2, <3>1, <3>2, <3>3
  <2> QED  BY <2>1, <2>2 DEF Next
<1> QED  BY <1>2, <1>3 DEF ProgramInv, CommInv

-----------------------------------------------------------------------------
LEMMA NothingAtFirst ==
  ASSUME NEW i \in Input, NEW st, NEW sp, NEW req,
         st = [r \in Process |-> IF r = 0 THEN "files" ELSE "rows"],
         sp = [r \in Process |-> 1], RequestShape(req), Rank = Process,
         \A r \in Process : Unused(req[r])
  PROVE  /\ Standing(i, st, sp, req)
         /\ DidOf(i, st, sp) = {} /\ WaitOf(i, st, sp, req) = {}
<1>1. \A r \in Process : /\ st[r] \in Stage /\ st[r] \in {"files", "rows"}
                         /\ st[r] = "rows" <=> r # 0
                         /\ sp[r] = 1 /\ Joins(i, r, st[r])
  BY DEF Stage, Joins
<1>2. ASSUME NEW r \in Process PROVE Control(i, r, st[r], sp[r], req[r])
  <2>1. /\ Orderly(Plan(i, r, st[r])) /\ Len(Plan(i, r, st[r])) \in Nat
    BY <1>1, PlannedOperation
  <2>2. Asked(Plan(i, r, st[r]), 1, req[r])  BY <2>1, AskFirst
  <2> QED  BY <1>1, <2>1, <2>2 DEF Control
<1>3. Standing(i, st, sp, req)  BY <1>2 DEF Standing
<1>4. ASSUME NEW r \in Process, NEW a \in Stage, NEW op, Did(i, st, sp, r, a, op)
      PROVE  FALSE
  <2>1. Planned(i, r, a, op) /\ (StageNo(a) < StageNo(st[r]) \/
          (a = st[r] /\ Reached(Plan(i, r, a), 1, op)))
    BY <1>1, <1>4 DEF Did
  <2>2. a # "files"  BY <2>1, PlannedIs
  <2>3. a = st[r] /\ Reached(Plan(i, r, a), 1, op)
    BY <1>1, <2>1, <2>2 DEF StageNo, Stage
  <2>4. Orderly(Plan(i, r, a))  BY PlannedOperation
  <2> QED  BY <2>3, <2>4, AtTheEnds
<1>5. DidOf(i, st, sp) = {}
  BY <1>4 DEF DidOf
<1>6. ASSUME NEW r \in Process, NEW op, Waiting(i, st, sp, req, r, op)
      PROVE  FALSE
  <2>1. Open(Plan(i, r, st[r]), 1, op)  BY <1>1, <1>6 DEF Waiting
  <2>2. Orderly(Plan(i, r, st[r]))  BY <1>1, PlannedOperation
  <2> QED  BY <2>1, <2>2, AtTheEnds
<1>7. WaitOf(i, st, sp, req) = {}
  BY <1>6 DEF WaitOf
<1> QED  BY <1>3, <1>5, <1>7

LEMMA EmptyFlow ==
  ASSUME NEW i \in Input, NEW st, NEW sp, NEW req,
         DidOf(i, st, sp) = {}, WaitOf(i, st, sp, req) = {},
         NEW Q, Q = [q \in Place |-> <<>>]
  PROVE  Flow(i, st, sp, req, Q)
<1>1. \A q \in Place : Q[q] = <<>> /\ DOMAIN Q[q] = {}  OBVIOUS
<1>2. \A q, k : ~Announced(Q, q, k)  BY <1>1 DEF Announced
<1>3. KeysIn(Q, Q) = {}
  <2>1. \A x : x \notin KeysIn(Q, Q)  BY <1>2, KeysAre
  <2> QED  BY <2>1
<1>4. Tracked(Q, Q)
  <2>1. \A q \in Place : Q[q] \in Seq(Stage)  OBVIOUS
  <2>2. IsFamily(Q)  BY <2>1 DEF IsFamily
  <2>3. Labelled(Q, Q)  BY <2>1 DEF Labelled
  <2> QED  BY <1>2, <2>2, <2>3 DEF Tracked, Sourced, InOrder
<1>5. Stream(i, AllEntered(st), st, req, Q, Q)
  BY <1>1, <1>4 DEF Stream, Contents
<1>6. Delivery(i, {}, {}, {})
  BY DEF Delivery, Closed, WaitsLast, InFlightSent, NotLost, NotTwice, NotInvented, Sent, Recd
<1> QED  BY <1>3, <1>5, <1>6 DEF Flow

LEMMA InitProgram == Init => ProgramInv
<1> SUFFICES ASSUME Init PROVE ProgramInv  OBVIOUS
<1>1. QueuesInv /\ HandshakeInv  BY InitQueues, InitHandshakes
<1>2. /\ input \in Input /\ Rank = Process /\ RequestShape(request)
      /\ \A r \in Process : Unused(request[r]) /\ posted[r] = <<>>
      /\ Family(channel, posted, unexpected) = [q \in Place |-> <<>>]
  <2>1. Rank = Process  BY InputAssumption
  <2>2. /\ input \in Input
        /\ channel = [s \in Rank |-> [d \in Rank |-> <<>>]]
        /\ posted = [d \in Rank |-> <<>>] /\ unexpected = [d \in Rank |-> <<>>]
        /\ request = [r \in Rank |-> [h \in Handle |-> None]]
    BY DEF Init, QueuesInit
  <2>3. Family(channel, posted, unexpected) = [q \in Place |-> <<>>]
    BY <2>2 DEF Family, Place
  <2>4. RequestShape(request)  BY <2>2 DEF RequestShape
  <2>5. \A r \in Process : Unused(request[r]) /\ posted[r] = <<>>
    BY <2>1, <2>2 DEF Unused
  <2> QED  BY <2>1, <2>2, <2>3, <2>4, <2>5
<1>3. /\ Standing(input, stage, step, request)
      /\ DidOf(input, stage, step) = {} /\ WaitOf(input, stage, step, request) = {}
  <2>1. /\ stage = [r \in Process |-> IF r = 0 THEN "files" ELSE "rows"]
        /\ step = [r \in Process |-> 1]
    BY DEF Init
  <2> QED  BY <1>2, <2>1, NothingAtFirst
<1>4. FlowInv
  <2> DEFINE Q == Family(channel, posted, unexpected)
  <2>1. Q = [q \in Place |-> <<>>]  BY <1>2
  <2> HIDE DEF Q
  <2>2. Flow(input, stage, step, request, Q)  BY <1>2, <1>3, <2>1, EmptyFlow
  <2> QED  BY <1>3, <2>2 DEF FlowInv, Q
<1>5. ASSUME NEW r \in Process PROVE HoldsOK(r)
  <2>1. /\ stage[r] \in {"files", "rows"} /\ step[r] = 1 /\ errflag[r] = FALSE
        /\ stage[r] = "files" <=> r = 0
        /\ memory[r] = [rows |-> 0, cols |-> 0, chunk |-> <<>>, vector |-> <<>>,
                        products |-> [p \in Process |-> <<>>]]
    BY DEF Init
  <2>2. Orderly(Plan(input, r, stage[r])) /\ stage[r] \in Stage
    BY <1>2, <2>1, PlannedOperation DEF Stage
  <2>3. \A op : ~Open(Plan(input, r, stage[r]), 1, op)  BY <2>2, AtTheEnds
  <2>4. RequestsOK(input, AllEntered(stage), r, stage[r], 1, request[r])
    <3>1. \A p \in Process : request[r][<<"send", p>>] = None
      BY <1>2, HandlesAre DEF Unused
    <3> QED  BY <2>3, <3>1 DEF RequestsOK
  <2>5. PostedOK(input, r, stage[r], 1, posted[r])  BY <1>2 DEF PostedOK
  <2>6. memory[r] \in MemoryType
    <3>1. <<>> \in Sequence  BY DEF Sequence
    <3> QED  BY <2>1, <3>1 DEF MemoryType
  <2>7. Own(input, r, stage[r], memory[r])  BY <2>1 DEF Own, StageNo
  <2>8. ASSUME NEW b, NEW op, Waited(input, r, stage[r], 1, b, op) PROVE FALSE
    <3>1. b \in Stage /\ Planned(input, r, b, op)  BY <1>2, <2>8, WaitedStage
    <3>2. b # "files"  BY <1>2, <3>1, PlannedIs
    <3>3. StageNo(b) < StageNo(stage[r]) \/
            (b = stage[r] /\ Reached(Plan(input, r, b), 1, op))
      BY <2>8 DEF Waited
    <3>4. ~(StageNo(b) < StageNo(stage[r]))  BY <2>1, <3>1, <3>2 DEF StageNo, Stage
    <3> QED  BY <2>2, <3>3, <3>4, AtTheEnds
  <2>9. Remembers(input, AllEntered(stage), r, stage[r], 1, memory[r], FALSE)
    BY <2>6, <2>7, <2>8 DEF Remembers
  <2> QED  BY <2>1, <2>4, <2>5, <2>9 DEF HoldsOK, RankOK
<1>6. ProgramShape  BY DEF Init, ProgramShape
<1> QED  BY <1>1, <1>4, <1>5, <1>6 DEF ProgramInv, CommInv, RanksInv

-----------------------------------------------------------------------------
(* How the processes end, and what rank 0 writes.                          *)

Written(st, res, i, mvp) == res = IF st[0] \in {"barrier", "done"} THEN mvp ELSE <<>>

(* How the processes end, and what has been written when. *)
EndsInv ==
  /\ \A r \in Process :
       /\ fate[r] = "returned" => ~input.files
       /\ fate[r] = "crashed" =>
            (input.rows > 0 /\ input.cols = 0) \/ input.rows > input.cols
       /\ fate[r] = "aborted" => Split(input)
       /\ r < input.rows /\ StageNo(stage[r]) >= 3 => input.cols > 0
       /\ stage[r] = "done" => AllEntered(stage)
  /\ stage[0] # "files" => input.files
  /\ Written(stage, result, input, MatrixVectorProduct)

LEMMA StayEnds ==
  ASSUME EndsInv, UNCHANGED <<input, stage, fate, result>>
  PROVE  EndsInv'
<1>1. MatrixVectorProduct' = MatrixVectorProduct  BY DEF MatrixVectorProduct
<1> QED  BY <1>1 DEF EndsInv

LEMMA MoveEnds ==
  ASSUME EndsInv, CommInv, NEW r \in Process, NEW a, Returned(r, a), NEW b \in Stage,
         Enter(r, b), a = "barrier" => b = "done", b # "files",
         r = 0 => input.files, r < input.rows /\ StageNo(b) >= 3 => input.cols > 0,
         b = "done" => AllEntered(stage),
         Written(stage', result', input, MatrixVectorProduct)
  PROVE  EndsInv'
<1>1. MatrixVectorProduct' = MatrixVectorProduct /\ UNCHANGED <<input, fate>>
  BY DEF MatrixVectorProduct, Enter
<1>2. /\ stage'[r] = b /\ \A q \in Process \ {r} : stage'[q] = stage[q]
  <2>1. stage = [q \in Process |-> stage[q]]  BY HoldsNow DEF Standing
  <2> QED  BY <2>1 DEF Enter
<1>3. AllEntered(stage) => AllEntered(stage')
  <2>1. ASSUME AllEntered(stage) PROVE AllEntered(stage')
    <3>1. stage[r] = a /\ a # "done"  BY DEF Returned, Running
    <3>2. a = "barrier"  BY <2>1, <3>1 DEF AllEntered
    <3> QED  BY <1>2, <2>1, <3>2 DEF AllEntered
  <2> QED  BY <2>1
<1>4. ASSUME NEW q \in Process
      PROVE  /\ fate'[q] = "returned" => ~input'.files
             /\ fate'[q] = "crashed" =>
                  (input'.rows > 0 /\ input'.cols = 0) \/ input'.rows > input'.cols
             /\ fate'[q] = "aborted" => Split(input')
             /\ q < input'.rows /\ StageNo(stage'[q]) >= 3 => input'.cols > 0
             /\ stage'[q] = "done" => AllEntered(stage')
  <2>1. CASE q # r  BY <1>1, <1>2, <1>3, <2>1 DEF EndsInv
  <2>2. CASE q = r  BY <1>1, <1>2, <1>3, <2>2 DEF EndsInv
  <2> QED  BY <2>1, <2>2
<1>5. stage'[0] # "files" => input'.files
  <2>1. 0 \in Process  BY Basics, InputIs
  <2> QED  BY <1>1, <1>2, <2>1 DEF EndsInv
<1>6. Written(stage', result', input', MatrixVectorProduct')  BY <1>1
<1> QED  BY <1>4, <1>5, <1>6 DEF EndsInv

LEMMA EndEnds ==
  ASSUME EndsInv, ProgramShape, NEW r \in Process, NEW how, End(r, how),
         how = "returned" => ~input.files,
         how = "crashed" =>
           (input.rows > 0 /\ input.cols = 0) \/ input.rows > input.cols,
         how = "aborted" => Split(input)
  PROVE  EndsInv'
<1>1. UNCHANGED <<input, stage, result>> /\ fate' = [fate EXCEPT ![r] = how]
  BY DEF End
<1>2. MatrixVectorProduct' = MatrixVectorProduct  BY <1>1 DEF MatrixVectorProduct
<1>3. fate'[r] = how /\ \A q \in Process \ {r} : fate'[q] = fate[q]
  BY <1>1 DEF ProgramShape
<1> QED  BY <1>1, <1>2, <1>3 DEF EndsInv

-----------------------------------------------------------------------------
(* Rank 0 puts the product of the matrix and the vector together. *)
LEMMA CollectedIs ==
  ASSUME CommInv, Returned(0, "products")
  PROVE  Collected(0) = MatrixVectorProduct
<1> DEFINE m == memory[0]
           n == step[0]
           all == AllEntered(stage)
<1>1. 0 \in Process /\ input \in Input
  <2>1. 0 \in Process  BY InputAssumption DEF Process
  <2> QED  BY <2>1, Basics
<1>2. /\ "products" = stage[0] /\ n > Len(Plan(input, 0, "products")) /\ n \in Nat
      /\ Joins(input, 0, "products") /\ Own(input, 0, "products", m)
      /\ Remembers(input, all, 0, "products", n, m, FALSE)
      /\ m.rows = input.rows /\ m.cols = input.cols
  <2>1. StageNo("products") >= 2  BY DEF StageNo
  <2> QED  BY <1>1, <2>1, AtReturn
<1>3. /\ input.cols > 0 /\ input.rows > 0 /\ input.rows \in Nat /\ input.cols \in Nat
  BY <1>1, <1>2, InputIs DEF Joins
<1>4. ASSUME NEW p \in Process, p < input.rows
      PROVE  m.products[p] = ProductsOf(input, p)
  <2>1. CASE p = 0  BY <1>1, <1>2, <2>1 DEF Own, StageNo
  <2>2. CASE p # 0
    <3> DEFINE op == IRecv(p, "gatherv", "world")
    <3>1. GatherOp(input, 0, op)  BY <1>4, <2>2 DEF GatherOp
    <3>2. Planned(input, 0, "products", op)
      <4>1. StageOp(input, 0, "products", op) /\ "products" \in Stage
        BY <3>1 DEF StageOp, Stage
      <4> HIDE DEF op
      <4> QED  BY <1>1, <1>2, <4>1, PlanIs
    <3>3. /\ Reached(Plan(input, 0, "products"), n, op)
          /\ ~Open(Plan(input, 0, "products"), n, op)
      <4>1. Orderly(Plan(input, 0, "products"))  BY <1>1, PlannedOperation DEF Stage
      <4>2. Has(Plan(input, 0, "products"), op) /\ op # Wait  BY <3>2 DEF Planned
      <4>3. NeedsWait(op)  BY DEF NeedsWait, IRecv
      <4> HIDE DEF op
      <4> QED  BY <1>2, <4>1, <4>2, <4>3, AtTheEnds
    <3>4. Waited(input, 0, "products", n, "products", op)
      <4>1. op.kind = "irecv"  BY OpFields
      <4> HIDE DEF op
      <4> QED  BY <3>2, <3>3, <4>1 DEF Waited
    <3>5. Absorbed(input, all, 0, m, FALSE, "products", op)  BY <1>2, <3>4 DEF Remembers
    <3>6. op.peer = p  BY OpFields
    <3> QED  BY <3>5, <3>6 DEF Absorbed
  <2> QED  BY <2>1, <2>2
<1>5. ASSUME NEW p \in Process, p < input.rows
      PROVE  m.products[p] =
               Compute(Outgoing(0, p, "scatterv"), Vector(input), RowCounts(0)[p])
  <2>1. Outgoing(0, p, "scatterv") = ChunkOf(input, p)  BY <1>2 DEF Outgoing, ChunkOf
  <2>2. RowCounts(0)[p] = RowCount(input.rows, input.cols, p)  BY <1>2 DEF RowCounts
  <2> QED  BY <1>4, <1>5, <2>1, <2>2 DEF ProductsOf
<1> QED  BY <1>1, <1>2, <1>3, <1>5, ProductsMakeTheProduct

LEMMA FinishTold ==
  ASSUME CommInv, NEW r \in Process, Returned(r, "barrier")
  PROVE  AllEntered(stage)
<1> DEFINE Q == Family(channel, posted, unexpected)
           D == DidOf(input, stage, step)
           W == WaitOf(input, stage, step, request)
<1>1. Standing(input, stage, step, request) /\ Flow(input, stage, step, request, Q)
  BY HoldsNow
<1>2. \E K : Delivery(input, D, W, K)  BY <1>1 DEF Flow
<1>3. PICK K : Delivery(input, D, W, K)  BY <1>2
<1>4. /\ input \in Input /\ "barrier" = stage[r]
      /\ step[r] > Len(Plan(input, r, "barrier"))
      /\ Remembers(input, AllEntered(stage), r, "barrier", step[r], memory[r], FALSE)
  BY AtReturn
<1>5. AtRelease(input, stage, step, r)  BY <1>4 DEF AtRelease
<1> DEFINE m == memory[r]
           x == FALSE
<1>6. Remembers(input, AllEntered(stage), r, stage[r], step[r], m, x)  BY <1>4
<1> HIDE DEF x, m
<1>7. x \/ AllEntered(stage)
  BY <1>1, <1>3, <1>4, <1>5, <1>6, BarrierTold DEF D, W
<1> QED  BY <1>7 DEF x

LEMMA MoveWrites ==
  ASSUME EndsInv, CommInv, NEW r \in Process, NEW a, Returned(r, a), NEW b, Enter(r, b),
         UNCHANGED result, r # 0 \/ a = "barrier" \/ b \notin {"barrier", "done"},
         r = 0 /\ a = "barrier" => b = "done"
  PROVE  Written(stage', result', input, MatrixVectorProduct)
<1>1. stage = [q \in Process |-> stage[q]] /\ 0 \in Process /\ stage[r] = a /\ a # "done"
  <2>1. input \in Input  BY Basics
  <2> QED  BY <2>1, HoldsNow, InputIs DEF Standing, Returned, Running
<1>2. stage'[r] = b /\ \A q \in Process \ {r} : stage'[q] = stage[q]
  BY <1>1 DEF Enter
<1> QED  BY <1>1, <1>2 DEF EndsInv, Written

LEMMA MainEnds ==
  ASSUME EndsInv, CommInv, ProgramShape, NEW r \in Process, Main(r)
  PROVE  EndsInv'
<1>1. /\ input \in Input /\ 0 \in Process /\ input.rows \in Nat /\ input.cols \in Nat
      /\ r \in Nat
  BY Basics, InputIs DEF Process
<1>2. ASSUME NEW a, Returned(r, a)
      PROVE  /\ stage[r] = a /\ (r = 0 /\ a # "files" => input.files)
             /\ r < input.rows /\ StageNo(a) >= 3 => input.cols > 0
             /\ StageNo(a) >= 2 => memory[r].rows = input.rows /\ memory[r].cols = input.cols
  <2>1. stage[r] = a  BY <1>2 DEF Returned
  <2>2. StageNo(a) >= 2 => memory[r].rows = input.rows /\ memory[r].cols = input.cols
    BY <1>2, AtReturn
  <2> QED  BY <2>1, <2>2 DEF EndsInv
<1>3. CASE OpenFiles(r)
  <2>1. CASE /\ Returned(r, "files") /\ input.files /\ Enter(r, "rows") /\ UNCHANGED result
    <3>1. Written(stage', result', input, MatrixVectorProduct)  BY <2>1, MoveWrites
    <3> QED  BY <2>1, <3>1, MoveEnds DEF Stage, StageNo
  <2>2. CASE ~input.files /\ End(r, "returned")  BY <2>2, EndEnds
  <2> QED  BY <1>3, <2>1, <2>2 DEF OpenFiles
<1>4. CASE LearnRows(r)
  <2>1. Returned(r, "rows") /\ Enter(r, "cols") /\ UNCHANGED result  BY <1>4 DEF LearnRows
  <2>2. Written(stage', result', input, MatrixVectorProduct)  BY <2>1, MoveWrites
  <2>3. r = 0 => input.files  BY <1>2, <2>1
  <2> QED  BY <2>1, <2>2, <2>3, MoveEnds DEF Stage, StageNo
<1>5. CASE SkipWork(r)
  <2>1. /\ Returned(r, "cols") /\ Enter(r, "barrier") /\ UNCHANGED result
        /\ r >= memory[r].rows
    BY <1>5 DEF SkipWork
  <2>2. r >= input.rows /\ stage[r] = "cols"
    <3>1. StageNo("cols") >= 2  BY DEF StageNo
    <3> QED  BY <1>2, <2>1, <3>1
  <2>3. r = 0 => input.files  BY <1>2, <2>1
  <2>4. Written(stage', result', input, MatrixVectorProduct)
    <3>1. CASE r # 0  BY <2>1, <3>1, MoveWrites
    <3>2. CASE r = 0
      <4>1. MatrixVectorProduct = <<>>  BY <1>1, <2>2, <3>2 DEF MatrixVectorProduct
      <4>2. result = <<>>  BY <2>2, <3>2 DEF EndsInv, Written
      <4> QED  BY <2>1, <4>1, <4>2 DEF Written
    <3> QED  BY <3>1, <3>2
  <2> QED  BY <1>1, <2>1, <2>2, <2>3, <2>4, MoveEnds DEF Stage
<1>6. CASE DivideByZero(r)
  <2>1. Returned(r, "cols") /\ r < memory[r].rows /\ memory[r].cols = 0 /\ End(r, "crashed")
    BY <1>6 DEF DivideByZero
  <2>2. r < input.rows /\ input.cols = 0
    <3>1. StageNo("cols") >= 2  BY DEF StageNo
    <3> QED  BY <1>2, <2>1, <3>1
  <2> QED  BY <1>1, <2>1, <2>2, EndEnds
<1>7. CASE DealRows(r)
  <2>1. Returned(r, "cols") /\ Enter(r, "chunk") /\ UNCHANGED result /\ memory[r].cols > 0
    BY <1>7 DEF DealRows
  <2>2. input.cols > 0
    <3>1. StageNo("cols") >= 2  BY DEF StageNo
    <3> QED  BY <1>2, <2>1, <3>1
  <2>3. Written(stage', result', input, MatrixVectorProduct)  BY <2>1, MoveWrites
  <2>4. r = 0 => input.files  BY <1>2, <2>1
  <2> QED  BY <2>1, <2>2, <2>3, <2>4, MoveEnds DEF Stage
<1>8. CASE TakeChunk(r)
  <2>1. Returned(r, "chunk") /\ Enter(r, "vector") /\ UNCHANGED result  BY <1>8 DEF TakeChunk
  <2>2. Written(stage', result', input, MatrixVectorProduct)  BY <2>1, MoveWrites
  <2>3. r = 0 => input.files  BY <1>2, <2>1
  <2>4. r < input.rows => input.cols > 0
    <3>1. StageNo("chunk") >= 3  BY DEF StageNo
    <3> QED  BY <1>2, <2>1, <3>1
  <2> QED  BY <2>1, <2>2, <2>3, <2>4, MoveEnds DEF Stage
<1>9. CASE Multiply(r)
  <2>1. Returned(r, "vector") /\ Enter(r, "products") /\ UNCHANGED result  BY <1>9 DEF Multiply
  <2>2. Written(stage', result', input, MatrixVectorProduct)  BY <2>1, MoveWrites
  <2>3. r = 0 => input.files  BY <1>2, <2>1
  <2>4. r < input.rows => input.cols > 0
    <3>1. StageNo("vector") >= 3  BY DEF StageNo
    <3> QED  BY <1>2, <2>1, <3>1
  <2> QED  BY <2>1, <2>2, <2>3, <2>4, MoveEnds DEF Stage
<1>10. CASE OverrunProducts(r)
  <2>1. Returned(r, "vector") /\ RowCounts(r)[r] > memory[r].cols /\ End(r, "crashed")
    BY <1>10 DEF OverrunProducts
  <2>2. /\ memory[r].rows = input.rows /\ memory[r].cols = input.cols
        /\ Joins(input, r, "vector")
    <3>1. StageNo("vector") >= 2  BY DEF StageNo
    <3> QED  BY <2>1, <3>1, AtReturn
  <2>3. RowCounts(r)[r] = RowCount(input.rows, input.cols, r)  BY <2>2 DEF RowCounts
  <2>4. RowCount(input.rows, input.cols, r) \in 0 .. input.rows
    <3>1. input.cols > 0  BY <2>2 DEF Joins
    <3> QED  BY <1>1, <3>1, ChunkIs
  <2>5. input.rows > input.cols  BY <1>1, <2>1, <2>2, <2>3, <2>4
  <2> QED  BY <2>1, <2>5, EndEnds
<1>11. CASE WriteResult(r)
  <2>1. /\ Returned(r, "products") /\ Enter(r, "barrier")
        /\ result' = IF r = 0 THEN Collected(r) ELSE result
    BY <1>11 DEF WriteResult
  <2>2. r = 0 => input.files  BY <1>2, <2>1
  <2>3. r < input.rows => input.cols > 0
    <3>1. StageNo("products") >= 3  BY DEF StageNo
    <3> QED  BY <1>2, <2>1, <3>1
  <2>4. Written(stage', result', input, MatrixVectorProduct)
    <3>1. CASE r # 0  BY <2>1, <3>1, MoveWrites
    <3>2. CASE r = 0
      <4>1. result' = MatrixVectorProduct  BY <2>1, <3>2, CollectedIs
      <4>2. stage'[0] = "barrier"
        <5>1. stage = [q \in Process |-> stage[q]]  BY HoldsNow DEF Standing
        <5> QED  BY <1>1, <2>1, <3>2, <5>1 DEF Enter
      <4> QED  BY <4>1, <4>2 DEF Written
    <3> QED  BY <3>1, <3>2
  <2> QED  BY <2>1, <2>2, <2>3, <2>4, MoveEnds DEF Stage
<1>12. CASE OverrunResult(r)
  <2>1. Returned(r, "products") /\ memory[r].rows > memory[r].cols /\ End(r, "crashed")
    BY <1>12 DEF OverrunResult
  <2>2. input.rows > input.cols
    <3>1. StageNo("products") >= 2  BY DEF StageNo
    <3> QED  BY <1>2, <2>1, <3>1
  <2> QED  BY <2>1, <2>2, EndEnds
<1>13. CASE Finish(r)
  <2>1. Returned(r, "barrier") /\ Enter(r, "done") /\ UNCHANGED result  BY <1>13 DEF Finish
  <2>2. Written(stage', result', input, MatrixVectorProduct)  BY <2>1, MoveWrites
  <2>3. r = 0 => input.files  BY <1>2, <2>1
  <2>4. r < input.rows => input.cols > 0
    <3>1. StageNo("barrier") >= 3  BY DEF StageNo
    <3> QED  BY <1>2, <2>1, <3>1
  <2>5. AllEntered(stage)  BY <2>1, FinishTold
  <2> QED  BY <2>1, <2>2, <2>3, <2>4, <2>5, MoveEnds DEF Stage
<1>14. CASE CollectiveFails(r)
  <2>1. errflag[r] /\ End(r, "aborted")  BY <1>14 DEF CollectiveFails
  <2>2. Split(input)  BY <2>1, Basics DEF Remembers
  <2> QED  BY <2>1, <2>2, EndEnds
<1> QED  BY <1>3, <1>4, <1>5, <1>6, <1>7, <1>8, <1>9, <1>10, <1>11, <1>12, <1>13, <1>14
         DEF Main

LEMMA InitEnds == Init => EndsInv
<1> SUFFICES ASSUME Init PROVE EndsInv  OBVIOUS
<1>1. 0 \in Process  BY InputAssumption DEF Process
<1>2. /\ \A r \in Process : fate[r] = "running" /\ stage[r] \in {"files", "rows"}
      /\ stage[0] = "files" /\ result = <<>>
  BY <1>1 DEF Init
<1> QED  BY <1>2 DEF EndsInv, StageNo, Written

(* What holds of the program after every step. *)
LEMMA StepKeepsEnds == ProgramInv /\ EndsInv /\ [Next]_vars => EndsInv'
<1> SUFFICES ASSUME ProgramInv, EndsInv, [Next]_vars PROVE EndsInv'  OBVIOUS
<1>1. CommInv /\ ProgramShape  BY DEF ProgramInv
<1>2. CASE UNCHANGED vars  BY <1>2, StayEnds DEF vars
<1>3. ASSUME NEW r \in Process, Main(r) \/ Communicate(r) \/ Kill(r) PROVE EndsInv'
  <2>1. CASE Main(r)  BY <1>1, <2>1, MainEnds
  <2>2. CASE Communicate(r)
    <3>1. UNCHANGED <<input, stage, fate, result>>
      BY <2>2 DEF Communicate, Isend, Irecv, Progress, WaitDone, programVars
    <3> QED  BY <3>1, StayEnds
  <2>3. CASE Kill(r)  BY <1>1, <2>3, EndEnds DEF Kill
  <2> QED  BY <1>3, <2>1, <2>2, <2>3
<1> QED  BY <1>2, <1>3 DEF Next

SystemInv == ProgramInv /\ EndsInv

(***************************************************************************)
(* The inductive invariant of the program: where each rank stands in the   *)
(* operations of its collective, which messages are on their way between   *)
(* these, what each carries and what each rank has made of it.             *)
(***************************************************************************)
THEOREM SystemHolds == Spec => []SystemInv
<1>1. Init => SystemInv  BY InitProgram, InitEnds DEF SystemInv
<1>2. SystemInv /\ [Next]_vars => SystemInv'  BY StepKeepsProgram, StepKeepsEnds DEF SystemInv
<1> QED  BY <1>1, <1>2, PTL DEF Spec

-----------------------------------------------------------------------------
(* What follows of the invariant: the properties of the program.           *)

LEMMA ResultFollows == SystemInv => ResultCorrect
<1> SUFFICES ASSUME SystemInv, NEW r \in Process, stage[r] = "done"
             PROVE  result = MatrixVectorProduct
  BY DEF ResultCorrect
<1>1. CommInv /\ EndsInv  BY DEF SystemInv, ProgramInv
<1>2. AllEntered(stage) /\ 0 \in Process  BY <1>1, Basics, InputIs DEF EndsInv
<1> QED  BY <1>1, <1>2 DEF EndsInv, Written, AllEntered

(***************************************************************************)
(* The file rank 0 writes holds the product of the matrix and the vector   *)
(* once any rank is done: for every matrix and every placement, and every  *)
(* number of processes with standard sends in MPI_Gatherv, with all        *)
(* messages matched by the queues of MPICH.                                *)
(***************************************************************************)
THEOREM ProgramResultCorrect == Spec => []ResultCorrect
BY SystemHolds, ResultFollows, PTL

-----------------------------------------------------------------------------
(* On a split machine a rank without rows has a parent with rows. *)
LEMMA SplitExempts ==
  ASSUME NEW i \in Input, Split(i), i.cols > 0
  PROVE  \E d \in Process, p \in Process :
           LET e == IRecv(p, "bcast", "node")
           IN  Planned(i, d, "barrier", e) /\ Exempt(i, p, d, "barrier", "bcast")
<1> DEFINE rows == i.rows
           node == i.node
<1>1. PICK r \in Process, q \in Process : r < rows /\ rows <= q /\ node[r] = node[q]
  BY DEF Split
<1>2. rows \in Nat /\ Process \subseteq Nat  BY InputIs
<1> DEFINE S == NodeMembers(node, q)
           T == {k \in S : rows <= k}
<1>3. S \subseteq Process /\ q \in T /\ r \in S /\ T \subseteq Nat
  BY <1>1, <1>2 DEF NodeMembers
<1>4. PICK d \in T : \A k \in T : d <= k
  <2> HIDE DEF T
  <2> QED  BY <1>3, LeastNumber
<1>5. d \in Process /\ d \in S /\ NodeMembers(node, d) = S /\ r < d
  BY <1>1, <1>2, <1>3 DEF NodeMembers
<1>6. NodeAware(node)
  <2>1. r \in NodeMembers(node, q) /\ r < q  BY <1>1, <1>2 DEF NodeMembers
  <2>2. q \notin NodeRoots(node)  BY <1>2, <2>1 DEF NodeRoots
  <2> QED  BY <2>2 DEF NodeAware
<1>7. RankIn(S, d) > 0
  <2>1. RankIn(S, d) \in Nat /\ (RankIn(S, d) = 0 <=> \A k \in S : d <= k)
    BY <1>3, <1>5, RankZero
  <2>2. ~(d <= r)  BY <1>2, <1>5
  <2> QED  BY <1>3, <2>1, <2>2
<1> DEFINE p == Parent(S, d)
           e == IRecv(p, "bcast", "node")
<1>8. Has(Barrier(node, d), e)
  <2>1. e = IRecv(Parent(NodeMembers(node, d), d), "bcast", "node")  BY <1>5
  <2>2. RankIn(NodeMembers(node, d), d) > 0  BY <1>5, <1>7
  <2> HIDE DEF e, S, node
  <2> QED  BY <1>5, <1>6, <2>1, <2>2, ReleaseOrder
<1>9. Planned(i, d, "barrier", e)
  <2>1. e # Wait  BY DEF IRecv, Wait
  <2>2. Plan(i, d, "barrier") = Barrier(node, d) /\ Joins(i, d, "barrier")
    BY <1>5, BarrierPlan
  <2> HIDE DEF e
  <2> QED  BY <1>8, <2>1, <2>2 DEF Planned
<1>10. p \in Process /\ p < rows
  <2>1. e.kind = "irecv" /\ e.peer = p /\ e.tag = "bcast"  BY OpFields
  <2>2. "barrier" \in Stage  BY DEF Stage
  <2> HIDE DEF e, p
  <2>3. ReleaseOp(i, d, e) /\ BcastOp(i, d, e)  BY <1>5, <1>9, <2>1, <2>2, PlannedIs
  <2>4. p \in Process /\ p < d /\ i.node[p] = i.node[d]
    BY <1>5, <2>1, <2>3, BcastOpIs, ReleaseOpIs
  <2>5. p \in S  BY <1>5, <2>4 DEF NodeMembers
  <2>6. p \notin T  BY <1>2, <1>4, <1>5, <2>4
  <2> QED  BY <1>2, <2>4, <2>5, <2>6
<1>11. Exempt(i, p, d, "barrier", "bcast")
  BY <1>4, <1>10 DEF Exempt
<1> QED  BY <1>5, <1>9, <1>10, <1>11

LEMMA SplitNeverDone ==
  ASSUME CommInv, Split(input), input.cols > 0, \A r \in Process : stage[r] = "done"
  PROVE  FALSE
<1>1. input \in Input
  <2>1. 0 \in Process  BY InputAssumption DEF Process
  <2> QED  BY <2>1, Basics
<1>2. PICK d \in Process, p \in Process :
        /\ Planned(input, d, "barrier", IRecv(p, "bcast", "node"))
        /\ Exempt(input, p, d, "barrier", "bcast")
  BY <1>1, SplitExempts
<1> DEFINE e == IRecv(p, "bcast", "node")
<1>3. e.kind = "irecv" /\ e.peer = p /\ e.tag = "bcast"  BY OpFields
<1>4. Remembers(input, AllEntered(stage), d, "done", step[d], memory[d], errflag[d])
  BY Basics
<1> HIDE DEF e
<1>5. Waited(input, d, "done", step[d], "barrier", e)
  BY <1>2, <1>3 DEF Waited, StageNo, e
<1>6. Absorbed(input, AllEntered(stage), d, memory[d], errflag[d], "barrier", e)
  BY <1>4, <1>5 DEF Remembers
<1>7. ~errflag[d]  BY <1>4 DEF Remembers
<1> QED  BY <1>2, <1>3, <1>6, <1>7 DEF Absorbed

LEMMA FinishFollows == SystemInv => FinishesExactlyWhen
<1> SUFFICES ASSUME SystemInv PROVE FinishesExactlyWhen  OBVIOUS
<1>1. CommInv /\ EndsInv  BY DEF SystemInv, ProgramInv
<1>2. input \in Input /\ 0 \in Process /\ input.rows \in Nat /\ input.cols \in Nat
  <2>1. 0 \in Process  BY InputAssumption DEF Process
  <2> QED  BY <1>1, <2>1, Basics, InputIs
<1>3. SplitMachine <=> Split(input)  BY DEF SplitMachine, Split
<1>4. ASSUME CannotFinish, \A r \in Process : stage[r] = "done"
      PROVE  FALSE
  <2>1. stage[0] = "done" /\ StageNo(stage[0]) >= 3  BY <1>2, <1>4 DEF StageNo
  <2>2. input.files  BY <1>1, <2>1 DEF EndsInv
  <2>3. input.rows > 0 => input.cols > 0  BY <1>1, <1>2, <2>1 DEF EndsInv
  <2>4. Split(input)  BY <1>2, <1>3, <1>4, <2>2, <2>3 DEF CannotFinish
  <2>5. input.rows > 0  BY <1>2, <2>4 DEF Split, Process
  <2> QED  BY <1>1, <1>4, <2>3, <2>4, <2>5, SplitNeverDone
<1>5. ASSUME NEW r \in Process, fate[r] \in Failed
      PROVE  CannotFinish \/ input.rows > input.cols
  BY <1>1, <1>3, <1>5 DEF EndsInv, Failed, CannotFinish
<1> QED  BY <1>4, <1>5 DEF FinishesExactlyWhen

(***************************************************************************)
(* The program does not get to its end without the files, with an empty    *)
(* vector, or when the ranks of one machine differ in having rows; and a   *)
(* process fails for no other reason than these, or a matrix that has more *)
(* rows than columns.                                                      *)
(***************************************************************************)
THEOREM ProgramFinishesExactlyWhen == Spec => []FinishesExactlyWhen
BY SystemHolds, FinishFollows, PTL

In(st) == [r \in Process |-> IF st[r] \in {"barrier", "done"} THEN 1 ELSE 0]

Out(st) == [r \in Process |-> IF st[r] = "done" THEN 1 ELSE 0]

LEMMA BarrierSame ==
  ASSUME \A q \in Process : /\ stage[q] \in {"barrier", "done"}
                                 <=> stage'[q] \in {"barrier", "done"}
                            /\ stage[q] = "done" <=> stage'[q] = "done"
  PROVE  UNCHANGED EndBarrier!vars
BY DEF EndBarrier!vars

LEMMA BarrierEnter ==
  ASSUME NEW r \in Process, stage = [q \in Process |-> stage[q]], Enter(r, "barrier"),
         stage[r] \notin {"barrier", "done"}
  PROVE  EndBarrier!Next
<1>1. stage'[r] = "barrier" /\ \A q \in Process \ {r} : stage'[q] = stage[q]
  BY DEF Enter
<1>2. In(stage') = [In(stage) EXCEPT ![r] = @ + 1] /\ In(stage)[r] = Out(stage)[r]
  <2>1. \A q \in Process : In(stage')[q] = IF q = r THEN 1 ELSE In(stage)[q]
    BY <1>1 DEF In
  <2>2. In(stage)[r] = 0 /\ Out(stage)[r] = 0  BY DEF In, Out
  <2>3. \A st : In(st) = [q \in Process |-> In(st)[q]]  BY DEF In
  <2>4. [In(stage) EXCEPT ![r] = @ + 1] = [q \in Process |-> In(stage')[q]]
    BY <2>1, <2>2, <2>3
  <2> QED  BY <2>2, <2>3, <2>4
<1>3. Out(stage') = Out(stage)  BY <1>1 DEF Out
<1>4. EndBarrier!Enter(r)  BY <1>2, <1>3 DEF EndBarrier!Enter, In, Out
<1> QED  BY <1>4 DEF EndBarrier!Next

LEMMA BarrierLeave ==
  ASSUME NEW r \in Process, stage = [q \in Process |-> stage[q]], Enter(r, "done"),
         stage[r] = "barrier", AllEntered(stage)
  PROVE  EndBarrier!Next
<1>1. stage'[r] = "done" /\ \A q \in Process \ {r} : stage'[q] = stage[q]
  BY DEF Enter
<1>2. Out(stage') = [Out(stage) EXCEPT ![r] = @ + 1] /\ Out(stage)[r] < In(stage)[r]
  <2>1. \A q \in Process : Out(stage')[q] = IF q = r THEN 1 ELSE Out(stage)[q]
    BY <1>1 DEF Out
  <2>2. Out(stage)[r] = 0 /\ In(stage)[r] = 1  BY DEF In, Out
  <2>3. \A st : Out(st) = [q \in Process |-> Out(st)[q]]  BY DEF Out
  <2>4. [Out(stage) EXCEPT ![r] = @ + 1] = [q \in Process |-> Out(stage')[q]]
    BY <2>1, <2>2, <2>3
  <2> QED  BY <2>2, <2>3, <2>4
<1>3. In(stage') = In(stage)  BY <1>1 DEF In
<1>4. \A q \in Process : In(stage)[r] <= In(stage)[q]  BY DEF In, AllEntered
<1>5. EndBarrier!Leave(r)  BY <1>2, <1>3, <1>4 DEF EndBarrier!Leave, In, Out
<1> QED  BY <1>5 DEF EndBarrier!Next

LEMMA StepBarrier == SystemInv /\ [Next]_vars => [EndBarrier!Next]_(EndBarrier!vars)
<1> SUFFICES ASSUME SystemInv, [Next]_vars PROVE [EndBarrier!Next]_(EndBarrier!vars)
  OBVIOUS
<1>1. CommInv  BY DEF SystemInv, ProgramInv
<1>2. stage = [q \in Process |-> stage[q]]
  <2>1. 0 \in Process  BY InputAssumption DEF Process
  <2> QED  BY <1>1, <2>1, HoldsNow DEF Standing
<1>3. CASE UNCHANGED stage  BY <1>3, BarrierSame
<1>4. ASSUME NEW r \in Process, NEW a, NEW b, Returned(r, a), Enter(r, b),
             a \notin {"barrier", "done"}, b \notin {"barrier", "done"}
      PROVE  UNCHANGED EndBarrier!vars
  <2>1. stage[r] = a  BY <1>4 DEF Returned
  <2>2. stage'[r] = b /\ \A q \in Process \ {r} : stage'[q] = stage[q]
    BY <1>2, <1>4 DEF Enter
  <2> QED  BY <1>4, <2>1, <2>2, BarrierSame
<1>5. ASSUME NEW r \in Process, Main(r) PROVE [EndBarrier!Next]_(EndBarrier!vars)
  <2>1. CASE OpenFiles(r) /\ stage' # stage
    BY <1>4, <2>1 DEF OpenFiles, End
  <2>2. CASE LearnRows(r)  BY <1>4, <2>2 DEF LearnRows
  <2>3. CASE DealRows(r)  BY <1>4, <2>3 DEF DealRows
  <2>4. CASE TakeChunk(r)  BY <1>4, <2>4 DEF TakeChunk
  <2>5. CASE Multiply(r)  BY <1>4, <2>5 DEF Multiply
  <2>6. CASE SkipWork(r) \/ WriteResult(r)
    <3>1. Enter(r, "barrier") /\ stage[r] \notin {"barrier", "done"}
      BY <2>6 DEF SkipWork, WriteResult, Returned
    <3> QED  BY <1>2, <3>1, BarrierEnter
  <2>7. CASE Finish(r)
    <3>1. Returned(r, "barrier") /\ Enter(r, "done")  BY <2>7 DEF Finish
    <3>2. stage[r] = "barrier" /\ AllEntered(stage)
      BY <1>1, <3>1, FinishTold DEF Returned
    <3> QED  BY <1>2, <3>1, <3>2, BarrierLeave
  <2>8. CASE DivideByZero(r) \/ OverrunProducts(r) \/ OverrunResult(r) \/ CollectiveFails(r)
    BY <1>3, <2>8 DEF DivideByZero, OverrunProducts, OverrunResult, CollectiveFails, End
  <2> QED  BY <1>3, <1>5, <2>1, <2>2, <2>3, <2>4, <2>5, <2>6, <2>7, <2>8 DEF Main
<1>6. ASSUME NEW r \in Process, Communicate(r) \/ Kill(r) PROVE UNCHANGED stage
  BY <1>6 DEF Communicate, Isend, Irecv, Progress, WaitDone, programVars, Kill, End
<1>7. CASE UNCHANGED vars  BY <1>3, <1>7 DEF vars
<1> QED  BY <1>3, <1>5, <1>6, <1>7 DEF Next

LEMMA InitBarrier == Init => EndBarrier!Init
<1> SUFFICES ASSUME Init PROVE EndBarrier!Init  OBVIOUS
<1>1. \A r \in Process : stage[r] \in {"files", "rows"}  BY DEF Init
<1> QED  BY <1>1 DEF EndBarrier!Init

(***************************************************************************)
(* MPI_Barrier (line 170) lets no rank go on before every rank has called  *)
(* it: the program implements a barrier, for every number of processes     *)
(* with standard sends in MPI_Gatherv and every placement on machines,     *)
(* whether its ranks exchange messages with all others or with those of    *)
(* their machine and its root.                                             *)
(***************************************************************************)
THEOREM ProgramImplementsBarrier == Spec => WorldBarrier
<1>1. Init => EndBarrier!Init  BY InitBarrier
<1>2. SystemInv /\ [Next]_vars => [EndBarrier!Next]_(EndBarrier!vars)  BY StepBarrier
<1>3. Spec => []SystemInv  BY SystemHolds
<1> QED  BY <1>1, <1>2, <1>3, PTL DEF Spec, WorldBarrier, EndBarrier!Spec

\* When all are done and all have rows, nothing is in flight.
LEMMA NoneInFlight ==
  ASSUME NEW i \in Input, NEW st, NEW sp, NEW req, Standing(i, st, sp, req),
         NEW K, Delivery(i, DidOf(i, st, sp), WaitOf(i, st, sp, req), K),
         \A r \in Process : st[r] = "done" /\ r < i.rows
  PROVE  \A s, d, a, t, c : <<s, d, a, t, c>> \notin K
<1> DEFINE D == DidOf(i, st, sp)
           W == WaitOf(i, st, sp, req)
<1> SUFFICES ASSUME NEW s, NEW d, NEW a, NEW t, NEW c, <<s, d, a, t, c>> \in K
             PROVE  FALSE
  OBVIOUS
<1>1. i.rows \in Nat /\ Process \subseteq Nat  BY InputIs
<1>2. Sent(D, s, d, a, t, c)
  <2>1. InFlightSent(D, K)  BY DEF Delivery
  <2> QED  BY <2>1 DEF InFlightSent
<1>3. s \in Process /\ a \in Stage /\ Planned(i, s, a, ISend(d, t, c))
  <2>1. Closed(i, D)  BY DEF Delivery
  <2> QED  BY <1>2, <2>1 DEF Closed, Sent
<1>4. d \in Process /\ Slot(i, d, a) = a /\ Planned(i, d, a, IRecv(s, t, c))
  <2>1. /\ d \in Process
        /\ \/ Slot(i, d, a) = a /\ Planned(i, d, a, IRecv(s, t, c))
           \/ i.rows <= d
    BY <1>3, SlotIs
  <2> QED  BY <1>1, <2>1
<1>5. a # "done"  BY <1>3, <1>4, PlannedIs
<1>6. <<d, a, IRecv(s, t, c)>> \in D
  <2>1. StageNo(a) < StageNo(st[d])  BY <1>3, <1>4, <1>5 DEF StageNo, Stage
  <2>2. Did(i, st, sp, d, a, IRecv(s, t, c))  BY <1>4, <2>1 DEF Did
  <2> QED  BY <1>3, <1>4, <2>2, DidIs
<1>7. <<d, a, IRecv(s, t, c)>> \notin W
  <2> DEFINE op == IRecv(s, t, c)
  <2> HIDE DEF op
  <2>1. <<d, a, op>> \in WaitOf(i, st, sp, req) => a = st[d]  BY WaitIs
  <2> QED  BY <1>4, <1>5, <2>1 DEF op
<1>8. Exempt(i, s, d, a, t)
  <2>1. NotTwice(i, D, W, K)  BY DEF Delivery
  <2>2. Recd(D, W, s, d, Slot(i, d, a), t, c)  BY <1>4, <1>6, <1>7 DEF Recd
  <2>3. <<s, d, a, t, c>> \in K  OBVIOUS
  <2> HIDE DEF D, W
  <2>4. \A s2, d2, a2, t2, c2 :
          <<s2, d2, a2, t2, c2>> \in K /\ Recd(D, W, s2, d2, Slot(i, d2, a2), t2, c2)
            => Exempt(i, s2, d2, a2, t2)
    BY <2>1 DEF NotTwice
  <2> QED  BY <2>2, <2>3, <2>4
<1>9. i.rows <= d  BY <1>8 DEF Exempt
<1>10. d \in Nat /\ d < i.rows  BY <1>1, <1>4
<1> HIDE DEF D, W
<1> QED  BY <1>1, <1>9, <1>10

LEMMA NothingQueued ==
  ASSUME CommInv, \A r \in Process : stage[r] = "done" /\ r < input.rows,
         NEW Q, Q = Family(channel, posted, unexpected),
         NEW q \in Place, q[1] # "posted", NEW k \in DOMAIN Q[q]
  PROVE  FALSE
<1> DEFINE all == AllEntered(stage)
           D == DidOf(input, stage, step)
           W == WaitOf(input, stage, step, request)
<1>1. 0 \in Process  BY InputAssumption DEF Process
<1>2. input \in Input /\ Rank = Process  BY <1>1, Basics
<1>3. Standing(input, stage, step, request) /\ Flow(input, stage, step, request, Q)
  BY <1>1, HoldsNow
<1>4. PICK L : /\ Stream(input, all, stage, request, Q, L)
               /\ Delivery(input, D, W, KeysIn(Q, L))
  BY <1>3 DEF Flow
<1>5. ~Announces(q, Q[q][k])
  <2>1. ASSUME Announces(q, Q[q][k]) PROVE FALSE
    <3> DEFINE x == KeyOf(q, Q[q][k], L[q][k])
    <3>1. Announced(Q, q, k)  BY <2>1 DEF Announced
    <3>2. x \in KeysIn(Q, L)  BY <3>1, KeysAre
    <3> DEFINE K == KeysIn(Q, L)
    <3>3. Delivery(input, D, W, K)  BY <1>4
    <3> HIDE DEF K, D, W
    <3>4. \A s, d, a, t, c : <<s, d, a, t, c>> \notin K
      BY <1>2, <1>3, <3>3, NoneInFlight DEF D, W
    <3> QED  BY <3>2, <3>4 DEF KeyOf, K
  <2> QED  BY <2>1
<1>6. q[1] = "channel" /\ q[2] \in Process /\ q[3] \in Process
  BY <1>2, <1>5 DEF Announces, Place
<1>7. ElementOK(input, all, stage, request, q, Q[q][k], L[q][k])
  BY <1>4 DEF Stream, Contents
<1>8. stage[q[2]] \in Large \/ stage[q[3]] \in Large
  BY <1>5, <1>6, <1>7 DEF ElementOK, ClearOK, DataOK
<1> QED  BY <1>6, <1>8 DEF Large

LEMMA NothingFollows == SystemInv => NothingLeftBehind
<1> SUFFICES ASSUME SystemInv, N <= input.rows, \A r \in Process : stage[r] = "done",
                    NEW r \in Process
             PROVE  /\ posted[r] = <<>> /\ unexpected[r] = <<>>
                    /\ \A d \in Process : channel[r][d] = <<>>
  BY DEF NothingLeftBehind
<1> DEFINE Q == Family(channel, posted, unexpected)
<1>1. CommInv  BY DEF SystemInv, ProgramInv
<1>2. /\ input \in Input /\ Rank = Process /\ Shaped(channel, posted, unexpected)
      /\ Sound(Q, request)
      /\ step[r] \in Nat /\ Orderly(Plan(input, r, stage[r]))
      /\ Asked(Plan(input, r, stage[r]), step[r], request[r])
  BY <1>1, Basics
<1>3. \A p \in Process : stage[p] = "done" /\ p < input.rows
  <2>1. N \in Nat /\ input.rows \in Nat  BY <1>2, InputIs, InputAssumption
  <2> QED  BY <2>1 DEF Process
<1>4. posted[r] = <<>>
  <2>1. Plan(input, r, stage[r]) = <<>>  BY <1>3 DEF Plan
  <2>2. step[r] > Len(Plan(input, r, stage[r]))
    <3>1. Standing(input, stage, step, request)  BY <1>1, HoldsNow
    <3>2. Control(input, r, stage[r], step[r], request[r])  BY <3>1 DEF Standing
    <3> QED  BY <2>1, <3>2 DEF Control
  <2>3. Unused(request[r])  BY <1>2, <2>2, Idle
  <2>4. \A h \in Handle : request[r][h].state # "posted"  BY <2>3 DEF Unused, None
  <2> QED  BY <1>1, <2>4, NothingPosted
<1>5. ASSUME NEW q \in Place, q[1] # "posted" PROVE Q[q] = <<>>
  <2>1. \E S : Q[q] \in Seq(S)  BY <1>2 DEF Sound, IsFamily
  <2>2. \A k : k \notin DOMAIN Q[q]
    <3>1. Q = Family(channel, posted, unexpected)  OBVIOUS
    <3> HIDE DEF Q
    <3> QED  BY <1>1, <1>3, <1>5, <3>1, NothingQueued
  <2> HIDE DEF Q
  <2>3. Len(Q[q]) # 0 => 1 \in DOMAIN Q[q]  BY <2>1
  <2> QED  BY <2>1, <2>2, <2>3
<1>6. unexpected[r] = <<>>
  <2>1. Unexpected(r) \in Place /\ Q[Unexpected(r)] = unexpected[r]  BY <1>2, Parts
  <2>2. Unexpected(r)[1] # "posted"  BY DEF Unexpected
  <2> HIDE DEF Q
  <2> QED  BY <1>5, <2>1, <2>2
<1>7. ASSUME NEW d \in Process PROVE channel[r][d] = <<>>
  <2>1. Channel(r, d) \in Place /\ Q[Channel(r, d)] = channel[r][d]  BY <1>2, Parts
  <2>2. Channel(r, d)[1] # "posted"  BY DEF Channel
  <2> HIDE DEF Q
  <2> QED  BY <1>5, <2>1, <2>2
<1> QED  BY <1>4, <1>6, <1>7

(***************************************************************************)
(* When every rank has rows and all are done, every message has met the    *)
(* receive it was meant for: nothing is left in a queue or a connection.   *)
(***************************************************************************)
THEOREM ProgramLeavesNothing == Spec => []NothingLeftBehind
BY SystemHolds, NothingFollows, PTL

-----------------------------------------------------------------------------
(* The types.                                                              *)

(* What a message carries: numbers, their size and the error bit. *)
MessageSet == [data : Sequence, size : Nat, error : BOOLEAN]

LEMMA MessageIs ==
  ASSUME NEW i \in Input, NEW all, NEW s \in Process, NEW d \in Process, NEW a, NEW t,
         NEW m, Right(i, all, s, d, a, t, m), a \in Large => i.cols > 0
  PROVE  m \in MessageSet
<1>1. i.rows \in Nat /\ i.cols \in Nat  BY InputIs
<1> DEFINE x == Content(i, s, d, a, t)
<1>2. x \in Seq(Int)
  <2>1. CASE a \in Large
    <3>1. ChunkOf(i, d) \in Seq(Int) /\ ProductsOf(i, s) \in Seq(Int)  BY <2>1, ChunkIs
    <3> QED  BY <2>1, <3>1 DEF Content, Large
  <2>2. CASE a = "vector"
    <3>1. Vector(i) \in Seq(Int)  BY VectorIs
    <3> QED  BY <2>2, <3>1 DEF Content
  <2>3. CASE a \notin Large \union {"vector"}
    BY <1>1, <2>3 DEF Content, Large
  <2> QED  BY <2>1, <2>2, <2>3
<1>3. /\ m = [data |-> x, error |-> m.error,
              size |-> IF a = "barrier" /\ t = "bcast" THEN 1 ELSE Len(x) * IntegerBytes]
      /\ m.error \in BOOLEAN
  BY DEF Right
<1> HIDE DEF x
<1> DEFINE z == IF a = "barrier" /\ t = "bcast" THEN 1 ELSE Len(x) * IntegerBytes
<1>4. z \in Nat  BY <1>2 DEF IntegerBytes
<1>5. m = [data |-> x, error |-> m.error, size |-> z]  BY <1>3
<1> HIDE DEF z
<1> QED  BY <1>2, <1>3, <1>4, <1>5 DEF MessageSet, Sequence

\* The stage a receive's message is from, or a send's is of, is one of work
\* only when the vector is not empty.
LEMMA LargeJoins ==
  ASSUME NEW i, NEW r, NEW a, Joins(i, r, a)
  PROVE  /\ a \in Large => i.cols > 0
         /\ \A s, t : Meant(i, s, r, a, t) \in Large => i.cols > 0
BY DEF Joins, Large, Meant

LEMMA RequestTyped ==
  ASSUME CommInv, MessageSet \subseteq Payload, NEW r \in Process, NEW h \in Handle
  PROVE  request[r][h] \in Request \union {None}
<1> DEFINE i == input
           a == stage[r]
           s == Plan(i, r, a)
           all == AllEntered(stage)
           x == request[r][h]
<1>1. i \in Input /\ a \in Stage /\ Joins(i, r, a) /\ Asked(s, step[r], request[r])  BY Basics
<1>2. RequestsOK(i, all, r, a, step[r], request[r])  BY HoldsNow
<1>3. PICK p \in Process : h = <<"send", p>> \/ h = <<"recv", p>>  BY HandlesAre
<1>4. SUFFICES ASSUME x # None PROVE x \in Request
  OBVIOUS
<1>5. CASE h = <<"recv", p>>
  <2>1. PICK op : Open(s, step[r], op) /\ op.kind = "irecv" /\ op.peer = p
    BY <1>1, <1>4, <1>5 DEF Asked
  <2>2. RecvOK(i, all, r, a, op, x)  BY <1>2, <1>5, <2>1 DEF RequestsOK
  <2>3. CASE x = [state |-> "posted"] \/ x = Cleared
    BY <2>3 DEF Cleared, Request
  <2>4. CASE \E m : /\ x = Complete(m)
                    /\ Right(i, all, op.peer, r, Meant(i, op.peer, r, a, op.tag), op.tag, m)
    <3>1. PICK m : /\ x = Complete(m)
                   /\ Right(i, all, op.peer, r, Meant(i, op.peer, r, a, op.tag), op.tag, m)
      BY <2>4
    <3> DEFINE b == Meant(i, p, r, a, op.tag)
    <3>2. b \in Large => i.cols > 0  BY <1>1, LargeJoins
    <3>3. Right(i, all, p, r, b, op.tag, m)  BY <2>1, <3>1
    <3> HIDE DEF b, all
    <3>4. m \in MessageSet  BY <1>1, <3>2, <3>3, MessageIs
    <3> QED  BY <3>1, <3>4 DEF Complete, Request
  <2> QED  BY <2>2, <2>3, <2>4 DEF RecvOK
<1>6. CASE h = <<"send", p>>
  <2>1. SendOK(i, all, r, a, p, x)  BY <1>2, <1>4, <1>6 DEF RequestsOK
  <2>2. PICK m, v : /\ x = [state |-> v, payload |-> m] /\ v \in {"sending", "complete"}
                    /\ a \in Large /\ Right(i, all, r, p, a, "none", m)
    BY <2>1 DEF SendOK
  <2>3. m \in MessageSet
    <3>1. a \in Large => i.cols > 0  BY <1>1, LargeJoins
    <3> HIDE DEF all
    <3> QED  BY <1>1, <2>2, <3>1, MessageIs
  <2> QED  BY <2>2, <2>3 DEF Request
<1> QED  BY <1>3, <1>5, <1>6

LEMMA QueueSeq ==
  ASSUME NEW q, \E S : q \in Seq(S), NEW T, \A k \in DOMAIN q : q[k] \in T
  PROVE  q \in Seq(T)
<1>1. PICK S : q \in Seq(S)  OBVIOUS
<1>2. Len(q) \in Nat /\ q = [k \in 1 .. Len(q) |-> q[k]] /\ DOMAIN q = 1 .. Len(q)
  BY <1>1
<1> QED  BY <1>2

LEMMA PostedTyped ==
  ASSUME CommInv, NEW r \in Process
  PROVE  posted[r] \in Seq([match : Match, handle : Handle])
<1>1. Shaped(channel, posted, unexpected) /\ Sound(Family(channel, posted, unexpected), request)
      /\ Rank = Process
  BY Basics
<1>2. \E S : posted[r] \in Seq(S)
  <2> DEFINE Q == Family(channel, posted, unexpected)
  <2>1. Posted(r) \in Place /\ Q[Posted(r)] = posted[r]  BY <1>1, Parts
  <2>2. IsFamily(Q)  BY <1>1 DEF Sound
  <2> HIDE DEF Q
  <2>3. \E S : Q[Posted(r)] \in Seq(S)  BY <2>1, <2>2 DEF IsFamily
  <2> QED  BY <2>1, <2>3
<1>3. ASSUME NEW k \in DOMAIN posted[r]
      PROVE  posted[r][k] \in [match : Match, handle : Handle]
  <2>1. PostedOK(input, r, stage[r], step[r], posted[r])
        /\ Standing(input, stage, step, request)
    BY HoldsNow
  <2>2. PICK op : /\ Open(Plan(input, r, stage[r]), step[r], op) /\ op.kind = "irecv"
                  /\ posted[r][k] = Entry(op)
    BY <2>1 DEF PostedOK
  <2>3. input \in Input /\ stage[r] \in Stage  BY Basics
  <2>4. Planned(input, r, stage[r], op)  BY <2>1, <2>2, <2>3, OpenIs
  <2>5. /\ op.peer \in Process /\ op.context \in {"world", "node", "roots"}
        /\ op.tag \in {"bcast", "barrier", "scatterv", "gatherv"}
    BY <2>3, <2>4, PlannedIs DEF Stage
  <2>6. op.tag \in Tag /\ op.context \in Context  BY <2>5, InputAssumption
  <2>7. <<"recv", op.peer>> \in Handle  BY <2>5, HandlesAre
  <2> QED  BY <1>1, <2>2, <2>5, <2>6, <2>7 DEF Entry, Match
<1> QED  BY <1>2, <1>3, QueueSeq

LEMMA ElementTyped ==
  ASSUME CommInv, MessageSet \subseteq Payload,
         NEW Q, Q = Family(channel, posted, unexpected),
         NEW q \in Place, q[1] # "posted", NEW k \in DOMAIN Q[q]
  PROVE  Q[q][k] \in IF q[1] = "unexpected" THEN Announcement ELSE Packet
<1> DEFINE i == input
           all == AllEntered(stage)
           D == DidOf(i, stage, step)
           W == WaitOf(i, stage, step, request)
           e == Q[q][k]
<1>1. 0 \in Process  BY InputAssumption DEF Process
<1>2. i \in Input /\ Rank = Process  BY <1>1, Basics
<1>3. Standing(i, stage, step, request) /\ Flow(i, stage, step, request, Q)
  BY <1>1, HoldsNow
<1>4. PICK L : Stream(i, all, stage, request, Q, L) /\ Delivery(i, D, W, KeysIn(Q, L))
  BY <1>3 DEF Flow
<1>5. ElementOK(i, all, stage, request, q, e, L[q][k])
  BY <1>4 DEF Stream, Contents
<1>6. q[3] \in Process /\ (q[1] = "channel" => q[2] \in Process)
      /\ q[1] \in {"channel", "unexpected"}
  BY <1>2 DEF Place
<1>7. CASE Announces(q, e)
  <2> DEFINE s == e.envelope.source
             t == e.envelope.tag
             c == e.envelope.context
             a == L[q][k]
  <2>1. /\ s \in Process /\ t \in OperationTag /\ c \in Communicator
        /\ e.envelope = EnvelopeOf(s, t, c) /\ e.type \in {"eager", "rts"}
    BY <1>5, <1>7, ElementIs
  <2>2. e.envelope \in Envelope
    BY <1>2, <2>1, InputAssumption DEF Envelope, EnvelopeOf, OperationTag, Communicator
  <2>3. a \in Large => i.cols > 0
    <3>1. Announced(Q, q, k)  BY <1>7 DEF Announced
    <3>2. <<s, q[3], a, t, c>> \in KeysIn(Q, L)  BY <3>1, KeysAre DEF KeyOf
    <3>3. InFlightSent(D, KeysIn(Q, L)) /\ Closed(i, D)  BY <1>4 DEF Delivery
    <3> HIDE DEF D, s, t, c, a
    <3>4. Sent(D, s, q[3], a, t, c)  BY <3>2, <3>3 DEF InFlightSent
    <3>5. Planned(i, s, a, ISend(q[3], t, c))  BY <3>3, <3>4 DEF Sent, Closed
    <3>6. Joins(i, s, a)  BY <3>5 DEF Planned
    <3> QED  BY <3>6, LargeJoins
  <2>4. CASE e.type = "eager"
    <3>1. \E y \in Envelope : \E m : e = Eager(y, m) /\ Right(i, all, s, q[3], a, t, m)
      <4>1. PICK y, m : /\ e = Eager(y, m)
                        /\ Right(i, all, s, q[3], a, t, m)
        BY <1>5, <1>7, <2>4, PacketTypes, EnvelopeFields DEF ElementOK, AnnouncedOK
      <4>2. y = e.envelope  BY <4>1, PacketTypes
      <4> QED  BY <2>2, <4>1, <4>2
    <3>a. PICK y \in Envelope : \E m : e = Eager(y, m) /\ Right(i, all, s, q[3], a, t, m)
      BY <3>1
    <3>2. PICK m : e = Eager(y, m) /\ Right(i, all, s, q[3], a, t, m)
      BY <3>a
    <3> HIDE DEF s, t, a, all, D, W
    <3>3. m \in MessageSet  BY <1>2, <1>6, <2>1, <2>3, <3>2, MessageIs
    <3> HIDE DEF e
    <3>4. e \in Packet  BY <3>2, <3>3 DEF Eager, Packet
    <3>5. e \in Announcement  BY <2>4, <3>4 DEF Announcement
    <3> QED  BY <3>4, <3>5 DEF e
  <2>5. CASE e.type = "rts"
    <3>1. e = ReadyToSend(EnvelopeOf(s, t, c), <<"send", q[3]>>)
      BY <1>5, <1>7, <2>5, PacketTypes, EnvelopeFields DEF ElementOK, AnnouncedOK
    <3>2. <<"send", q[3]>> \in Handle  BY <1>6, HandlesAre
    <3>3. e = ReadyToSend(e.envelope, <<"send", q[3]>>)  BY <2>1, <3>1
    <3> HIDE DEF e
    <3>4. e \in Packet  BY <2>2, <3>2, <3>3 DEF ReadyToSend, Packet
    <3>5. e \in Announcement  BY <2>5, <3>4 DEF Announcement
    <3> QED  BY <3>4, <3>5 DEF e
  <2> QED  BY <2>1, <2>4, <2>5
<1>8. CASE ~Announces(q, e)
  <2>1. q[1] = "channel"  BY <1>6, <1>8 DEF Announces
  <2>2. \A p \in Process : <<"send", p>> \in Handle /\ <<"recv", p>> \in Handle  BY HandlesAre
  <2>3. CASE ClearOK(i, all, stage, request, q, e)
    <3>1. e = ClearToSend(<<"send", q[2]>>, <<"recv", q[3]>>)  BY <2>3 DEF ClearOK
    <3> HIDE DEF e
    <3>2. e \in Packet  BY <1>6, <2>1, <2>2, <3>1 DEF ClearToSend, Packet
    <3> QED  BY <2>1, <3>2 DEF e
  <2>4. CASE DataOK(i, all, stage, q, e)
    <3>1. PICK m : /\ e = RndvData(<<"recv", q[2]>>, m) /\ stage[q[3]] \in Large
                   /\ Right(i, all, q[2], q[3], stage[q[3]], "none", m)
      BY <2>4 DEF DataOK
    <3> DEFINE a == stage[q[3]]
    <3>2. a \in Large => i.cols > 0
      <4>1. Joins(i, q[3], a)  BY <1>6, Basics
      <4> QED  BY <4>1, LargeJoins
    <3>3. m \in MessageSet
      <4> HIDE DEF all
      <4> QED  BY <1>2, <1>6, <2>1, <3>1, <3>2, MessageIs
    <3> HIDE DEF e
    <3>4. e \in Packet  BY <1>6, <2>1, <2>2, <3>1, <3>3 DEF RndvData, Packet
    <3> QED  BY <2>1, <3>4 DEF e
  <2> QED  BY <1>5, <1>8, <2>1, <2>3, <2>4 DEF ElementOK
<1> QED  BY <1>7, <1>8

LEMMA QueuesTyped ==
  ASSUME CommInv, MessageSet \subseteq Payload
  PROVE  QueuesTypeOK
<1> DEFINE Q == Family(channel, posted, unexpected)
<1>1. 0 \in Process  BY InputAssumption DEF Process
<1>2. /\ Rank = Process /\ Shaped(channel, posted, unexpected) /\ Sound(Q, request)
      /\ RequestShape(request)
  BY <1>1, Basics
<1>3. ASSUME NEW q \in Place, q[1] # "posted"
      PROVE  Q[q] \in Seq(IF q[1] = "unexpected" THEN Announcement ELSE Packet)
  <2> DEFINE T == IF q[1] = "unexpected" THEN Announcement ELSE Packet
  <2>1. \E S : Q[q] \in Seq(S)  BY <1>2 DEF Sound, IsFamily
  <2>2. \A k \in DOMAIN Q[q] : Q[q][k] \in T
    <3>1. Q = Family(channel, posted, unexpected)  OBVIOUS
    <3> HIDE DEF Q
    <3> QED  BY <1>3, <3>1, ElementTyped
  <2> HIDE DEF Q, T
  <2>3. Q[q] \in Seq(T)  BY <2>1, <2>2, QueueSeq
  <2> QED  BY <2>3 DEF T
<1>4. channel \in [Rank -> [Rank -> Seq(Packet)]]
  <2>1. ASSUME NEW s \in Rank, NEW d \in Rank PROVE channel[s][d] \in Seq(Packet)
    <3>1. Channel(s, d) \in Place /\ Q[Channel(s, d)] = channel[s][d]  BY <1>2, Parts
    <3>2. Channel(s, d)[1] = "channel"  BY DEF Channel
    <3> HIDE DEF Q
    <3> QED  BY <1>3, <3>1, <3>2
  <2> QED  BY <1>2, <2>1 DEF Shaped
<1>5. unexpected \in [Rank -> Seq(Announcement)]
  <2>1. ASSUME NEW d \in Rank PROVE unexpected[d] \in Seq(Announcement)
    <3>1. Unexpected(d) \in Place /\ Q[Unexpected(d)] = unexpected[d]  BY <1>2, Parts
    <3>2. Unexpected(d)[1] = "unexpected"  BY DEF Unexpected
    <3> HIDE DEF Q
    <3> QED  BY <1>3, <3>1, <3>2
  <2> QED  BY <1>2, <2>1 DEF Shaped
<1>6. posted \in [Rank -> Seq([match : Match, handle : Handle])]
  BY <1>2, PostedTyped DEF Shaped
<1>7. request \in [Rank -> [Handle -> Request \union {None}]]
  BY <1>2, RequestTyped DEF RequestShape
<1> QED  BY <1>4, <1>5, <1>6, <1>7 DEF QueuesTypeOK

LEMMA ResultTyped ==
  ASSUME CommInv, EndsInv
  PROVE  result \in Sequence
<1>1. 0 \in Process  BY InputAssumption DEF Process
<1>2. input \in Input  BY <1>1, Basics
<1>3. input.rows \in Nat /\ input.cols \in Nat  BY <1>2, InputIs
<1>4. Vector(input) \in Seq(Int) /\ Len(Vector(input)) = input.cols  BY <1>2, VectorIs
<1>5. ASSUME NEW k \in 1 .. input.rows
      PROVE  Product([c \in 1 .. input.cols |-> (k - 1) * input.cols + c], Vector(input)) \in Int
  <2> DEFINE row == [c \in 1 .. input.cols |-> (k - 1) * input.cols + c]
  <2>1. ASSUME NEW c \in 1 .. Len(Vector(input)) PROVE row[c] \in Int
    <3> DEFINE w == (k - 1) * input.cols
    <3>1. w \in Int  BY <1>3
    <3> HIDE DEF w
    <3>2. c \in 1 .. input.cols /\ w + c \in Int  BY <1>3, <1>4, <3>1
    <3>3. row[c] = w + c  BY <3>2 DEF w
    <3> QED  BY <3>2, <3>3
  <2> HIDE DEF row
  <2>2. Product(row, Vector(input)) \in Int  BY <1>4, <2>1, ProductIsNumber
  <2> QED  BY <2>2 DEF row
<1>6. MatrixVectorProduct \in Seq(Int)
  <2> DEFINE f(k) == Product([c \in 1 .. input.cols |-> (k - 1) * input.cols + c],
                             Vector(input))
  <2>1. \A k \in 1 .. input.rows : f(k) \in Int  BY <1>5
  <2>2. MatrixVectorProduct = [k \in 1 .. input.rows |-> f(k)]  BY DEF MatrixVectorProduct
  <2> HIDE DEF f
  <2>3. [k \in 1 .. input.rows |-> f(k)] \in Seq(Int)  BY <1>3, <2>1
  <2> QED  BY <2>2, <2>3
<1> QED  BY <1>6 DEF EndsInv, Written, Sequence

LEMMA TypesFollow ==
  ASSUME SystemInv, MessageSet \subseteq Payload
  PROVE  TypeOK
<1>1. CommInv /\ ProgramShape /\ EndsInv  BY DEF SystemInv, ProgramInv
<1>2. 0 \in Process  BY InputAssumption DEF Process
<1>3. input \in Input /\ QueuesTypeOK  BY <1>1, <1>2, Basics, QueuesTyped
<1>4. stage \in [Process -> Stage] /\ step \in [Process -> Nat]
  <2>1. Standing(input, stage, step, request)  BY <1>1, <1>2, HoldsNow
  <2>2. \A r \in Process : stage[r] \in Stage /\ step[r] \in Nat  BY <1>1, Basics
  <2> QED  BY <2>1, <2>2 DEF Standing
<1>5. errflag \in [Process -> BOOLEAN] /\ memory \in [Process -> MemoryType]
  <2>1. \A r \in Process : errflag[r] \in BOOLEAN /\ memory[r] \in MemoryType
    BY <1>1, Basics DEF Remembers
  <2>2. memory = [r \in Process |-> memory[r]] /\ errflag = [r \in Process |-> errflag[r]]
    BY <1>1 DEF ProgramShape
  <2>3. memory \in [Process -> MemoryType]  BY <2>1, <2>2
  <2>4. errflag \in [Process -> BOOLEAN]  BY <2>1, <2>2, Zenon
  <2> QED  BY <2>3, <2>4
<1>6. result \in Sequence  BY <1>1, ResultTyped
<1>7. fate \in [Process -> Failed \union {"running", "killed"}]  BY <1>1 DEF ProgramShape
<1> QED  BY <1>3, <1>4, <1>5, <1>6, <1>7 DEF TypeOK, MemoryType

(***************************************************************************)
(* The variables keep their types: each packet, queue entry and request    *)
(* has the form its handler expects, and each message holds numbers.       *)
(***************************************************************************)
THEOREM ProgramTypeOK ==
  ASSUME MessageSet \subseteq Payload
  PROVE  Spec => []TypeOK
<1>1. SystemInv => TypeOK  BY TypesFollow
<1> QED  BY <1>1, SystemHolds, PTL

-----------------------------------------------------------------------------
(* The barrier on separate machines: all processes are roots, and the        *)
(* communicator is MPI_COMM_WORLD.                                           *)
Apart(i) == \A r, p \in Process : i.node[r] = i.node[p] => r = p

World(r) == Dissemination(Process, "world", r)

LEMMA WorldRanks ==
  /\ N \in Nat \ {0} /\ Cardinality(Process) = N
  /\ \A r \in Process : r \in Nat /\ r < N /\ RankIn(Process, r) = r
  /\ \A r \in Nat : r < N => ProcessAt(Process, r) = r /\ r \in Process
<1>1. N \in Nat \ {0} /\ N - 1 \in Int  BY InputAssumption
<1>2. \A n \in Int : n >= -1 => Cardinality(0 .. n) = n + 1
  <2> TAKE n \in Int
  <2> HAVE n >= -1
  <2>1. CASE n = -1
    <3>1. 0 .. n = {}  BY <2>1
    <3> QED  BY <2>1, <3>1, FS_EmptySet
  <2>2. CASE n >= 0  BY <2>2, FS_Interval
  <2> QED  BY <2>1, <2>2
<1>3. Cardinality(Process) = N  BY <1>1, <1>2 DEF Process
<1>4. ASSUME NEW r \in Process
      PROVE  r \in Nat /\ r < N /\ RankIn(Process, r) = r
  <2>1. r \in Nat /\ r < N /\ r - 1 \in Int  BY <1>1, <1>4 DEF Process
  <2>2. {q \in Process : q < r} = 0 .. r - 1  BY <1>1, <2>1 DEF Process
  <2>3. Cardinality(0 .. r - 1) = (r - 1) + 1  BY <1>2, <2>1
  <2>4. RankIn(Process, r) = Cardinality(0 .. r - 1)  BY <2>2 DEF RankIn
  <2> QED  BY <2>1, <2>3, <2>4
<1>5. ASSUME NEW r \in Nat, r < N
      PROVE  ProcessAt(Process, r) = r /\ r \in Process
  <2>1. r \in Process  BY <1>1, <1>5 DEF Process
  <2>2. ProcessAt(Process, RankIn(Process, r)) = r  BY <2>1, MemberOfRank
  <2>3. RankIn(Process, r) = r  BY <1>4, <2>1
  <2> QED  BY <2>1, <2>2, <2>3
<1> QED  BY <1>1, <1>3, <1>4, <1>5

LEMMA WorldPlan ==
  ASSUME NEW i \in Input, Apart(i), NEW r \in Process
  PROVE  Barrier(i.node, r) = World(r)
<1>1. \A q \in Process : q \in NodeRoots(i.node)
  <2> SUFFICES ASSUME NEW q \in Process, NEW p \in NodeMembers(i.node, q) PROVE q <= p
    BY DEF NodeRoots
  <2>1. p = q  BY DEF NodeMembers, Apart
  <2> QED  BY <2>1, WorldRanks
<1>2. NodeRoots(i.node) = Process  BY <1>1 DEF NodeRoots
<1> QED  BY <1>2 DEF Barrier, NodeAware, World

(* The masks of MPI_COMM_WORLD, in the order of the loop. *)
MaskOf(k) == MaskAt(Process, k)

Steps == Rounds(Process)

LEMMA WorldMasks ==
  /\ Steps \in Nat /\ (Steps = 0 <=> N = 1)
  /\ \A k \in 1 .. Steps : MaskOf(k) \in 1 .. N - 1
  /\ \A j, k \in 1 .. Steps : MaskOf(j) = MaskOf(k) => j = k
  /\ Steps > 0 => MaskOf(1) = 1 /\ 2 * MaskOf(Steps) >= N
  /\ \A k \in 1 .. Steps - 1 : MaskOf(k + 1) = 2 * MaskOf(k) /\ 2 * MaskOf(k) < N
<1> DEFINE R == Steps
           M(k) == MaskOf(k)
<1>0. N \in Nat \ {0} /\ Cardinality(Process) = N /\ 0 \in Process
  BY WorldRanks
<1>1. /\ R \in Nat
      /\ \A k \in 1 .. R : M(k) \in Masks(N) /\ M(k) \in 1 .. N - 1
      /\ \A j, k \in 1 .. R : j < k => M(j) < M(k)
      /\ \A m \in Masks(N) : \E k \in 1 .. R : M(k) = m
  <2>1. Process \in SUBSET Process  OBVIOUS
  <2> QED  BY <1>0, <2>1, MasksInOrder DEF Steps, MaskOf
<1> HIDE DEF R, M
<1>2. /\ Masks(N) \subseteq 1 .. N - 1 /\ (1 < N => 1 \in Masks(N))
      /\ \A m \in Masks(N) : 2 * m < N => 2 * m \in Masks(N)
  BY <1>0, MasksDouble
<1>3. R = 0 <=> N = 1
  <2>1. ASSUME R = 0 PROVE N = 1  BY <1>0, <1>1, <1>2, <2>1
  <2>2. ASSUME N = 1, R # 0 PROVE FALSE
    <3>1. 1 \in 1 .. R  BY <1>1, <2>2
    <3> QED  BY <1>1, <2>2, <3>1
  <2> QED  BY <2>1, <2>2
<1>4. \A j, k \in 1 .. R : M(j) = M(k) => j = k  BY <1>1
<1>5. ASSUME R > 0 PROVE M(1) = 1 /\ 2 * M(R) >= N
  <2>1. 1 \in Masks(N)  BY <1>0, <1>2, <1>3, <1>5
  <2>2. PICK k \in 1 .. R : M(k) = 1  BY <1>1, <2>1
  <2>3. 1 \in 1 .. R /\ R \in 1 .. R  BY <1>1, <1>5
  <2>4. k = 1
    <3>1. SUFFICES ASSUME 1 < k PROVE FALSE  BY <1>1
    <3>2. M(1) < M(k) /\ M(1) \in 1 .. N - 1  BY <1>1, <2>3, <3>1
    <3> QED  BY <2>2, <3>2
  <2>5. 2 * M(R) >= N
    <3>1. SUFFICES ASSUME 2 * M(R) < N PROVE FALSE  BY <1>0, <1>1, <2>3
    <3>2. PICK j \in 1 .. R : M(j) = 2 * M(R)  BY <1>1, <1>2, <2>3, <3>1
    <3>3. M(R) \in 1 .. N - 1  BY <1>1, <2>3
    <3>4. j = R \/ M(j) < M(R)  BY <1>1, <2>3
    <3> QED  BY <3>2, <3>3, <3>4
  <2> QED  BY <2>2, <2>4, <2>5
<1>6. ASSUME NEW k \in 1 .. R - 1 PROVE M(k + 1) = 2 * M(k) /\ 2 * M(k) < N
  <2>1. k \in 1 .. R /\ k + 1 \in 1 .. R  BY <1>1
  <2>2. /\ M(k) \in Masks(N) /\ M(k + 1) \in Masks(N) /\ M(k) < M(k + 1)
        /\ M(k) \in 1 .. N - 1 /\ M(k + 1) \in 1 .. N - 1
    BY <1>1, <2>1
  <2>3. 2 * M(k) <= M(k + 1)  BY <1>0, <2>2, MasksApart
  <2>4. 2 * M(k) < N  BY <1>0, <2>2, <2>3
  <2>5. PICK j \in 1 .. R : M(j) = 2 * M(k)  BY <1>2, <1>1, <2>2, <2>4
  <2>6. M(k) < M(j)  BY <2>2, <2>5
  <2>7. ~(j <= k)
    <3>1. SUFFICES ASSUME j <= k PROVE FALSE  OBVIOUS
    <3>2. j = k \/ M(j) < M(k)  BY <1>1, <2>1, <3>1
    <3> QED  BY <2>2, <2>5, <3>2
  <2>8. j = k + 1 \/ M(k + 1) < M(j)  BY <1>1, <2>1, <2>7
  <2> QED  BY <2>2, <2>3, <2>4, <2>5, <2>8
<1> QED  BY <1>0, <1>1, <1>3, <1>4, <1>5, <1>6 DEF R, M

LEMMA WorldPartners ==
  ASSUME NEW r \in Process, NEW m \in 1 .. N - 1
  PROVE  /\ Counted!Behind(r, m) = Behind(Process, r, m)
         /\ Counted!Ahead(r, m) = Ahead(Process, r, m)
         /\ Behind(Process, r, m) \in Process \ {r} /\ Ahead(Process, r, m) \in Process
         /\ Ahead(Process, Behind(Process, r, m), m) = r
         /\ \A k \in 1 .. N - 1 : Behind(Process, r, m) = Behind(Process, r, k) => m = k
<1> DEFINE b == Behind(Process, r, m)
           a == Ahead(Process, r, m)
<1>1. /\ N \in Nat \ {0} /\ Cardinality(Process) = N /\ r \in Nat /\ r < N
      /\ RankIn(Process, r) = r
  BY WorldRanks
<1>2. /\ b \in Process /\ a \in Process
      /\ RankIn(Process, b) = IF r < m THEN r - m + N ELSE r - m
      /\ RankIn(Process, a) = IF r + m < N THEN r + m ELSE r + m - N
      /\ Ahead(Process, b, m) = r
      /\ \A k \in 1 .. N - 1 : b = Behind(Process, r, k) => m = k
  <2>1. Process \in SUBSET Process /\ m \in 1 .. Cardinality(Process) - 1
    BY <1>1
  <2> QED  BY <1>1, <2>1, PartnersAre
<1> HIDE DEF a, b
<1>3. RankIn(Process, b) = b /\ RankIn(Process, a) = a  BY <1>2, WorldRanks
<1>4. (r - m + N) % N = IF r - m + N < N THEN r - m + N ELSE r - m + N - N
  <2> DEFINE x == r - m + N
  <2>1. x \in Nat /\ x < 2 * N  BY <1>1
  <2> HIDE DEF x
  <2>2. x % N = IF x < N THEN x ELSE x - N  BY <1>1, <2>1, AroundOnce
  <2> QED  BY <1>1, <2>1, <2>2 DEF x
<1>5. (r + m) % N = IF r + m < N THEN r + m ELSE r + m - N
  <2> DEFINE x == r + m
  <2>1. x \in Nat /\ x < 2 * N  BY <1>1
  <2> HIDE DEF x
  <2>2. x % N = IF x < N THEN x ELSE x - N  BY <1>1, <2>1, AroundOnce
  <2> QED  BY <1>1, <2>1, <2>2 DEF x
<1>6. Counted!Behind(r, m) = b
  <2>1. (r - m + N) % N = b  BY <1>1, <1>2, <1>3, <1>4
  <2> QED  BY <2>1 DEF Counted!Behind
<1>7. Counted!Ahead(r, m) = a
  <2>1. (r + m) % N = a  BY <1>1, <1>2, <1>3, <1>5
  <2> QED  BY <2>1 DEF Counted!Ahead
<1>8. b # r  BY <1>1, <1>2, <1>3
<1> QED  BY <1>2, <1>6, <1>7, <1>8 DEF a, b

(* The operations of rank r in the step with mask k. *)
FromStep(r, k) == IRecv(Behind(Process, r, MaskOf(k)), "barrier", "world")

ToStep(r, k) == ISend(Ahead(Process, r, MaskOf(k)), "barrier", "world")

LEMMA WorldOperations ==
  ASSUME NEW r \in Process
  PROVE  /\ World(r) \in Seq(Operation) /\ Len(World(r)) = 3 * Steps
         /\ DOMAIN World(r) = 1 .. 3 * Steps
         /\ \A k \in 1 .. Steps : /\ World(r)[3 * k - 2] = FromStep(r, k)
                                  /\ World(r)[3 * k - 1] = ToStep(r, k)
                                  /\ World(r)[3 * k] = Wait
         /\ \A j \in 1 .. 3 * Steps : \E k \in 1 .. Steps : j \in {3 * k - 2, 3 * k - 1, 3 * k}
<1> DEFINE B == World(r)
<1>1. /\ B \in Seq(Operation) /\ Len(B) = 3 * Rounds(Process)
      /\ \A k \in 1 .. Rounds(Process) :
           /\ B[3 * k - 2] = IRecv(Behind(Process, r, MaskAt(Process, k)), "barrier", "world")
           /\ B[3 * k - 1] = ISend(Ahead(Process, r, MaskAt(Process, k)), "barrier", "world")
           /\ B[3 * k] = Wait
      /\ \A j \in DOMAIN B : \E k \in 1 .. Rounds(Process) : j \in {3 * k - 2, 3 * k - 1, 3 * k}
  <2>1. B = Dissemination(Process, "world", r)  BY DEF World
  <2>2. Process \in SUBSET Process  OBVIOUS
  <2> HIDE DEF B
  <2> QED  BY <2>1, <2>2, DisseminationIs
<1> HIDE DEF B
<1>2. DOMAIN B = 1 .. Len(B)  BY <1>1
<1> QED  BY <1>1, <1>2 DEF B, Steps, FromStep, ToStep, MaskOf

(* The operations of a kind with a peer among the first n of s. *)
Tally(s, n, kind, p) == {k \in 1 .. n : s[k].kind = kind /\ s[k].peer = p}

Count(s, n, kind, p) == Cardinality(Tally(s, n, kind, p))

LEMMA CountIs ==
  ASSUME NEW s, NEW n \in Int, NEW kind, NEW p
  PROVE  /\ IsFiniteSet(Tally(s, n, kind, p)) /\ Count(s, n, kind, p) \in Nat
         /\ n < 1 => Count(s, n, kind, p) = 0
         /\ Count(s, n, kind, p) = 0 <=> \A k \in 1 .. n : ~(s[k].kind = kind /\ s[k].peer = p)
<1> DEFINE T == Tally(s, n, kind, p)
<1>1. IsFiniteSet(1 .. n)
  <2>1. 1 \in Int  OBVIOUS
  <2> QED  BY <2>1, FS_Interval
<1>2. T \subseteq 1 .. n  BY DEF Tally
<1>3. IsFiniteSet(T)  BY <1>1, <1>2, FS_Subset
<1>4. Cardinality(T) \in Nat /\ (Cardinality(T) = 0 <=> T = {})
  BY <1>3, FS_CardinalityType, FS_EmptySet
<1>5. T = {} <=> \A k \in 1 .. n : ~(s[k].kind = kind /\ s[k].peer = p)
  BY DEF Tally
<1>6. n < 1 => 1 .. n = {}  OBVIOUS
<1>7. n < 1 => T = {}  BY <1>2, <1>6
<1> HIDE DEF T
<1>8. Count(s, n, kind, p) = Cardinality(T)  BY DEF Count, T
<1> QED  BY <1>3, <1>4, <1>5, <1>7, <1>8 DEF T

LEMMA CountNext ==
  ASSUME NEW s, NEW n \in Nat, NEW kind, NEW p
  PROVE  Count(s, n + 1, kind, p) =
           Count(s, n, kind, p)
             + (IF s[n + 1].kind = kind /\ s[n + 1].peer = p THEN 1 ELSE 0)
<1> DEFINE T == Tally(s, n, kind, p)
           U == Tally(s, n + 1, kind, p)
<1>1. 1 .. n + 1 = (1 .. n) \union {n + 1} /\ n + 1 \notin 1 .. n  OBVIOUS
<1>2. IsFiniteSet(T) /\ Cardinality(T) \in Nat  BY CountIs DEF Count
<1>3. CASE s[n + 1].kind = kind /\ s[n + 1].peer = p
  <2>1. U = T \union {n + 1} /\ n + 1 \notin T  BY <1>1, <1>3 DEF Tally
  <2>2. Cardinality(T \union {n + 1}) = Cardinality(T) + 1
    <3> HIDE DEF T
    <3> QED  BY <1>2, <2>1, FS_AddElement
  <2> QED  BY <1>3, <2>1, <2>2 DEF Count
<1>4. CASE ~(s[n + 1].kind = kind /\ s[n + 1].peer = p)
  <2>1. U = T  BY <1>1, <1>4 DEF Tally
  <2> QED  BY <1>2, <1>4, <2>1 DEF Count
<1> QED  BY <1>3, <1>4

(***************************************************************************)
(* What DisseminationBarrier would say of a rank at position x of the      *)
(* barrier: 0 before it, 3 * Steps + 1 after it.                           *)
(***************************************************************************)
EnteredBy(x) == IF x > 0 THEN 1 ELSE 0

LeftBy(x) == IF x = 3 * Steps + 1 THEN 1 ELSE 0

Within(x) == x \in 1 .. 3 * Steps

MaskBy(x) == IF Within(x) THEN MaskOf((x + 2) \div 3) ELSE 0

SendingBy(x) == Within(x) /\ x % 3 # 0

SentBy(r, x) == [d \in Process |-> Count(World(r), x - 1, "isend", d)]

TakenBy(r, x) == [s \in Process |-> Count(World(r), x - 3, "irecv", s)]

\* Operation n of s, if any, is no receive and no send.
Passes(s, n, kind) == s[n].kind # kind

LEMMA SentSame ==
  ASSUME NEW r \in Process, NEW x \in Int, x < 1 \/ Passes(World(r), x, "isend")
  PROVE  SentBy(r, x + 1) = SentBy(r, x)
<1>1. ASSUME NEW d \in Process
      PROVE  Count(World(r), (x + 1) - 1, "isend", d) = Count(World(r), x - 1, "isend", d)
  <2>1. (x + 1) - 1 = x  OBVIOUS
  <2>2. CASE x < 1
    <3>1. x - 1 \in Int /\ x - 1 < 1  BY <2>2
    <3>2. Count(World(r), x, "isend", d) = 0  BY <2>2, CountIs
    <3> DEFINE y == x - 1
    <3>3. Count(World(r), y, "isend", d) = 0
      <4> HIDE DEF y
      <4>1. y \in Int /\ y < 1  BY <3>1 DEF y
      <4> QED  BY <4>1, CountIs
    <3> QED  BY <2>1, <3>2, <3>3
  <2>3. CASE ~(x < 1)
    <3> DEFINE y == x - 1
    <3>1. y \in Nat /\ y \in Int /\ y + 1 = x  BY <2>3
    <3> HIDE DEF y
    <3>2. Count(World(r), y + 1, "isend", d) =
            Count(World(r), y, "isend", d)
              + (IF World(r)[y + 1].kind = "isend" /\ World(r)[y + 1].peer = d THEN 1 ELSE 0)
      BY <3>1, CountNext
    <3>3. World(r)[y + 1].kind # "isend"
      <4> DEFINE op == World(r)[x]
      <4>1. op.kind # "isend"  BY <2>3 DEF Passes
      <4> HIDE DEF op
      <4>2. World(r)[y + 1] = op  BY <3>1 DEF op
      <4> QED  BY <4>1, <4>2
    <3>4. Count(World(r), y, "isend", d) \in Nat  BY <3>1, CountIs
    <3>5. Count(World(r), x, "isend", d) = Count(World(r), y, "isend", d)
      BY <3>1, <3>2, <3>3, <3>4
    <3> QED  BY <2>1, <3>5 DEF y
  <2> QED  BY <2>2, <2>3
<1> QED  BY <1>1 DEF SentBy

LEMMA TakenSame ==
  ASSUME NEW r \in Process, NEW x \in Int, x < 3 \/ Passes(World(r), x - 2, "irecv")
  PROVE  TakenBy(r, x + 1) = TakenBy(r, x)
<1>1. ASSUME NEW d \in Process
      PROVE  Count(World(r), (x + 1) - 3, "irecv", d) = Count(World(r), x - 3, "irecv", d)
  <2> DEFINE y == x - 3
             z == x - 2
  <2>1. (x + 1) - 3 = z /\ z = y + 1 /\ y \in Int /\ z \in Int  OBVIOUS
  <2>2. CASE x < 3
    <3>1. y < 1 /\ z < 1  BY <2>2
    <3> HIDE DEF y, z
    <3>2. Count(World(r), z, "irecv", d) = 0 /\ Count(World(r), y, "irecv", d) = 0
      BY <2>1, <3>1, CountIs
    <3> QED  BY <2>1, <3>2 DEF y
  <2>3. CASE ~(x < 3)
    <3>1. y \in Nat /\ World(r)[z].kind # "irecv"  BY <2>3 DEF Passes
    <3> HIDE DEF y, z
    <3>2. Count(World(r), y + 1, "irecv", d) =
            Count(World(r), y, "irecv", d)
              + (IF World(r)[y + 1].kind = "irecv" /\ World(r)[y + 1].peer = d THEN 1 ELSE 0)
      BY <3>1, CountNext
    <3>3. Count(World(r), y, "irecv", d) \in Nat  BY <2>1, CountIs
    <3>4. Count(World(r), z, "irecv", d) = Count(World(r), y, "irecv", d)
      BY <2>1, <3>1, <3>2, <3>3
    <3> QED  BY <2>1, <3>4 DEF y
  <2> QED  BY <2>2, <2>3
<1> QED  BY <1>1 DEF TakenBy

\* The positions of the three operations of a step.
LEMMA StepPositions ==
  ASSUME NEW k \in 1 .. Steps
  PROVE  /\ 3 * k - 2 \in 1 .. 3 * Steps /\ 3 * k - 1 \in 1 .. 3 * Steps /\ 3 * k \in 1 .. 3 * Steps
         /\ MaskBy(3 * k - 2) = MaskOf(k) /\ MaskBy(3 * k - 1) = MaskOf(k) /\ MaskBy(3 * k) = MaskOf(k)
         /\ SendingBy(3 * k - 2) /\ SendingBy(3 * k - 1) /\ ~SendingBy(3 * k)
<1>1. Steps \in Nat /\ k \in Nat /\ 1 <= k /\ k <= Steps  BY WorldMasks
<1> DEFINE n == Steps
<1>2. n \in Nat /\ k <= n  BY <1>1
<1> HIDE DEF n
<1>3. 3 * k - 2 \in 1 .. 3 * n /\ 3 * k - 1 \in 1 .. 3 * n /\ 3 * k \in 1 .. 3 * n
  BY <1>1, <1>2
<1>4. /\ ((3 * k - 2) + 2) \div 3 = k /\ ((3 * k - 1) + 2) \div 3 = k
      /\ (3 * k + 2) \div 3 = k
  BY <1>1
<1>5. (3 * k - 2) % 3 = 1 /\ (3 * k - 1) % 3 = 2 /\ (3 * k) % 3 = 0
  BY <1>1
<1>6. Within(3 * k - 2) /\ Within(3 * k - 1) /\ Within(3 * k)  BY <1>3 DEF n, Within
<1> QED  BY <1>3, <1>4, <1>5, <1>6 DEF n, MaskBy, SendingBy

LEMMA AtTheEdges ==
  /\ ~Within(0) /\ MaskBy(0) = 0 /\ ~SendingBy(0) /\ EnteredBy(0) = 0 /\ LeftBy(0) = 0
  /\ ~Within(3 * Steps + 1) /\ MaskBy(3 * Steps + 1) = 0 /\ ~SendingBy(3 * Steps + 1)
  /\ EnteredBy(3 * Steps + 1) = 1 /\ LeftBy(3 * Steps + 1) = 1
  /\ \A x : Within(x) => EnteredBy(x) = 1 /\ LeftBy(x) = 0
<1> DEFINE n == Steps
<1>1. n \in Nat  BY WorldMasks
<1> HIDE DEF n
<1>2. 0 \notin 1 .. 3 * n /\ 3 * n + 1 \notin 1 .. 3 * n /\ 3 * n + 1 > 0 /\ 0 # 3 * n + 1
  BY <1>1
<1>3. \A x \in 1 .. 3 * n : x > 0 /\ x # 3 * n + 1  BY <1>1
<1>4. ~Within(0) /\ ~Within(3 * Steps + 1)  BY <1>2 DEF Within, n
<1>5. \A x : Within(x) => x \in 1 .. 3 * n  BY DEF Within, n
<1> QED  BY <1>2, <1>3, <1>4, <1>5 DEF n, MaskBy, SendingBy, EnteredBy, LeftBy

(* The send of a step, and the end of its wait, count one message more. *)
LEMMA SentMore ==
  ASSUME NEW r \in Process, NEW k \in 1 .. Steps
  PROVE  SentBy(r, (3 * k - 1) + 1) =
           [SentBy(r, 3 * k - 1) EXCEPT ![Ahead(Process, r, MaskOf(k))] = @ + 1]
<1> DEFINE a == Ahead(Process, r, MaskOf(k))
           y == (3 * k - 1) - 1
<1>1. k \in Nat /\ 1 <= k  BY WorldMasks
<1>2. y \in Nat /\ y + 1 = 3 * k - 1 /\ ((3 * k - 1) + 1) - 1 = y + 1  BY <1>1
<1>3. World(r)[3 * k - 1] = ToStep(r, k)  BY WorldOperations
<1>4. World(r)[y + 1].kind = "isend" /\ World(r)[y + 1].peer = a
  <2> DEFINE op == World(r)[3 * k - 1]
  <2>1. op.kind = "isend" /\ op.peer = a  BY <1>3, OpFields DEF ToStep
  <2> HIDE DEF op, y, a
  <2>2. World(r)[y + 1] = op  BY <1>2 DEF op
  <2> QED  BY <2>1, <2>2
<1> HIDE DEF y, a
<1>5. ASSUME NEW d \in Process
      PROVE  Count(World(r), y + 1, "isend", d) = Count(World(r), y, "isend", d) + (IF a = d THEN 1 ELSE 0)
  <2>1. Count(World(r), y + 1, "isend", d) =
          Count(World(r), y, "isend", d)
            + (IF World(r)[y + 1].kind = "isend" /\ World(r)[y + 1].peer = d THEN 1 ELSE 0)
    BY <1>2, CountNext
  <2> QED  BY <1>4, <2>1
<1>6. \A d \in Process : Count(World(r), y, "isend", d) \in Nat  BY <1>2, CountIs
<1>7. SentBy(r, 3 * k - 1) = [d \in Process |-> Count(World(r), y, "isend", d)]
  BY DEF SentBy, y
<1>8. SentBy(r, (3 * k - 1) + 1) = [d \in Process |-> Count(World(r), y + 1, "isend", d)]
  BY <1>2 DEF SentBy
<1>9. [SentBy(r, 3 * k - 1) EXCEPT ![a] = @ + 1] =
        [d \in Process |-> Count(World(r), y, "isend", d) + (IF a = d THEN 1 ELSE 0)]
  BY <1>6, <1>7
<1> QED  BY <1>5, <1>8, <1>9 DEF a

LEMMA TakenMore ==
  ASSUME NEW r \in Process, NEW k \in 1 .. Steps
  PROVE  TakenBy(r, 3 * k + 1) =
           [TakenBy(r, 3 * k) EXCEPT ![Behind(Process, r, MaskOf(k))] = @ + 1]
<1> DEFINE a == Behind(Process, r, MaskOf(k))
           y == 3 * k - 3
<1>1. k \in Nat /\ 1 <= k  BY WorldMasks
<1>2. y \in Nat /\ y + 1 = 3 * k - 2 /\ (3 * k + 1) - 3 = y + 1  BY <1>1
<1>3. World(r)[3 * k - 2] = FromStep(r, k)  BY WorldOperations
<1>4. World(r)[y + 1].kind = "irecv" /\ World(r)[y + 1].peer = a
  <2> DEFINE op == World(r)[3 * k - 2]
  <2>1. op.kind = "irecv" /\ op.peer = a  BY <1>3, OpFields DEF FromStep
  <2> HIDE DEF op, y, a
  <2>2. World(r)[y + 1] = op  BY <1>2 DEF op
  <2> QED  BY <2>1, <2>2
<1> HIDE DEF y, a
<1>5. ASSUME NEW d \in Process
      PROVE  Count(World(r), y + 1, "irecv", d) = Count(World(r), y, "irecv", d) + (IF a = d THEN 1 ELSE 0)
  <2>1. Count(World(r), y + 1, "irecv", d) =
          Count(World(r), y, "irecv", d)
            + (IF World(r)[y + 1].kind = "irecv" /\ World(r)[y + 1].peer = d THEN 1 ELSE 0)
    BY <1>2, CountNext
  <2> QED  BY <1>4, <2>1
<1>6. \A d \in Process : Count(World(r), y, "irecv", d) \in Nat  BY <1>2, CountIs
<1>7. TakenBy(r, 3 * k) = [d \in Process |-> Count(World(r), y, "irecv", d)]
  BY DEF TakenBy, y
<1>8. TakenBy(r, 3 * k + 1) = [d \in Process |-> Count(World(r), y + 1, "irecv", d)]
  BY <1>2 DEF TakenBy
<1>9. [TakenBy(r, 3 * k) EXCEPT ![a] = @ + 1] =
        [d \in Process |-> Count(World(r), y, "irecv", d) + (IF a = d THEN 1 ELSE 0)]
  BY <1>6, <1>7
<1> QED  BY <1>5, <1>8, <1>9 DEF a

(* What DisseminationBarrier would say of ranks at the positions P. *)
EnteredAt(P) == [q \in Process |-> EnteredBy(P[q])]

LeftAt(P) == [q \in Process |-> LeftBy(P[q])]

MaskNow(P) == [q \in Process |-> MaskBy(P[q])]

SendingAt(P) == [q \in Process |-> SendingBy(P[q])]

SentAt(P) == [q \in Process |-> SentBy(q, P[q])]

ReceivedAt(P) == [s \in Process |-> [d \in Process |-> TakenBy(d, P[d])[s]]]

Seen(P) ==
  /\ flatEntered = EnteredAt(P) /\ flatLeft = LeftAt(P) /\ flatMask = MaskNow(P)
  /\ flatSending = SendingAt(P) /\ flatSent = SentAt(P) /\ flatReceived = ReceivedAt(P)

\* Rank r is at position y in T, and the others where they are in P.
OnlyMoves(P, T, r, y) == T[r] = y /\ \A q \in Process \ {r} : T[q] = P[q]

LEMMA Change ==
  ASSUME NEW r \in Process, NEW P, NEW T, NEW y, OnlyMoves(P, T, r, y)
  PROVE  /\ EnteredAt(T) = [EnteredAt(P) EXCEPT ![r] = EnteredBy(y)]
         /\ LeftAt(T) = [LeftAt(P) EXCEPT ![r] = LeftBy(y)]
         /\ MaskNow(T) = [MaskNow(P) EXCEPT ![r] = MaskBy(y)]
         /\ SendingAt(T) = [SendingAt(P) EXCEPT ![r] = SendingBy(y)]
         /\ SentAt(T) = [SentAt(P) EXCEPT ![r] = SentBy(r, y)]
         /\ \A s, d \in Process :
              ReceivedAt(T)[s][d] = IF d = r THEN TakenBy(r, y)[s] ELSE ReceivedAt(P)[s][d]
<1>1. \A q \in Process : T[q] = IF q = r THEN y ELSE P[q]  BY DEF OnlyMoves
<1>2. EnteredAt(T) = [EnteredAt(P) EXCEPT ![r] = EnteredBy(y)]  BY <1>1 DEF EnteredAt
<1>3. LeftAt(T) = [LeftAt(P) EXCEPT ![r] = LeftBy(y)]  BY <1>1 DEF LeftAt
<1>4. MaskNow(T) = [MaskNow(P) EXCEPT ![r] = MaskBy(y)]  BY <1>1 DEF MaskNow
<1>5. SendingAt(T) = [SendingAt(P) EXCEPT ![r] = SendingBy(y)]  BY <1>1 DEF SendingAt
<1>6. SentAt(T) = [SentAt(P) EXCEPT ![r] = SentBy(r, y)]  BY <1>1 DEF SentAt
<1>7. ASSUME NEW s \in Process, NEW d \in Process
      PROVE  ReceivedAt(T)[s][d] = IF d = r THEN TakenBy(r, y)[s] ELSE ReceivedAt(P)[s][d]
  <2>1. ReceivedAt(T)[s][d] = TakenBy(d, T[d])[s] /\ ReceivedAt(P)[s][d] = TakenBy(d, P[d])[s]
    BY DEF ReceivedAt
  <2>2. CASE d = r
    <3>1. T[d] = y  BY <2>2 DEF OnlyMoves
    <3> QED  BY <2>1, <2>2, <3>1
  <2>3. CASE d # r
    <3>1. T[d] = P[d]  BY <2>3 DEF OnlyMoves
    <3> QED  BY <2>1, <2>3, <3>1
  <2> QED  BY <2>2, <2>3
<1> QED  BY <1>2, <1>3, <1>4, <1>5, <1>6, <1>7

\* What was received stays when only sends and the like are added.
LEMMA ReceivedSame ==
  ASSUME NEW r \in Process, NEW P, NEW T, NEW y, OnlyMoves(P, T, r, y),
         TakenBy(r, y) = TakenBy(r, P[r])
  PROVE  ReceivedAt(T) = ReceivedAt(P)
<1>1. ASSUME NEW s \in Process, NEW d \in Process
      PROVE  TakenBy(d, T[d])[s] = TakenBy(d, P[d])[s]
  <2>1. CASE d = r
    <3>1. T[d] = y  BY <2>1 DEF OnlyMoves
    <3> QED  BY <2>1, <3>1
  <2>2. CASE d # r
    <3>1. T[d] = P[d]  BY <2>2 DEF OnlyMoves
    <3> QED  BY <3>1
  <2> QED  BY <2>1, <2>2
<1> QED  BY <1>1 DEF ReceivedAt

(* Nothing is counted before the barrier starts, and a receive first. *)
LEMMA NothingCounted ==
  ASSUME NEW r \in Process
  PROVE  /\ SentBy(r, 1) = SentBy(r, 0) /\ TakenBy(r, 1) = TakenBy(r, 0)
         /\ \A s \in Process : TakenBy(r, 0)[s] = 0 /\ SentBy(r, 0)[s] = 0
<1>1. \A n \in Int : n < 1 => \A kind, d : Count(World(r), n, kind, d) = 0
  BY CountIs
<1>2. 1 - 1 < 1 /\ 0 - 1 < 1 /\ 1 - 3 < 1 /\ 0 - 3 < 1
      /\ 1 - 1 \in Int /\ 0 - 1 \in Int /\ 1 - 3 \in Int /\ 0 - 3 \in Int
  OBVIOUS
<1>3. \A d : /\ Count(World(r), 1 - 1, "isend", d) = 0 /\ Count(World(r), 0 - 1, "isend", d) = 0
             /\ Count(World(r), 1 - 3, "irecv", d) = 0 /\ Count(World(r), 0 - 3, "irecv", d) = 0
  BY <1>1, <1>2
<1> QED  BY <1>3 DEF SentBy, TakenBy

(* The operations at the three positions of a step, and those before. *)
LEMMA StepCounts ==
  ASSUME NEW r \in Process, NEW k \in 1 .. Steps
  PROVE  /\ SentBy(r, (3 * k - 2) + 1) = SentBy(r, 3 * k - 2)
         /\ SentBy(r, 3 * k + 1) = SentBy(r, 3 * k)
         /\ TakenBy(r, (3 * k - 2) + 1) = TakenBy(r, 3 * k - 2)
         /\ TakenBy(r, (3 * k - 1) + 1) = TakenBy(r, 3 * k - 1)
<1> DEFINE B == World(r)
<1>1. k \in Nat /\ 1 <= k /\ 3 * k - 2 \in Int /\ 3 * k - 1 \in Int /\ 3 * k \in Int
  BY WorldMasks
<1>2. ASSUME NEW j \in 1 .. Steps
      PROVE  /\ Passes(B, 3 * j - 2, "isend") /\ Passes(B, 3 * j, "isend")
             /\ Passes(B, 3 * j - 1, "irecv") /\ Passes(B, 3 * j, "irecv")
  <2>1. B[3 * j - 2] = FromStep(r, j) /\ B[3 * j - 1] = ToStep(r, j) /\ B[3 * j] = Wait
    BY WorldOperations
  <2>2. FromStep(r, j).kind = "irecv" /\ ToStep(r, j).kind = "isend" /\ Wait.kind = "wait"
    BY OpFields, KindsApart DEF FromStep, ToStep
  <2> HIDE DEF B
  <2>3. B[3 * j - 2].kind = "irecv"  BY <2>1, <2>2
  <2>4. B[3 * j - 1].kind = "isend"  BY <2>1, <2>2
  <2>5. B[3 * j].kind = "wait"  BY <2>1, <2>2
  <2> QED  BY <2>3, <2>4, <2>5 DEF Passes
<1>3. SentBy(r, (3 * k - 2) + 1) = SentBy(r, 3 * k - 2)
  <2> DEFINE x == 3 * k - 2
  <2>1. x \in Int /\ Passes(World(r), x, "isend")  BY <1>1, <1>2
  <2> HIDE DEF x
  <2>2. SentBy(r, x + 1) = SentBy(r, x)  BY <2>1, SentSame
  <2> QED  BY <2>2 DEF x
<1>4. SentBy(r, 3 * k + 1) = SentBy(r, 3 * k)
  <2> DEFINE x == 3 * k
  <2>1. x \in Int /\ Passes(World(r), x, "isend")  BY <1>1, <1>2
  <2> HIDE DEF x
  <2>2. SentBy(r, x + 1) = SentBy(r, x)  BY <2>1, SentSame
  <2> QED  BY <2>2 DEF x
<1>5. k = 1 \/ (k - 1 \in 1 .. Steps /\ 3 * (k - 1) = (3 * k - 1) - 2 /\ 3 * (k - 1) - 1 = (3 * k - 2) - 2)
  <2> DEFINE n == Steps
  <2>1. n \in Nat /\ k \in 1 .. n  BY WorldMasks
  <2> HIDE DEF n
  <2>2. k = 1 \/ (k - 1 \in 1 .. n /\ 3 * (k - 1) = (3 * k - 1) - 2 /\ 3 * (k - 1) - 1 = (3 * k - 2) - 2)
    BY <2>1
  <2> QED  BY <2>2 DEF n
<1>6. TakenBy(r, (3 * k - 2) + 1) = TakenBy(r, 3 * k - 2)
  <2> DEFINE x == 3 * k - 2
  <2>1. x \in Int  BY <1>1
  <2>2. CASE k = 1
    <3>1. x < 3  BY <2>2
    <3> HIDE DEF x
    <3>2. TakenBy(r, x + 1) = TakenBy(r, x)  BY <2>1, <3>1, TakenSame
    <3> QED  BY <3>2 DEF x
  <2>3. CASE k # 1
    <3> DEFINE y == 3 * (k - 1) - 1
    <3>1. Passes(World(r), y, "irecv") /\ y = x - 2  BY <1>2, <1>5, <2>3
    <3> HIDE DEF x, y
    <3>2. Passes(World(r), x - 2, "irecv")  BY <3>1
    <3>3. TakenBy(r, x + 1) = TakenBy(r, x)  BY <2>1, <3>2, TakenSame
    <3> QED  BY <3>3 DEF x
  <2> QED  BY <2>2, <2>3
<1>7. TakenBy(r, (3 * k - 1) + 1) = TakenBy(r, 3 * k - 1)
  <2> DEFINE x == 3 * k - 1
  <2>1. x \in Int  BY <1>1
  <2>2. CASE k = 1
    <3>1. x < 3  BY <2>2
    <3> HIDE DEF x
    <3>2. TakenBy(r, x + 1) = TakenBy(r, x)  BY <2>1, <3>1, TakenSame
    <3> QED  BY <3>2 DEF x
  <2>3. CASE k # 1
    <3> DEFINE y == 3 * (k - 1)
    <3>1. Passes(World(r), y, "irecv") /\ y = x - 2  BY <1>2, <1>5, <2>3
    <3> HIDE DEF x, y
    <3>2. Passes(World(r), x - 2, "irecv")  BY <3>1
    <3>3. TakenBy(r, x + 1) = TakenBy(r, x)  BY <2>1, <3>2, TakenSame
    <3> QED  BY <3>3 DEF x
  <2> QED  BY <2>2, <2>3
<1> QED  BY <1>3, <1>4, <1>6, <1>7

SeenNext(T) ==
  /\ flatEntered' = EnteredAt(T) /\ flatLeft' = LeftAt(T) /\ flatMask' = MaskNow(T)
  /\ flatSending' = SendingAt(T) /\ flatSent' = SentAt(T) /\ flatReceived' = ReceivedAt(T)

(* The steps of DisseminationBarrier, by the position of the rank. *)
LEMMA SeesEnter ==
  ASSUME NEW r \in Process, NEW P, NEW T, P[r] = 0, Seen(P), SeenNext(T),
         IF Steps > 0 THEN OnlyMoves(P, T, r, 1) ELSE OnlyMoves(P, T, r, 3 * Steps + 1)
  PROVE  Counted!Enter(r) \/ Counted!EnterAlone(r)
<1>1. N \in Nat \ {0} /\ Steps \in Nat /\ (Steps = 0 <=> N = 1)  BY WorldRanks, WorldMasks
<1>2. OnlyMoves(P, T, r, 1)  BY <1>1
<1>3. EnteredAt(P)[r] = 0 /\ LeftAt(P)[r] = 0  BY AtTheEdges DEF EnteredAt, LeftAt
<1>4. /\ EnteredAt(T) = [EnteredAt(P) EXCEPT ![r] = EnteredBy(1)]
      /\ LeftAt(T) = [LeftAt(P) EXCEPT ![r] = LeftBy(1)]
      /\ MaskNow(T) = [MaskNow(P) EXCEPT ![r] = MaskBy(1)]
      /\ SendingAt(T) = [SendingAt(P) EXCEPT ![r] = SendingBy(1)]
      /\ SentAt(T) = [SentAt(P) EXCEPT ![r] = SentBy(r, 1)]
  BY <1>2, Change
<1>5. SentBy(r, 1) = SentBy(r, P[r]) /\ TakenBy(r, 1) = TakenBy(r, P[r])
  BY NothingCounted
<1>6. ReceivedAt(T) = ReceivedAt(P)  BY <1>2, <1>5, ReceivedSame
<1>7. SentAt(T) = SentAt(P)  BY <1>4, <1>5 DEF SentAt
<1>8. CASE Steps > 0
  <2>1. 1 \in 1 .. Steps /\ 3 * 1 - 2 = 1  BY <1>1, <1>8
  <2>2. Within(1) /\ MaskBy(1) = MaskOf(1) /\ SendingBy(1)
    <3>1. 3 * 1 - 2 \in 1 .. 3 * Steps /\ MaskBy(3 * 1 - 2) = MaskOf(1) /\ SendingBy(3 * 1 - 2)
      BY <2>1, StepPositions
    <3> QED  BY <2>1, <3>1 DEF Within
  <2>3. MaskOf(1) = 1  BY <1>8, WorldMasks
  <2>4. EnteredBy(1) = 1 /\ LeftBy(1) = 0  BY <2>2, AtTheEdges
  <2>5. LeftAt(T) = LeftAt(P)
    <3>1. LeftBy(1) = LeftAt(P)[r]  BY <1>3, <2>4
    <3> QED  BY <1>4, <3>1 DEF LeftAt
  <2>6. EnteredAt(T) = [EnteredAt(P) EXCEPT ![r] = @ + 1]
    <3>1. EnteredAt(P)[r] + 1 = EnteredBy(1)  BY <1>3, <2>4
    <3> QED  BY <1>4, <3>1
  <2>7. MaskNow(T) = [MaskNow(P) EXCEPT ![r] = 1]  BY <1>4, <2>2, <2>3
  <2>8. SendingAt(T) = [SendingAt(P) EXCEPT ![r] = TRUE]  BY <1>4, <2>2
  <2>9. N > 1  BY <1>1, <1>8
  <2>10. Counted!Enter(r)
    BY <1>3, <1>6, <1>7, <2>5, <2>6, <2>7, <2>8, <2>9 DEF Counted!Enter, Seen, SeenNext
  <2> QED  BY <2>10
<1>9. CASE Steps = 0
  <2>1. 3 * Steps + 1 = 1 /\ N = 1  BY <1>1, <1>9
  <2>2. MaskBy(1) = 0 /\ ~SendingBy(1) /\ EnteredBy(1) = 1 /\ LeftBy(1) = 1
    BY <2>1, AtTheEdges
  <2>3. MaskNow(P)[r] = 0 /\ ~SendingBy(P[r])  BY AtTheEdges DEF MaskNow
  <2>4. MaskNow(T) = MaskNow(P)  BY <1>4, <2>2, <2>3 DEF MaskNow
  <2>5. SendingAt(T) = SendingAt(P)
    <3>1. \A q \in Process : SendingBy(T[q]) = SendingBy(P[q])
      <4> SUFFICES ASSUME NEW q \in Process PROVE SendingBy(T[q]) = SendingBy(P[q])  OBVIOUS
      <4>1. CASE q # r
        <5>1. T[q] = P[q]  BY <1>2, <4>1 DEF OnlyMoves
        <5> QED  BY <5>1
      <4>2. CASE q = r
        <5>1. T[q] = 1 /\ P[q] = 0  BY <1>2, <4>2 DEF OnlyMoves
        <5>2. SendingBy(1) = FALSE /\ SendingBy(0) = FALSE
          BY <2>2, AtTheEdges DEF SendingBy
        <5> QED  BY <5>1, <5>2
      <4> QED  BY <4>1, <4>2
    <3> QED  BY <3>1 DEF SendingAt
  <2>6. EnteredAt(T) = [EnteredAt(P) EXCEPT ![r] = @ + 1]
    <3>1. EnteredAt(P)[r] + 1 = EnteredBy(1)  BY <1>3, <2>2
    <3> QED  BY <1>4, <3>1
  <2>7. LeftAt(T) = [LeftAt(P) EXCEPT ![r] = @ + 1]
    <3>1. LeftAt(P)[r] + 1 = LeftBy(1)  BY <1>3, <2>2
    <3> QED  BY <1>4, <3>1
  <2>8. Counted!EnterAlone(r)
    BY <1>3, <1>6, <1>7, <2>1, <2>4, <2>5, <2>6, <2>7 DEF Counted!EnterAlone, Seen, SeenNext
  <2> QED  BY <2>8
<1> QED  BY <1>1, <1>8, <1>9

LEMMA SeesReceive ==
  ASSUME NEW r \in Process, NEW P, NEW T, NEW k \in 1 .. Steps, P[r] = 3 * k - 2,
         OnlyMoves(P, T, r, 3 * k - 1), Seen(P), SeenNext(T)
  PROVE  UNCHANGED Counted!disseminationVars
<1> DEFINE x == 3 * k - 2
           y == 3 * k - 1
<1>1. Within(x) /\ Within(y) /\ MaskBy(x) = MaskBy(y) /\ SendingBy(x) /\ SendingBy(y)
  BY StepPositions DEF Within
<1>2. SentBy(r, y) = SentBy(r, x) /\ TakenBy(r, y) = TakenBy(r, x)
  <2>1. y = x + 1  BY WorldMasks
  <2> QED  BY <2>1, StepCounts
<1>3. EnteredBy(x) = EnteredBy(y) /\ LeftBy(x) = LeftBy(y)  BY <1>1, AtTheEdges
<1>4. P[r] = x /\ OnlyMoves(P, T, r, y)  OBVIOUS
<1> HIDE DEF x, y
<1>5. ReceivedAt(T) = ReceivedAt(P)  BY <1>2, <1>4, ReceivedSame
<1>6. /\ EnteredAt(T) = [EnteredAt(P) EXCEPT ![r] = EnteredBy(y)]
      /\ LeftAt(T) = [LeftAt(P) EXCEPT ![r] = LeftBy(y)]
      /\ MaskNow(T) = [MaskNow(P) EXCEPT ![r] = MaskBy(y)]
      /\ SendingAt(T) = [SendingAt(P) EXCEPT ![r] = SendingBy(y)]
      /\ SentAt(T) = [SentAt(P) EXCEPT ![r] = SentBy(r, y)]
  BY <1>4, Change
<1>7. EnteredAt(T) = EnteredAt(P)  BY <1>3, <1>4, <1>6 DEF EnteredAt
<1>8. LeftAt(T) = LeftAt(P)  BY <1>3, <1>4, <1>6 DEF LeftAt
<1>9. MaskNow(T) = MaskNow(P)  BY <1>1, <1>4, <1>6 DEF MaskNow
<1>10. SentAt(T) = SentAt(P)  BY <1>2, <1>4, <1>6 DEF SentAt
<1>11. SendingAt(T) = SendingAt(P)
  <2>1. SendingBy(x) = TRUE /\ SendingBy(y) = TRUE  BY <1>1 DEF SendingBy
  <2>2. SendingAt(P)[r] = TRUE  BY <1>4, <2>1 DEF SendingAt
  <2> QED  BY <1>6, <2>1, <2>2 DEF SendingAt
<1> QED  BY <1>5, <1>7, <1>8, <1>9, <1>10, <1>11 DEF Counted!disseminationVars, Seen, SeenNext

LEMMA SeesSend ==
  ASSUME NEW r \in Process, NEW P, NEW T, NEW k \in 1 .. Steps, P[r] = 3 * k - 1,
         OnlyMoves(P, T, r, 3 * k), Seen(P), SeenNext(T)
  PROVE  Counted!Send(r)
<1> DEFINE x == 3 * k - 1
           y == 3 * k
           a == Ahead(Process, r, MaskOf(k))
<1>1. /\ Within(x) /\ Within(y) /\ MaskBy(x) = MaskOf(k) /\ MaskBy(y) = MaskOf(k)
      /\ SendingBy(x) /\ ~SendingBy(y)
  BY StepPositions DEF Within
<1>2. SentBy(r, y) = [SentBy(r, x) EXCEPT ![a] = @ + 1] /\ TakenBy(r, y) = TakenBy(r, x)
  <2>1. y = x + 1  BY WorldMasks
  <2>2. SentBy(r, x + 1) = [SentBy(r, x) EXCEPT ![a] = @ + 1]  BY SentMore
  <2>3. TakenBy(r, x + 1) = TakenBy(r, x)  BY StepCounts
  <2> HIDE DEF x, y, a
  <2> QED  BY <2>1, <2>2, <2>3
<1>3. EnteredBy(x) = EnteredBy(y) /\ LeftBy(x) = LeftBy(y)  BY <1>1, AtTheEdges
<1>4. P[r] = x /\ OnlyMoves(P, T, r, y)  OBVIOUS
<1>5. Counted!Ahead(r, MaskOf(k)) = a
  <2>1. MaskOf(k) \in 1 .. N - 1  BY WorldMasks
  <2> QED  BY <2>1, WorldPartners
<1> HIDE DEF x, y, a
<1>6. ReceivedAt(T) = ReceivedAt(P)  BY <1>2, <1>4, ReceivedSame
<1>7. /\ EnteredAt(T) = [EnteredAt(P) EXCEPT ![r] = EnteredBy(y)]
      /\ LeftAt(T) = [LeftAt(P) EXCEPT ![r] = LeftBy(y)]
      /\ MaskNow(T) = [MaskNow(P) EXCEPT ![r] = MaskBy(y)]
      /\ SendingAt(T) = [SendingAt(P) EXCEPT ![r] = SendingBy(y)]
      /\ SentAt(T) = [SentAt(P) EXCEPT ![r] = SentBy(r, y)]
  BY <1>4, Change
<1>8. EnteredAt(T) = EnteredAt(P)  BY <1>3, <1>4, <1>7 DEF EnteredAt
<1>9. LeftAt(T) = LeftAt(P)  BY <1>3, <1>4, <1>7 DEF LeftAt
<1>10. MaskNow(T) = MaskNow(P) /\ MaskNow(P)[r] = MaskOf(k)  BY <1>1, <1>4, <1>7 DEF MaskNow
<1>11. SendingAt(P)[r] /\ SendingAt(T) = [SendingAt(P) EXCEPT ![r] = FALSE]
  <2>1. SendingBy(y) = FALSE  BY <1>1 DEF SendingBy
  <2>2. SendingAt(P)[r]  BY <1>1, <1>4 DEF SendingAt
  <2> QED  BY <1>7, <2>1, <2>2
<1>12. SentAt(T) = [SentAt(P) EXCEPT ![r][a] = @ + 1]
  <2>1. SentAt(P)[r] = SentBy(r, x)  BY <1>4 DEF SentAt
  <2>2. SentAt(T) = [SentAt(P) EXCEPT ![r] = [SentAt(P)[r] EXCEPT ![a] = @ + 1]]
    BY <1>2, <1>7, <2>1
  <2> QED  BY <2>2
<1>13. flatMask[r] = MaskOf(k)  BY <1>10 DEF Seen
<1>14. flatSent' = [flatSent EXCEPT ![r][Counted!Ahead(r, flatMask[r])] = @ + 1]
  BY <1>5, <1>12, <1>13 DEF Seen, SeenNext
<1> QED
  BY <1>6, <1>8, <1>9, <1>10, <1>11, <1>14 DEF Counted!Send, Seen, SeenNext

LEMMA SeesTake ==
  ASSUME NEW r \in Process, NEW P, NEW T, NEW k \in 1 .. Steps, P[r] = 3 * k,
         OnlyMoves(P, T, r, 3 * k + 1), Seen(P), SeenNext(T),
         ReceivedAt(P)[Behind(Process, r, MaskOf(k))][r]
           < SentAt(P)[Behind(Process, r, MaskOf(k))][r]
  PROVE  Counted!NextStep(r) \/ Counted!Leave(r)
<1> DEFINE x == 3 * k
           y == 3 * k + 1
           b == Behind(Process, r, MaskOf(k))
<1>1. Within(x) /\ MaskBy(x) = MaskOf(k) /\ ~SendingBy(x)
  BY StepPositions DEF Within
<1>2. SentBy(r, y) = SentBy(r, x) /\ TakenBy(r, y) = [TakenBy(r, x) EXCEPT ![b] = @ + 1]
  BY StepCounts, TakenMore
<1>3. EnteredBy(x) = 1 /\ LeftBy(x) = 0  BY <1>1, AtTheEdges
<1>4. P[r] = x /\ OnlyMoves(P, T, r, y) /\ ReceivedAt(P)[b][r] < SentAt(P)[b][r]  OBVIOUS
<1>5. Counted!Behind(r, MaskOf(k)) = b /\ b \in Process
  <2>1. MaskOf(k) \in 1 .. N - 1  BY WorldMasks
  <2> QED  BY <2>1, WorldPartners
<1>6. \/ k \in 1 .. Steps - 1 /\ k + 1 \in 1 .. Steps /\ 3 * (k + 1) - 2 = y
      \/ k = Steps /\ y = 3 * Steps + 1 /\ Steps > 0
  <2> DEFINE n == Steps
  <2>1. n \in Nat /\ k \in 1 .. n  BY WorldMasks
  <2> HIDE DEF n
  <2>2. \/ k \in 1 .. n - 1 /\ k + 1 \in 1 .. n /\ 3 * (k + 1) - 2 = y
        \/ k = n /\ y = 3 * n + 1 /\ n > 0
    BY <2>1
  <2> QED  BY <2>2 DEF n
<1> HIDE DEF x, y, b
<1>7. /\ EnteredAt(T) = [EnteredAt(P) EXCEPT ![r] = EnteredBy(y)]
      /\ LeftAt(T) = [LeftAt(P) EXCEPT ![r] = LeftBy(y)]
      /\ MaskNow(T) = [MaskNow(P) EXCEPT ![r] = MaskBy(y)]
      /\ SendingAt(T) = [SendingAt(P) EXCEPT ![r] = SendingBy(y)]
      /\ SentAt(T) = [SentAt(P) EXCEPT ![r] = SentBy(r, y)]
      /\ \A s, d \in Process :
           ReceivedAt(T)[s][d] = IF d = r THEN TakenBy(r, y)[s] ELSE ReceivedAt(P)[s][d]
  BY <1>4, Change
<1>8. /\ EnteredAt(P)[r] = 1 /\ LeftAt(P)[r] = 0 /\ MaskNow(P)[r] = MaskOf(k)
      /\ SendingAt(P)[r] = SendingBy(x) /\ SentAt(P)[r] = SentBy(r, x)
  BY <1>1, <1>3, <1>4 DEF EnteredAt, LeftAt, MaskNow, SendingAt, SentAt
<1>9. SentAt(T) = SentAt(P)  BY <1>2, <1>7, <1>8 DEF SentAt
<1>10. ReceivedAt(T) = [ReceivedAt(P) EXCEPT ![b][r] = @ + 1]
  <2>1. \A s \in Process : ReceivedAt(P)[s][r] = TakenBy(r, x)[s]
    BY <1>4 DEF ReceivedAt
  <2>2. \A s \in Process : TakenBy(r, y)[s] = IF s = b THEN TakenBy(r, x)[b] + 1 ELSE TakenBy(r, x)[s]
    <3>1. TakenBy(r, x) = [s \in Process |-> TakenBy(r, x)[s]]  BY DEF TakenBy
    <3> QED  BY <1>2, <3>1
  <2>3. ASSUME NEW s \in Process, NEW d \in Process
        PROVE  ReceivedAt(T)[s][d] =
                 IF s = b /\ d = r THEN ReceivedAt(P)[b][r] + 1 ELSE ReceivedAt(P)[s][d]
    BY <1>5, <1>7, <2>1, <2>2
  <2>4. /\ \A s \in Process : ReceivedAt(P)[s] = [d \in Process |-> ReceivedAt(P)[s][d]]
        /\ ReceivedAt(P) = [s \in Process |-> ReceivedAt(P)[s]]
    BY DEF ReceivedAt
  <2>5. ReceivedAt(T) = [s \in Process |-> [d \in Process |-> ReceivedAt(T)[s][d]]]
    BY DEF ReceivedAt
  <2> DEFINE R == ReceivedAt(P)
             U == ReceivedAt(T)
  <2> HIDE DEF R, U
  <2>6. \A s \in Process : [R EXCEPT ![b][r] = @ + 1][s] =
           IF s = b THEN [R[b] EXCEPT ![r] = @ + 1] ELSE R[s]
    BY <1>5, <2>4 DEF R
  <2>7. \A s \in Process : U[s] = IF s = b THEN [R[b] EXCEPT ![r] = @ + 1] ELSE R[s]
    <3> SUFFICES ASSUME NEW s \in Process
                 PROVE  U[s] = IF s = b THEN [R[b] EXCEPT ![r] = @ + 1] ELSE R[s]
      OBVIOUS
    <3>1. U[s] = [d \in Process |-> U[s][d]] /\ R[s] = [d \in Process |-> R[s][d]]
      BY <2>4, <2>5 DEF R, U
    <3>2. CASE s = b
      <4>1. \A d \in Process : U[s][d] = IF d = r THEN R[s][r] + 1 ELSE R[s][d]
        BY <2>3, <3>2 DEF R, U
      <4>2. [R[s] EXCEPT ![r] = @ + 1] = [d \in Process |-> IF d = r THEN R[s][r] + 1 ELSE R[s][d]]
        BY <3>1
      <4>3. U[s] = [R[s] EXCEPT ![r] = @ + 1]  BY <3>1, <4>1, <4>2
      <4> QED  BY <3>2, <4>3
    <3>3. CASE s # b
      <4>1. \A d \in Process : U[s][d] = R[s][d]  BY <2>3, <3>3 DEF R, U
      <4>2. U[s] = R[s]  BY <3>1, <4>1
      <4> QED  BY <3>3, <4>2
    <3> QED  BY <3>2, <3>3
  <2>8. U = [R EXCEPT ![b][r] = @ + 1]
    <3>1. U = [s \in Process |-> U[s]]  BY <2>5 DEF U
    <3>2. [R EXCEPT ![b][r] = @ + 1] = [s \in Process |-> [R EXCEPT ![b][r] = @ + 1][s]]
      BY <2>4 DEF R
    <3> QED  BY <2>6, <2>7, <3>1, <3>2
  <2> QED  BY <2>8 DEF R, U
<1>11. flatMask[r] = MaskOf(k) /\ flatLeft[r] < flatEntered[r] /\ ~flatSending[r]
  BY <1>1, <1>8 DEF Seen
<1>12. Counted!Behind(r, flatMask[r]) = b  BY <1>5, <1>11
<1>13. Counted!TakeMessage(r)
  <2>1. flatReceived[b][r] < flatSent[b][r]  BY <1>4 DEF Seen
  <2>2. flatReceived' = [flatReceived EXCEPT ![b][r] = @ + 1]  BY <1>10 DEF Seen, SeenNext
  <2> QED  BY <1>11, <1>12, <2>1, <2>2 DEF Counted!TakeMessage
<1>14. CASE k \in 1 .. Steps - 1 /\ k + 1 \in 1 .. Steps /\ 3 * (k + 1) - 2 = y
  <2>1. Within(y) /\ MaskBy(y) = MaskOf(k + 1) /\ SendingBy(y)
    <3> DEFINE j == k + 1
    <3>1. j \in 1 .. Steps /\ 3 * j - 2 = y  BY <1>14
    <3> HIDE DEF j
    <3>2. 3 * j - 2 \in 1 .. 3 * Steps /\ MaskBy(3 * j - 2) = MaskOf(j) /\ SendingBy(3 * j - 2)
      BY <3>1, StepPositions
    <3>3. Within(y) /\ MaskBy(y) = MaskOf(j) /\ SendingBy(y)
      BY <3>1, <3>2 DEF Within
    <3> QED  BY <3>3 DEF j
  <2>2. MaskOf(k + 1) = 2 * MaskOf(k) /\ 2 * MaskOf(k) < N  BY <1>14, WorldMasks
  <2>3. EnteredBy(y) = 1 /\ LeftBy(y) = 0  BY <2>1, AtTheEdges
  <2>4. EnteredAt(T) = EnteredAt(P)  BY <1>7, <1>8, <2>3 DEF EnteredAt
  <2>5. LeftAt(T) = LeftAt(P)  BY <1>7, <1>8, <2>3 DEF LeftAt
  <2>6. MaskNow(T) = [MaskNow(P) EXCEPT ![r] = 2 * @]
    <3>1. MaskBy(y) = 2 * MaskNow(P)[r]  BY <1>8, <2>1, <2>2
    <3> QED  BY <1>7, <3>1
  <2>7. SendingAt(T) = [SendingAt(P) EXCEPT ![r] = TRUE]
    <3>1. SendingBy(y) = TRUE  BY <2>1 DEF SendingBy
    <3> QED  BY <1>7, <3>1
  <2>8. 2 * flatMask[r] < N  BY <1>11, <2>2
  <2>9. Counted!NextStep(r)
    BY <1>9, <1>13, <2>4, <2>5, <2>6, <2>7, <2>8 DEF Counted!NextStep, Seen, SeenNext
  <2> QED  BY <2>9
<1>15. CASE k = Steps /\ y = 3 * Steps + 1 /\ Steps > 0
  <2>1. MaskBy(y) = 0 /\ ~SendingBy(y) /\ EnteredBy(y) = 1 /\ LeftBy(y) = 1
    BY <1>15, AtTheEdges
  <2>2. 2 * MaskOf(k) >= N  BY <1>15, WorldMasks
  <2>3. EnteredAt(T) = EnteredAt(P)  BY <1>7, <1>8, <2>1 DEF EnteredAt
  <2>4. LeftAt(T) = [LeftAt(P) EXCEPT ![r] = @ + 1]
    <3>1. LeftBy(y) = LeftAt(P)[r] + 1  BY <1>8, <2>1
    <3> QED  BY <1>7, <3>1
  <2>5. MaskNow(T) = [MaskNow(P) EXCEPT ![r] = 0]  BY <1>7, <2>1
  <2>6. SendingAt(T) = SendingAt(P)
    <3>1. SendingBy(y) = SendingBy(x)
      <4>1. SendingBy(y) = FALSE /\ SendingBy(x) = FALSE  BY <1>1, <2>1 DEF SendingBy
      <4> QED  BY <4>1
    <3> QED  BY <1>7, <1>8, <3>1 DEF SendingAt
  <2>7. 2 * flatMask[r] >= N  BY <1>11, <2>2
  <2>8. Counted!Leave(r)
    BY <1>9, <1>13, <2>3, <2>4, <2>5, <2>6, <2>7 DEF Counted!Leave, Seen, SeenNext
  <2> QED  BY <2>8
<1> QED  BY <1>6, <1>14, <1>15

LEMMA WaitEveryThird ==
  ASSUME NEW r \in Process, NEW x \in 1 .. 3 * Steps
  PROVE  World(r)[x].kind = "wait" <=> x % 3 = 0
<1> DEFINE B == World(r)
<1>1. PICK k \in 1 .. Steps : x \in {3 * k - 2, 3 * k - 1, 3 * k}  BY WorldOperations
<1>2. B[3 * k - 2] = FromStep(r, k) /\ B[3 * k - 1] = ToStep(r, k) /\ B[3 * k] = Wait
  BY WorldOperations
<1>3. FromStep(r, k).kind = "irecv" /\ ToStep(r, k).kind = "isend" /\ Wait.kind = "wait"
  BY OpFields, KindsApart DEF FromStep, ToStep
<1>4. k \in Nat /\ 1 <= k  BY WorldMasks
<1>5. (3 * k - 2) % 3 = 1 /\ (3 * k - 1) % 3 = 2 /\ (3 * k) % 3 = 0  BY <1>4
<1> HIDE DEF B
<1>6. CASE x = 3 * k - 2
  <2>1. B[x].kind = "irecv" /\ x % 3 = 1  BY <1>2, <1>3, <1>5, <1>6
  <2> QED  BY <2>1 DEF B
<1>7. CASE x = 3 * k - 1
  <2>1. B[x].kind = "isend" /\ x % 3 = 2  BY <1>2, <1>3, <1>5, <1>7
  <2> QED  BY <2>1 DEF B
<1>8. CASE x = 3 * k
  <2>1. B[x].kind = "wait" /\ x % 3 = 0  BY <1>2, <1>3, <1>5, <1>8
  <2> QED  BY <2>1 DEF B
<1> QED  BY <1>1, <1>6, <1>7, <1>8

(* Where the ranks are in the barrier; nowhere, if a machine has several. *)
PositionOf(i, st, sp, r) ==
  IF ~Apart(i) \/ st[r] \notin {"barrier", "done"} THEN 0
  ELSE IF st[r] = "barrier" THEN sp[r] ELSE 3 * Steps + 1

Position == [r \in Process |-> PositionOf(input, stage, step, r)]

LEMMA PositionIs ==
  ASSUME CommInv, NEW r \in Process, NEW x, x = Position[r]
  PROVE  /\ x \in Nat /\ x <= 3 * Steps + 1
         /\ InBarrier(r) <=> Within(x)
         /\ AfterBarrier(r) <=> x = 3 * Steps + 1
         /\ ~InBarrier(r) /\ ~AfterBarrier(r) <=> x = 0
         /\ InBarrier(r) => x = step[r] /\ Operations(r) = World(r)
         /\ x # 0 => BarrierOf[input][r] = World(r) /\ Len(World(r)) = 3 * Steps
<1> DEFINE n == Steps
<1>1. /\ input \in Input /\ stage[r] \in Stage /\ step[r] \in Nat
      /\ Operations(r) = Plan(input, r, stage[r])
      /\ step[r] \in 1 .. Len(Plan(input, r, stage[r])) + 1
  <2>1. Control(input, r, stage[r], step[r], request[r])  BY DEF CommInv, FlowInv, Standing
  <2> QED  BY <2>1, Basics DEF Control
<1>2. Plan(input, r, "barrier") = Barrier(input.node, r) /\ BarrierOf[input][r] = Barrier(input.node, r)
  BY <1>1, BarrierPlan DEF BarrierOf
<1>3. n \in Nat /\ Len(World(r)) = 3 * n  BY WorldMasks, WorldOperations
<1>4. OneRankEach <=> Apart(input)  BY DEF OneRankEach, Apart
<1> HIDE DEF n
<1>5. CASE ~Apart(input) \/ stage[r] \notin {"barrier", "done"}
  <2>1. x = 0 /\ ~InBarrier(r) /\ ~AfterBarrier(r)
    BY <1>4, <1>5 DEF Position, PositionOf, InBarrier, AfterBarrier
  <2>2. 0 # 3 * n + 1 /\ 0 <= 3 * n + 1 /\ 0 \notin 1 .. 3 * n  BY <1>3
  <2> QED  BY <2>1, <2>2 DEF n, Within
<1>6. CASE Apart(input) /\ stage[r] = "done"
  <2>1. x = 3 * n + 1  BY <1>6 DEF Position, PositionOf, n
  <2>2. ~InBarrier(r) /\ AfterBarrier(r)  BY <1>4, <1>6 DEF InBarrier, AfterBarrier
  <2>3. 3 * n + 1 \in Nat /\ 3 * n + 1 # 0 /\ 3 * n + 1 \notin 1 .. 3 * n  BY <1>3
  <2>4. BarrierOf[input][r] = World(r)  BY <1>1, <1>2, <1>6, WorldPlan
  <2> QED  BY <1>3, <2>1, <2>2, <2>3, <2>4 DEF n, Within
<1>7. CASE Apart(input) /\ stage[r] = "barrier"
  <2>1. x = step[r]  BY <1>7 DEF Position, PositionOf
  <2>2. BarrierOf[input][r] = World(r)  BY <1>1, <1>2, <1>7, WorldPlan
  <2>3. Operations(r) = World(r) /\ x \in 1 .. 3 * n + 1  BY <1>1, <1>2, <1>3, <1>7, <2>1, <2>2
  <2>4. InBarrier(r) <=> x <= 3 * n  BY <1>3, <1>4, <1>7, <2>1, <2>2 DEF InBarrier
  <2>5. AfterBarrier(r) <=> ~(x <= 3 * n)  BY <1>4, <1>7, <2>4 DEF AfterBarrier
  <2>6. /\ x \in Nat /\ x # 0 /\ x <= 3 * n + 1 /\ (x <= 3 * n <=> x \in 1 .. 3 * n)
        /\ (~(x <= 3 * n) <=> x = 3 * n + 1)
    BY <1>3, <2>3
  <2> QED  BY <1>3, <2>1, <2>2, <2>3, <2>4, <2>5, <2>6 DEF n, Within
<1> QED  BY <1>5, <1>6, <1>7

LEMMA PassedIs ==
  ASSUME CommInv, NEW r \in Process, NEW x, x = Position[r], NEW kind, NEW p, NEW b \in {1, 3}
  PROVE  Passed(r, kind, p, b) = Count(World(r), x - b, kind, p)
<1>1. x \in Nat  BY PositionIs
<1>2. CASE x = 0
  <2>1. ~InBarrier(r) /\ ~AfterBarrier(r)  BY <1>2, PositionIs
  <2>2. Passed(r, kind, p, b) = 0  BY <2>1 DEF Passed
  <2> DEFINE m == x - b
  <2>3. m \in Int /\ m < 1  BY <1>2
  <2> HIDE DEF m
  <2>4. Count(World(r), m, kind, p) = 0  BY <2>3, CountIs
  <2> QED  BY <2>2, <2>4 DEF m
<1>3. CASE x # 0
  <2>1. BarrierOf[input][r] = World(r) /\ Len(World(r)) = 3 * Steps  BY <1>3, PositionIs
  <2>2. InBarrier(r) \/ AfterBarrier(r)  BY <1>3, PositionIs
  <2>3. x = IF InBarrier(r) THEN step[r] ELSE Len(World(r)) + 1
    <3>1. CASE InBarrier(r)  BY <3>1, PositionIs
    <3>2. CASE ~InBarrier(r)
      <4>1. x = 3 * Steps + 1  BY <2>2, <3>2, PositionIs
      <4> QED  BY <2>1, <3>2, <4>1
    <3> QED  BY <3>1, <3>2
  <2>4. Passed(r, kind, p, b) =
          Cardinality({k \in 1 .. x - b : World(r)[k].kind = kind /\ World(r)[k].peer = p})
    BY <2>1, <2>2, <2>3 DEF Passed
  <2> QED  BY <2>4 DEF Count, Tally
<1> QED  BY <1>2, <1>3

LEMMA FlatView == CommInv => Seen(Position)
<1> SUFFICES ASSUME CommInv PROVE Seen(Position)  OBVIOUS
<1> DEFINE P == Position
<1>1. ASSUME NEW r \in Process, NEW x, x = P[r]
      PROVE  /\ (IF InBarrier(r) \/ AfterBarrier(r) THEN 1 ELSE 0) = EnteredBy(x)
             /\ (IF AfterBarrier(r) THEN 1 ELSE 0) = LeftBy(x)
             /\ (IF InBarrier(r) THEN Ascending(Masks(N))[(step[r] + 2) \div 3] ELSE 0) = MaskBy(x)
             /\ (InBarrier(r) /\ ~InOperation(r, "wait")) <=> SendingBy(x)
  <2>1. /\ x \in Nat /\ (InBarrier(r) <=> Within(x)) /\ (AfterBarrier(r) <=> x = 3 * Steps + 1)
        /\ (~InBarrier(r) /\ ~AfterBarrier(r) <=> x = 0)
        /\ InBarrier(r) => x = step[r] /\ Operations(r) = World(r)
    BY <1>1, PositionIs
  <2>2. (IF InBarrier(r) \/ AfterBarrier(r) THEN 1 ELSE 0) = EnteredBy(x)
    <3>1. x > 0 <=> x # 0  BY <2>1
    <3> QED  BY <2>1, <3>1 DEF EnteredBy
  <2>3. (IF AfterBarrier(r) THEN 1 ELSE 0) = LeftBy(x)  BY <2>1 DEF LeftBy
  <2>4. (IF InBarrier(r) THEN Ascending(Masks(N))[(step[r] + 2) \div 3] ELSE 0) = MaskBy(x)
    <3>1. Cardinality(Process) = N  BY WorldRanks
    <3> QED  BY <2>1, <3>1 DEF MaskBy, MaskOf, MaskAt
  <2>5. (InBarrier(r) /\ ~InOperation(r, "wait")) <=> SendingBy(x)
    <3>1. CASE ~Within(x)  BY <2>1, <3>1 DEF SendingBy
    <3>2. CASE Within(x)
      <4>1. x = step[r] /\ Operations(r) = World(r) /\ x \in 1 .. 3 * Steps
        BY <2>1, <3>2 DEF Within
      <4>2. x \in DOMAIN World(r)  BY <4>1, WorldOperations
      <4>3. World(r)[x].kind = "wait" <=> x % 3 = 0  BY <4>1, WaitEveryThird
      <4>4. InOperation(r, "wait") <=> World(r)[x].kind = "wait"
        BY <4>1, <4>2 DEF InOperation
      <4> QED  BY <2>1, <3>2, <4>3, <4>4 DEF SendingBy
    <3> QED  BY <3>1, <3>2
  <2> QED  BY <2>2, <2>3, <2>4, <2>5
<1> HIDE DEF P
<1>2. flatEntered = EnteredAt(P)  BY <1>1 DEF flatEntered, EnteredAt
<1>3. flatLeft = LeftAt(P)  BY <1>1 DEF flatLeft, LeftAt
<1>4. flatMask = MaskNow(P)  BY <1>1 DEF flatMask, MaskNow
<1>5. flatSending = SendingAt(P)
  <2>1. \A r \in Process : (InBarrier(r) /\ ~InOperation(r, "wait")) = SendingBy(P[r])
    <3> TAKE r \in Process
    <3>1. (InBarrier(r) /\ ~InOperation(r, "wait")) <=> SendingBy(P[r])  BY <1>1
    <3>2. SendingBy(P[r]) \in BOOLEAN  BY DEF SendingBy
    <3> HIDE DEF P
    <3> QED  BY <3>1, <3>2
  <2> QED  BY <2>1 DEF flatSending, SendingAt
<1>6. flatSent = SentAt(P)
  <2>1. ASSUME NEW s \in Process
        PROVE  [d \in Process |-> Passed(s, "isend", d, 1)] = SentBy(s, P[s])
    <3>1. \A d \in Process : Passed(s, "isend", d, 1) = Count(World(s), P[s] - 1, "isend", d)
      BY PassedIs DEF P
    <3> QED  BY <3>1 DEF SentBy
  <2> QED  BY <2>1 DEF flatSent, SentAt
<1>7. flatReceived = ReceivedAt(P)
  <2>1. ASSUME NEW s \in Process, NEW d \in Process
        PROVE  Passed(d, "irecv", s, 3) = TakenBy(d, P[d])[s]
    <3>1. Passed(d, "irecv", s, 3) = Count(World(d), P[d] - 3, "irecv", s)
      BY PassedIs DEF P
    <3> QED  BY <3>1 DEF TakenBy
  <2> QED  BY <2>1 DEF flatReceived, ReceivedAt
<1> QED  BY <1>2, <1>3, <1>4, <1>5, <1>6, <1>7 DEF Seen, P

LEMMA FlatViews == CommInv /\ CommInv' => Seen(Position) /\ SeenNext(Position')
<1>1. CommInv => Seen(Position)  BY FlatView
<1>2. CommInv' => Seen(Position)'  BY <1>1, PTL
<1>3. Seen(Position)' => SeenNext(Position')
  BY DEF Seen, SeenNext, EnteredAt, LeftAt, MaskNow, SendingAt, SentAt, ReceivedAt, Position
<1> QED  BY <1>1, <1>2, <1>3

\* In the steps before, a rank waited for others.
LEMMA NoneFromYet ==
  ASSUME NEW r \in Process, NEW k \in 1 .. Steps
  PROVE  TakenBy(r, 3 * k)[Behind(Process, r, MaskOf(k))] = 0
<1> DEFINE b == Behind(Process, r, MaskOf(k))
           B == World(r)
           n == 3 * k - 3
<1>1. k \in Nat /\ 1 <= k /\ n \in Int  BY WorldMasks
<1>2. b \in Process
  <2>1. MaskOf(k) \in 1 .. N - 1  BY WorldMasks
  <2> QED  BY <2>1, WorldPartners
<1>3. ASSUME NEW j \in 1 .. n, B[j].kind = "irecv", B[j].peer = b
      PROVE  FALSE
  <2>1. j \in 1 .. 3 * Steps
    <3> DEFINE m == Steps
    <3>1. m \in Nat /\ k \in 1 .. m  BY WorldMasks
    <3> HIDE DEF m
    <3>2. j \in 1 .. 3 * m  BY <1>1, <3>1
    <3> QED  BY <3>2 DEF m
  <2>2. PICK i \in 1 .. Steps : j \in {3 * i - 2, 3 * i - 1, 3 * i}  BY <2>1, WorldOperations
  <2>3. B[3 * i - 2] = FromStep(r, i) /\ B[3 * i - 1] = ToStep(r, i) /\ B[3 * i] = Wait
    BY WorldOperations
  <2>4. FromStep(r, i).peer = Behind(Process, r, MaskOf(i)) /\ ToStep(r, i).kind = "isend"
        /\ Wait.kind = "wait"
    BY OpFields, KindsApart DEF FromStep, ToStep
  <2>5. j = 3 * i - 2
    <3> HIDE DEF B, n, b
    <3>1. j # 3 * i - 1
      <4>1. SUFFICES ASSUME j = 3 * i - 1 PROVE FALSE  OBVIOUS
      <4>2. B[j] = ToStep(r, i)  BY <2>3, <4>1
      <4> QED  BY <1>3, <2>4, <4>2
    <3>2. j # 3 * i
      <4>1. SUFFICES ASSUME j = 3 * i PROVE FALSE  OBVIOUS
      <4>2. B[j] = Wait  BY <2>3, <4>1
      <4> QED  BY <1>3, <2>4, <4>2
    <3> QED  BY <2>2, <3>1, <3>2
  <2>6. Behind(Process, r, MaskOf(i)) = b
    <3> HIDE DEF B, b
    <3>1. B[j] = FromStep(r, i)  BY <2>3, <2>5
    <3> QED  BY <1>3, <2>4, <3>1
  <2>7. i # k  BY <1>1, <2>5
  <2>8. MaskOf(i) \in 1 .. N - 1 /\ MaskOf(k) \in 1 .. N - 1 /\ MaskOf(i) # MaskOf(k)
    BY <2>7, WorldMasks
  <2> DEFINE u == MaskOf(i)
             v == MaskOf(k)
  <2>9. u \in 1 .. N - 1 /\ v \in 1 .. N - 1 /\ Behind(Process, r, v) = Behind(Process, r, u)
    BY <2>6, <2>8
  <2>10. u # v  BY <2>8
  <2> HIDE DEF u, v
  <2> QED  BY <2>9, <2>10, WorldPartners
<1> HIDE DEF b, B, n
<1>4. Count(B, n, "irecv", b) = 0
  <2>1. \A j \in 1 .. n : ~(B[j].kind = "irecv" /\ B[j].peer = b)  BY <1>3
  <2> QED  BY <1>1, <2>1, CountIs
<1>5. TakenBy(r, 3 * k)[b] = Count(World(r), 3 * k - 3, "irecv", b)  BY <1>2 DEF TakenBy
<1> QED  BY <1>4, <1>5 DEF b, B, n

\* A rank that waited in a step has taken what was sent to it there.
LEMMA TakenIsSent ==
  ASSUME CommInv, NEW r \in Process, NEW k \in 1 .. Steps, Position[r] = 3 * k + 1
  PROVE  SentAt(Position)[Behind(Process, r, MaskOf(k))][r] > 0
<1> DEFINE b == Behind(Process, r, MaskOf(k))
           op == FromStep(r, k)
           s == Plan(input, r, "barrier")
<1>0. k \in Nat /\ 1 <= k  BY WorldMasks
<1>1. b \in Process /\ Ahead(Process, b, MaskOf(k)) = r
  <2>1. MaskOf(k) \in 1 .. N - 1  BY WorldMasks
  <2> QED  BY <2>1, WorldPartners
<1>2. input \in Input /\ \A q \in Process : stage[q] \in Stage /\ step[q] \in Nat
  BY Basics
<1>3. Position[r] = PositionOf(input, stage, step, r) /\ Position[b] = PositionOf(input, stage, step, b)
  BY <1>1 DEF Position
<1>4. Apart(input) /\ stage[r] \in {"barrier", "done"} /\ (stage[r] = "barrier" => step[r] = 3 * k + 1)
  BY <1>0, <1>3 DEF PositionOf
<1>5. s = World(r) /\ Orderly(s) /\ Plan(input, b, "barrier") = World(b)
  BY <1>1, <1>2, <1>4, BarrierPlan, WorldPlan
<1>6. s[3 * k - 2] = op /\ s[3 * k] = Wait /\ 3 * k - 2 \in DOMAIN s /\ 3 * k \in DOMAIN s
  <2>1. 3 * k - 2 \in 1 .. 3 * Steps /\ 3 * k \in 1 .. 3 * Steps  BY StepPositions
  <2> HIDE DEF s
  <2> QED  BY <1>5, <2>1, WorldOperations
<1>7. op.kind = "irecv" /\ op # Wait /\ op = IRecv(b, "barrier", "world")
  BY OpFields DEF FromStep, Wait
<1>8. Over(input, stage, step, r, op)
  <2>1. Has(s, op)  BY <1>6 DEF Has
  <2>2. Planned(input, r, "barrier", op)  BY <1>2, <1>7, <2>1, BarrierPlan DEF Planned
  <2>3. StageNo("barrier") < StageNo("done")  BY DEF StageNo
  <2>4. ASSUME stage[r] = "barrier" PROVE Reached(s, step[r], op) /\ ~Open(s, step[r], op)
    <3> DEFINE m == 3 * k
    <3>1. ~Open(s, m + 1, op)
      <4>1. m \in DOMAIN s /\ s[m] = Wait  BY <1>6
      <4> HIDE DEF m, s, op
      <4> QED  BY <1>5, <4>1, StepsOn
    <3>2. Reached(s, m + 1, op)
      <4>1. 3 * k - 2 \in 1 .. (m + 1) - 1  BY <1>0
      <4> HIDE DEF m, s, op
      <4> QED  BY <1>6, <1>7, <4>1 DEF Reached
    <3> QED  BY <1>4, <2>4, <3>1, <3>2
  <2> HIDE DEF op, s
  <2>5. CASE stage[r] = "done"  BY <1>7, <2>2, <2>3, <2>5 DEF Over, Waited
  <2>6. CASE stage[r] = "barrier"
    <3>1. Reached(Plan(input, r, "barrier"), step[r], op) /\ ~Open(Plan(input, r, "barrier"), step[r], op)
      BY <2>4, <2>6 DEF s
    <3> QED  BY <1>7, <2>2, <2>6, <3>1 DEF Over, Waited
  <2> QED  BY <1>4, <2>5, <2>6
<1>9. Did(input, stage, step, b, "barrier", ISend(r, "barrier", "world"))
  <2>1. Standing(input, stage, step, request)
        /\ Flow(input, stage, step, request, Family(channel, posted, unexpected))
    BY HoldsNow
  <2>2. PICK L : Delivery(input, DidOf(input, stage, step), WaitOf(input, stage, step, request),
                          KeysIn(Family(channel, posted, unexpected), L))
    BY <2>1 DEF Flow
  <2> DEFINE K == KeysIn(Family(channel, posted, unexpected), L)
             i == input
             st == stage
             sp == step
             req == request
  <2>3. Delivery(i, DidOf(i, st, sp), WaitOf(i, st, sp, req), K)  BY <2>2
  <2>4. i \in Input /\ Standing(i, st, sp, req) /\ Over(i, st, sp, r, IRecv(b, "barrier", "world"))
    BY <1>2, <1>7, <1>8, <2>1
  <2> HIDE DEF K, i, st, sp, req, b
  <2>5. Did(i, st, sp, b, "barrier", ISend(r, "barrier", "world"))
    BY <1>1, <2>3, <2>4, OverIsSent
  <2> QED  BY <2>5 DEF i, st, sp
<1> DEFINE e == ISend(r, "barrier", "world")
           n == Position[b]
<1>10. e = ToStep(b, k) /\ e.kind = "isend" /\ e.peer = r
  BY <1>1, OpFields DEF ToStep
<1>11. \E j \in 1 .. n - 1 : World(b)[j] = e
  <2>1. CASE stage[b] = "barrier"
    <3>1. Reached(World(b), step[b], e)
      <4>1. ~(StageNo("barrier") < StageNo("barrier"))  BY DEF StageNo
      <4> HIDE DEF e, b
      <4>2. Reached(Plan(input, b, "barrier"), step[b], e)
        BY <1>9, <2>1, <4>1 DEF Did, e
      <4> QED  BY <1>5, <4>2
    <3>2. n = step[b]  BY <1>3, <1>4, <2>1 DEF PositionOf
    <3> QED  BY <3>1, <3>2 DEF Reached
  <2>2. CASE stage[b] = "done"
    <3>1. n = 3 * Steps + 1  BY <1>3, <1>4, <2>2 DEF PositionOf
    <3>2. 3 * k - 1 \in 1 .. 3 * Steps  BY StepPositions
    <3>3. World(b)[3 * k - 1] = e  BY <1>1, <1>10, WorldOperations
    <3>4. (3 * Steps + 1) - 1 = 3 * Steps  BY WorldMasks
    <3> HIDE DEF e, b, n
    <3> QED  BY <3>1, <3>2, <3>3, <3>4
  <2>3. stage[b] \in {"barrier", "done"}
    <3>1. stage[b] \in Stage  BY <1>1, <1>2
    <3>2. StageNo("barrier") < StageNo(stage[b]) \/ stage[b] = "barrier"
      <4> HIDE DEF b
      <4> QED  BY <1>9 DEF Did
    <3> QED  BY <3>1, <3>2 DEF Stage, StageNo
  <2> QED  BY <2>1, <2>2, <2>3
<1>12. n \in Nat
  <2> HIDE DEF b
  <2> QED  BY <1>1, PositionIs
<1> HIDE DEF b, e
<1>13. Count(World(b), n - 1, "isend", r) > 0
  <2> DEFINE m == n - 1
  <2>1. m \in Int  BY <1>12
  <2>2. \E j \in 1 .. m : World(b)[j] = e  BY <1>11
  <2> HIDE DEF m
  <2>3. Count(World(b), m, "isend", r) \in Nat
        /\ (Count(World(b), m, "isend", r) = 0
              <=> \A j \in 1 .. m : ~(World(b)[j].kind = "isend" /\ World(b)[j].peer = r))
    BY <2>1, CountIs
  <2>4. Count(World(b), m, "isend", r) # 0
    <3>1. PICK j \in 1 .. m : World(b)[j] = e  BY <2>2
    <3>2. World(b)[j].kind = "isend" /\ World(b)[j].peer = r  BY <1>10, <3>1
    <3> QED  BY <2>3, <3>2
  <2>5. Count(World(b), m, "isend", r) > 0  BY <2>3, <2>4
  <2> QED  BY <2>5 DEF m
<1>14. SentAt(Position)[b] = SentBy(b, n)  BY <1>1 DEF SentAt
<1>15. SentBy(b, n)[r] = Count(World(b), n - 1, "isend", r)  BY DEF SentBy
<1> QED  BY <1>13, <1>14, <1>15 DEF b

\* The positions after a step, in which at most rank r moves on.
Advances(r) ==
  \/ Position' = Position
  \/ Position[r] = 0 /\ OnlyMoves(Position, Position', r, 1)
  \/ Within(Position[r]) /\ OnlyMoves(Position, Position', r, Position[r] + 1)

LEMMA SamePositions ==
  ASSUME input' = input, stage' = stage, step' = step
  PROVE  Position' = Position
BY DEF Position, PositionOf, Apart

\* An operation that is over.
LEMMA OperationAdvances ==
  ASSUME CommInv, NEW r \in Process, input' = input, stage' = stage,
         step' = [step EXCEPT ![r] = @ + 1], step[r] \in DOMAIN Operations(r)
  PROVE  Advances(r)
<1> DEFINE x == Position[r]
<1>1. step = [q \in Process |-> step[q]]  BY HoldsNow DEF Standing
<1>2. \A q \in Process : step'[q] = IF q = r THEN step[q] + 1 ELSE step[q]  BY <1>1
<1>3. Apart(input') = Apart(input)  BY DEF Apart
<1>4. \A q \in Process : /\ Position[q] = PositionOf(input, stage, step, q)
                         /\ Position'[q] = PositionOf(input', stage', step', q)
  BY DEF Position
<1>5. ASSUME NEW q \in Process, q # r PROVE Position'[q] = Position[q]
  BY <1>2, <1>3, <1>4, <1>5 DEF PositionOf
<1>6. CASE ~Apart(input) \/ stage[r] # "barrier"
  <2>1. Position'[r] = Position[r]  BY <1>3, <1>4, <1>6 DEF PositionOf
  <2>2. \A q \in Process : Position'[q] = Position[q]  BY <1>5, <2>1
  <2>3. Position' = Position  BY <2>2 DEF Position
  <2> QED  BY <2>3 DEF Advances
<1>7. CASE Apart(input) /\ stage[r] = "barrier"
  <2>1. x = step[r] /\ Position'[r] = x + 1  BY <1>2, <1>3, <1>4, <1>7 DEF PositionOf
  <2>2. Operations(r) = Plan(input, r, "barrier") /\ input \in Input  BY <1>7, Basics
  <2>3. Operations(r) = World(r)
    <3>1. Plan(input, r, "barrier") = Barrier(input.node, r)  BY <2>2, BarrierPlan
    <3>2. Barrier(input.node, r) = World(r)  BY <1>7, <2>2, WorldPlan
    <3> QED  BY <2>2, <3>1, <3>2
  <2>4. DOMAIN World(r) = 1 .. 3 * Steps  BY WorldOperations
  <2>5. Within(x)  BY <2>1, <2>3, <2>4 DEF Within
  <2>6. OnlyMoves(Position, Position', r, x + 1)  BY <1>5, <2>1 DEF OnlyMoves
  <2> QED  BY <2>5, <2>6 DEF Advances
<1> QED  BY <1>6, <1>7

\* A new stage.
LEMMA StageAdvances ==
  ASSUME CommInv, NEW r \in Process, NEW b, Enter(r, b), Running(r),
         stage[r] = "barrier" <=> b = "done",
         b = "done" => step[r] > Len(Operations(r))
  PROVE  Advances(r)
<1>1. /\ input' = input /\ stage' = [stage EXCEPT ![r] = b] /\ step' = [step EXCEPT ![r] = 1]
  BY DEF Enter
<1>2. step = [q \in Process |-> step[q]] /\ stage = [q \in Process |-> stage[q]]
  BY HoldsNow DEF Standing
<1>3. /\ \A q \in Process : step'[q] = IF q = r THEN 1 ELSE step[q]
      /\ \A q \in Process : stage'[q] = IF q = r THEN b ELSE stage[q]
  BY <1>1, <1>2
<1>4. Apart(input') = Apart(input)  BY <1>1 DEF Apart
<1>5. \A q \in Process : /\ Position[q] = PositionOf(input, stage, step, q)
                         /\ Position'[q] = PositionOf(input', stage', step', q)
  BY DEF Position
<1>6. ASSUME NEW q \in Process, q # r PROVE Position'[q] = Position[q]
  BY <1>3, <1>4, <1>5, <1>6 DEF PositionOf
<1>7. ASSUME Position'[r] = Position[r] PROVE Advances(r)
  <2>1. \A q \in Process : Position'[q] = Position[q]  BY <1>6, <1>7
  <2>2. Position' = Position  BY <2>1 DEF Position
  <2> QED  BY <2>2 DEF Advances
<1>8. stage[r] # "done"  BY DEF Running
<1>9. CASE ~Apart(input) \/ b \notin {"barrier", "done"}
  <2>1. Position'[r] = Position[r]  BY <1>3, <1>4, <1>5, <1>8, <1>9 DEF PositionOf
  <2> QED  BY <1>7, <2>1
<1>10. CASE Apart(input) /\ b = "barrier"
  <2>1. Position[r] = 0 /\ Position'[r] = 1
    BY <1>3, <1>4, <1>5, <1>8, <1>10 DEF PositionOf
  <2>2. OnlyMoves(Position, Position', r, 1)  BY <1>6, <2>1 DEF OnlyMoves
  <2> QED  BY <2>1, <2>2 DEF Advances
<1>11. CASE Apart(input) /\ b = "done"
  <2>1. Position'[r] = 3 * Steps + 1 /\ Position[r] = step[r]
    BY <1>3, <1>4, <1>5, <1>11 DEF PositionOf
  <2>2. step[r] = 3 * Steps + 1
    <3>1. Operations(r) = Plan(input, r, "barrier") /\ input \in Input  BY <1>11, Basics
    <3>2. Plan(input, r, "barrier") = Barrier(input.node, r)  BY <3>1, BarrierPlan
    <3>3. Barrier(input.node, r) = World(r)  BY <1>11, <3>1, WorldPlan
    <3>4. step[r] \in 1 .. Len(Plan(input, r, stage[r])) + 1
      BY HoldsNow DEF Standing, Control
    <3>5. Len(World(r)) = 3 * Steps /\ Steps \in Nat  BY WorldOperations, WorldMasks
    <3>6. step[r] \in 1 .. Len(World(r)) + 1  BY <1>11, <3>2, <3>3, <3>4
    <3>7. step[r] > Len(World(r))  BY <1>11, <3>1, <3>2, <3>3
    <3> QED  BY <3>5, <3>6, <3>7
  <2> QED  BY <1>7, <2>1, <2>2
<1> QED  BY <1>9, <1>10, <1>11

LEMMA StepAdvances ==
  ASSUME CommInv, NEW r \in Process, Main(r) \/ Communicate(r) \/ Kill(r)
  PROVE  Advances(r)
<1>1. ASSUME input' = input, stage' = stage, step' = step PROVE Advances(r)
  BY <1>1, SamePositions DEF Advances
<1>2. ASSUME NEW how, End(r, how) PROVE Advances(r)  BY <1>1, <1>2 DEF End
<1>3. CASE Isend(r)  BY <1>3, OperationAdvances DEF Isend, InOperation
<1>4. CASE Irecv(r)  BY <1>4, OperationAdvances DEF Irecv, InOperation
<1>5. CASE WaitDone(r)
  <2>1. /\ InOperation(r, "wait") /\ step' = [step EXCEPT ![r] = @ + 1]
        /\ UNCHANGED <<input, stage>>
    BY <1>5 DEF WaitDone
  <2> QED  BY <2>1, OperationAdvances DEF InOperation
<1>6. CASE Progress(r)  BY <1>1, <1>6 DEF Progress, programVars
<1>7. CASE Kill(r)  BY <1>2, <1>7 DEF Kill
<1>8. ASSUME NEW a, NEW b, Returned(r, a), Enter(r, b), a = "barrier" <=> b = "done"
      PROVE  Advances(r)
  BY <1>8, StageAdvances DEF Returned
<1>9. CASE Main(r)
  <2>1. CASE OpenFiles(r)  BY <1>2, <1>8, <2>1 DEF OpenFiles
  <2>2. CASE LearnRows(r)  BY <1>8, <2>2 DEF LearnRows
  <2>3. CASE SkipWork(r)  BY <1>8, <2>3 DEF SkipWork
  <2>4. CASE DealRows(r)  BY <1>8, <2>4 DEF DealRows
  <2>5. CASE TakeChunk(r)  BY <1>8, <2>5 DEF TakeChunk
  <2>6. CASE Multiply(r)  BY <1>8, <2>6 DEF Multiply
  <2>7. CASE WriteResult(r)  BY <1>8, <2>7 DEF WriteResult
  <2>8. CASE Finish(r)  BY <1>8, <2>8 DEF Finish
  <2>9. CASE DivideByZero(r)  BY <1>2, <2>9 DEF DivideByZero
  <2>10. CASE OverrunProducts(r)  BY <1>2, <2>10 DEF OverrunProducts
  <2>11. CASE OverrunResult(r)  BY <1>2, <2>11 DEF OverrunResult
  <2>12. CASE CollectiveFails(r)  BY <1>2, <2>12 DEF CollectiveFails
  <2> QED
    BY <1>9, <2>1, <2>2, <2>3, <2>4, <2>5, <2>6, <2>7, <2>8, <2>9, <2>10, <2>11, <2>12 DEF Main
<1> QED  BY <1>3, <1>4, <1>5, <1>6, <1>7, <1>9 DEF Communicate

LEMMA FlatTaken ==
  CommInv => \A r \in Process : \A k \in 1 .. Steps :
               Position[r] = 3 * k + 1 => SentAt(Position)[Behind(Process, r, MaskOf(k))][r] > 0
BY TakenIsSent

\* What DisseminationBarrier sees of a rank that moves on.
LEMMA AdvanceSeen ==
  ASSUME NEW r \in Process, NEW P, NEW T, Seen(P), SeenNext(T),
         \/ P[r] = 0 /\ OnlyMoves(P, T, r, 1)
         \/ Within(P[r]) /\ OnlyMoves(P, T, r, P[r] + 1),
         \A k \in 1 .. Steps : T[r] = 3 * k + 1 =>
           SentAt(T)[Behind(Process, r, MaskOf(k))][r] > 0
  PROVE  Counted!DisseminationNext \/ UNCHANGED Counted!disseminationVars
<1>1. r \in Counted!Peer  BY DEF Counted!Peer, Process
<1>2. CASE P[r] = 0 /\ OnlyMoves(P, T, r, 1)
  <2>1. Steps \in Nat  BY WorldMasks
  <2>2. IF Steps > 0 THEN OnlyMoves(P, T, r, 1) ELSE OnlyMoves(P, T, r, 3 * Steps + 1)
    <3>1. CASE Steps > 0  BY <1>2, <3>1
    <3>2. CASE ~(Steps > 0)
      <4>1. 3 * Steps + 1 = 1  BY <2>1, <3>2
      <4> QED  BY <1>2, <3>2, <4>1
    <3> QED  BY <3>1, <3>2
  <2>3. Counted!Enter(r) \/ Counted!EnterAlone(r)  BY <1>2, <2>2, SeesEnter
  <2> QED  BY <1>1, <2>3 DEF Counted!DisseminationNext
<1>3. CASE Within(P[r]) /\ OnlyMoves(P, T, r, P[r] + 1)
  <2>1. PICK k \in 1 .. Steps : P[r] \in {3 * k - 2, 3 * k - 1, 3 * k}
    <3>1. P[r] \in 1 .. 3 * Steps  BY <1>3 DEF Within
    <3> QED  BY <3>1, WorldOperations
  <2>2. k \in Nat /\ 1 <= k  BY WorldMasks
  <2>3. CASE P[r] = 3 * k - 2
    <3>1. OnlyMoves(P, T, r, 3 * k - 1)
      <4>1. (3 * k - 2) + 1 = 3 * k - 1  BY <2>2
      <4> QED  BY <1>3, <2>3, <4>1
    <3> QED  BY <2>3, <3>1, SeesReceive
  <2>4. CASE P[r] = 3 * k - 1
    <3>1. OnlyMoves(P, T, r, 3 * k)
      <4>1. (3 * k - 1) + 1 = 3 * k  BY <2>2
      <4> QED  BY <1>3, <2>4, <4>1
    <3>2. Counted!Send(r)  BY <2>4, <3>1, SeesSend
    <3> QED  BY <1>1, <3>2 DEF Counted!DisseminationNext
  <2>5. CASE P[r] = 3 * k
    <3> DEFINE b == Behind(Process, r, MaskOf(k))
    <3>1. OnlyMoves(P, T, r, 3 * k + 1)  BY <1>3, <2>5
    <3>2. b \in Process \ {r}
      <4>1. MaskOf(k) \in 1 .. N - 1  BY WorldMasks
      <4> QED  BY <4>1, WorldPartners
    <3>3. SentAt(T)[b][r] > 0
      <4>1. T[r] = 3 * k + 1  BY <3>1 DEF OnlyMoves
      <4> QED  BY <4>1
    <3>4. SentAt(T)[b] = SentAt(P)[b]
      <4> HIDE DEF b
      <4>1. T[b] = P[b]  BY <3>1, <3>2 DEF OnlyMoves
      <4> QED  BY <3>2, <4>1 DEF SentAt
    <3>5. ReceivedAt(P)[b][r] = 0
      <4>1. TakenBy(r, 3 * k)[b] = 0  BY NoneFromYet
      <4> HIDE DEF b
      <4>2. ReceivedAt(P)[b][r] = TakenBy(r, P[r])[b]  BY <3>2 DEF ReceivedAt
      <4> QED  BY <2>5, <4>1, <4>2
    <3>6. ReceivedAt(P)[b][r] < SentAt(P)[b][r]  BY <3>3, <3>4, <3>5
    <3>7. Counted!NextStep(r) \/ Counted!Leave(r)  BY <2>5, <3>1, <3>6, SeesTake
    <3> QED  BY <1>1, <3>7 DEF Counted!DisseminationNext
  <2> QED  BY <2>1, <2>3, <2>4, <2>5
<1> QED  BY <1>2, <1>3

LEMMA FlatStep ==
  CommInv /\ CommInv' /\ [Next]_vars
    => [Counted!DisseminationNext]_(Counted!disseminationVars)
<1>1. CommInv' => \A r \in Process : \A k \in 1 .. Steps :
        Position'[r] = 3 * k + 1 =>
          SentAt(Position')[Behind(Process, r, MaskOf(k))][r] > 0
  <2>1. CommInv => \A r \in Process : \A k \in 1 .. Steps :
          Position[r] = 3 * k + 1 =>
            SentAt(Position)[Behind(Process, r, MaskOf(k))][r] > 0
    BY FlatTaken
  <2>2. CommInv' => (\A r \in Process : \A k \in 1 .. Steps :
          Position[r] = 3 * k + 1 =>
            SentAt(Position)[Behind(Process, r, MaskOf(k))][r] > 0)'
    BY <2>1, PTL
  <2> QED  BY <2>2 DEF SentAt, Position
<1> SUFFICES ASSUME CommInv, CommInv', [Next]_vars
             PROVE  [Counted!DisseminationNext]_(Counted!disseminationVars)
  OBVIOUS
<1> DEFINE P == Position
           T == Position'
<1>2. Seen(P) /\ SeenNext(T)  BY FlatViews
<1>3. ASSUME T = P PROVE UNCHANGED Counted!disseminationVars
  <2> HIDE DEF P, T
  <2> QED  BY <1>2, <1>3 DEF Seen, SeenNext, Counted!disseminationVars
<1>4. CASE UNCHANGED vars
  <2>1. T = P  BY <1>4, SamePositions DEF vars
  <2> QED  BY <1>3, <2>1
<1>5. ASSUME NEW r \in Process, Main(r) \/ Communicate(r) \/ Kill(r)
      PROVE  Counted!DisseminationNext \/ UNCHANGED Counted!disseminationVars
  <2>1. Advances(r)  BY <1>5, StepAdvances
  <2>2. \A k \in 1 .. Steps : T[r] = 3 * k + 1 =>
          SentAt(T)[Behind(Process, r, MaskOf(k))][r] > 0
    BY <1>1
  <2>3. CASE T = P  BY <1>3, <2>3
  <2>4. CASE T # P
    <3>1. \/ P[r] = 0 /\ OnlyMoves(P, T, r, 1)
          \/ Within(P[r]) /\ OnlyMoves(P, T, r, P[r] + 1)
      BY <2>1, <2>4 DEF Advances
    <3> HIDE DEF P, T
    <3> QED  BY <1>2, <2>2, <3>1, AdvanceSeen
  <2> QED  BY <2>3, <2>4
<1> QED  BY <1>4, <1>5 DEF Next

LEMMA FlatInit == Init => Counted!DisseminationInit
<1> SUFFICES ASSUME Init PROVE Counted!DisseminationInit  OBVIOUS
<1>1. \A r \in Process : stage[r] \in {"files", "rows"}  BY DEF Init
<1>2. \A r \in Process : ~InBarrier(r) /\ ~AfterBarrier(r)
  BY <1>1 DEF InBarrier, AfterBarrier
<1>3. \A r \in Process : \A kind, p, b : Passed(r, kind, p, b) = 0  BY <1>2 DEF Passed
<1>4. Counted!Peer = Process  BY DEF Counted!Peer, Process
<1>5. flatEntered = [r \in Process |-> 0] /\ flatLeft = [r \in Process |-> 0]
      /\ flatMask = [r \in Process |-> 0] /\ flatSending = [r \in Process |-> FALSE]
  BY <1>2 DEF flatEntered, flatLeft, flatMask, flatSending
<1>6. flatSent = [s \in Process |-> [d \in Process |-> 0]]
      /\ flatReceived = [s \in Process |-> [d \in Process |-> 0]]
  BY <1>3 DEF flatSent, flatReceived
<1> QED  BY <1>4, <1>5, <1>6 DEF Counted!DisseminationInit

(***************************************************************************)
(* With one rank on each machine the barrier that ends the program, on the *)
(* message queues, implements DisseminationBarrier for every number of     *)
(* processes with standard sends in MPI_Gatherv: counting the messages     *)
(* between two ranks is enough, since each wait ends with the message of   *)
(* its own step.                                                           *)
(***************************************************************************)
THEOREM ProgramCountsMessages == Spec => FlatBarrier
<1>1. Init => Counted!DisseminationInit  BY FlatInit
<1>2. CommInv /\ CommInv' /\ [Next]_vars
        => [Counted!DisseminationNext]_(Counted!disseminationVars)
  BY FlatStep
<1>3. SystemInv => CommInv  BY DEF SystemInv, ProgramInv
<1>4. Spec => []SystemInv  BY SystemHolds
<1> QED  BY <1>1, <1>2, <1>3, <1>4, PTL DEF Spec, FlatBarrier, Counted!DisseminationSpec
=============================================================================
