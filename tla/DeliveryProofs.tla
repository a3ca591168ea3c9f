--------------------------- MODULE DeliveryProofs ---------------------------
(***************************************************************************)
(* Each message of the matrix program reaches the receive it is meant for. *)
(* A rank has gone through a part of its operations (Did); what was sent   *)
(* and not yet received is in flight, once, and nothing else is (Delivery); *)
(* the queues and connections hold these messages in the order of their    *)
(* streams (Tracked), each with what its sender meant (Contents).  From    *)
(* this, what a receive takes is right; and who has come to the end of a   *)
(* barrier knows that all have entered it (BarrierTold).  The last part:   *)
(* every send, receive and packet keeps the invariant CommInv.             *)
(***************************************************************************)
EXTENDS MatrixMultProofs

-----------------------------------------------------------------------------
(***************************************************************************)
(* Delivery.  D holds the operations the ranks have gone through, as       *)
(* <<rank, stage, operation>>, W the receives among them that wait in a    *)
(* queue, and K the messages in flight, as                                 *)
(* <<sender, receiver, the sender's stage, tag, context>>.                 *)
(***************************************************************************)
Slot(i, d, a) == IF Joins(i, d, a) THEN a ELSE "barrier"

\* d takes the vector of s for the message that ends the barrier.
Exempt(i, s, d, a, t) ==
  a = "barrier" /\ t = "bcast" /\ s < i.rows /\ i.rows <= d /\ i.cols > 0

Sent(D, s, d, a, t, c) == <<s, a, ISend(d, t, c)>> \in D

Recd(D, W, s, d, a, t, c) ==
  <<d, a, IRecv(s, t, c)>> \in D /\ <<d, a, IRecv(s, t, c)>> \notin W

Closed(i, D) ==
  \A r, a, op : <<r, a, op>> \in D =>
    /\ r \in Process /\ a \in Stage /\ Planned(i, r, a, op)
    /\ \A b \in Stage : \A e : StageNo(b) < StageNo(a) /\ Planned(i, r, b, e)
                               => <<r, b, e>> \in D

WaitsLast(D, W) ==
  \A r, a, op : <<r, a, op>> \in W =>
    /\ <<r, a, op>> \in D
    /\ \A b, e : <<r, b, e>> \in D => StageNo(b) <= StageNo(a)

InFlightSent(D, K) ==
  \A s, d, a, t, c : <<s, d, a, t, c>> \in K => Sent(D, s, d, a, t, c)

NotLost(i, D, W, K) ==
  \A s, d, a, t, c :
    Sent(D, s, d, a, t, c) /\ Planned(i, d, Slot(i, d, a), IRecv(s, t, c))
      => <<s, d, a, t, c>> \in K \/ Recd(D, W, s, d, Slot(i, d, a), t, c)

NotTwice(i, D, W, K) ==
  \A s, d, a, t, c :
    <<s, d, a, t, c>> \in K /\ Recd(D, W, s, d, Slot(i, d, a), t, c)
      => Exempt(i, s, d, a, t)

NotInvented(i, D, W) ==
  \A s, d, a, t, c :
    Recd(D, W, s, d, a, t, c) =>
      IF Exempt(i, s, d, a, t) THEN Sent(D, s, d, "vector", t, c)
      ELSE Sent(D, s, d, a, t, c)

Delivery(i, D, W, K) ==
  /\ Closed(i, D) /\ WaitsLast(D, W) /\ InFlightSent(D, K)
  /\ NotLost(i, D, W, K) /\ NotTwice(i, D, W, K) /\ NotInvented(i, D, W)

\* Rank r is in stage a.
At(i, D, W, r, a) ==
  /\ r \in Process /\ a \in Stage
  /\ \A b \in Stage : \A e : Planned(i, r, b, e) /\ StageNo(b) < StageNo(a)
                             => <<r, b, e>> \in D
  /\ \A b, e : <<r, b, e>> \in D => StageNo(b) <= StageNo(a)
  /\ \A b, e : <<r, b, e>> \in W => b = a

LEMMA SlotIs ==
  ASSUME NEW i \in Input, NEW s \in Process, NEW a \in Stage, NEW d, NEW t, NEW c,
         Planned(i, s, a, ISend(d, t, c))
  PROVE  /\ d \in Process /\ Slot(i, d, a) \in Stage
         /\ \/ Slot(i, d, a) = a /\ Planned(i, d, a, IRecv(s, t, c))
            \/ /\ Slot(i, d, a) = "barrier" /\ a = "vector" /\ t = "bcast"
               /\ s < i.rows /\ i.rows <= d /\ i.cols > 0
<1>1. /\ d \in Process
      /\ \/ Planned(i, d, a, IRecv(s, t, c))
         \/ a = "vector" /\ t = "bcast" /\ s < i.rows /\ i.rows <= d
  BY SendMirrored
<1>2. Joins(i, s, a)
  BY PlannedIs
<1>3. Planned(i, d, a, IRecv(s, t, c)) => Joins(i, d, a)
  BY <1>1, PlannedIs
<1>4. i.rows \in Nat /\ d \in Nat /\ s \in Nat
  BY <1>1, InputIs
<1> QED
  BY <1>1, <1>2, <1>3, <1>4 DEF Slot, Joins, Stage

LEMMA SendKeepsDelivery ==
  ASSUME NEW i \in Input, NEW D, NEW W, NEW K, Delivery(i, D, W, K),
         NEW s, NEW a, At(i, D, W, s, a), NEW d, NEW t, NEW c,
         Planned(i, s, a, ISend(d, t, c)), ~Sent(D, s, d, a, t, c)
  PROVE  Delivery(i, D \union {<<s, a, ISend(d, t, c)>>}, W,
                  K \union {<<s, d, a, t, c>>})
<1> DEFINE E == D \union {<<s, a, ISend(d, t, c)>>}
           L == K \union {<<s, d, a, t, c>>}
<1>1. Closed(i, E)
  BY DEF Delivery, Closed, At
<1>2. WaitsLast(E, W)
  BY DEF Delivery, WaitsLast, At
<1>3. InFlightSent(E, L)
  BY DEF Delivery, InFlightSent, Sent
<1>4. \A p, q, b, u, e : Recd(E, W, p, q, b, u, e) <=> Recd(D, W, p, q, b, u, e)
  BY KindsApart DEF Recd
<1>5. \A p, q, b, u, e : Sent(E, p, q, b, u, e) =>
        Sent(D, p, q, b, u, e) \/ <<p, q, b, u, e>> = <<s, d, a, t, c>>
  <2> SUFFICES ASSUME NEW p, NEW q, NEW b, NEW u, NEW e, Sent(E, p, q, b, u, e),
                      ~Sent(D, p, q, b, u, e)
               PROVE  <<p, q, b, u, e>> = <<s, d, a, t, c>>
    OBVIOUS
  <2>1. p = s /\ b = a /\ ISend(q, u, e) = ISend(d, t, c)
    BY DEF Sent
  <2> QED
    BY <2>1, OpFields
<1>6. NotLost(i, E, W, L)
  <2>1. NotLost(i, D, W, K) /\ K \subseteq L /\ <<s, d, a, t, c>> \in L
    BY DEF Delivery
  <2> SUFFICES ASSUME NEW p, NEW q, NEW b, NEW u, NEW e, Sent(E, p, q, b, u, e),
                      Planned(i, q, Slot(i, q, b), IRecv(p, u, e))
               PROVE  \/ <<p, q, b, u, e>> \in L
                      \/ Recd(E, W, p, q, Slot(i, q, b), u, e)
    BY DEF NotLost
  <2>2. Sent(D, p, q, b, u, e) \/ <<p, q, b, u, e>> = <<s, d, a, t, c>>
    BY <1>5
  <2>3. CASE Sent(D, p, q, b, u, e)
    <3>1. <<p, q, b, u, e>> \in K \/ Recd(D, W, p, q, Slot(i, q, b), u, e)
      BY <2>1, <2>3 DEF NotLost
    <3> QED
      BY <1>4, <2>1, <3>1
  <2>4. CASE <<p, q, b, u, e>> = <<s, d, a, t, c>>
    BY <2>1, <2>4
  <2> QED
    BY <2>2, <2>3, <2>4
<1>7. NotInvented(i, E, W)
  BY <1>4 DEF Delivery, NotInvented, Sent
<1>8. Recd(D, W, s, d, Slot(i, d, a), t, c) => Exempt(i, s, d, a, t)
  <2> SUFFICES ASSUME Recd(D, W, s, d, Slot(i, d, a), t, c), ~Exempt(i, s, d, a, t)
               PROVE  FALSE
    OBVIOUS
  <2>1. s \in Process /\ a \in Stage
    BY DEF At
  <2>2. \/ Slot(i, d, a) = a /\ Planned(i, d, a, IRecv(s, t, c))
        \/ /\ Slot(i, d, a) = "barrier" /\ a = "vector" /\ t = "bcast"
           /\ s < i.rows /\ i.rows <= d /\ i.cols > 0
    BY <2>1, SlotIs
  <2>3. CASE Slot(i, d, a) = a
    BY <2>3 DEF Delivery, NotInvented
  <2>4. CASE Slot(i, d, a) # a
    <3>1. Exempt(i, s, d, Slot(i, d, a), t) /\ a = "vector"
      BY <2>2, <2>4 DEF Exempt
    <3> QED
      BY <3>1 DEF Delivery, NotInvented
  <2> QED
    BY <2>3, <2>4
<1>9. NotTwice(i, E, W, L)
  BY <1>4, <1>8 DEF Delivery, NotTwice
<1> QED
  BY <1>1, <1>2, <1>3, <1>6, <1>7, <1>9 DEF Delivery

LEMMA PostKeepsDelivery ==
  ASSUME NEW i \in Input, NEW D, NEW W, NEW K, Delivery(i, D, W, K),
         NEW d, NEW a, At(i, D, W, d, a), NEW s, NEW t, NEW c,
         Planned(i, d, a, IRecv(s, t, c)), <<d, a, IRecv(s, t, c)>> \notin D
  PROVE  Delivery(i, D \union {<<d, a, IRecv(s, t, c)>>},
                  W \union {<<d, a, IRecv(s, t, c)>>}, K)
<1> DEFINE E == D \union {<<d, a, IRecv(s, t, c)>>}
           V == W \union {<<d, a, IRecv(s, t, c)>>}
<1>1. Closed(i, E)
  BY DEF Delivery, Closed, At
<1>2. WaitsLast(E, V)
  <2>1. StageNo(a) <= StageNo(a)
    BY StageNumbers DEF At
  <2> SUFFICES ASSUME NEW r, NEW b, NEW op, <<r, b, op>> \in V
               PROVE  /\ <<r, b, op>> \in E
                      /\ \A y, e : <<r, y, e>> \in E => StageNo(y) <= StageNo(b)
    BY DEF WaitsLast
  <2>2. CASE r = d
    <3>1. b = a
      BY <2>2 DEF At
    <3> QED
      BY <2>1, <2>2, <3>1 DEF Delivery, WaitsLast, At
  <2>3. CASE r # d
    BY <2>3 DEF Delivery, WaitsLast
  <2> QED
    BY <2>2, <2>3
<1>3. \A p, q, b, u, e : Sent(E, p, q, b, u, e) <=> Sent(D, p, q, b, u, e)
  BY KindsApart DEF Sent
<1>4. \A p, q, b, u, e : Recd(E, V, p, q, b, u, e) <=> Recd(D, W, p, q, b, u, e)
  <2> SUFFICES ASSUME NEW p, NEW q, NEW b, NEW u, NEW e
               PROVE  Recd(E, V, p, q, b, u, e) <=> Recd(D, W, p, q, b, u, e)
    OBVIOUS
  <2> QED
    BY DEF Recd, Delivery, WaitsLast
<1>5. InFlightSent(E, K)
  BY <1>3 DEF Delivery, InFlightSent
<1>6. NotLost(i, E, V, K)
  BY <1>3, <1>4 DEF Delivery, NotLost
<1>7. NotTwice(i, E, V, K)
  BY <1>3, <1>4 DEF Delivery, NotTwice
<1>8. NotInvented(i, E, V)
  BY <1>3, <1>4 DEF Delivery, NotInvented
<1> QED
  BY <1>1, <1>2, <1>5, <1>6, <1>7, <1>8 DEF Delivery

(***************************************************************************)
(* The oldest message in flight that a receive asks for is the one it is   *)
(* meant for: the sender's stage is the receiver's, or else the receiver,  *)
(* without rows, takes the vector in the barrier.                          *)
(***************************************************************************)
LEMMA FirstIsRight ==
  ASSUME NEW i \in Input, NEW D, NEW W, NEW K, Delivery(i, D, W, K),
         NEW d, NEW a, At(i, D, W, d, a), NEW s, NEW t, NEW c,
         Planned(i, d, a, IRecv(s, t, c)), ~Recd(D, W, s, d, a, t, c),
         NEW b, <<s, d, b, t, c>> \in K,
         \A e : <<s, d, e, t, c>> \in K => StageNo(b) <= StageNo(e)
  PROVE  IF Exempt(i, s, d, a, t) THEN b = "vector" ELSE b = a
<1>1. /\ d \in Process /\ a \in Stage
      /\ Sent(D, s, d, b, t, c)
  BY DEF At, Delivery, InFlightSent
<1>2. s \in Process /\ b \in Stage /\ Planned(i, s, b, ISend(d, t, c))
  BY <1>1 DEF Delivery, Closed, Sent
<1>3. /\ Slot(i, d, b) \in Stage
      /\ \/ Slot(i, d, b) = b /\ Planned(i, d, b, IRecv(s, t, c))
         \/ /\ Slot(i, d, b) = "barrier" /\ b = "vector" /\ t = "bcast"
            /\ s < i.rows /\ i.rows <= d /\ i.cols > 0
  BY <1>2, SlotIs
<1>4. Planned(i, s, a, ISend(d, t, c))
  BY <1>1, RecvMirrored
<1>5. StageNo(a) \in Nat /\ StageNo(b) \in Nat /\ (StageNo(a) = StageNo(b) => a = b)
  BY <1>1, <1>2, StageNumbers
<1>6. Joins(i, d, a) /\ Slot(i, d, a) = a
  BY <1>1, PlannedIs DEF Slot
<1>7. CASE StageNo(b) < StageNo(a)
  <2>1. CASE Slot(i, d, b) = b /\ Planned(i, d, b, IRecv(s, t, c))
    <3>1. <<d, b, IRecv(s, t, c)>> \in D
      BY <1>2, <1>7, <2>1 DEF At
    <3>2. <<d, b, IRecv(s, t, c)>> \notin W
      BY <1>5, <1>7 DEF At
    <3>3. Exempt(i, s, d, b, t)
      BY <2>1, <3>1, <3>2 DEF Recd, Delivery, NotTwice
    <3>4. b = "barrier"
      BY <3>3 DEF Exempt
    <3>5. StageNo(a) > 6
      BY <1>7, <3>4 DEF StageNo
    <3>6. a = "done"
      BY <1>1, <3>5 DEF StageNo, Stage
    <3> QED
      BY <1>1, <3>6, PlannedIs
  <2>2. CASE /\ Slot(i, d, b) = "barrier" /\ b = "vector" /\ t = "bcast"
             /\ s < i.rows /\ i.rows <= d /\ i.cols > 0
    <3>1. StageNo(a) > 4
      BY <1>7, <2>2 DEF StageNo
    <3>2. a \in {"products", "barrier", "done"}
      BY <1>1, <3>1 DEF StageNo, Stage
    <3>3. i.rows \in Nat /\ d \in Nat
      BY <1>1, InputIs
    <3>4. a # "products"
      BY <1>6, <2>2, <3>3 DEF Joins
    <3>5. a # "done"
      BY <1>1, PlannedIs
    <3> QED
      BY <2>2, <3>2, <3>4, <3>5 DEF Exempt
  <2> QED
    BY <1>3, <2>1, <2>2
<1>8. CASE StageNo(a) < StageNo(b)
  <2>1. Sent(D, s, d, a, t, c)
    BY <1>1, <1>4, <1>8 DEF Sent, Delivery, Closed
  <2>2. <<s, d, a, t, c>> \in K
    BY <1>6, <2>1 DEF Delivery, NotLost
  <2> QED
    BY <1>5, <1>8, <2>2
<1>9. CASE a = b
  <2> SUFFICES ASSUME Exempt(i, s, d, a, t) PROVE FALSE
    BY <1>9
  <2>1. a = "barrier" /\ t = "bcast" /\ s < i.rows /\ i.rows <= d /\ i.cols > 0
    BY DEF Exempt
  <2>2. Joins(i, s, "vector") /\ ~Joins(i, d, "vector") /\ "vector" \in Stage
    <3>1. i.rows \in Nat /\ d \in Nat
      BY <1>1, InputIs
    <3> QED
      BY <2>1, <3>1 DEF Joins, Stage
  <2>3. Planned(i, s, "vector", ISend(d, t, c))
    <3> DEFINE op == ISend(d, t, c)
    <3>1. op.tag = "bcast" /\ Planned(i, s, "barrier", op)
      BY <1>4, <2>1, OpFields
    <3> HIDE DEF op
    <3>2. Planned(i, s, "vector", op)
      BY <1>2, <2>2, <3>1, ReleaseLikeVector
    <3> QED
      BY <3>2 DEF op
  <2>4. Sent(D, s, d, "vector", t, c)
    <3>1. StageNo("vector") < StageNo(b)
      BY <1>9, <2>1 DEF StageNo
    <3> QED
      BY <1>1, <2>2, <2>3, <3>1 DEF Sent, Delivery, Closed
  <2>5. Slot(i, d, "vector") = a
    BY <2>1, <2>2 DEF Slot
  <2>6. <<s, d, "vector", t, c>> \in K
    BY <2>4, <2>5 DEF Delivery, NotLost
  <2>7. StageNo(b) <= StageNo("vector")
    BY <2>6
  <2> QED
    BY <1>9, <2>1, <2>7 DEF StageNo
<1> QED
  BY <1>5, <1>7, <1>8, <1>9

LEMMA TakeKeepsDelivery ==
  ASSUME NEW i \in Input, NEW D, NEW W, NEW K, Delivery(i, D, W, K),
         NEW d, NEW a, At(i, D, W, d, a), NEW s, NEW t, NEW c,
         Planned(i, d, a, IRecv(s, t, c)), ~Recd(D, W, s, d, a, t, c),
         NEW b, <<s, d, b, t, c>> \in K,
         \A e : <<s, d, e, t, c>> \in K => StageNo(b) <= StageNo(e)
  PROVE  Delivery(i, D \union {<<d, a, IRecv(s, t, c)>>},
                  W \ {<<d, a, IRecv(s, t, c)>>}, K \ {<<s, d, b, t, c>>})
<1> DEFINE E == D \union {<<d, a, IRecv(s, t, c)>>}
           V == W \ {<<d, a, IRecv(s, t, c)>>}
           L == K \ {<<s, d, b, t, c>>}
<1>0. IF Exempt(i, s, d, a, t) THEN b = "vector" ELSE b = a
  BY FirstIsRight
<1>a. /\ d \in Process /\ a \in Stage /\ Joins(i, d, a)
      /\ Sent(D, s, d, b, t, c)
  BY PlannedIs DEF At, Delivery, InFlightSent
<1>1. Closed(i, E)
  BY DEF Delivery, Closed, At
<1>2. WaitsLast(E, V)
  BY DEF Delivery, WaitsLast, At
<1>3. \A p, q, y, u, e : Sent(E, p, q, y, u, e) <=> Sent(D, p, q, y, u, e)
  BY KindsApart DEF Sent
<1>4. \A p, q, y, u, e : Recd(E, V, p, q, y, u, e) <=>
        Recd(D, W, p, q, y, u, e) \/ <<p, q, y, u, e>> = <<s, d, a, t, c>>
  <2> SUFFICES ASSUME NEW p, NEW q, NEW y, NEW u, NEW e
               PROVE  Recd(E, V, p, q, y, u, e) <=>
                        Recd(D, W, p, q, y, u, e) \/ <<p, q, y, u, e>> = <<s, d, a, t, c>>
    OBVIOUS
  <2>1. q = d /\ y = a /\ IRecv(p, u, e) = IRecv(s, t, c)
          => <<p, q, y, u, e>> = <<s, d, a, t, c>>
    BY OpFields
  <2>2. CASE <<q, y, IRecv(p, u, e)>> = <<d, a, IRecv(s, t, c)>>
    BY <2>1, <2>2 DEF Recd
  <2>3. CASE <<q, y, IRecv(p, u, e)>> # <<d, a, IRecv(s, t, c)>>
    <3>1. <<p, q, y, u, e>> # <<s, d, a, t, c>>
      BY <2>3
    <3> QED
      BY <2>3, <3>1 DEF Recd
  <2> QED
    BY <2>2, <2>3
<1>5. InFlightSent(E, L)
  BY <1>3 DEF Delivery, InFlightSent
<1>6. NotLost(i, E, V, L)
  <2>1. Slot(i, d, b) = a
    <3>1. CASE Exempt(i, s, d, a, t)
      <4>1. b = "vector" /\ a = "barrier" /\ i.rows <= d
        BY <1>0, <3>1 DEF Exempt
      <4>2. i.rows \in Nat /\ d \in Nat
        BY <1>a, InputIs
      <4> QED
        BY <4>1, <4>2 DEF Slot, Joins
    <3>2. CASE ~Exempt(i, s, d, a, t)
      BY <1>0, <1>a, <3>2 DEF Slot
    <3> QED
      BY <3>1, <3>2
  <2>2. Recd(E, V, s, d, Slot(i, d, b), t, c)
    BY <1>4, <2>1
  <2> SUFFICES ASSUME NEW p, NEW q, NEW y, NEW u, NEW e,
                      Sent(D, p, q, y, u, e), Planned(i, q, Slot(i, q, y), IRecv(p, u, e)),
                      <<p, q, y, u, e>> \notin L
               PROVE  Recd(E, V, p, q, Slot(i, q, y), u, e)
    BY <1>3, ZenonT(40) DEF NotLost
  <2>3. CASE <<p, q, y, u, e>> = <<s, d, b, t, c>>
    BY <2>2, <2>3
  <2>4. CASE <<p, q, y, u, e>> # <<s, d, b, t, c>>
    BY <1>4, <2>4 DEF Delivery, NotLost
  <2> QED
    BY <2>3, <2>4
<1>7. NotTwice(i, E, V, L)
  <2> SUFFICES ASSUME NEW p, NEW q, NEW y, NEW u, NEW e,
                      <<p, q, y, u, e>> \in K, <<p, q, y, u, e>> # <<s, d, b, t, c>>,
                      Recd(E, V, p, q, Slot(i, q, y), u, e)
               PROVE  Exempt(i, p, q, y, u)
    BY DEF NotTwice
  <2>1. CASE Recd(D, W, p, q, Slot(i, q, y), u, e)
    BY <2>1 DEF Delivery, NotTwice
  <2>2. CASE <<p, q, Slot(i, q, y), u, e>> = <<s, d, a, t, c>>
    <3>1. p = s /\ q = d /\ u = t /\ e = c /\ Slot(i, d, y) = a /\ y # b
      BY <2>2
    <3>2. Sent(D, s, d, y, t, c)
      BY <3>1 DEF Delivery, InFlightSent
    <3>3. s \in Process /\ y \in Stage /\ Planned(i, s, y, ISend(d, t, c))
      BY <3>2 DEF Sent, Delivery, Closed
    <3>4. \/ Slot(i, d, y) = y
          \/ /\ Slot(i, d, y) = "barrier" /\ y = "vector" /\ t = "bcast"
             /\ s < i.rows /\ i.rows <= d /\ i.cols > 0
      BY <3>3, SlotIs
    <3>5. CASE y = a
      <4>1. Exempt(i, s, d, a, t)
        BY <1>0, <3>1, <3>5
      <4> QED
        BY <3>1, <3>5, <4>1
    <3>6. CASE y # a
      <4>1. Exempt(i, s, d, a, t) /\ y = "vector"
        BY <3>1, <3>4, <3>6 DEF Exempt
      <4> QED
        BY <1>0, <3>1, <4>1
    <3> QED
      BY <3>5, <3>6
  <2> QED
    BY <1>4, <2>1, <2>2
<1>8. NotInvented(i, E, V)
  <2> SUFFICES ASSUME NEW p, NEW q, NEW y, NEW u, NEW e, Recd(E, V, p, q, y, u, e)
               PROVE  IF Exempt(i, p, q, y, u) THEN Sent(D, p, q, "vector", u, e)
                      ELSE Sent(D, p, q, y, u, e)
    BY <1>3 DEF NotInvented
  <2>1. CASE Recd(D, W, p, q, y, u, e)
    BY <2>1 DEF Delivery, NotInvented
  <2>2. CASE <<p, q, y, u, e>> = <<s, d, a, t, c>>
    BY <1>0, <1>a, <2>2
  <2> QED
    BY <1>4, <2>1, <2>2
<1> QED
  BY <1>1, <1>2, <1>5, <1>6, <1>7, <1>8 DEF Delivery

-----------------------------------------------------------------------------
(***************************************************************************)
(* The messages in flight, each with the stage its sender was in.  L holds *)
(* the stages, in sequences that run beside the connections and queues.    *)
(***************************************************************************)
Labelled(Q, L) ==
  /\ L = [q \in Place |-> L[q]]
  /\ \A q \in Place : L[q] \in Seq(Stage) /\ Len(L[q]) = Len(Q[q])

Announces(q, e) ==
  \/ q[1] = "unexpected"
  \/ q[1] = "channel" /\ e.type \in {"eager", "rts"}

Announced(Q, q, k) == q \in Place /\ k \in DOMAIN Q[q] /\ Announces(q, Q[q][k])

KeyOf(q, e, a) == <<e.envelope.source, q[3], a, e.envelope.tag, e.envelope.context>>

KeysIn(Q, L) ==
  UNION {{KeyOf(q, Q[q][k], L[q][k]) : k \in {j \in DOMAIN Q[q] : Announced(Q, q, j)}} :
           q \in Place}

Sourced(Q) ==
  \A q, k : Announced(Q, q, k) /\ q[1] = "channel" => Q[q][k].envelope.source = q[2]

\* Two messages a receive cannot tell apart, but by their order.
SameStream(q, e, p, f) ==
  /\ q[3] = p[3]
  /\ e.envelope.source = f.envelope.source
  /\ e.envelope.tag = f.envelope.tag /\ e.envelope.context = f.envelope.context

Before(q, k, p, j) ==
  (q[1] = "unexpected" /\ p[1] = "channel") \/ (q = p /\ k < j)

InOrder(Q, L) ==
  \A q, k, p, j :
    /\ Announced(Q, q, k) /\ Announced(Q, p, j)
    /\ SameStream(q, Q[q][k], p, Q[p][j]) /\ Before(q, k, p, j)
    => StageNo(L[q][k]) < StageNo(L[p][j])

Tracked(Q, L) == IsFamily(Q) /\ Labelled(Q, L) /\ Sourced(Q) /\ InOrder(Q, L)

LEMMA KeysAre ==
  ASSUME NEW Q, NEW L, NEW x
  PROVE  x \in KeysIn(Q, L) <=>
           \E q, k : Announced(Q, q, k) /\ x = KeyOf(q, Q[q][k], L[q][k])
BY DEF KeysIn, Announced

LEMMA Comparable ==
  ASSUME NEW Q, Sourced(Q), NEW q, NEW k, Announced(Q, q, k),
         NEW p, NEW j, Announced(Q, p, j), SameStream(q, Q[q][k], p, Q[p][j]),
         k \in Nat, j \in Nat
  PROVE  (q = p /\ k = j) \/ Before(q, k, p, j) \/ Before(p, j, q, k)
<1>1. /\ q \in Place /\ p \in Place /\ q[1] \in {"channel", "unexpected"}
      /\ p[1] \in {"channel", "unexpected"} /\ q[3] = p[3]
  BY DEF Announced, Announces, SameStream
<1>2. CASE q[1] = "unexpected" /\ p[1] = "unexpected"
  <2>1. q = <<"unexpected", q[3], q[3]>> /\ p = <<"unexpected", p[3], p[3]>>
    BY <1>1, <1>2 DEF Place
  <2> QED
    BY <1>1, <2>1 DEF Before
<1>3. CASE q[1] = "channel" /\ p[1] = "channel"
  <2>1. q = <<"channel", q[2], q[3]>> /\ p = <<"channel", p[2], p[3]>>
    BY <1>1, <1>3 DEF Place
  <2>2. q[2] = p[2]
    BY <1>3 DEF Sourced, SameStream
  <2> QED
    BY <1>1, <2>1, <2>2 DEF Before
<1> QED
  BY <1>1, <1>2, <1>3 DEF Before

\* Where an element was before the one at i left.
Old(i, k) == IF k < i THEN k ELSE k + 1

LEMMA WithoutIs ==
  ASSUME NEW S, NEW q \in Seq(S), NEW i \in DOMAIN q
  PROVE  /\ Without(q, i) \in Seq(S) /\ Len(Without(q, i)) = Len(q) - 1
         /\ \A k \in DOMAIN Without(q, i) :
              /\ k \in Nat /\ Old(i, k) \in DOMAIN q /\ Old(i, k) # i
              /\ Without(q, i)[k] = q[Old(i, k)]
         /\ \A j \in DOMAIN q : j # i =>
              \E k \in DOMAIN Without(q, i) : Old(i, k) = j
<1>1. DOMAIN q = 1 .. Len(q) /\ Len(q) \in Nat /\ Len(q) - 1 \in Nat /\ i \in 1 .. Len(q)
  OBVIOUS
<1>2. Without(q, i) = [k \in 1 .. Len(q) - 1 |-> q[Old(i, k)]]
  BY DEF Without, Old
<1>3. \A k \in 1 .. Len(q) - 1 : Old(i, k) \in 1 .. Len(q) /\ Old(i, k) # i
  BY <1>1 DEF Old
<1>4. Without(q, i) \in Seq(S) /\ Len(Without(q, i)) = Len(q) - 1
  BY <1>1, <1>2, <1>3
<1>5. ASSUME NEW j \in 1 .. Len(q), j # i
      PROVE  \E k \in 1 .. Len(q) - 1 : Old(i, k) = j
  <2>1. CASE j < i
    BY <1>1, <1>5, <2>1 DEF Old
  <2>2. CASE j > i
    <3>1. j - 1 \in 1 .. Len(q) - 1 /\ Old(i, j - 1) = j
      BY <1>1, <1>5, <2>2 DEF Old
    <3> QED
      BY <3>1
  <2> QED
    BY <1>1, <1>5, <2>1, <2>2
<1>6. /\ DOMAIN Without(q, i) = 1 .. Len(q) - 1
      /\ \A k \in 1 .. Len(q) - 1 : Without(q, i)[k] = q[Old(i, k)]
  BY <1>2
<1>7. \A k \in DOMAIN Without(q, i) :
        /\ k \in Nat /\ Old(i, k) \in DOMAIN q /\ Old(i, k) # i
        /\ Without(q, i)[k] = q[Old(i, k)]
  <2> SUFFICES ASSUME NEW k \in 1 .. Len(q) - 1
               PROVE  /\ k \in Nat /\ Old(i, k) \in DOMAIN q /\ Old(i, k) # i
                      /\ Without(q, i)[k] = q[Old(i, k)]
    BY <1>6
  <2> QED
    BY <1>1, <1>3, <1>6
<1>8. \A j \in DOMAIN q : j # i => \E k \in DOMAIN Without(q, i) : Old(i, k) = j
  <2> SUFFICES ASSUME NEW j \in 1 .. Len(q), j # i
               PROVE  \E k \in DOMAIN Without(q, i) : Old(i, k) = j
    BY <1>1
  <2>1. PICK k \in 1 .. Len(q) - 1 : Old(i, k) = j
    BY <1>5
  <2> QED
    BY <1>6, <2>1
<1> QED
  BY <1>4, <1>7, <1>8

LEMMA TakeTracked ==
  ASSUME NEW Q, NEW L, Tracked(Q, L), NEW q \in Place, NEW i \in DOMAIN Q[q],
         NEW R, Took(Q, R, q, i), NEW M, Took(L, M, q, i)
  PROVE  /\ Tracked(R, M)
         /\ Announces(q, Q[q][i]) => KeysIn(R, M) = KeysIn(Q, L) \ {KeyOf(q, Q[q][i], L[q][i])}
         /\ ~Announces(q, Q[q][i]) => KeysIn(R, M) = KeysIn(Q, L)
         /\ \A p \in Place : \A k \in DOMAIN R[p] :
              LET o == IF p = q THEN Old(i, k) ELSE k
              IN  o \in DOMAIN Q[p] /\ R[p][k] = Q[p][o] /\ M[p][k] = L[p][o]
<1> DEFINE old(p, k) == IF p = q THEN Old(i, k) ELSE k
<1>1. /\ Q = [p \in Place |-> Q[p]] /\ L = [p \in Place |-> L[p]]
      /\ \A p \in Place : L[p] \in Seq(Stage) /\ Len(L[p]) = Len(Q[p])
      /\ \A p \in Place : \E S : Q[p] \in Seq(S)
  BY DEF Tracked, IsFamily, Labelled
<1>2. /\ \A p \in Place : R[p] = IF p = q THEN Without(Q[q], i) ELSE Q[p]
      /\ \A p \in Place : M[p] = IF p = q THEN Without(L[q], i) ELSE L[p]
      /\ R = [p \in Place |-> R[p]] /\ M = [p \in Place |-> M[p]]
  BY <1>1 DEF Took
<1>3. \A p \in Place : DOMAIN L[p] = DOMAIN Q[p] /\ DOMAIN Q[p] = 1 .. Len(Q[p]) /\ Len(Q[p]) \in Nat
  <2> SUFFICES ASSUME NEW p \in Place
               PROVE  DOMAIN L[p] = DOMAIN Q[p] /\ DOMAIN Q[p] = 1 .. Len(Q[p]) /\ Len(Q[p]) \in Nat
    OBVIOUS
  <2>1. PICK S : Q[p] \in Seq(S)
    BY <1>1
  <2> QED
    BY <1>1, <2>1
<1>4. PICK S : Q[q] \in Seq(S)
  BY <1>1
<1>5. /\ Without(Q[q], i) \in Seq(S) /\ Len(Without(Q[q], i)) = Len(Q[q]) - 1
      /\ \A k \in DOMAIN Without(Q[q], i) :
           /\ k \in Nat /\ Old(i, k) \in DOMAIN Q[q] /\ Old(i, k) # i
           /\ Without(Q[q], i)[k] = Q[q][Old(i, k)]
      /\ \A j \in DOMAIN Q[q] : j # i => \E k \in DOMAIN Without(Q[q], i) : Old(i, k) = j
  <2> DEFINE s == Q[q]
  <2>1. s \in Seq(S) /\ i \in DOMAIN s
    BY <1>4
  <2> HIDE DEF s
  <2>2. /\ Without(s, i) \in Seq(S) /\ Len(Without(s, i)) = Len(s) - 1
        /\ \A k \in DOMAIN Without(s, i) :
             /\ k \in Nat /\ Old(i, k) \in DOMAIN s /\ Old(i, k) # i
             /\ Without(s, i)[k] = s[Old(i, k)]
        /\ \A j \in DOMAIN s : j # i => \E k \in DOMAIN Without(s, i) : Old(i, k) = j
    BY <2>1, WithoutIs
  <2> QED
    BY <2>2 DEF s
<1>6. /\ Without(L[q], i) \in Seq(Stage) /\ Len(Without(L[q], i)) = Len(L[q]) - 1
      /\ \A k \in DOMAIN Without(L[q], i) :
           /\ k \in Nat /\ Old(i, k) \in DOMAIN L[q] /\ Old(i, k) # i
           /\ Without(L[q], i)[k] = L[q][Old(i, k)]
  BY <1>1, <1>3, WithoutIs
<1>7. DOMAIN Without(Q[q], i) = DOMAIN Without(L[q], i)
  BY <1>1, <1>5, <1>6
<1>8. \A p \in Place : \A k \in DOMAIN R[p] :
        /\ k \in Nat /\ old(p, k) \in DOMAIN Q[p] /\ old(p, k) \in Nat
        /\ R[p][k] = Q[p][old(p, k)] /\ M[p][k] = L[p][old(p, k)]
        /\ p = q => old(p, k) # i
  BY <1>2, <1>3, <1>5, <1>6, <1>7
<1>9. \A p, k : Announced(R, p, k) => Announced(Q, p, old(p, k))
  BY <1>8 DEF Announced
<1>10. Sourced(R)
  BY <1>8, <1>9 DEF Sourced, Tracked, Announced
<1>11. InOrder(R, M)
  <2> SUFFICES ASSUME NEW p, NEW k, NEW r, NEW j, Announced(R, p, k), Announced(R, r, j),
                      SameStream(p, R[p][k], r, R[r][j]), Before(p, k, r, j)
               PROVE  StageNo(M[p][k]) < StageNo(M[r][j])
    BY DEF InOrder
  <2>1. /\ p \in Place /\ r \in Place /\ k \in DOMAIN R[p] /\ j \in DOMAIN R[r]
    BY DEF Announced
  <2>2. Before(p, old(p, k), r, old(r, j))
    BY <1>4, <1>8, <2>1 DEF Before, Old
  <2>3. Announced(Q, p, old(p, k)) /\ Announced(Q, r, old(r, j))
    BY <1>9
  <2>4. /\ R[p][k] = Q[p][old(p, k)] /\ M[p][k] = L[p][old(p, k)]
        /\ R[r][j] = Q[r][old(r, j)] /\ M[r][j] = L[r][old(r, j)]
    BY <1>8, <2>1
  <2> HIDE DEF old
  <2> QED
    BY <2>2, <2>3, <2>4 DEF InOrder, Tracked
<1>12. IsFamily(R)
  <2> SUFFICES ASSUME NEW p \in Place PROVE \E T : R[p] \in Seq(T)
    BY <1>2 DEF IsFamily
  <2> QED
    BY <1>1, <1>2, <1>5
<1>13. Labelled(R, M)
  BY <1>1, <1>2, <1>5, <1>6 DEF Labelled
<1>14. ASSUME NEW x
       PROVE  x \in KeysIn(R, M) <=>
                \E p, k : /\ Announced(Q, p, k) /\ ~(p = q /\ k = i)
                          /\ x = KeyOf(p, Q[p][k], L[p][k])
  <2>1. ASSUME x \in KeysIn(R, M)
        PROVE  \E p, k : /\ Announced(Q, p, k) /\ ~(p = q /\ k = i)
                         /\ x = KeyOf(p, Q[p][k], L[p][k])
    <3>1. PICK p, k : Announced(R, p, k) /\ x = KeyOf(p, R[p][k], M[p][k])
      BY <2>1, KeysAre
    <3>2. p \in Place /\ k \in DOMAIN R[p] /\ Announced(Q, p, old(p, k))
      BY <1>9, <3>1 DEF Announced
    <3>3. R[p][k] = Q[p][old(p, k)] /\ M[p][k] = L[p][old(p, k)] /\ (p = q => old(p, k) # i)
      BY <1>8, <3>2
    <3> HIDE DEF old
    <3> QED
      BY <3>1, <3>2, <3>3
  <2>2. ASSUME NEW p, NEW k, Announced(Q, p, k), ~(p = q /\ k = i),
               x = KeyOf(p, Q[p][k], L[p][k])
        PROVE  x \in KeysIn(R, M)
    <3>1. p \in Place /\ k \in DOMAIN Q[p] /\ Announces(p, Q[p][k])
      BY <2>2 DEF Announced
    <3>2. PICK j \in DOMAIN R[p] : old(p, j) = k
      BY <1>2, <1>5, <2>2, <3>1
    <3>3. R[p][j] = Q[p][k] /\ M[p][j] = L[p][k]
      BY <1>8, <3>1, <3>2
    <3>4. Announced(R, p, j)
      BY <3>1, <3>2, <3>3 DEF Announced
    <3> QED
      BY <2>2, <3>3, <3>4, KeysAre
  <2> QED
    BY <2>1, <2>2
<1>15. ASSUME NEW p, NEW k, Announced(Q, p, k), ~(p = q /\ k = i), Announces(q, Q[q][i]),
              KeyOf(p, Q[p][k], L[p][k]) = KeyOf(q, Q[q][i], L[q][i])
       PROVE  FALSE
  <2>1. Announced(Q, q, i) /\ k \in Nat /\ i \in Nat
    BY <1>3, <1>15 DEF Announced
  <2>2. SameStream(p, Q[p][k], q, Q[q][i]) /\ L[p][k] = L[q][i]
    BY <1>15 DEF KeyOf, SameStream
  <2>3. SameStream(q, Q[q][i], p, Q[p][k])
    BY <2>2 DEF SameStream
  <2>4. Before(p, k, q, i) \/ Before(q, i, p, k)
    BY <1>15, <2>1, <2>2, Comparable DEF Tracked
  <2>5. StageNo(L[p][k]) < StageNo(L[q][i]) \/ StageNo(L[q][i]) < StageNo(L[p][k])
    BY <1>15, <2>1, <2>2, <2>3, <2>4 DEF Tracked, InOrder
  <2>6. L[q][i] \in Stage
    BY <1>1, <1>3
  <2>7. StageNo(L[q][i]) \in Nat
    BY <2>6, StageNumbers
  <2> QED
    BY <2>2, <2>5, <2>7
<1>16. ASSUME Announces(q, Q[q][i])
       PROVE  KeysIn(R, M) = KeysIn(Q, L) \ {KeyOf(q, Q[q][i], L[q][i])}
  <2> SUFFICES ASSUME NEW x
               PROVE  x \in KeysIn(R, M) <=>
                        x \in KeysIn(Q, L) /\ x # KeyOf(q, Q[q][i], L[q][i])
    OBVIOUS
  <2> QED
    BY <1>14, <1>15, <1>16, KeysAre
<1>17. ASSUME ~Announces(q, Q[q][i]) PROVE KeysIn(R, M) = KeysIn(Q, L)
  <2> SUFFICES ASSUME NEW x PROVE x \in KeysIn(R, M) <=> x \in KeysIn(Q, L)
    OBVIOUS
  <2>1. ~Announced(Q, q, i)
    BY <1>17 DEF Announced
  <2> QED
    BY <1>14, <2>1, KeysAre
<1> QED
  BY <1>8, <1>10, <1>11, <1>12, <1>13, <1>16, <1>17 DEF Tracked

\* A message with label a may follow all others of its stream at place q.
MayJoin(Q, L, q, e, a) ==
  Announces(q, e) =>
    /\ q[1] = "channel" => e.envelope.source = q[2]
    /\ \A p, k : Announced(Q, p, k) /\ SameStream(p, Q[p][k], q, e) =>
         IF q[1] = "unexpected" /\ p[1] = "channel"
         THEN StageNo(a) < StageNo(L[p][k]) ELSE StageNo(L[p][k]) < StageNo(a)

LEMMA AppendIs ==
  ASSUME NEW S, NEW s \in Seq(S), NEW e
  PROVE  /\ DOMAIN Append(s, e) = 1 .. Len(s) + 1 /\ Len(Append(s, e)) = Len(s) + 1
         /\ DOMAIN s = 1 .. Len(s) /\ Len(s) \in Nat
         /\ \A k \in 1 .. Len(s) : Append(s, e)[k] = s[k]
         /\ Append(s, e)[Len(s) + 1] = e
         /\ Append(s, e) \in Seq(S \union {e})
<1>1. s \in Seq(S \union {e})
  BY NarrowSeq
<1>2. Append(s, e) \in Seq(S \union {e})
  BY <1>1
<1> QED
  BY <1>2

LEMMA PutTracked ==
  ASSUME NEW Q, NEW L, Tracked(Q, L), NEW q \in Place, NEW e, NEW a \in Stage,
         MayJoin(Q, L, q, e, a),
         NEW R, Put(Q, R, q, e), NEW M, Put(L, M, q, a)
  PROVE  /\ Tracked(R, M)
         /\ Announces(q, e) => KeysIn(R, M) = KeysIn(Q, L) \union {KeyOf(q, e, a)}
         /\ ~Announces(q, e) => KeysIn(R, M) = KeysIn(Q, L)
         /\ \A p \in Place : \A k \in DOMAIN R[p] :
              \/ p = q /\ R[p][k] = e /\ M[p][k] = a
              \/ k \in DOMAIN Q[p] /\ R[p][k] = Q[p][k] /\ M[p][k] = L[p][k]
<1> DEFINE n == Len(Q[q]) + 1
<1>1. /\ Q = [p \in Place |-> Q[p]] /\ L = [p \in Place |-> L[p]]
      /\ \A p \in Place : L[p] \in Seq(Stage) /\ Len(L[p]) = Len(Q[p])
      /\ \A p \in Place : \E S : Q[p] \in Seq(S)
  BY DEF Tracked, IsFamily, Labelled
<1>2. /\ \A p \in Place : R[p] = IF p = q THEN Append(Q[q], e) ELSE Q[p]
      /\ \A p \in Place : M[p] = IF p = q THEN Append(L[q], a) ELSE L[p]
      /\ R = [p \in Place |-> R[p]] /\ M = [p \in Place |-> M[p]]
  BY <1>1 DEF Put
<1>3. \A p \in Place : DOMAIN Q[p] = 1 .. Len(Q[p]) /\ Len(Q[p]) \in Nat
  <2> SUFFICES ASSUME NEW p \in Place
               PROVE  DOMAIN Q[p] = 1 .. Len(Q[p]) /\ Len(Q[p]) \in Nat
    OBVIOUS
  <2>1. PICK S : Q[p] \in Seq(S)
    BY <1>1
  <2> QED
    BY <2>1
<1>4. PICK S : Q[q] \in Seq(S)
  BY <1>1
<1>5. /\ DOMAIN Append(Q[q], e) = 1 .. n /\ Append(Q[q], e) \in Seq(S \union {e})
      /\ Len(Append(Q[q], e)) = n
      /\ \A k \in 1 .. Len(Q[q]) : Append(Q[q], e)[k] = Q[q][k]
      /\ Append(Q[q], e)[n] = e
  <2> DEFINE s == Q[q]
  <2>1. s \in Seq(S)
    BY <1>4
  <2> HIDE DEF s
  <2>2. /\ DOMAIN Append(s, e) = 1 .. Len(s) + 1 /\ Len(Append(s, e)) = Len(s) + 1
        /\ \A k \in 1 .. Len(s) : Append(s, e)[k] = s[k]
        /\ Append(s, e)[Len(s) + 1] = e
        /\ Append(s, e) \in Seq(S \union {e})
    BY <2>1, AppendIs
  <2> QED
    BY <2>2 DEF s
<1>6. /\ \A k \in 1 .. Len(Q[q]) : Append(L[q], a)[k] = L[q][k]
      /\ Append(L[q], a)[n] = a /\ Append(L[q], a) \in Seq(Stage)
      /\ Len(Append(L[q], a)) = n
  <2> DEFINE s == L[q]
  <2>1. s \in Seq(Stage) /\ Len(s) = Len(Q[q])
    BY <1>1
  <2> HIDE DEF s
  <2>2. /\ Len(Append(s, a)) = Len(s) + 1
        /\ \A k \in 1 .. Len(s) : Append(s, a)[k] = s[k]
        /\ Append(s, a)[Len(s) + 1] = a
        /\ Append(s, a) \in Seq(Stage)
    BY <2>1, AppendIs
  <2> QED
    BY <2>1, <2>2 DEF s
<1>7. n \in Nat /\ n \notin DOMAIN Q[q] /\ n \in DOMAIN R[q] /\ R[q][n] = e /\ M[q][n] = a
  BY <1>2, <1>3, <1>5, <1>6
<1> HIDE DEF n
<1>8. \A p \in Place : \A k \in DOMAIN R[p] :
        \/ p = q /\ k = n
        \/ k \in DOMAIN Q[p] /\ R[p][k] = Q[p][k] /\ M[p][k] = L[p][k]
  <2> SUFFICES ASSUME NEW p \in Place, NEW k \in DOMAIN R[p]
               PROVE  \/ p = q /\ k = n
                      \/ k \in DOMAIN Q[p] /\ R[p][k] = Q[p][k] /\ M[p][k] = L[p][k]
    OBVIOUS
  <2>1. CASE p = q
    <3>1. k \in 1 .. n
      BY <1>2, <1>5, <2>1
    <3>2. k = n \/ k \in 1 .. Len(Q[q])
      BY <1>3, <3>1 DEF n
    <3> QED
      BY <1>2, <1>3, <1>5, <1>6, <2>1, <3>2
  <2>2. CASE p # q
    BY <1>2, <2>2
  <2> QED
    BY <2>1, <2>2
<1>9. \A p \in Place : \A k \in DOMAIN Q[p] :
        /\ k \in DOMAIN R[p] /\ R[p][k] = Q[p][k] /\ M[p][k] = L[p][k]
        /\ k \in Nat /\ (p = q => k < n)
  <2> SUFFICES ASSUME NEW p \in Place, NEW k \in DOMAIN Q[p]
               PROVE  /\ k \in DOMAIN R[p] /\ R[p][k] = Q[p][k] /\ M[p][k] = L[p][k]
                      /\ k \in Nat /\ (p = q => k < n)
    OBVIOUS
  <2>1. CASE p = q
    <3>1. k \in 1 .. Len(Q[q]) /\ Len(Q[q]) \in Nat
      BY <1>3, <2>1
    <3>2. k \in 1 .. n /\ k < n
      BY <3>1 DEF n
    <3> QED
      BY <1>2, <1>5, <1>6, <2>1, <3>1, <3>2
  <2>2. CASE p # q
    BY <1>2, <1>3, <2>2
  <2> QED
    BY <2>1, <2>2
<1>10. \A p, k : Announced(R, p, k) <=> Announced(Q, p, k) \/ (p = q /\ k = n /\ Announces(q, e))
  BY <1>7, <1>8, <1>9 DEF Announced
<1>11. Sourced(R)
  <2> SUFFICES ASSUME NEW p, NEW k, Announced(R, p, k), p[1] = "channel"
               PROVE  R[p][k].envelope.source = p[2]
    BY DEF Sourced
  <2>1. CASE Announced(Q, p, k)
    BY <1>9, <2>1 DEF Announced, Sourced, Tracked
  <2>2. CASE p = q /\ k = n /\ Announces(q, e)
    BY <1>7, <2>2 DEF MayJoin
  <2> QED
    BY <1>10, <2>1, <2>2
<1>12. InOrder(R, M)
  <2> SUFFICES ASSUME NEW p, NEW k, NEW r, NEW j, Announced(R, p, k), Announced(R, r, j),
                      SameStream(p, R[p][k], r, R[r][j]), Before(p, k, r, j)
               PROVE  StageNo(M[p][k]) < StageNo(M[r][j])
    BY DEF InOrder
  <2>1. CASE Announced(Q, p, k) /\ Announced(Q, r, j)
    <3>1. R[p][k] = Q[p][k] /\ M[p][k] = L[p][k] /\ R[r][j] = Q[r][j] /\ M[r][j] = L[r][j]
      BY <1>9, <2>1 DEF Announced
    <3> QED
      BY <2>1, <3>1 DEF InOrder, Tracked
  <2>2. CASE Announced(Q, p, k) /\ r = q /\ j = n /\ Announces(q, e)
    <3>1. R[p][k] = Q[p][k] /\ M[p][k] = L[p][k] /\ R[r][j] = e /\ M[r][j] = a
      BY <1>7, <1>9, <2>2 DEF Announced
    <3>2. ~(q[1] = "unexpected" /\ p[1] = "channel")
      BY <2>2 DEF Before
    <3> QED
      BY <2>2, <3>1, <3>2 DEF MayJoin
  <2>3. CASE Announced(Q, r, j) /\ p = q /\ k = n /\ Announces(q, e)
    <3>1. R[p][k] = e /\ M[p][k] = a /\ R[r][j] = Q[r][j] /\ M[r][j] = L[r][j]
      BY <1>7, <1>9, <2>3 DEF Announced
    <3>2. SameStream(r, Q[r][j], q, e)
      BY <2>3, <3>1 DEF SameStream
    <3>3. ~(p = r /\ k < j)
      BY <1>7, <1>9, <2>3 DEF Announced
    <3>4. q[1] = "unexpected" /\ r[1] = "channel"
      BY <2>3, <3>3 DEF Before
    <3> QED
      BY <2>3, <3>1, <3>2, <3>4 DEF MayJoin
  <2>4. CASE p = q /\ k = n /\ r = q /\ j = n
    BY <1>7, <2>4 DEF Before
  <2> QED
    BY <1>10, <2>1, <2>2, <2>3, <2>4
<1>13. IsFamily(R)
  <2> SUFFICES ASSUME NEW p \in Place PROVE \E T : R[p] \in Seq(T)
    BY <1>2 DEF IsFamily
  <2> QED
    BY <1>1, <1>2, <1>5
<1>14. Labelled(R, M)
  BY <1>1, <1>2, <1>5, <1>6 DEF Labelled
<1>15. ASSUME NEW x
       PROVE  x \in KeysIn(R, M) <=>
                x \in KeysIn(Q, L) \/ (Announces(q, e) /\ x = KeyOf(q, e, a))
  <2>1. ASSUME x \in KeysIn(R, M)
        PROVE  x \in KeysIn(Q, L) \/ (Announces(q, e) /\ x = KeyOf(q, e, a))
    <3>1. PICK p, k : Announced(R, p, k) /\ x = KeyOf(p, R[p][k], M[p][k])
      BY <2>1, KeysAre
    <3>2. CASE Announced(Q, p, k)
      <4>1. R[p][k] = Q[p][k] /\ M[p][k] = L[p][k]
        BY <1>9, <3>2 DEF Announced
      <4> QED
        BY <3>1, <3>2, <4>1, KeysAre
    <3>3. CASE p = q /\ k = n /\ Announces(q, e)
      BY <1>7, <3>1, <3>3
    <3> QED
      BY <1>10, <3>1, <3>2, <3>3
  <2>2. ASSUME x \in KeysIn(Q, L) PROVE x \in KeysIn(R, M)
    <3>1. PICK p, k : Announced(Q, p, k) /\ x = KeyOf(p, Q[p][k], L[p][k])
      BY <2>2, KeysAre
    <3>2. R[p][k] = Q[p][k] /\ M[p][k] = L[p][k]
      BY <1>9, <3>1 DEF Announced
    <3> QED
      BY <1>10, <3>1, <3>2, KeysAre
  <2>3. ASSUME Announces(q, e), x = KeyOf(q, e, a) PROVE x \in KeysIn(R, M)
    BY <1>7, <1>10, <2>3, KeysAre
  <2> QED
    BY <2>1, <2>2, <2>3
<1>16. \A p \in Place : \A k \in DOMAIN R[p] :
         \/ p = q /\ R[p][k] = e /\ M[p][k] = a
         \/ k \in DOMAIN Q[p] /\ R[p][k] = Q[p][k] /\ M[p][k] = L[p][k]
  BY <1>7, <1>8
<1>17. Tracked(R, M)
  BY <1>11, <1>12, <1>13, <1>14 DEF Tracked
<1>18. Announces(q, e) => KeysIn(R, M) = KeysIn(Q, L) \union {KeyOf(q, e, a)}
  BY <1>15
<1>19. ~Announces(q, e) => KeysIn(R, M) = KeysIn(Q, L)
  BY <1>15
<1> QED
  BY <1>16, <1>17, <1>18, <1>19

-----------------------------------------------------------------------------
(* Where a rank stands in its operations.                                  *)

(* The operations of s before the n-th, and those since the last wait. *)
Reached(s, n, op) == op # Wait /\ \E k \in 1 .. n - 1 : k \in DOMAIN s /\ s[k] = op

Open(s, n, op) == \E k \in 1 .. n - 1 : k \in DOMAIN s /\ s[k] = op /\ Since(s, k, n)

LEMMA StepsOn ==
  ASSUME NEW s, Orderly(s), NEW n \in DOMAIN s
  PROVE  /\ s[n] # Wait =>
              /\ ~Reached(s, n, s[n])
              /\ \A op : Reached(s, n + 1, op) <=> Reached(s, n, op) \/ op = s[n]
              /\ \A op : Open(s, n + 1, op) <=> Open(s, n, op) \/ op = s[n]
         /\ s[n] = Wait =>
              /\ \A op : Reached(s, n + 1, op) <=> Reached(s, n, op)
              /\ \A op : ~Open(s, n + 1, op)
              /\ \A op : Open(s, n, op) /\ op.kind = "irecv" =>
                   n - 1 \in DOMAIN s /\ s[n - 1] # Wait /\ s[n - 1].tag = op.tag
<1>1. s \in Seq(Operation) /\ DOMAIN s = 1 .. Len(s) /\ Len(s) \in Nat /\ n \in 1 .. Len(s)
  BY DEF Orderly
<1>2. 1 .. (n + 1) - 1 = 1 .. n - 1 \union {n}
  BY <1>1
<1>3. \A op : Reached(s, n + 1, op) <=> Reached(s, n, op) \/ (op # Wait /\ op = s[n])
  BY <1>2 DEF Reached
<1>4. s[n] # Wait => ~Reached(s, n, s[n])
  <2> SUFFICES ASSUME s[n] # Wait, NEW k \in 1 .. n - 1, k \in DOMAIN s, s[k] = s[n]
               PROVE  FALSE
    BY DEF Reached
  <2>1. k = n
    BY DEF Orderly, Once
  <2> QED
    BY <1>1, <2>1
<1>5. ASSUME s[n] # Wait, NEW op
      PROVE  Open(s, n + 1, op) <=> Open(s, n, op) \/ op = s[n]
  <2>1. \A k \in 1 .. n - 1 : Since(s, k, n + 1) <=> Since(s, k, n)
    <3> SUFFICES ASSUME NEW k \in 1 .. n - 1 PROVE Since(s, k, n + 1) <=> Since(s, k, n)
      OBVIOUS
    <3>1. k .. (n + 1) - 1 = k .. n - 1 \union {n} /\ k < n
      BY <1>1
    <3> QED
      BY <1>1, <1>5, <3>1 DEF Since
  <2>2. Since(s, n, n + 1)
    <3>1. n .. (n + 1) - 1 = {n}
      BY <1>1
    <3> QED
      BY <1>1, <1>5, <3>1 DEF Since
  <2> QED
    BY <1>1, <1>2, <2>1, <2>2 DEF Open
<1>6. ASSUME s[n] = Wait, NEW op PROVE ~Open(s, n + 1, op)
  <2> SUFFICES ASSUME NEW k \in 1 .. (n + 1) - 1, Since(s, k, n + 1) PROVE FALSE
    BY DEF Open
  <2>1. n \in k .. (n + 1) - 1
    BY <1>1
  <2> QED
    BY <1>6, <2>1 DEF Since
<1>7. ASSUME s[n] = Wait, NEW op, Open(s, n, op), op.kind = "irecv"
      PROVE  n - 1 \in DOMAIN s /\ s[n - 1] # Wait /\ s[n - 1].tag = op.tag
  <2>1. PICK k \in 1 .. n - 1 : k \in DOMAIN s /\ s[k] = op /\ Since(s, k, n)
    BY <1>7 DEF Open
  <2>2. n - 1 \in 1 .. Len(s)
    BY <1>1, <2>1
  <2> QED
    BY <1>1, <1>7, <2>1, <2>2 DEF Orderly, TagsAgree
<1> QED
  BY <1>3, <1>4, <1>5, <1>6, <1>7

LEMMA AtTheEnds ==
  ASSUME NEW s, Orderly(s)
  PROVE  /\ \A op : ~Reached(s, 1, op) /\ ~Open(s, 1, op)
         /\ \A n \in Nat : \A op : n > Len(s) =>
              /\ Reached(s, n, op) <=> Has(s, op) /\ op # Wait
              /\ Open(s, n, op) => ~NeedsWait(op)
         /\ \A n \in Nat : \A op : Open(s, n, op) => Reached(s, n, op)
         /\ \A n \in Nat : \A op : Reached(s, n, op) => Has(s, op) /\ op \in Operation
<1>1. s \in Seq(Operation) /\ DOMAIN s = 1 .. Len(s) /\ Len(s) \in Nat
  BY DEF Orderly
<1>2. \A op : ~Reached(s, 1, op) /\ ~Open(s, 1, op)
  BY DEF Reached, Open
<1>3. ASSUME NEW n \in Nat, NEW op, n > Len(s)
      PROVE  /\ Reached(s, n, op) <=> Has(s, op) /\ op # Wait
             /\ Open(s, n, op) => ~NeedsWait(op)
  <2>1. 1 .. Len(s) \subseteq 1 .. n - 1
    BY <1>1, <1>3
  <2>2. Reached(s, n, op) <=> Has(s, op) /\ op # Wait
    BY <1>1, <2>1 DEF Reached, Has
  <2>3. ASSUME Open(s, n, op), NeedsWait(op) PROVE FALSE
    <3>1. PICK k \in DOMAIN s : s[k] = op /\ Since(s, k, n)
      BY <2>3 DEF Open
    <3>2. PICK l \in DOMAIN s : k < l /\ s[l] = Wait
      BY <2>3, <3>1 DEF Orderly, Awaited
    <3>3. l \in k .. n - 1
      BY <1>1, <1>3, <3>2
    <3> QED
      BY <3>1, <3>2, <3>3 DEF Since
  <2> QED
    BY <2>2, <2>3
<1>4. ASSUME NEW n \in Nat, NEW op, Open(s, n, op) PROVE Reached(s, n, op)
  <2>1. PICK k \in 1 .. n - 1 : k \in DOMAIN s /\ s[k] = op /\ Since(s, k, n)
    BY <1>4 DEF Open
  <2>2. k \in k .. n - 1
    BY <2>1
  <2>3. op # Wait
    BY <2>1, <2>2 DEF Since
  <2> QED
    BY <2>1, <2>3 DEF Reached
<1>5. ASSUME NEW n \in Nat, NEW op, Reached(s, n, op) PROVE Has(s, op) /\ op \in Operation
  BY <1>1, <1>5 DEF Reached, Has
<1> QED
  BY <1>2, <1>3, <1>4, <1>5

-----------------------------------------------------------------------------
(* A rank that is not the root receives first and sends after it has waited. *)
Relay(s, r) ==
  /\ s \in Seq(Operation)
  /\ r = 0 => \A k \in DOMAIN s : s[k].kind = "isend"
  /\ r # 0 => /\ Len(s) >= 2 /\ s[1].kind = "irecv" /\ s[2] = Wait
              /\ \A k \in DOMAIN s : k > 2 => s[k].kind = "isend"

LEMMA RankZero ==
  ASSUME NEW S \in SUBSET Process, NEW r \in S
  PROVE  RankIn(S, r) \in Nat /\ (RankIn(S, r) = 0 <=> \A q \in S : r <= q)
<1>1. RankIn(S, r) \in Nat
  BY RankBelowSize
<1>2. RankIn(S, r) = 0 <=> \A q \in S : r <= q
  <2>1. IsFiniteSet({q \in S : q < r})
    <3>1. IsFiniteSet(Process)
      BY InputAssumption, FS_Interval DEF Process
    <3> QED
      BY <3>1, FS_Subset
  <2>2. Cardinality({q \in S : q < r}) = 0 <=> {q \in S : q < r} = {}
    BY <2>1, FS_EmptySet
  <2>3. \A q \in S : q \in Nat
    BY DEF Process
  <2> QED
    BY <2>2, <2>3 DEF RankIn
<1> QED
  BY <1>1, <1>2

LEMMA BcastRelays ==
  ASSUME NEW i \in Input, NEW r \in Process
  PROVE  Relay(Bcast(i.node, r), r)
<1> DEFINE node == i.node
<1>0. 0 \in Process /\ \A p \in Process : p \in Nat
  BY InputIs
<1>1. CASE ~NodeAware(node)
  <2>1. Bcast(node, r) = BinomialBcast(Process, "world", r)
    BY <1>1 DEF Bcast
  <2>2. TreePart(Process, "world", r, BinomialBcast(Process, "world", r))
    BY BinomialIs
  <2>3. RankIn(Process, r) \in Nat /\ (RankIn(Process, r) = 0 <=> r = 0)
    BY <1>0, RankZero
  <2> QED
    BY <2>1, <2>2, <2>3, KindsApart DEF TreePart, Relay
<1>2. CASE NodeAware(node)
  <2> DEFINE t == BinomialBcast(NodeMembers(node, r), "node", r)
             b == BinomialBcast(NodeRoots(node), "roots", r)
  <2>1. Bcast(node, r) = RootsOnly(node, r, b) \o t
    BY <1>2 DEF Bcast
  <2>2. /\ NodeMembers(node, r) \in SUBSET Process /\ r \in NodeMembers(node, r)
        /\ NodeRoots(node) \in SUBSET Process
        /\ r \in NodeRoots(node) <=> \A p \in NodeMembers(node, r) : r <= p
    BY DEF NodeMembers, NodeRoots
  <2>3. TreePart(NodeMembers(node, r), "node", r, t)
    BY <2>2, BinomialIs
  <2>4. /\ RankIn(NodeMembers(node, r), r) \in Nat
        /\ RankIn(NodeMembers(node, r), r) = 0 <=> r \in NodeRoots(node)
    BY <2>2, RankZero
  <2>5. 0 \in NodeRoots(node)
    BY <1>0 DEF NodeRoots, NodeMembers
  <2>6. CASE r \notin NodeRoots(node)
    <3>1. r # 0 /\ RankIn(NodeMembers(node, r), r) > 0
      BY <2>4, <2>5, <2>6
    <3>2. RootsOnly(node, r, b) = <<>> /\ t \in Seq(Operation)
      BY <2>3, <2>6 DEF RootsOnly, TreePart
    <3>3. Bcast(node, r) = t
      BY <2>1, <3>2
    <3> HIDE DEF t
    <3> QED
      BY <2>3, <3>1, <3>3, KindsApart DEF TreePart, Relay
  <2>7. CASE r \in NodeRoots(node)
    <3>1. TreePart(NodeRoots(node), "roots", r, b)
      BY <2>2, <2>7, BinomialIs
    <3>2. RankIn(NodeRoots(node), r) \in Nat /\ (RankIn(NodeRoots(node), r) = 0 <=> r = 0)
      BY <1>0, <2>2, <2>5, <2>7, RankZero
    <3>3. Bcast(node, r) = b \o t
      BY <2>1, <2>7 DEF RootsOnly
    <3>4. t \in Seq(Operation) /\ b \in Seq(Operation) /\ \A k \in DOMAIN t : t[k].kind = "isend"
      BY <2>3, <2>4, <2>7, <3>1 DEF TreePart
    <3> HIDE DEF t, b
    <3>5. /\ Len(b \o t) = Len(b) + Len(t) /\ b \o t \in Seq(Operation)
          /\ \A k \in DOMAIN (b \o t) :
               \/ k \in DOMAIN b /\ (b \o t)[k] = b[k]
               \/ k > Len(b) /\ (b \o t)[k].kind = "isend"
          /\ \A k \in DOMAIN b : (b \o t)[k] = b[k]
      BY <3>4, PartsOfJoin
    <3>6. CASE r = 0
      <4>1. \A k \in DOMAIN b : b[k].kind = "isend"
        BY <3>1, <3>2, <3>6 DEF TreePart
      <4> QED
        BY <3>3, <3>5, <3>6, <4>1 DEF Relay
    <3>7. CASE r # 0
      <4>1. /\ Len(b) >= 2 /\ b[1].kind = "irecv" /\ b[2] = Wait
            /\ \A k \in DOMAIN b : k > 2 => b[k].kind = "isend"
        BY <3>1, <3>2, <3>7, KindsApart DEF TreePart
      <4>2. Len(b) \in Nat /\ Len(t) \in Nat /\ DOMAIN b = 1 .. Len(b)
        BY <3>4
      <4>3. 1 \in DOMAIN b /\ 2 \in DOMAIN b
        BY <4>1, <4>2
      <4>4. \A k \in DOMAIN (b \o t) : k > 2 => (b \o t)[k].kind = "isend"
        BY <3>5, <4>1
      <4>5. Len(b \o t) >= 2 /\ (b \o t)[1].kind = "irecv" /\ (b \o t)[2] = Wait
        BY <3>5, <4>1, <4>2, <4>3
      <4> QED
        BY <3>3, <3>5, <3>7, <4>4, <4>5 DEF Relay
    <3> QED
      BY <3>6, <3>7
  <2> QED
    BY <2>6, <2>7
<1> QED
  BY <1>1, <1>2

(***************************************************************************)
(* What the ranks have gone through, from the stages st and the steps sp,  *)
(* and the receives that wait in a queue.                                  *)
(***************************************************************************)
Did(i, st, sp, r, a, op) ==
  /\ Planned(i, r, a, op)
  /\ \/ StageNo(a) < StageNo(st[r])
     \/ a = st[r] /\ Reached(Plan(i, r, a), sp[r], op)

DidOf(i, st, sp) ==
  {x \in Process \X Stage \X Operation : Did(i, st, sp, x[1], x[2], x[3])}

Waiting(i, st, sp, req, r, op) ==
  /\ op.kind = "irecv" /\ Open(Plan(i, r, st[r]), sp[r], op)
  /\ req[r][<<"recv", op.peer>>].state = "posted"

WaitOf(i, st, sp, req) ==
  {x \in Process \X Stage \X Operation :
     x[2] = st[x[1]] /\ Waiting(i, st, sp, req, x[1], x[3])}

(* The requests of a rank are those of its operations since the last wait. *)
Asked(s, n, rq) ==
  /\ \A op : Open(s, n, op) /\ op.kind = "irecv" => rq[<<"recv", op.peer>>] # None
  /\ \A op, e : Open(s, n, op) /\ op.kind = "irecv" /\ Open(s, n, e)
                /\ e.kind = "irecv" /\ op.peer = e.peer => op = e
  /\ \A p \in Process : rq[<<"recv", p>>] # None =>
       \E op : Open(s, n, op) /\ op.kind = "irecv" /\ op.peer = p
  /\ \A p \in Process : rq[<<"send", p>>] # None =>
       \E op : Open(s, n, op) /\ op.kind = "isend" /\ NeedsWait(op) /\ op.peer = p

Control(i, r, a, n, rq) ==
  /\ a \in Stage /\ Joins(i, r, a) /\ n \in 1 .. Len(Plan(i, r, a)) + 1
  /\ Asked(Plan(i, r, a), n, rq)

Standing(i, st, sp, req) ==
  /\ st = [r \in Process |-> st[r]] /\ sp = [r \in Process |-> sp[r]]
  /\ RequestShape(req)
  /\ \A r \in Process : Control(i, r, st[r], sp[r], req[r])

LEMMA PlannedOperation ==
  ASSUME NEW i \in Input, NEW r \in Process, NEW a \in Stage, NEW op
  PROVE  /\ Has(Plan(i, r, a), op) => op \in Operation
         /\ Orderly(Plan(i, r, a)) /\ Len(Plan(i, r, a)) \in Nat
         /\ DOMAIN Plan(i, r, a) = 1 .. Len(Plan(i, r, a))
<1>1. Orderly(Plan(i, r, a))  BY PlanIs
<1>2. Plan(i, r, a) \in Seq(Operation)  BY <1>1 DEF Orderly
<1> QED  BY <1>1, <1>2 DEF Has

LEMMA SameTriples ==
  ASSUME NEW D, NEW E, D \subseteq Process \X Stage \X Operation,
         E \subseteq Process \X Stage \X Operation,
         \A r, a, op : <<r, a, op>> \in D <=> <<r, a, op>> \in E
  PROVE  D = E
<1>1. \A x \in Process \X Stage \X Operation : x \in D <=> x \in E  OBVIOUS
<1> QED  BY <1>1

LEMMA OneMore ==
  ASSUME NEW D, NEW E, D \subseteq Process \X Stage \X Operation,
         E \subseteq Process \X Stage \X Operation,
         NEW p \in Process, NEW b \in Stage, NEW o \in Operation,
         \A r, a, op : <<r, a, op>> \in D <=>
                         <<r, a, op>> \in E \/ (r = p /\ a = b /\ op = o)
  PROVE  D = E \union {<<p, b, o>>}
<1>1. \A x \in Process \X Stage \X Operation : x \in D <=> x \in E \/ x = <<p, b, o>>
  OBVIOUS
<1> QED  BY <1>1

LEMMA DidIs ==
  ASSUME NEW i \in Input, NEW st, NEW sp, NEW r, NEW a, NEW op
  PROVE  <<r, a, op>> \in DidOf(i, st, sp) <=>
           r \in Process /\ a \in Stage /\ Did(i, st, sp, r, a, op)
<1>1. <<r, a, op>> \in DidOf(i, st, sp) <=>
        <<r, a, op>> \in Process \X Stage \X Operation /\ Did(i, st, sp, r, a, op)
  BY DEF DidOf
<1>2. ASSUME r \in Process, a \in Stage, Did(i, st, sp, r, a, op)
      PROVE  op \in Operation
  BY <1>2, PlannedOperation DEF Did, Planned
<1> QED  BY <1>1, <1>2

LEMMA WaitIs ==
  ASSUME NEW i \in Input, NEW st, NEW sp, NEW req, Standing(i, st, sp, req),
         NEW r, NEW a, NEW op
  PROVE  <<r, a, op>> \in WaitOf(i, st, sp, req) <=>
           r \in Process /\ a = st[r] /\ Waiting(i, st, sp, req, r, op)
<1>1. <<r, a, op>> \in WaitOf(i, st, sp, req) <=>
        /\ <<r, a, op>> \in Process \X Stage \X Operation
        /\ a = st[r] /\ Waiting(i, st, sp, req, r, op)
  BY DEF WaitOf
<1>2. ASSUME r \in Process, a = st[r], Waiting(i, st, sp, req, r, op)
      PROVE  a \in Stage /\ op \in Operation
  <2>1. a \in Stage /\ sp[r] \in 1 .. Len(Plan(i, r, a)) + 1
    BY <1>2 DEF Standing, Control
  <2> DEFINE s == Plan(i, r, a)
  <2>2. Orderly(s) /\ Len(s) \in Nat  BY <1>2, <2>1, PlannedOperation
  <2>3. Open(s, sp[r], op) /\ sp[r] \in Nat  BY <1>2, <2>1, <2>2 DEF Waiting
  <2> HIDE DEF s
  <2> QED  BY <2>1, <2>2, <2>3, AtTheEnds
<1> QED  BY <1>1, <1>2

LEMMA AtNow ==
  ASSUME NEW i \in Input, NEW st, NEW sp, NEW req, Standing(i, st, sp, req),
         NEW r \in Process
  PROVE  At(i, DidOf(i, st, sp), WaitOf(i, st, sp, req), r, st[r])
<1>1. st[r] \in Stage  BY DEF Standing, Control
<1>2. \A b \in Stage : \A e : Planned(i, r, b, e) /\ StageNo(b) < StageNo(st[r])
                              => <<r, b, e>> \in DidOf(i, st, sp)
  BY DidIs DEF Did
<1>3. \A b, e : <<r, b, e>> \in DidOf(i, st, sp) => StageNo(b) <= StageNo(st[r])
  BY <1>1, DidIs, StageNumbers DEF Did
<1>4. \A b, e : <<r, b, e>> \in WaitOf(i, st, sp, req) => b = st[r]
  BY WaitIs
<1> QED  BY <1>1, <1>2, <1>3, <1>4 DEF At

Further(sp, tp, r) == tp = [sp EXCEPT ![r] = @ + 1]

LEMMA DidStep ==
  ASSUME NEW i \in Input, NEW st, NEW sp, NEW req, Standing(i, st, sp, req),
         NEW r \in Process, NEW tp, Further(sp, tp, r),
         NEW a, a = st[r], NEW s, s = Plan(i, r, a), sp[r] \in DOMAIN s,
         NEW op, op = s[sp[r]]
  PROVE  /\ op # Wait =>
              /\ Planned(i, r, a, op) /\ <<r, a, op>> \notin DidOf(i, st, sp)
              /\ DidOf(i, st, tp) = DidOf(i, st, sp) \union {<<r, a, op>>}
         /\ op = Wait => DidOf(i, st, tp) = DidOf(i, st, sp)
<1>1. a \in Stage /\ Joins(i, r, a)  BY DEF Standing, Control
<1>2. Orderly(s) /\ Len(s) \in Nat /\ DOMAIN s = 1 .. Len(s)  BY <1>1, PlannedOperation
<1>3. tp[r] = sp[r] + 1 /\ \A q \in Process \ {r} : tp[q] = sp[q]
  BY DEF Further, Standing
<1>4. op # Wait => Planned(i, r, a, op)  BY <1>1 DEF Planned, Has
<1>5. \A q, b, e : q # r \/ b # a =>
        (<<q, b, e>> \in DidOf(i, st, tp) <=> <<q, b, e>> \in DidOf(i, st, sp))
  BY <1>3, DidIs DEF Did
<1>6. \A e : <<r, a, e>> \in DidOf(i, st, tp) <=>
               Planned(i, r, a, e) /\ Reached(s, sp[r] + 1, e)
  BY <1>1, <1>3, DidIs, StageNumbers DEF Did
<1>7. \A e : <<r, a, e>> \in DidOf(i, st, sp) <=>
               Planned(i, r, a, e) /\ Reached(s, sp[r], e)
  BY <1>1, <1>3, DidIs, StageNumbers DEF Did
<1>8. CASE op # Wait
  <2> DEFINE n == sp[r]
  <2>1. n \in DOMAIN s /\ s[n] = op  OBVIOUS
  <2>2. ~Reached(s, n, op) /\ \A e : Reached(s, n + 1, e) <=> Reached(s, n, e) \/ e = op
    <3> HIDE DEF n
    <3> QED  BY <1>2, <1>8, <2>1, StepsOn
  <2>3. \A q, b, e : <<q, b, e>> \in DidOf(i, st, tp) <=>
                       <<q, b, e>> \in DidOf(i, st, sp) \/ <<q, b, e>> = <<r, a, op>>
    BY <1>4, <1>5, <1>6, <1>7, <1>8, <2>2
  <2>4. DidOf(i, st, tp) \subseteq Process \X Stage \X Operation
        /\ DidOf(i, st, sp) \subseteq Process \X Stage \X Operation
    BY DEF DidOf
  <2>5. <<r, a, op>> \in DidOf(i, st, tp)  BY <2>3
  <2>6. DidOf(i, st, tp) = DidOf(i, st, sp) \union {<<r, a, op>>}
    BY <2>3, <2>4, <2>5
  <2> QED  BY <1>4, <1>7, <1>8, <2>2, <2>6
<1>9. CASE op = Wait
  <2> DEFINE n == sp[r]
  <2>1. n \in DOMAIN s /\ s[n] = Wait  BY <1>9
  <2>2. \A e : Reached(s, n + 1, e) <=> Reached(s, n, e)
    <3> HIDE DEF n
    <3> QED  BY <1>2, <2>1, StepsOn
  <2>3. \A q, b, e : <<q, b, e>> \in DidOf(i, st, tp) <=> <<q, b, e>> \in DidOf(i, st, sp)
    BY <1>5, <1>6, <1>7, <2>2
  <2>4. DidOf(i, st, tp) \subseteq Process \X Stage \X Operation
        /\ DidOf(i, st, sp) \subseteq Process \X Stage \X Operation
    BY DEF DidOf
  <2>5. DidOf(i, st, tp) = DidOf(i, st, sp)  BY <2>3, <2>4
  <2> QED  BY <1>9, <2>5
<1> QED  BY <1>8, <1>9

Moved(st, ut, sp, tp, r, b) ==
  ut = [st EXCEPT ![r] = b] /\ tp = [sp EXCEPT ![r] = 1]

LEMMA DidEnter ==
  ASSUME NEW i \in Input, NEW st, NEW sp, NEW req, Standing(i, st, sp, req),
         NEW r \in Process, NEW ut, NEW tp, NEW b \in Stage, Moved(st, ut, sp, tp, r, b),
         sp[r] > Len(Plan(i, r, st[r])), StageNo(st[r]) < StageNo(b),
         \A c \in Stage : StageNo(st[r]) < StageNo(c) /\ StageNo(c) < StageNo(b)
           => ~Joins(i, r, c)
  PROVE  DidOf(i, ut, tp) = DidOf(i, st, sp)
<1> DEFINE a == st[r]
           s == Plan(i, r, a)
           t == Plan(i, r, b)
<1>1. a \in Stage /\ Joins(i, r, a) /\ sp[r] \in Nat
  <2>1. a \in Stage /\ Joins(i, r, a) /\ sp[r] \in 1 .. Len(s) + 1  BY DEF Standing, Control
  <2> QED  BY <2>1, PlannedOperation
<1>2. Orderly(s) /\ Orderly(t)  BY <1>1, PlannedOperation
<1>3. ut[r] = b /\ tp[r] = 1 /\ \A q \in Process \ {r} : ut[q] = st[q] /\ tp[q] = sp[q]
  BY DEF Moved, Standing
<1>4. \A op : ~Reached(t, 1, op)
  <2> HIDE DEF t
  <2> QED  BY <1>2, AtTheEnds
<1>5. \A op : Reached(s, sp[r], op) <=> Has(s, op) /\ op # Wait
  <2> DEFINE n == sp[r]
  <2>1. n > Len(s) /\ n \in Nat  BY <1>1
  <2> HIDE DEF s, n
  <2>2. \A op : Reached(s, n, op) <=> Has(s, op) /\ op # Wait
    BY <1>2, <2>1, AtTheEnds
  <2> QED  BY <2>2 DEF n
<1>6. \A q, c, e : q # r =>
        (<<q, c, e>> \in DidOf(i, ut, tp) <=> <<q, c, e>> \in DidOf(i, st, sp))
  BY <1>3, DidIs DEF Did
<1>7. \A c, e : <<r, c, e>> \in DidOf(i, ut, tp) <=>
                  c \in Stage /\ Planned(i, r, c, e) /\ StageNo(c) < StageNo(b)
  BY <1>3, <1>4, DidIs DEF Did
<1>8. \A c, e : <<r, c, e>> \in DidOf(i, st, sp) <=>
                  c \in Stage /\ Planned(i, r, c, e) /\ StageNo(c) <= StageNo(a)
  <2> TAKE c, e
  <2>1. <<r, c, e>> \in DidOf(i, st, sp) <=>
          /\ c \in Stage /\ Planned(i, r, c, e)
          /\ StageNo(c) < StageNo(a) \/ (c = a /\ Reached(s, sp[r], e))
    BY DidIs DEF Did
  <2>2. c = a /\ Planned(i, r, c, e) => Reached(s, sp[r], e)  BY <1>5 DEF Planned
  <2>3. c \in Stage => (StageNo(c) <= StageNo(a) <=> StageNo(c) < StageNo(a) \/ c = a)
    BY <1>1, StageNumbers
  <2> QED  BY <2>1, <2>2, <2>3
<1>9. \A c, e : c \in Stage /\ Planned(i, r, c, e) =>
                  (StageNo(c) <= StageNo(a) <=> StageNo(c) < StageNo(b))
  <2> SUFFICES ASSUME NEW c \in Stage, NEW e, Planned(i, r, c, e)
               PROVE  StageNo(c) <= StageNo(a) <=> StageNo(c) < StageNo(b)
    OBVIOUS
  <2>1. Joins(i, r, c)  BY DEF Planned
  <2> QED  BY <1>1, <2>1, StageNumbers
<1>10. \A q, c, e : <<q, c, e>> \in DidOf(i, ut, tp) <=> <<q, c, e>> \in DidOf(i, st, sp)
  BY <1>6, <1>7, <1>8, <1>9
<1>11. DidOf(i, ut, tp) \subseteq Process \X Stage \X Operation
      /\ DidOf(i, st, sp) \subseteq Process \X Stage \X Operation
  BY DEF DidOf
<1> QED  BY <1>10, <1>11, SameTriples

-----------------------------------------------------------------------------
(* What the steps of a rank make of its requests.                          *)

LEMMA HandlesAre ==
  /\ \A h \in Handle : \E p \in Process : h = <<"send", p>> \/ h = <<"recv", p>>
  /\ \A p \in Process : <<"send", p>> \in Handle /\ <<"recv", p>> \in Handle
  /\ \A p, q : <<"send", p>> # <<"recv", q>>
  /\ \A p, q : p # q => <<"send", p>> # <<"send", q>> /\ <<"recv", p>> # <<"recv", q>>
BY InputAssumption

Unused(rq) == \A h \in Handle : rq[h] = None

\* The requests rq with x in the place of that with handle h.
Puts(rq, rr, h, x) ==
  rr[h] = x /\ \A g \in Handle : g # h => rr[g] = rq[g]

LEMMA AskSend ==
  ASSUME NEW s, Orderly(s), NEW n \in DOMAIN s, NEW rq, Asked(s, n, rq),
         s[n].kind = "isend", NEW rr,
         \/ rr = rq
         \/ \E x : NeedsWait(s[n]) /\ Puts(rq, rr, <<"send", s[n].peer>>, x)
  PROVE  Asked(s, n + 1, rr)
<1> DEFINE op == s[n]
<1>1. op # Wait  BY DEF Wait
<1>2. \A e : Open(s, n + 1, e) <=> Open(s, n, e) \/ e = op  BY <1>1, StepsOn
<1>3. \A p \in Process : rr[<<"recv", p>>] = rq[<<"recv", p>>]
  BY HandlesAre DEF Puts
<1>4. \A p \in Process : rr[<<"send", p>>] # None =>
        rq[<<"send", p>>] # None \/ (NeedsWait(op) /\ p = op.peer)
  BY HandlesAre DEF Puts
<1>5. \A e : Open(s, n + 1, e) /\ e.kind = "irecv" => Open(s, n, e)
  BY <1>2
<1>6. \A e : Open(s, n, e) /\ e.kind = "irecv" => e.peer \in Process
  <2>1. n \in Nat  BY DEF Orderly
  <2>2. \A e : Open(s, n, e) => e \in Operation  BY <2>1, AtTheEnds
  <2> QED  BY <2>2, OperationKinds
<1>7. \A p \in Process : rr[<<"recv", p>>] # None =>
        \E e : Open(s, n + 1, e) /\ e.kind = "irecv" /\ e.peer = p
  BY <1>2, <1>3 DEF Asked
<1>8. \A p \in Process : rr[<<"send", p>>] # None =>
        \E e : Open(s, n + 1, e) /\ e.kind = "isend" /\ NeedsWait(e) /\ e.peer = p
  BY <1>2, <1>4 DEF Asked
<1>9. \A e : Open(s, n + 1, e) /\ e.kind = "irecv" => rr[<<"recv", e.peer>>] # None
  BY <1>3, <1>5, <1>6 DEF Asked
<1>10. \A e, f : Open(s, n + 1, e) /\ e.kind = "irecv" /\ Open(s, n + 1, f)
                 /\ f.kind = "irecv" /\ e.peer = f.peer => e = f
  BY <1>5 DEF Asked
<1> QED  BY <1>7, <1>8, <1>9, <1>10 DEF Asked

LEMMA AskReceive ==
  ASSUME NEW s, Orderly(s), NEW n \in DOMAIN s, NEW rq, Asked(s, n, rq),
         s[n].kind = "irecv", rq[<<"recv", s[n].peer>>] = None,
         NEW rr, NEW x, x # None, Puts(rq, rr, <<"recv", s[n].peer>>, x)
  PROVE  Asked(s, n + 1, rr)
<1> DEFINE op == s[n]
<1>1. op # Wait /\ op \in Operation  BY DEF Wait, Orderly
<1>2. \A e : Open(s, n + 1, e) <=> Open(s, n, e) \/ e = op  BY <1>1, StepsOn
<1>3. op.peer \in Process  BY <1>1, OperationKinds
<1>4. \A e : Open(s, n, e) /\ e.kind = "irecv" => e.peer \in Process /\ e.peer # op.peer
  <2>1. n \in Nat  BY DEF Orderly
  <2>2. \A e : Open(s, n, e) => e \in Operation  BY <2>1, AtTheEnds
  <2> QED  BY <2>2, OperationKinds DEF Asked
<1>5. \A p \in Process : p # op.peer => rr[<<"recv", p>>] = rq[<<"recv", p>>]
  BY HandlesAre DEF Puts
<1>6. \A p \in Process : rr[<<"send", p>>] = rq[<<"send", p>>]
  BY HandlesAre DEF Puts
<1>7. rr[<<"recv", op.peer>>] = x  BY DEF Puts
<1>8. \A p \in Process : rr[<<"recv", p>>] # None =>
        \E e : Open(s, n + 1, e) /\ e.kind = "irecv" /\ e.peer = p
  BY <1>2, <1>5 DEF Asked
<1>9. \A p \in Process : rr[<<"send", p>>] # None =>
        \E e : Open(s, n + 1, e) /\ e.kind = "isend" /\ NeedsWait(e) /\ e.peer = p
  BY <1>2, <1>6 DEF Asked
<1>10. \A e : Open(s, n + 1, e) /\ e.kind = "irecv" => rr[<<"recv", e.peer>>] # None
  BY <1>2, <1>4, <1>5, <1>7 DEF Asked
<1>11. \A e, f : Open(s, n + 1, e) /\ e.kind = "irecv" /\ Open(s, n + 1, f)
                 /\ f.kind = "irecv" /\ e.peer = f.peer => e = f
  BY <1>2, <1>4 DEF Asked
<1> QED  BY <1>8, <1>9, <1>10, <1>11 DEF Asked

LEMMA AskWait ==
  ASSUME NEW s, Orderly(s), NEW n \in DOMAIN s, s[n] = Wait,
         NEW rr, Unused(rr)
  PROVE  Asked(s, n + 1, rr)
<1>1. \A e : Open(s, n + 1, e) => FALSE  BY StepsOn
<1>2. \A p \in Process : rr[<<"recv", p>>] = None /\ rr[<<"send", p>>] = None
  BY HandlesAre DEF Unused
<1> QED  BY <1>1, <1>2 DEF Asked

LEMMA AskSame ==
  ASSUME NEW s, Orderly(s), NEW n \in Nat, NEW rq, Asked(s, n, rq),
         NEW rr, \A h \in Handle : rr[h] = None <=> rq[h] = None
  PROVE  Asked(s, n, rr)
<1>1. \A e : Open(s, n, e) /\ e.kind = "irecv" => e.peer \in Process
  <2>1. \A e : Open(s, n, e) => e \in Operation  BY AtTheEnds
  <2> QED  BY <2>1, OperationKinds
<1> QED  BY <1>1, HandlesAre DEF Asked

LEMMA Idle ==
  ASSUME NEW s, Orderly(s), NEW n \in Nat, n > Len(s), NEW rq, Asked(s, n, rq)
  PROVE  Unused(rq)
<1>1. \A e : Open(s, n, e) => ~NeedsWait(e)  BY AtTheEnds
<1> QED  BY <1>1, HandlesAre DEF Asked, NeedsWait, Unused

LEMMA AskFirst ==
  ASSUME NEW s, Orderly(s), NEW rr, Unused(rr)
  PROVE  Asked(s, 1, rr)
<1>1. \A e : Open(s, 1, e) => FALSE  BY AtTheEnds
<1>2. \A p \in Process : rr[<<"recv", p>>] = None /\ rr[<<"send", p>>] = None
  BY HandlesAre DEF Unused
<1> QED  BY <1>1, <1>2 DEF Asked

\* The requests of r become rr, those of the others stay.
Renewed(req, new, r, rr) ==
  RequestShape(new) /\ new[r] = rr /\ \A q \in Process \ {r} : new[q] = req[q]

LEMMA StandStep ==
  ASSUME NEW i \in Input, NEW st, NEW sp, NEW req, Standing(i, st, sp, req),
         NEW r \in Process, NEW tp, Further(sp, tp, r),
         NEW s, s = Plan(i, r, st[r]), sp[r] \in DOMAIN s,
         NEW rr, Asked(s, sp[r] + 1, rr), NEW new, Renewed(req, new, r, rr)
  PROVE  Standing(i, st, tp, new)
<1>1. st[r] \in Stage /\ Joins(i, r, st[r])  BY DEF Standing, Control
<1>2. DOMAIN s = 1 .. Len(s) /\ Len(s) \in Nat  BY <1>1, PlannedOperation
<1>3. tp = [q \in Process |-> tp[q]] /\ tp[r] = sp[r] + 1
      /\ \A q \in Process \ {r} : tp[q] = sp[q]
  BY DEF Further, Standing
<1>4. Control(i, r, st[r], tp[r], new[r])  BY <1>1, <1>2, <1>3 DEF Control, Renewed
<1>5. \A q \in Process \ {r} : Control(i, q, st[q], tp[q], new[q])
  BY <1>3 DEF Renewed, Standing
<1> QED  BY <1>3, <1>4, <1>5 DEF Standing, Renewed

LEMMA StandMove ==
  ASSUME NEW i \in Input, NEW st, NEW sp, NEW req, Standing(i, st, sp, req),
         NEW r \in Process, NEW ut, NEW tp, NEW b \in Stage, Moved(st, ut, sp, tp, r, b),
         Joins(i, r, b), Unused(req[r])
  PROVE  Standing(i, ut, tp, req)
<1>1. ut = [q \in Process |-> ut[q]] /\ tp = [q \in Process |-> tp[q]]
  BY DEF Moved, Standing
<1>2. ut[r] = b /\ tp[r] = 1 /\ \A q \in Process \ {r} : ut[q] = st[q] /\ tp[q] = sp[q]
  BY DEF Moved, Standing
<1>3. Orderly(Plan(i, r, b)) /\ Len(Plan(i, r, b)) \in Nat  BY PlannedOperation
<1>4. Asked(Plan(i, r, b), 1, req[r])
  <2> DEFINE t == Plan(i, r, b)
  <2>1. Orderly(t)  BY <1>3
  <2> HIDE DEF t
  <2>2. Asked(t, 1, req[r])  BY <2>1, AskFirst
  <2> QED  BY <2>2 DEF t
<1>5. Control(i, r, ut[r], tp[r], req[r])  BY <1>2, <1>3, <1>4 DEF Control
<1>6. \A q \in Process \ {r} : Control(i, q, ut[q], tp[q], req[q])
  BY <1>2 DEF Standing
<1> QED  BY <1>1, <1>5, <1>6 DEF Standing

LEMMA StandSame ==
  ASSUME NEW i \in Input, NEW st, NEW sp, NEW req, Standing(i, st, sp, req),
         NEW new, RequestShape(new),
         \A q \in Process, h \in Handle : new[q][h] = None <=> req[q][h] = None
  PROVE  Standing(i, st, sp, new)
<1>1. ASSUME NEW q \in Process PROVE Control(i, q, st[q], sp[q], new[q])
  <2> DEFINE s == Plan(i, q, st[q])
             n == sp[q]
             rq == req[q]
             rr == new[q]
  <2>1. st[q] \in Stage /\ Joins(i, q, st[q]) /\ n \in 1 .. Len(s) + 1 /\ Asked(s, n, rq)
    BY DEF Standing, Control
  <2>2. Orderly(s) /\ n \in Nat  BY <2>1, PlannedOperation
  <2>3. \A h \in Handle : rr[h] = None <=> rq[h] = None  OBVIOUS
  <2>4. Asked(s, n, rr)
    <3> HIDE DEF s, n, rq, rr
    <3> QED  BY <2>1, <2>2, <2>3, AskSame
  <2> QED  BY <2>1, <2>4 DEF Control
<1> QED  BY <1>1 DEF Standing

-----------------------------------------------------------------------------
LEMMA OpenIs ==
  ASSUME NEW i \in Input, NEW st, NEW sp, NEW req, Standing(i, st, sp, req),
         NEW q \in Process, NEW e, Open(Plan(i, q, st[q]), sp[q], e)
  PROVE  /\ e \in Operation /\ e # Wait /\ e.peer \in Process
         /\ Planned(i, q, st[q], e) /\ Did(i, st, sp, q, st[q], e)
<1> DEFINE u == Plan(i, q, st[q])
           m == sp[q]
<1>1. st[q] \in Stage /\ Joins(i, q, st[q]) /\ m \in 1 .. Len(u) + 1
  BY DEF Standing, Control
<1>2. Orderly(u) /\ m \in Nat  BY <1>1, PlannedOperation
<1>3. Open(u, m, e)  OBVIOUS
<1>4. e \in Operation /\ Has(u, e) /\ Reached(u, m, e)
  <2> HIDE DEF u, m
  <2> QED  BY <1>2, <1>3, AtTheEnds
<1>5. e # Wait  BY <1>4 DEF Reached
<1>6. e.peer \in Process  BY <1>4, <1>5, OperationKinds DEF Operation
<1> QED  BY <1>1, <1>4, <1>5, <1>6 DEF Planned, Did

LEMMA WaitsIn ==
  ASSUME NEW i, NEW st, NEW sp, NEW req
  PROVE  WaitOf(i, st, sp, req) \subseteq Process \X Stage \X Operation
BY DEF WaitOf

(* The same receives wait when the same are open and posted. *)
LEMMA SameWaits ==
  ASSUME NEW i \in Input, NEW st, NEW sp, NEW req, Standing(i, st, sp, req),
         NEW ut, NEW tp, NEW new, Standing(i, ut, tp, new),
         \A q \in Process : \A e :
           /\ Waiting(i, ut, tp, new, q, e) <=> Waiting(i, st, sp, req, q, e)
           /\ Waiting(i, st, sp, req, q, e) => ut[q] = st[q]
  PROVE  WaitOf(i, ut, tp, new) = WaitOf(i, st, sp, req)
<1>1. \A q, b, e : <<q, b, e>> \in WaitOf(i, ut, tp, new) <=>
                     q \in Process /\ b = ut[q] /\ Waiting(i, ut, tp, new, q, e)
  BY WaitIs
<1>2. \A q, b, e : <<q, b, e>> \in WaitOf(i, st, sp, req) <=>
                     q \in Process /\ b = st[q] /\ Waiting(i, st, sp, req, q, e)
  BY WaitIs
<1>3. \A q, b, e : <<q, b, e>> \in WaitOf(i, ut, tp, new) <=> <<q, b, e>> \in WaitOf(i, st, sp, req)
  BY <1>1, <1>2
<1> QED  BY <1>3, WaitsIn, SameTriples

LEMMA WaitSend ==
  ASSUME NEW i \in Input, NEW st, NEW sp, NEW req, Standing(i, st, sp, req),
         NEW r \in Process, NEW tp, Further(sp, tp, r),
         NEW s, s = Plan(i, r, st[r]), sp[r] \in DOMAIN s, s[sp[r]].kind = "isend",
         NEW new, Standing(i, st, tp, new),
         \A q, p \in Process : new[q][<<"recv", p>>] = req[q][<<"recv", p>>]
  PROVE  WaitOf(i, st, tp, new) = WaitOf(i, st, sp, req)
<1> DEFINE n == sp[r]
           op == s[n]
<1>1. st[r] \in Stage  BY DEF Standing, Control
<1>2. Orderly(s) /\ DOMAIN s = 1 .. Len(s) /\ Len(s) \in Nat  BY <1>1, PlannedOperation
<1>3. \A e : Open(s, n + 1, e) <=> Open(s, n, e) \/ e = op
  <2>1. n \in DOMAIN s /\ s[n] # Wait  BY DEF Wait
  <2> HIDE DEF n
  <2> QED  BY <1>2, <2>1, StepsOn
<1>4. tp[r] = sp[r] + 1 /\ \A q \in Process \ {r} : tp[q] = sp[q]
  BY DEF Further, Standing
<1>5. ASSUME NEW q \in Process, NEW e, e.kind = "irecv"
      PROVE  Open(Plan(i, q, st[q]), tp[q], e) <=> Open(Plan(i, q, st[q]), sp[q], e)
  BY <1>3, <1>4, <1>5
<1>6. \A q \in Process : \A e : Open(Plan(i, q, st[q]), sp[q], e) => e.peer \in Process
  BY OpenIs
<1>7. \A q \in Process : \A e : Waiting(i, st, tp, new, q, e) <=> Waiting(i, st, sp, req, q, e)
  BY <1>5, <1>6 DEF Waiting
<1> QED  BY <1>7, SameWaits

(* The receive that rank r starts waits if it is posted, or else none more. *)
LEMMA WaitReceive ==
  ASSUME NEW i \in Input, NEW st, NEW sp, NEW req, Standing(i, st, sp, req),
         NEW r \in Process, NEW tp, Further(sp, tp, r),
         NEW s, s = Plan(i, r, st[r]), sp[r] \in DOMAIN s,
         NEW op, op = s[sp[r]], op.kind = "irecv",
         req[r][<<"recv", op.peer>>] = None,
         NEW new, Standing(i, st, tp, new), NEW rr, NEW x,
         Puts(req[r], rr, <<"recv", op.peer>>, x), Renewed(req, new, r, rr)
  PROVE  /\ <<r, st[r], op>> \notin WaitOf(i, st, sp, req)
         /\ x.state = "posted" =>
              WaitOf(i, st, tp, new) = WaitOf(i, st, sp, req) \union {<<r, st[r], op>>}
         /\ x.state # "posted" => WaitOf(i, st, tp, new) = WaitOf(i, st, sp, req)
<1> DEFINE n == sp[r]
<1>1. st[r] \in Stage  BY DEF Standing, Control
<1>2. Orderly(s) /\ DOMAIN s = 1 .. Len(s) /\ Len(s) \in Nat  BY <1>1, PlannedOperation
<1>3. \A e : Open(s, n + 1, e) <=> Open(s, n, e) \/ e = op
  <2>1. n \in DOMAIN s /\ s[n] # Wait  BY DEF Wait
  <2>2. s[n] = op  OBVIOUS
  <2> HIDE DEF n
  <2> QED  BY <1>2, <2>1, <2>2, StepsOn
<1>4. tp[r] = n + 1 /\ \A q \in Process \ {r} : tp[q] = sp[q] /\ new[q] = req[q]
  BY DEF Further, Standing, Renewed
<1>5. op.peer \in Process /\ op \in Operation
  BY <1>2, OperationKinds DEF Orderly
<1>6. \A e : e.kind = "irecv" /\ Open(s, n, e) => e.peer \in Process /\ e.peer # op.peer
  <2>1. Asked(s, n, req[r])  BY DEF Standing, Control
  <2>2. \A e : Open(s, n, e) => e.peer \in Process  BY OpenIs
  <2> QED  BY <2>1, <2>2 DEF Asked
<1>7. new[r][<<"recv", op.peer>>] = x
      /\ \A p \in Process : p # op.peer => new[r][<<"recv", p>>] = req[r][<<"recv", p>>]
  BY HandlesAre DEF Puts, Renewed
<1>8. \A e : Waiting(i, st, tp, new, r, e) <=>
              \/ Waiting(i, st, sp, req, r, e)
              \/ e = op /\ x.state = "posted"
  BY <1>3, <1>4, <1>6, <1>7 DEF Waiting
<1>9. \A q \in Process \ {r} : \A e :
        Waiting(i, st, tp, new, q, e) <=> Waiting(i, st, sp, req, q, e)
  BY <1>4 DEF Waiting
<1>10. ~Waiting(i, st, sp, req, r, op)  BY <1>6 DEF Waiting
<1>11. <<r, st[r], op>> \notin WaitOf(i, st, sp, req)  BY <1>10, WaitIs
<1>12. ASSUME x.state # "posted" PROVE WaitOf(i, st, tp, new) = WaitOf(i, st, sp, req)
  <2>1. \A q \in Process : \A e :
          Waiting(i, st, tp, new, q, e) <=> Waiting(i, st, sp, req, q, e)
    BY <1>8, <1>9, <1>12
  <2> QED  BY <2>1, SameWaits
<1>13. ASSUME x.state = "posted"
       PROVE  WaitOf(i, st, tp, new) = WaitOf(i, st, sp, req) \union {<<r, st[r], op>>}
  <2>1. \A q, b, e : <<q, b, e>> \in WaitOf(i, st, tp, new) <=>
                       q \in Process /\ b = st[q] /\ Waiting(i, st, tp, new, q, e)
    BY WaitIs
  <2>2. \A q, b, e : <<q, b, e>> \in WaitOf(i, st, sp, req) <=>
                       q \in Process /\ b = st[q] /\ Waiting(i, st, sp, req, q, e)
    BY WaitIs
  <2>3. \A q \in Process : \A b, e :
          b = st[q] /\ Waiting(i, st, tp, new, q, e) <=>
            \/ b = st[q] /\ Waiting(i, st, sp, req, q, e)
            \/ q = r /\ b = st[r] /\ e = op
    BY <1>8, <1>9, <1>13
  <2>4. \A q, b, e : <<q, b, e>> \in WaitOf(i, st, tp, new) <=>
          <<q, b, e>> \in WaitOf(i, st, sp, req) \/ (q = r /\ b = st[r] /\ e = op)
    BY <2>1, <2>2, <2>3
  <2> QED  BY <1>1, <1>5, <2>4, WaitsIn, OneMore
<1> QED  BY <1>11, <1>12, <1>13

LEMMA WaitWait ==
  ASSUME NEW i \in Input, NEW st, NEW sp, NEW req, Standing(i, st, sp, req),
         NEW r \in Process, NEW tp, Further(sp, tp, r),
         NEW s, s = Plan(i, r, st[r]), sp[r] \in DOMAIN s, s[sp[r]] = Wait,
         \A h \in Handle : req[r][h].state # "posted",
         NEW new, Standing(i, st, tp, new), \A q \in Process \ {r} : new[q] = req[q]
  PROVE  WaitOf(i, st, tp, new) = WaitOf(i, st, sp, req)
<1> DEFINE n == sp[r]
<1>1. st[r] \in Stage  BY DEF Standing, Control
<1>2. Orderly(s) /\ DOMAIN s = 1 .. Len(s) /\ Len(s) \in Nat  BY <1>1, PlannedOperation
<1>3. \A e : ~Open(s, n + 1, e)
  <2>1. n \in DOMAIN s /\ s[n] = Wait  OBVIOUS
  <2> HIDE DEF n
  <2> QED  BY <1>2, <2>1, StepsOn
<1>4. tp[r] = n + 1 /\ \A q \in Process \ {r} : tp[q] = sp[q]
  BY DEF Further, Standing
<1>5. \A e : ~Waiting(i, st, sp, req, r, e)
  BY OpenIs, HandlesAre DEF Waiting
<1>6. \A e : ~Waiting(i, st, tp, new, r, e)  BY <1>3, <1>4 DEF Waiting
<1>7. \A q \in Process \ {r} : \A e :
        Waiting(i, st, tp, new, q, e) <=> Waiting(i, st, sp, req, q, e)
  BY <1>4 DEF Waiting
<1>8. \A q \in Process : \A e :
        Waiting(i, st, tp, new, q, e) <=> Waiting(i, st, sp, req, q, e)
  BY <1>5, <1>6, <1>7
<1> QED  BY <1>8, SameWaits

(* A posted receive of d is found. *)
LEMMA WaitFound ==
  ASSUME NEW i \in Input, NEW st, NEW sp, NEW req, Standing(i, st, sp, req),
         NEW d \in Process, NEW op, Waiting(i, st, sp, req, d, op),
         NEW new, Standing(i, st, sp, new), NEW rr, NEW x, x.state # "posted",
         Puts(req[d], rr, <<"recv", op.peer>>, x), Renewed(req, new, d, rr)
  PROVE  /\ <<d, st[d], op>> \in WaitOf(i, st, sp, req)
         /\ WaitOf(i, st, sp, new) = WaitOf(i, st, sp, req) \ {<<d, st[d], op>>}
<1>1. <<d, st[d], op>> \in WaitOf(i, st, sp, req)  BY WaitIs
<1>2. \A q \in Process \ {d} : new[q] = req[q]  BY DEF Renewed
<1>3. new[d][<<"recv", op.peer>>] = x
      /\ \A p \in Process : p # op.peer => new[d][<<"recv", p>>] = req[d][<<"recv", p>>]
  BY HandlesAre DEF Puts, Renewed
<1>4. \A e : Open(Plan(i, d, st[d]), sp[d], e) => e.peer \in Process  BY OpenIs
<1>5. \A e : Open(Plan(i, d, st[d]), sp[d], e) /\ e.kind = "irecv" /\ e.peer = op.peer => e = op
  BY DEF Standing, Control, Asked, Waiting
<1>6. \A e : Waiting(i, st, sp, new, d, e) <=> Waiting(i, st, sp, req, d, e) /\ e # op
  BY <1>3, <1>4, <1>5 DEF Waiting
<1>7. \A q \in Process \ {d} : \A e :
        Waiting(i, st, sp, new, q, e) <=> Waiting(i, st, sp, req, q, e)
  BY <1>2 DEF Waiting
<1>8. \A q, b, e : <<q, b, e>> \in WaitOf(i, st, sp, new) <=>
                     q \in Process /\ b = st[q] /\ Waiting(i, st, sp, new, q, e)
  BY WaitIs
<1>9. \A q, b, e : <<q, b, e>> \in WaitOf(i, st, sp, req) <=>
                     q \in Process /\ b = st[q] /\ Waiting(i, st, sp, req, q, e)
  BY WaitIs
<1> DEFINE X == WaitOf(i, st, sp, req) \ {<<d, st[d], op>>}
<1>10. \A q, b, e : <<q, b, e>> \in X <=>
         <<q, b, e>> \in WaitOf(i, st, sp, req) /\ ~(q = d /\ b = st[d] /\ e = op)
  OBVIOUS
<1>11. \A q, b, e : <<q, b, e>> \in WaitOf(i, st, sp, new) <=> <<q, b, e>> \in X
  BY <1>6, <1>7, <1>8, <1>9, <1>10, ZenonT(40)
<1>12. X \subseteq Process \X Stage \X Operation  BY WaitsIn
<1> HIDE DEF X
<1>13. WaitOf(i, st, sp, new) = X  BY <1>11, <1>12, WaitsIn, SameTriples
<1> QED  BY <1>1, <1>13 DEF X

-----------------------------------------------------------------------------
(***************************************************************************)
(* What the messages carry.  s sends d in stage a a message with tag t.    *)
(***************************************************************************)
ChunkOf(i, d) ==
  SubSeq(Matrix(i), ChunkStart(i.rows, i.cols, d) + 1,
         ChunkStart(i.rows, i.cols, d) + ChunkSize(i.rows, i.cols, d))

ProductsOf(i, s) == Compute(ChunkOf(i, s), Vector(i), RowCount(i.rows, i.cols, s))

Content(i, s, d, a, t) ==
  IF a = "rows" THEN <<i.rows>> ELSE IF a = "cols" THEN <<i.cols>>
  ELSE IF a = "chunk" THEN ChunkOf(i, d) ELSE IF a = "vector" THEN Vector(i)
  ELSE IF a = "products" THEN ProductsOf(i, s)
  ELSE IF t = "bcast" THEN <<0>> ELSE <<>>

Split(i) ==
  \E r, p \in Process : r < i.rows /\ i.rows <= p /\ i.node[r] = i.node[p]

AllEntered(st) == \A p \in Process : st[p] \in {"barrier", "done"}

\* The message is the one the program means, and bears an error only when it
\* may; the release of the barrier, without one, comes after all have entered.
Right(i, all, s, d, a, t, m) ==
  /\ m = [data |-> Content(i, s, d, a, t), error |-> m.error,
          size |-> IF a = "barrier" /\ t = "bcast" THEN 1
                   ELSE Len(Content(i, s, d, a, t)) * IntegerBytes]
  /\ m.error \in BOOLEAN
  /\ m.error => a = "barrier" /\ Split(i)
  /\ a = "barrier" /\ t = "bcast" => m.error \/ all

Large == {"chunk", "products"}

OperationTag == {"bcast", "barrier", "scatterv", "gatherv"}

Communicator == {"world", "node", "roots"}

EnvelopeOf(s, t, c) == [source |-> s, tag |-> t, context |-> c]

AnnouncedOK(i, all, req, q, e, a) ==
  \E s \in Process, t \in OperationTag, c \in Communicator :
    \/ \E m : /\ e = Eager(EnvelopeOf(s, t, c), m)
              /\ Right(i, all, s, q[3], a, t, m)
    \/ /\ e = ReadyToSend(EnvelopeOf(s, t, c), <<"send", q[3]>>)
       /\ a \in Large
       /\ Right(i, all, s, q[3], a, t, req[s][<<"send", q[3]>>].payload)

ClearOK(i, all, st, req, q, e) ==
  /\ e = ClearToSend(<<"send", q[2]>>, <<"recv", q[3]>>)
  /\ st[q[2]] \in Large
  /\ Right(i, all, q[3], q[2], st[q[2]], "none", req[q[3]][<<"send", q[2]>>].payload)

DataOK(i, all, st, q, e) ==
  \E m : /\ e = RndvData(<<"recv", q[2]>>, m)
         /\ st[q[3]] \in Large
         /\ Right(i, all, q[2], q[3], st[q[3]], "none", m)

ElementOK(i, all, st, req, q, e, a) ==
  IF Announces(q, e) THEN AnnouncedOK(i, all, req, q, e, a)
  ELSE q[1] = "channel" => ClearOK(i, all, st, req, q, e) \/ DataOK(i, all, st, q, e)

Contents(i, all, st, req, Q, L) ==
  \A q \in Place : \A k \in DOMAIN Q[q] :
    ElementOK(i, all, st, req, q, Q[q][k], L[q][k])

LEMMA PacketTypes ==
  ASSUME NEW x, NEW y
  PROVE  /\ Eager(x, y).type = "eager" /\ Eager(x, y).envelope = x /\ Eager(x, y).payload = y
         /\ ReadyToSend(x, y).type = "rts" /\ ReadyToSend(x, y).envelope = x
         /\ ReadyToSend(x, y).sender = y
         /\ ClearToSend(x, y).type = "cts" /\ ClearToSend(x, y).sender = x
         /\ ClearToSend(x, y).receiver = y
         /\ RndvData(x, y).type = "data" /\ RndvData(x, y).receiver = x
         /\ RndvData(x, y).payload = y
BY DEF Eager, ReadyToSend, ClearToSend, RndvData

LEMMA EnvelopeFields ==
  ASSUME NEW s, NEW t, NEW c
  PROVE  /\ EnvelopeOf(s, t, c).source = s /\ EnvelopeOf(s, t, c).tag = t
         /\ EnvelopeOf(s, t, c).context = c
BY DEF EnvelopeOf

LEMMA RightMore ==
  ASSUME NEW i, NEW all, NEW bll, all => bll, NEW s, NEW d, NEW a, NEW t, NEW m,
         Right(i, all, s, d, a, t, m)
  PROVE  Right(i, bll, s, d, a, t, m)
BY DEF Right

LEMMA RightAnyTag ==
  ASSUME NEW i, NEW all, NEW s, NEW d, NEW a \in Large, NEW t, NEW m,
         Right(i, all, s, d, a, t, m), NEW u
  PROVE  Right(i, all, s, d, a, u, m)
<1>1. Content(i, s, d, a, t) = Content(i, s, d, a, u)  BY DEF Content, Large
<1>2. a # "barrier"  BY DEF Large
<1> QED  BY <1>1, <1>2 DEF Right

(* What an announcement holds, by the place it is in. *)
LEMMA ElementIs ==
  ASSUME NEW i, NEW all, NEW st, NEW req, NEW q, NEW e, NEW a,
         ElementOK(i, all, st, req, q, e, a)
  PROVE  /\ Announces(q, e) =>
              /\ e.type \in {"eager", "rts"} /\ e.envelope.source \in Process
              /\ e.envelope.tag \in OperationTag /\ e.envelope.context \in Communicator
              /\ e.envelope = EnvelopeOf(e.envelope.source, e.envelope.tag, e.envelope.context)
              /\ e.type = "eager" =>
                   Right(i, all, e.envelope.source, q[3], a, e.envelope.tag, e.payload)
              /\ e.type = "rts" =>
                   /\ e.sender = <<"send", q[3]>> /\ a \in Large
                   /\ Right(i, all, e.envelope.source, q[3], a, e.envelope.tag,
                            req[e.envelope.source][<<"send", q[3]>>].payload)
         /\ q[1] = "channel" /\ e.type = "cts" => ClearOK(i, all, st, req, q, e)
         /\ q[1] = "channel" /\ e.type = "data" => DataOK(i, all, st, q, e)
         /\ q[1] = "channel" => e.type \in {"eager", "rts", "cts", "data"}
<1>1. CASE Announces(q, e)
  <2>1. PICK s \in Process, t \in OperationTag, c \in Communicator :
          \/ \E m : /\ e = Eager(EnvelopeOf(s, t, c), m)
                    /\ Right(i, all, s, q[3], a, t, m)
          \/ /\ e = ReadyToSend(EnvelopeOf(s, t, c), <<"send", q[3]>>)
             /\ a \in Large
             /\ Right(i, all, s, q[3], a, t, req[s][<<"send", q[3]>>].payload)
    BY <1>1 DEF ElementOK, AnnouncedOK
  <2>2. e.envelope = EnvelopeOf(s, t, c) /\ e.envelope.source = s
        /\ e.envelope.tag = t /\ e.envelope.context = c
    BY <2>1, PacketTypes, EnvelopeFields
  <2> QED  BY <1>1, <2>1, <2>2, PacketTypes
<1>2. CASE ~Announces(q, e)
  <2>1. q[1] = "channel" => ClearOK(i, all, st, req, q, e) \/ DataOK(i, all, st, q, e)
    BY <1>2 DEF ElementOK
  <2>2. ClearOK(i, all, st, req, q, e) => e.type = "cts"  BY PacketTypes DEF ClearOK
  <2>3. DataOK(i, all, st, q, e) => e.type = "data"  BY PacketTypes DEF DataOK
  <2> QED  BY <1>2, <2>1, <2>2, <2>3
<1> QED  BY <1>1, <1>2

\* The requests and stages that elements of Q refer to stay as they are.
SendsKept(Q, req, new) ==
  \A s, p \in Process :
    \/ SendFree(Q, <<s, <<"send", p>>>>)
    \/ new[s][<<"send", p>>].payload = req[s][<<"send", p>>].payload

StagesKept(Q, st, ut) ==
  \A r \in Process : \/ ut[r] = st[r]
                     \/ \A p \in Process : ReceiveFree(Q, <<r, <<"recv", p>>>>)

LEMMA ContentsKept ==
  ASSUME NEW i, NEW all, NEW st, NEW req, NEW Q, NEW L, Contents(i, all, st, req, Q, L),
         NEW bll, all => bll, NEW ut, NEW new,
         SendsKept(Q, req, new), StagesKept(Q, st, ut)
  PROVE  Contents(i, bll, ut, new, Q, L)
<1> SUFFICES ASSUME NEW q \in Place, NEW k \in DOMAIN Q[q]
             PROVE  ElementOK(i, bll, ut, new, q, Q[q][k], L[q][k])
  BY DEF Contents
<1> DEFINE e == Q[q][k]
           a == L[q][k]
<1>1. ElementOK(i, all, st, req, q, e, a)  BY DEF Contents
<1>2. q[2] \in Process /\ q[3] \in Process  BY InputAssumption DEF Place
<1>3. SendNamed(q, e) = <<>> \/ ~SendFree(Q, SendNamed(q, e))  BY DEF SendFree
<1>4. ReceiveNamed(q, e) = <<>> \/ ~ReceiveFree(Q, ReceiveNamed(q, e))  BY DEF ReceiveFree
<1> HIDE DEF e, a
<1>5. ASSUME Announces(q, e) PROVE ElementOK(i, bll, ut, new, q, e, a)
  <2>1. PICK s \in Process, t \in OperationTag, c \in Communicator :
          \/ \E m : /\ e = Eager(EnvelopeOf(s, t, c), m)
                    /\ Right(i, all, s, q[3], a, t, m)
          \/ /\ e = ReadyToSend(EnvelopeOf(s, t, c), <<"send", q[3]>>)
             /\ a \in Large
             /\ Right(i, all, s, q[3], a, t, req[s][<<"send", q[3]>>].payload)
    BY <1>1, <1>5 DEF ElementOK, AnnouncedOK
  <2>2. CASE e = ReadyToSend(EnvelopeOf(s, t, c), <<"send", q[3]>>)
    <3>1. SendNamed(q, e) = <<s, <<"send", q[3]>>>>
      BY <1>5, <2>2, PacketTypes, EnvelopeFields DEF SendNamed, Announces
    <3>2. new[s][<<"send", q[3]>>].payload = req[s][<<"send", q[3]>>].payload
      BY <1>2, <1>3, <3>1 DEF SendsKept
    <3>3. \A m : e # Eager(EnvelopeOf(s, t, c), m)  BY <2>2, PacketTypes
    <3>4. AnnouncedOK(i, bll, new, q, e, a)
      BY <2>1, <2>2, <3>2, <3>3, RightMore DEF AnnouncedOK
    <3> QED  BY <1>5, <3>4 DEF ElementOK
  <2>3. CASE \E m : e = Eager(EnvelopeOf(s, t, c), m) /\ Right(i, all, s, q[3], a, t, m)
    <3>1. \E m : e = Eager(EnvelopeOf(s, t, c), m) /\ Right(i, bll, s, q[3], a, t, m)
      BY <2>3, RightMore
    <3>2. AnnouncedOK(i, bll, new, q, e, a)  BY <3>1 DEF AnnouncedOK
    <3> QED  BY <1>5, <3>2 DEF ElementOK
  <2> QED  BY <2>1, <2>2, <2>3
<1>6. ASSUME ~Announces(q, e) /\ q[1] = "channel" PROVE ElementOK(i, bll, ut, new, q, e, a)
  <2>1. ClearOK(i, all, st, req, q, e) \/ DataOK(i, all, st, q, e)
    BY <1>1, <1>6 DEF ElementOK
  <2>2. CASE ClearOK(i, all, st, req, q, e)
    <3>1. /\ SendNamed(q, e) = <<q[3], <<"send", q[2]>>>>
          /\ ReceiveNamed(q, e) = <<q[2], <<"recv", q[3]>>>>
      BY <1>6, <2>2, PacketTypes DEF SendNamed, ReceiveNamed, ClearOK
    <3>2. new[q[3]][<<"send", q[2]>>].payload = req[q[3]][<<"send", q[2]>>].payload
      BY <1>2, <1>3, <3>1 DEF SendsKept
    <3>3. ut[q[2]] = st[q[2]]  BY <1>2, <1>4, <3>1 DEF StagesKept
    <3>4. ClearOK(i, bll, ut, new, q, e)  BY <2>2, <3>2, <3>3, RightMore DEF ClearOK
    <3> QED  BY <1>6, <3>4 DEF ElementOK
  <2>3. CASE DataOK(i, all, st, q, e)
    <3>1. ReceiveNamed(q, e) = <<q[3], <<"recv", q[2]>>>>
      BY <1>6, <2>3, PacketTypes DEF ReceiveNamed, DataOK
    <3>2. ut[q[3]] = st[q[3]]  BY <1>2, <1>4, <3>1 DEF StagesKept
    <3>3. DataOK(i, bll, ut, q, e)  BY <2>3, <3>2, RightMore DEF DataOK
    <3> QED  BY <1>6, <3>3 DEF ElementOK
  <2> QED  BY <2>1, <2>2, <2>3
<1>7. ASSUME ~Announces(q, e) /\ q[1] # "channel" PROVE ElementOK(i, bll, ut, new, q, e, a)
  BY <1>7 DEF ElementOK
<1> QED  BY <1>5, <1>6, <1>7 DEF e, a

(* All queues and connections, each element with the stage it belongs to. *)
Stream(i, all, st, req, Q, L) ==
  Tracked(Q, L) /\ Contents(i, all, st, req, Q, L)

LEMMA LabelStage ==
  ASSUME NEW Q, NEW L, Tracked(Q, L), NEW q \in Place, NEW k \in DOMAIN Q[q]
  PROVE  L[q][k] \in Stage /\ k \in Nat \ {0}
<1>1. L[q] \in Seq(Stage) /\ Len(L[q]) = Len(Q[q])  BY DEF Tracked, Labelled
<1>2. PICK S : Q[q] \in Seq(S)  BY DEF Tracked, IsFamily
<1>3. DOMAIN Q[q] = 1 .. Len(Q[q]) /\ Len(Q[q]) \in Nat  BY <1>2
<1> QED  BY <1>1, <1>3

LEMMA TakeStream ==
  ASSUME NEW i, NEW all, NEW st, NEW req, NEW Q, NEW L, Stream(i, all, st, req, Q, L),
         NEW q \in Place, NEW k \in DOMAIN Q[q], NEW R, Took(Q, R, q, k)
  PROVE  \E M :
           /\ Stream(i, all, st, req, R, M) /\ Took(L, M, q, k)
           /\ Announces(q, Q[q][k]) =>
                KeysIn(R, M) = KeysIn(Q, L) \ {KeyOf(q, Q[q][k], L[q][k])}
           /\ ~Announces(q, Q[q][k]) => KeysIn(R, M) = KeysIn(Q, L)
<1>1. PICK M : Took(L, M, q, k)  BY DEF Took
<1>2. Tracked(Q, L) /\ Contents(i, all, st, req, Q, L)  BY DEF Stream
<1>3. /\ Tracked(R, M)
      /\ Announces(q, Q[q][k]) =>
           KeysIn(R, M) = KeysIn(Q, L) \ {KeyOf(q, Q[q][k], L[q][k])}
      /\ ~Announces(q, Q[q][k]) => KeysIn(R, M) = KeysIn(Q, L)
      /\ \A p \in Place : \A j \in DOMAIN R[p] :
           LET o == IF p = q THEN Old(k, j) ELSE j
           IN  o \in DOMAIN Q[p] /\ R[p][j] = Q[p][o] /\ M[p][j] = L[p][o]
  BY <1>1, <1>2, TakeTracked
<1>4. Contents(i, all, st, req, R, M)
  <2> SUFFICES ASSUME NEW p \in Place, NEW j \in DOMAIN R[p]
               PROVE  ElementOK(i, all, st, req, p, R[p][j], M[p][j])
    BY DEF Contents
  <2>1. \E o : o \in DOMAIN Q[p] /\ R[p][j] = Q[p][o] /\ M[p][j] = L[p][o]
    BY <1>3
  <2> QED  BY <1>2, <2>1 DEF Contents
<1> QED  BY <1>1, <1>3, <1>4 DEF Stream

LEMMA PutStream ==
  ASSUME NEW i, NEW all, NEW st, NEW req, NEW Q, NEW L, Stream(i, all, st, req, Q, L),
         NEW q \in Place, NEW e, NEW a \in Stage, MayJoin(Q, L, q, e, a),
         ElementOK(i, all, st, req, q, e, a), NEW R, Put(Q, R, q, e)
  PROVE  \E M :
           /\ Stream(i, all, st, req, R, M)
           /\ Announces(q, e) => KeysIn(R, M) = KeysIn(Q, L) \union {KeyOf(q, e, a)}
           /\ ~Announces(q, e) => KeysIn(R, M) = KeysIn(Q, L)
<1>1. PICK M : Put(L, M, q, a)  BY DEF Put
<1>2. Tracked(Q, L) /\ Contents(i, all, st, req, Q, L)  BY DEF Stream
<1>3. /\ Tracked(R, M)
      /\ Announces(q, e) => KeysIn(R, M) = KeysIn(Q, L) \union {KeyOf(q, e, a)}
      /\ ~Announces(q, e) => KeysIn(R, M) = KeysIn(Q, L)
      /\ \A p \in Place : \A j \in DOMAIN R[p] :
           \/ p = q /\ R[p][j] = e /\ M[p][j] = a
           \/ j \in DOMAIN Q[p] /\ R[p][j] = Q[p][j] /\ M[p][j] = L[p][j]
  BY <1>1, <1>2, PutTracked
<1>4. Contents(i, all, st, req, R, M)
  <2> SUFFICES ASSUME NEW p \in Place, NEW j \in DOMAIN R[p]
               PROVE  ElementOK(i, all, st, req, p, R[p][j], M[p][j])
    BY DEF Contents
  <2>1. \/ p = q /\ R[p][j] = e /\ M[p][j] = a
        \/ j \in DOMAIN Q[p] /\ R[p][j] = Q[p][j] /\ M[p][j] = L[p][j]
    BY <1>3
  <2> QED  BY <1>2, <2>1 DEF Contents
<1> QED  BY <1>3, <1>4 DEF Stream

(* The oldest message that a receive can match is in flight, and no older  *)
(* stage of the sender has one that it can match.                          *)
LEMMA OldestKey ==
  ASSUME NEW Q, NEW L, Tracked(Q, L), NEW q, NEW k, Announced(Q, q, k),
         \A p, j : Announced(Q, p, j) /\ SameStream(p, Q[p][j], q, Q[q][k])
                     => ~Before(p, j, q, k)
  PROVE  /\ KeyOf(q, Q[q][k], L[q][k]) \in KeysIn(Q, L)
         /\ \A b : <<Q[q][k].envelope.source, q[3], b, Q[q][k].envelope.tag,
                     Q[q][k].envelope.context>> \in KeysIn(Q, L)
                   => StageNo(L[q][k]) <= StageNo(b)
<1> DEFINE e == Q[q][k]
<1>1. KeyOf(q, e, L[q][k]) \in KeysIn(Q, L)  BY KeysAre
<1>2. ASSUME NEW b, <<e.envelope.source, q[3], b, e.envelope.tag, e.envelope.context>>
                      \in KeysIn(Q, L)
      PROVE  StageNo(L[q][k]) <= StageNo(b)
  <2>1. PICK p, j : /\ Announced(Q, p, j)
                    /\ <<e.envelope.source, q[3], b, e.envelope.tag, e.envelope.context>>
                         = KeyOf(p, Q[p][j], L[p][j])
    BY <1>2, KeysAre
  <2>2. b = L[p][j] /\ SameStream(p, Q[p][j], q, e) /\ SameStream(q, e, p, Q[p][j])
    BY <2>1 DEF KeyOf, SameStream
  <2>3. k \in Nat /\ j \in Nat /\ L[q][k] \in Stage /\ L[p][j] \in Stage
    BY <2>1, LabelStage DEF Announced
  <2>4. (q = p /\ k = j) \/ Before(q, k, p, j) \/ Before(p, j, q, k)
    BY <2>1, <2>2, <2>3, Comparable DEF Tracked
  <2>5. Before(q, k, p, j) => StageNo(L[q][k]) < StageNo(L[p][j])
    BY <2>1, <2>2 DEF Tracked, InOrder
  <2> QED  BY <2>1, <2>2, <2>3, <2>4, <2>5, StageNumbers
<1> QED  BY <1>1, <1>2

(* An announcement goes from a connection to the queue of unexpected ones. *)
LEMMA MoveStream ==
  ASSUME NEW i, NEW all, NEW st, NEW req, NEW Q, NEW L, Stream(i, all, st, req, Q, L),
         NEW s \in Rank, NEW d \in Rank, 1 \in DOMAIN Q[Channel(s, d)],
         Announces(Channel(s, d), Q[Channel(s, d)][1]),
         Channel(s, d) \in Place, Unexpected(d) \in Place,
         NEW R, Took(Q, R, Channel(s, d), 1),
         NEW T, Put(R, T, Unexpected(d), Q[Channel(s, d)][1])
  PROVE  \E M : Stream(i, all, st, req, T, M) /\ KeysIn(T, M) = KeysIn(Q, L)
<1> DEFINE q == Channel(s, d)
           u == Unexpected(d)
           e == Q[q][1]
           a == L[q][1]
<1>1. Tracked(Q, L) /\ Contents(i, all, st, req, Q, L)  BY DEF Stream
<1>2. a \in Stage  BY <1>1, LabelStage
<1>3. q[1] = "channel" /\ q[2] = s /\ q[3] = d /\ u[1] = "unexpected" /\ u[3] = d /\ u[2] = d
  BY DEF Channel, Unexpected
<1>4. q \in Place /\ u \in Place /\ 1 \in DOMAIN Q[q] /\ Announced(Q, q, 1)
  BY DEF Announced
<1>5. PICK M : /\ Stream(i, all, st, req, R, M) /\ Took(L, M, q, 1)
               /\ KeysIn(R, M) = KeysIn(Q, L) \ {KeyOf(q, e, a)}
  <2> HIDE DEF q
  <2>1. Took(Q, R, q, 1)  BY DEF q
  <2>2. Announces(q, Q[q][1])  BY DEF q
  <2> QED  BY <1>4, <2>1, <2>2, TakeStream
<1>6. \A p \in Place : \A j \in DOMAIN R[p] :
        LET o == IF p = q THEN Old(1, j) ELSE j
        IN  o \in DOMAIN Q[p] /\ R[p][j] = Q[p][o] /\ M[p][j] = L[p][o]
  <2> HIDE DEF q
  <2>1. Took(Q, R, q, 1)  BY DEF q
  <2> QED  BY <1>1, <1>4, <1>5, <2>1, TakeTracked
<1>7. e.envelope.source = s  BY <1>1, <1>3, <1>4 DEF Tracked, Sourced
<1>8. Announces(u, e)  BY <1>3 DEF Announces
<1>9. ASSUME NEW p, NEW j, Announced(R, p, j), SameStream(p, R[p][j], u, e)
      PROVE  IF u[1] = "unexpected" /\ p[1] = "channel"
             THEN StageNo(a) < StageNo(M[p][j]) ELSE StageNo(M[p][j]) < StageNo(a)
  <2> DEFINE o == IF p = q THEN Old(1, j) ELSE j
  <2>1. p \in Place /\ j \in DOMAIN R[p]  BY <1>9 DEF Announced
  <2>2. o \in DOMAIN Q[p] /\ R[p][j] = Q[p][o] /\ M[p][j] = L[p][o]  BY <1>6, <2>1
  <2>3. Announced(Q, p, o)  BY <1>9, <2>2 DEF Announced
  <2>4. SameStream(p, Q[p][o], q, e) /\ SameStream(q, e, p, Q[p][o])
    BY <1>3, <1>9, <2>2 DEF SameStream
  <2>5. CASE p[1] = "channel"
    <3>1. p[2] = s /\ p[3] = d
      BY <1>1, <1>7, <2>3, <2>4, <2>5, <1>3 DEF Tracked, Sourced, SameStream
    <3>2. p = q  BY <2>1, <2>5, <3>1 DEF Place, Channel, Unexpected
    <3>3. j \in Nat \ {0} /\ o = j + 1
      <4>1. Tracked(R, M)  BY <1>5 DEF Stream
      <4> QED  BY <2>1, <3>2, <4>1, LabelStage DEF Old
    <3>4. Before(q, 1, p, o)  BY <3>2, <3>3 DEF Before
    <3>5. StageNo(a) < StageNo(L[p][o])
      BY <1>1, <1>4, <2>3, <2>4, <3>4 DEF Tracked, InOrder
    <3> QED  BY <1>3, <2>2, <2>5, <3>5
  <2>6. CASE p[1] # "channel"
    <3>1. p[1] = "unexpected"  BY <1>9, <2>6 DEF Announced, Announces
    <3>2. Before(p, o, q, 1)  BY <1>3, <3>1 DEF Before
    <3>3. StageNo(L[p][o]) < StageNo(a)
      BY <1>1, <1>4, <2>3, <2>4, <3>2 DEF Tracked, InOrder
    <3> QED  BY <2>2, <2>6, <3>3
  <2> QED  BY <2>5, <2>6
<1>10. MayJoin(R, M, u, e, a)  BY <1>3, <1>9 DEF MayJoin
<1>11. ElementOK(i, all, st, req, u, e, a)
  <2>1. ElementOK(i, all, st, req, q, e, a)  BY <1>1, <1>4 DEF Contents
  <2>2. AnnouncedOK(i, all, req, q, e, a)  BY <2>1 DEF ElementOK
  <2>3. AnnouncedOK(i, all, req, u, e, a)  BY <1>3, <2>2 DEF AnnouncedOK
  <2> QED  BY <1>8, <2>3 DEF ElementOK
<1>12. KeyOf(u, e, a) = KeyOf(q, e, a)  BY <1>3 DEF KeyOf
<1>13. KeyOf(q, e, a) \in KeysIn(Q, L)  BY <1>4, KeysAre
<1>14. Put(R, T, u, e)  OBVIOUS
<1> HIDE DEF u, e, a, q
<1>15. PICK W : Stream(i, all, st, req, T, W) /\ KeysIn(T, W) = KeysIn(R, M) \union {KeyOf(u, e, a)}
  BY <1>2, <1>4, <1>5, <1>8, <1>10, <1>11, <1>14, PutStream
<1> QED  BY <1>5, <1>12, <1>13, <1>15

-----------------------------------------------------------------------------
(***************************************************************************)
(* The messages in the queues and connections Q are those that are on      *)
(* their way between the ranks' operations, and are what they should be.   *)
(***************************************************************************)
Flow(i, st, sp, req, Q) ==
  \E L : /\ Stream(i, AllEntered(st), st, req, Q, L)
         /\ Delivery(i, DidOf(i, st, sp), WaitOf(i, st, sp, req), KeysIn(Q, L))

\* What the elements of Q say of requests and stages stays true.
Kept(Q, st, ut, req, new) ==
  /\ AllEntered(st) => AllEntered(ut)
  /\ SendsKept(Q, req, new) /\ StagesKept(Q, st, ut)

LEMMA FlowKept ==
  ASSUME NEW i, NEW st, NEW ut, NEW req, NEW new, NEW Q, NEW L,
         Stream(i, AllEntered(st), st, req, Q, L), Kept(Q, st, ut, req, new)
  PROVE  Stream(i, AllEntered(ut), ut, new, Q, L)
<1> DEFINE all == AllEntered(st)
           bll == AllEntered(ut)
<1>1. Contents(i, all, st, req, Q, L) /\ (all => bll)  BY DEF Stream, Kept
<1>2. SendsKept(Q, req, new) /\ StagesKept(Q, st, ut)  BY DEF Kept
<1>3. Contents(i, bll, ut, new, Q, L)
  <2> HIDE DEF all, bll
  <2> QED  BY <1>1, <1>2, ContentsKept
<1> QED  BY <1>3 DEF Stream

LEMMA FlowSame ==
  ASSUME NEW i, NEW st, NEW sp, NEW req, NEW Q, Flow(i, st, sp, req, Q),
         NEW ut, NEW tp, NEW new, Kept(Q, st, ut, req, new),
         DidOf(i, ut, tp) = DidOf(i, st, sp),
         WaitOf(i, ut, tp, new) = WaitOf(i, st, sp, req)
  PROVE  Flow(i, ut, tp, new, Q)
BY FlowKept DEF Flow

LEMMA FlowTakeOther ==
  ASSUME NEW i, NEW st, NEW sp, NEW req, NEW Q, Flow(i, st, sp, req, Q),
         NEW q \in Place, NEW k \in DOMAIN Q[q], ~Announces(q, Q[q][k]),
         NEW R, Took(Q, R, q, k)
  PROVE  /\ Flow(i, st, sp, req, R)
         /\ \E a : ElementOK(i, AllEntered(st), st, req, q, Q[q][k], a)
<1>1. PICK L : /\ Stream(i, AllEntered(st), st, req, Q, L)
               /\ Delivery(i, DidOf(i, st, sp), WaitOf(i, st, sp, req), KeysIn(Q, L))
  BY DEF Flow
<1>2. PICK M : Stream(i, AllEntered(st), st, req, R, M) /\ KeysIn(R, M) = KeysIn(Q, L)
  BY <1>1, TakeStream
<1> QED  BY <1>1, <1>2 DEF Flow, Stream, Contents

LEMMA FlowPutOther ==
  ASSUME NEW i, NEW st, NEW sp, NEW req, NEW Q, Flow(i, st, sp, req, Q),
         NEW q \in Place, NEW e, ~Announces(q, e),
         \A a : ElementOK(i, AllEntered(st), st, req, q, e, a),
         NEW R, Put(Q, R, q, e)
  PROVE  Flow(i, st, sp, req, R)
<1>1. PICK L : /\ Stream(i, AllEntered(st), st, req, Q, L)
               /\ Delivery(i, DidOf(i, st, sp), WaitOf(i, st, sp, req), KeysIn(Q, L))
  BY DEF Flow
<1>2. MayJoin(Q, L, q, e, "rows") /\ "rows" \in Stage  BY DEF MayJoin, Stage
<1>3. ElementOK(i, AllEntered(st), st, req, q, e, "rows")  OBVIOUS
<1>4. PICK M : Stream(i, AllEntered(st), st, req, R, M) /\ KeysIn(R, M) = KeysIn(Q, L)
  BY <1>1, <1>2, <1>3, PutStream
<1> QED  BY <1>1, <1>4 DEF Flow

LEMMA FlowMove ==
  ASSUME NEW i, NEW st, NEW sp, NEW req, NEW Q, Flow(i, st, sp, req, Q),
         NEW s \in Rank, NEW d \in Rank, 1 \in DOMAIN Q[Channel(s, d)],
         Announces(Channel(s, d), Q[Channel(s, d)][1]),
         Channel(s, d) \in Place, Unexpected(d) \in Place,
         NEW R, Took(Q, R, Channel(s, d), 1),
         NEW T, Put(R, T, Unexpected(d), Q[Channel(s, d)][1])
  PROVE  Flow(i, st, sp, req, T)
<1>1. PICK L : /\ Stream(i, AllEntered(st), st, req, Q, L)
               /\ Delivery(i, DidOf(i, st, sp), WaitOf(i, st, sp, req), KeysIn(Q, L))
  BY DEF Flow
<1>2. PICK M : Stream(i, AllEntered(st), st, req, T, M) /\ KeysIn(T, M) = KeysIn(Q, L)
  BY <1>1, MoveStream
<1> QED  BY <1>1, <1>2 DEF Flow

(* Rank s sends. *)
LEMMA FlowSend ==
  ASSUME NEW i \in Input, NEW st, NEW sp, NEW req, Standing(i, st, sp, req),
         NEW Q, Flow(i, st, sp, req, Q), NEW s \in Process,
         NEW p, p = Plan(i, s, st[s]), sp[s] \in DOMAIN p,
         NEW d, NEW t, NEW c, p[sp[s]] = ISend(d, t, c),
         NEW tp, Further(sp, tp, s), NEW new, Standing(i, st, tp, new),
         \A q, r \in Process : new[q][<<"recv", r>>] = req[q][<<"recv", r>>],
         Kept(Q, st, st, req, new),
         NEW e, AnnouncedOK(i, AllEntered(st), new, Channel(s, d), e, st[s]),
         e.envelope = EnvelopeOf(s, t, c), Channel(s, d) \in Place,
         NEW R, Put(Q, R, Channel(s, d), e)
  PROVE  Flow(i, st, tp, new, R)
<1> DEFINE a == st[s]
           op == ISend(d, t, c)
           D == DidOf(i, st, sp)
           W == WaitOf(i, st, sp, req)
           q == Channel(s, d)
<1>1. PICK L : /\ Stream(i, AllEntered(st), st, req, Q, L)
               /\ Delivery(i, D, W, KeysIn(Q, L))
  BY DEF Flow
<1>2. op.kind = "isend" /\ op # Wait  BY OpFields DEF Wait
<1>3. At(i, D, W, s, a)  BY AtNow
<1>4. /\ Planned(i, s, a, op) /\ <<s, a, op>> \notin D
      /\ DidOf(i, st, tp) = D \union {<<s, a, op>>}
  BY <1>2, DidStep
<1>5. WaitOf(i, st, tp, new) = W  BY <1>2, WaitSend
<1>6. Stream(i, AllEntered(st), st, new, Q, L)  BY <1>1, FlowKept
<1>7. q[1] = "channel" /\ q[2] = s /\ q[3] = d  BY DEF Channel
<1>8. \E u \in {"eager", "rts"} : e.type = u
  BY PacketTypes DEF AnnouncedOK
<1>9. Announces(q, e)  BY <1>7, <1>8 DEF Announces
<1>10. e.envelope.source = s /\ e.envelope.tag = t /\ e.envelope.context = c
  BY EnvelopeFields
<1>11. ASSUME NEW r, NEW k, Announced(Q, r, k), SameStream(r, Q[r][k], q, e)
       PROVE  StageNo(L[r][k]) < StageNo(a)
  <2> DEFINE b == L[r][k]
  <2>1. KeyOf(r, Q[r][k], b) \in KeysIn(Q, L)  BY <1>11, KeysAre
  <2>2. KeyOf(r, Q[r][k], b) = <<s, d, b, t, c>>
    BY <1>7, <1>10, <1>11 DEF KeyOf, SameStream
  <2>3. <<s, b, op>> \in D  BY <1>1, <2>1, <2>2 DEF Delivery, InFlightSent, Sent
  <2>4. StageNo(b) <= StageNo(a) /\ b # a /\ a \in Stage  BY <1>3, <1>4, <2>3 DEF At
  <2>5. b \in Stage  BY <1>1, <1>11, LabelStage DEF Stream, Announced
  <2> QED  BY <2>4, <2>5, StageNumbers
<1>12. MayJoin(Q, L, q, e, a)  BY <1>7, <1>10, <1>11 DEF MayJoin
<1>13. ElementOK(i, AllEntered(st), st, new, q, e, a)  BY <1>9 DEF ElementOK
<1>14. KeyOf(q, e, a) = <<s, d, a, t, c>>  BY <1>7, <1>10 DEF KeyOf
<1>15. a \in Stage  BY <1>3 DEF At
<1>16. PICK M : /\ Stream(i, AllEntered(st), st, new, R, M)
                /\ KeysIn(R, M) = KeysIn(Q, L) \union {<<s, d, a, t, c>>}
  <2> HIDE DEF a, q
  <2>1. q \in Place /\ Put(Q, R, q, e)  BY DEF q
  <2> QED  BY <1>6, <1>9, <1>12, <1>13, <1>14, <1>15, <2>1, PutStream
<1>17. ~Sent(D, s, d, a, t, c)  BY <1>4 DEF Sent
<1> DEFINE K == KeysIn(Q, L)
<1>18. Delivery(i, D \union {<<s, a, op>>}, W, K \union {<<s, d, a, t, c>>})
  <2> HIDE DEF D, W, K, a
  <2> QED  BY <1>1, <1>3, <1>4, <1>17, SendKeepsDelivery DEF op, K
<1> QED  BY <1>4, <1>5, <1>16, <1>18 DEF Flow

(* Rank d posts a receive. *)
LEMMA FlowPost ==
  ASSUME NEW i \in Input, NEW st, NEW sp, NEW req, NEW Q, Flow(i, st, sp, req, Q),
         Standing(i, st, sp, req), NEW d \in Process,
         NEW s, NEW t, NEW c, NEW tp, NEW new,
         Planned(i, d, st[d], IRecv(s, t, c)),
         <<d, st[d], IRecv(s, t, c)>> \notin DidOf(i, st, sp),
         DidOf(i, st, tp) = DidOf(i, st, sp) \union {<<d, st[d], IRecv(s, t, c)>>},
         WaitOf(i, st, tp, new) = WaitOf(i, st, sp, req) \union {<<d, st[d], IRecv(s, t, c)>>},
         Kept(Q, st, st, req, new), Posted(d) \in Place,
         NEW e, NEW R, Put(Q, R, Posted(d), e)
  PROVE  Flow(i, st, tp, new, R)
<1> DEFINE a == st[d]
           op == IRecv(s, t, c)
           D == DidOf(i, st, sp)
           W == WaitOf(i, st, sp, req)
           q == Posted(d)
<1>1. PICK L : /\ Stream(i, AllEntered(st), st, req, Q, L)
               /\ Delivery(i, D, W, KeysIn(Q, L))
  BY DEF Flow
<1>2. At(i, D, W, d, a)  BY AtNow
<1>3. Stream(i, AllEntered(st), st, new, Q, L)  BY <1>1, FlowKept
<1>4. ~Announces(q, e) /\ MayJoin(Q, L, q, e, "rows") /\ "rows" \in Stage
  BY DEF Announces, Posted, MayJoin, Stage
<1>5. ElementOK(i, AllEntered(st), st, new, q, e, "rows")
  BY <1>4 DEF ElementOK, Posted
<1>6. PICK M : Stream(i, AllEntered(st), st, new, R, M) /\ KeysIn(R, M) = KeysIn(Q, L)
  BY <1>3, <1>4, <1>5, PutStream
<1> DEFINE K == KeysIn(Q, L)
<1>7. Delivery(i, D \union {<<d, a, op>>}, W \union {<<d, a, op>>}, K)
  <2>1. Delivery(i, D, W, K)  BY <1>1
  <2>2. Planned(i, d, a, IRecv(s, t, c)) /\ <<d, a, IRecv(s, t, c)>> \notin D  OBVIOUS
  <2> HIDE DEF D, W, K, a
  <2> QED  BY <1>2, <2>1, <2>2, PostKeepsDelivery DEF op
<1> QED  BY <1>6, <1>7 DEF Flow

(***************************************************************************)
(* Rank d takes the oldest message its receive matches, which is the one   *)
(* meant for it, or else the vector in the place of the barrier's release. *)
(***************************************************************************)
Meant(i, s, d, a, t) == IF Exempt(i, s, d, a, t) THEN "vector" ELSE a

LEMMA FlowTake ==
  ASSUME NEW i \in Input, NEW st, NEW sp, NEW req, NEW Q, Flow(i, st, sp, req, Q),
         Standing(i, st, sp, req), NEW d \in Process,
         NEW s, NEW t, NEW c, NEW tp, NEW new,
         Planned(i, d, st[d], IRecv(s, t, c)),
         \/ <<d, st[d], IRecv(s, t, c)>> \notin DidOf(i, st, sp)
         \/ <<d, st[d], IRecv(s, t, c)>> \in WaitOf(i, st, sp, req),
         DidOf(i, st, tp) = DidOf(i, st, sp) \union {<<d, st[d], IRecv(s, t, c)>>},
         WaitOf(i, st, tp, new) = WaitOf(i, st, sp, req) \ {<<d, st[d], IRecv(s, t, c)>>},
         Kept(Q, st, st, req, new),
         NEW q \in Place, q[3] = d, NEW k \in DOMAIN Q[q], Announces(q, Q[q][k]),
         Q[q][k].envelope.source = s, Q[q][k].envelope.tag = t,
         Q[q][k].envelope.context = c,
         \A p, j : Announced(Q, p, j) /\ SameStream(p, Q[p][j], q, Q[q][k])
                     => ~Before(p, j, q, k),
         NEW R, Took(Q, R, q, k)
  PROVE  /\ Flow(i, st, tp, new, R)
         /\ ElementOK(i, AllEntered(st), st, req, q, Q[q][k], Meant(i, s, d, st[d], t))
         /\ ElementOK(i, AllEntered(st), st, new, q, Q[q][k], Meant(i, s, d, st[d], t))
<1> DEFINE a == st[d]
           op == IRecv(s, t, c)
           D == DidOf(i, st, sp)
           W == WaitOf(i, st, sp, req)
           e == Q[q][k]
<1>1. PICK L : /\ Stream(i, AllEntered(st), st, req, Q, L)
               /\ Delivery(i, D, W, KeysIn(Q, L))
  BY DEF Flow
<1> DEFINE K == KeysIn(Q, L)
           b == L[q][k]
<1>2. At(i, D, W, d, a)  BY AtNow
<1>3. Stream(i, AllEntered(st), st, new, Q, L)  BY <1>1, FlowKept
<1>4. /\ ElementOK(i, AllEntered(st), st, req, q, e, b)
      /\ ElementOK(i, AllEntered(st), st, new, q, e, b)
  BY <1>1, <1>3 DEF Stream, Contents
<1>5. KeyOf(q, e, b) = <<s, d, b, t, c>>  BY DEF KeyOf
<1>6. Announced(Q, q, k) /\ Tracked(Q, L)  BY <1>1 DEF Announced, Stream
<1>7. <<s, d, b, t, c>> \in K /\ \A f : <<s, d, f, t, c>> \in K => StageNo(b) <= StageNo(f)
  <2>1. /\ KeyOf(q, Q[q][k], L[q][k]) \in KeysIn(Q, L)
        /\ \A f : <<Q[q][k].envelope.source, q[3], f, Q[q][k].envelope.tag,
                    Q[q][k].envelope.context>> \in KeysIn(Q, L)
                  => StageNo(L[q][k]) <= StageNo(f)
    BY <1>6, OldestKey
  <2> QED  BY <1>5, <2>1
<1>8. ~Recd(D, W, s, d, a, t, c)  BY DEF Recd
<1>9. Planned(i, d, a, IRecv(s, t, c)) /\ Delivery(i, D, W, K)  BY <1>1
<1>10. PICK M : /\ Stream(i, AllEntered(st), st, new, R, M)
                /\ KeysIn(R, M) = K \ {<<s, d, b, t, c>>}
  BY <1>3, <1>5, TakeStream
<1>11. /\ Delivery(i, D \union {<<d, a, op>>}, W \ {<<d, a, op>>}, K \ {<<s, d, b, t, c>>})
       /\ IF Exempt(i, s, d, a, t) THEN b = "vector" ELSE b = a
  <2> HIDE DEF D, W, K, a, b
  <2>1. Delivery(i, D \union {<<d, a, IRecv(s, t, c)>>}, W \ {<<d, a, IRecv(s, t, c)>>},
                 K \ {<<s, d, b, t, c>>})
    BY <1>2, <1>7, <1>8, <1>9, TakeKeepsDelivery
  <2>2. IF Exempt(i, s, d, a, t) THEN b = "vector" ELSE b = a
    BY <1>2, <1>7, <1>8, <1>9, FirstIsRight
  <2> QED  BY <2>1, <2>2 DEF op
<1>12. Flow(i, st, tp, new, R)  BY <1>10, <1>11 DEF Flow
<1>13. b = Meant(i, s, d, a, t)  BY <1>11 DEF Meant
<1> QED  BY <1>4, <1>12, <1>13

-----------------------------------------------------------------------------
(* What the requests of a rank hold, and what it waits for in its queue. *)
RecvOK(i, all, r, a, op, x) ==
  \/ x = [state |-> "posted"] \/ x = Cleared
  \/ \E m : /\ x = Complete(m)
            /\ Right(i, all, op.peer, r, Meant(i, op.peer, r, a, op.tag), op.tag, m)

SendOK(i, all, r, a, p, x) ==
  \E m, v : /\ x = [state |-> v, payload |-> m] /\ v \in {"sending", "complete"}
            /\ a \in Large /\ Right(i, all, r, p, a, "none", m)

RequestsOK(i, all, r, a, n, rq) ==
  /\ \A op : Open(Plan(i, r, a), n, op) /\ op.kind = "irecv" =>
       RecvOK(i, all, r, a, op, rq[<<"recv", op.peer>>])
  /\ \A p \in Process : rq[<<"send", p>>] # None =>
       SendOK(i, all, r, a, p, rq[<<"send", p>>])

Entry(op) ==
  [match |-> [source |-> op.peer, tag |-> op.tag, context |-> op.context],
   handle |-> <<"recv", op.peer>>]

PostedOK(i, r, a, n, pq) ==
  \A k \in DOMAIN pq :
    \E op : Open(Plan(i, r, a), n, op) /\ op.kind = "irecv" /\ pq[k] = Entry(op)

(* The receives of stage b that rank r has waited for. *)
Waited(i, r, a, n, b, op) ==
  /\ Planned(i, r, b, op) /\ op.kind = "irecv"
  /\ \/ StageNo(b) < StageNo(a)
     \/ b = a /\ Reached(Plan(i, r, b), n, op) /\ ~Open(Plan(i, r, b), n, op)

Absorbed(i, all, r, m, x, b, op) ==
  /\ b = "rows" => m.rows = i.rows
  /\ b = "cols" => m.cols = i.cols
  /\ b = "chunk" => m.chunk = ChunkOf(i, r)
  /\ b = "vector" => m.vector = Vector(i)
  /\ b = "products" => m.products[op.peer] = ProductsOf(i, op.peer)
  /\ b = "barrier" /\ op.tag = "bcast" =>
       x \/ (all /\ ~Exempt(i, op.peer, r, "barrier", "bcast"))

MemoryType ==
  [rows : Nat, cols : Nat, chunk : Sequence, vector : Sequence,
   products : [Process -> Sequence]]

Own(i, r, a, m) ==
  /\ r = 0 /\ a # "files" => m.rows = i.rows /\ m.cols = i.cols
  /\ r = 0 /\ StageNo(a) >= 3 /\ Joins(i, r, "chunk") =>
       m.chunk = ChunkOf(i, r) /\ m.vector = Vector(i)
  /\ StageNo(a) >= 5 /\ Joins(i, r, "products") => m.products[r] = ProductsOf(i, r)

Remembers(i, all, r, a, n, m, x) ==
  /\ m \in MemoryType /\ x \in BOOLEAN
  /\ x => a = "barrier" /\ Split(i)
  /\ \A b, op : Waited(i, r, a, n, b, op) => Absorbed(i, all, r, m, x, b, op)
  /\ Own(i, r, a, m)

LEMMA WaitedSteps ==
  ASSUME NEW i \in Input, NEW r \in Process, NEW a \in Stage,
         NEW s, s = Plan(i, r, a), NEW n \in DOMAIN s
  PROVE  /\ s[n] # Wait =>
              /\ \A b, op : Waited(i, r, a, n + 1, b, op) => Waited(i, r, a, n, b, op)
              /\ \A op : Open(s, n, op) => Open(s, n + 1, op)
         /\ s[n] = Wait =>
              \A b, op : Waited(i, r, a, n + 1, b, op) =>
                Waited(i, r, a, n, b, op) \/ (b = a /\ op.kind = "irecv" /\ Open(s, n, op))
<1>1. Orderly(s)  BY PlannedOperation
<1>2. CASE s[n] # Wait
  <2>1. /\ \A op : Reached(s, n + 1, op) <=> Reached(s, n, op) \/ op = s[n]
        /\ \A op : Open(s, n + 1, op) <=> Open(s, n, op) \/ op = s[n]
    BY <1>1, <1>2, StepsOn
  <2>2. ASSUME NEW b, NEW op, Waited(i, r, a, n + 1, b, op)
        PROVE  Waited(i, r, a, n, b, op)
    BY <2>1, <2>2 DEF Waited
  <2> QED  BY <1>2, <2>1, <2>2
<1>3. CASE s[n] = Wait
  <2>1. \A op : Reached(s, n + 1, op) <=> Reached(s, n, op)
    BY <1>1, <1>3, StepsOn
  <2>2. ASSUME NEW b, NEW op, Waited(i, r, a, n + 1, b, op)
        PROVE  Waited(i, r, a, n, b, op) \/ (b = a /\ op.kind = "irecv" /\ Open(s, n, op))
    BY <2>1, <2>2 DEF Waited
  <2> QED  BY <1>3, <2>2
<1> QED  BY <1>2, <1>3

LEMMA WaitedMove ==
  ASSUME NEW i \in Input, NEW r \in Process, NEW a \in Stage, NEW b \in Stage,
         NEW n \in Nat, n > Len(Plan(i, r, a)), StageNo(a) < StageNo(b),
         \A c \in Stage : StageNo(a) < StageNo(c) /\ StageNo(c) < StageNo(b)
           => ~Joins(i, r, c),
         NEW c \in Stage, NEW op, Waited(i, r, b, 1, c, op)
  PROVE  Waited(i, r, a, n, c, op)
<1> DEFINE s == Plan(i, r, a)
           t == Plan(i, r, b)
<1>1. Orderly(s) /\ Orderly(t) /\ n > Len(s)  BY PlannedOperation
<1>2. ~Reached(t, 1, op)
  <2> HIDE DEF t
  <2> QED  BY <1>1, AtTheEnds
<1>3. Planned(i, r, c, op) /\ op.kind = "irecv" /\ StageNo(c) < StageNo(b) /\ Joins(i, r, c)
  BY <1>2 DEF Waited, Planned
<1>4. StageNo(c) < StageNo(a) \/ c = a  BY <1>3, StageNumbers
<1>5. CASE c = a
  <2>1. Has(s, op) /\ op # Wait /\ NeedsWait(op)  BY <1>3, <1>5 DEF Planned, NeedsWait
  <2> HIDE DEF s
  <2>2. Reached(s, n, op) /\ ~Open(s, n, op)  BY <1>1, <2>1, AtTheEnds
  <2> QED  BY <1>3, <1>5, <2>2 DEF Waited, s
<1>6. CASE StageNo(c) < StageNo(a)
  BY <1>3, <1>6 DEF Waited
<1> QED  BY <1>4, <1>5, <1>6

LEMMA WaitedFirst ==
  ASSUME NEW i \in Input, NEW r \in Process, NEW a \in Stage,
         \A b \in Stage : StageNo(b) < StageNo(a) => Plan(i, r, b) = <<>> \/ ~Joins(i, r, b),
         NEW b \in Stage, NEW op
  PROVE  ~Waited(i, r, a, 1, b, op)
<1> DEFINE t == Plan(i, r, a)
<1>1. Orderly(t)  BY PlannedOperation
<1>2. ~Reached(t, 1, op)
  <2> HIDE DEF t
  <2> QED  BY <1>1, AtTheEnds
<1>3. Planned(i, r, b, op) => Plan(i, r, b) # <<>> /\ Joins(i, r, b)
  BY DEF Planned, Has
<1> QED  BY <1>2, <1>3 DEF Waited

-----------------------------------------------------------------------------
(* What a rank may rely on. *)
LEMMA BcastDone ==
  ASSUME NEW i \in Input, NEW r \in Process, r # 0, NEW b \in {"rows", "cols", "vector"},
         Joins(i, r, b), NEW a \in Stage, NEW n \in Nat,
         \/ StageNo(b) < StageNo(a)
         \/ a = b /\ n > 2
  PROVE  \E op : Waited(i, r, a, n, b, op)
<1> DEFINE s == Plan(i, r, b)
<1>1. b \in Stage /\ Orderly(s) /\ DOMAIN s = 1 .. Len(s) /\ Len(s) \in Nat
  <2>1. b \in Stage  BY DEF Stage
  <2> QED  BY <2>1, PlannedOperation
<1>2. Relay(s, r)
  <2>1. s = Bcast(i.node, r)  BY InputIs DEF Plan
  <2>2. Relay(Bcast(i.node, r), r)  BY BcastRelays
  <2> QED  BY <2>1, <2>2
<1>3. /\ Len(s) >= 2 /\ s[1].kind = "irecv" /\ s[2] = Wait
      /\ \A k \in DOMAIN s : k > 2 => s[k].kind = "isend"
  BY <1>2 DEF Relay
<1>4. 1 \in DOMAIN s /\ 2 \in DOMAIN s /\ s[1] # Wait  BY <1>1, <1>3 DEF Wait
<1>5. Planned(i, r, b, s[1])  BY <1>4 DEF Planned, Has
<1>6. ASSUME n > 2 PROVE Reached(s, n, s[1]) /\ ~Open(s, n, s[1])
  <2>1. 1 \in 1 .. n - 1  BY <1>6
  <2>2. Reached(s, n, s[1])  BY <1>4, <2>1 DEF Reached
  <2>3. ASSUME Open(s, n, s[1]) PROVE FALSE
    <3>1. PICK k \in 1 .. n - 1 : k \in DOMAIN s /\ s[k] = s[1] /\ Since(s, k, n)
      BY <2>3 DEF Open
    <3>2. k = 1  BY <1>1, <1>4, <3>1 DEF Orderly, Once
    <3>3. 2 \in 1 .. n - 1  BY <1>6
    <3> QED  BY <1>3, <3>1, <3>2, <3>3 DEF Since
  <2> QED  BY <2>2, <2>3
<1> QED  BY <1>3, <1>5, <1>6 DEF Waited

LEMMA ChunkDone ==
  ASSUME NEW i \in Input, NEW r \in Process, r # 0, Joins(i, r, "chunk"),
         NEW a \in Stage, NEW n \in Nat, StageNo("chunk") < StageNo(a)
  PROVE  \E op : Waited(i, r, a, n, "chunk", op)
<1>1. "chunk" \in Stage  BY DEF Stage
<1>2. StageOp(i, r, "chunk", IRecv(0, "scatterv", "world"))  BY DEF StageOp, ScatterOp
<1>3. Planned(i, r, "chunk", IRecv(0, "scatterv", "world"))  BY <1>1, <1>2, PlanIs
<1> QED  BY <1>3, OpFields DEF Waited

LEMMA KnowsSizes ==
  ASSUME NEW i \in Input, NEW all, NEW r \in Process, NEW a \in Stage, NEW n \in Nat,
         NEW m, NEW x, Remembers(i, all, r, a, n, m, x),
         \/ StageNo(a) > 2
         \/ a = "cols" /\ n > Len(Plan(i, r, a))
  PROVE  m.rows = i.rows /\ m.cols = i.cols
<1>1. CASE r = 0
  <2>1. a # "files"  BY DEF StageNo
  <2> QED  BY <1>1, <2>1 DEF Remembers, Own
<1>2. CASE r # 0
  <2>1. Joins(i, r, "rows") /\ Joins(i, r, "cols")  BY DEF Joins
  <2>2. StageNo("rows") < StageNo(a)  BY DEF StageNo
  <2>3. \E op : Waited(i, r, a, n, "rows", op)  BY <1>2, <2>1, <2>2, BcastDone
  <2>4. StageNo("cols") < StageNo(a) \/ (a = "cols" /\ n > 2)
    <3>1. CASE StageNo(a) > 2  BY <3>1 DEF StageNo
    <3>2. CASE a = "cols" /\ n > Len(Plan(i, r, a))
      <4>1. Plan(i, r, a) = Bcast(i.node, r)  BY <3>2, InputIs DEF Plan
      <4>2. Relay(Bcast(i.node, r), r)  BY BcastRelays
      <4>3. Len(Plan(i, r, a)) >= 2 /\ Len(Plan(i, r, a)) \in Nat
        BY <1>2, <4>1, <4>2, PlannedOperation DEF Relay
      <4> QED  BY <3>2, <4>3
    <3> QED  BY <3>1, <3>2
  <2>5. \E op : Waited(i, r, a, n, "cols", op)  BY <1>2, <2>1, <2>4, BcastDone
  <2> QED  BY <2>3, <2>5 DEF Remembers, Absorbed
<1> QED  BY <1>1, <1>2

-----------------------------------------------------------------------------
(***************************************************************************)
(* What the ranks of the barrier know of each other.  In s, e comes before *)
(* op, with a wait between them.                                           *)
(***************************************************************************)
Earlier(s, e, op) ==
  \E j, w, k \in DOMAIN s : j < w /\ w < k /\ s[j] = e /\ s[w] = Wait /\ s[k] = op

LEMMA EarlierWaited ==
  ASSUME NEW s, Orderly(s), NEW e, e # Wait, NEW op, op # Wait, Earlier(s, e, op),
         NEW n \in Nat
  PROVE  Reached(s, n, op) \/ (n \in DOMAIN s /\ s[n] = op)
           => Reached(s, n, e) /\ ~Open(s, n, e)
<1>1. PICK j \in DOMAIN s, w \in DOMAIN s, k \in DOMAIN s :
        j < w /\ w < k /\ s[j] = e /\ s[w] = Wait /\ s[k] = op
  BY DEF Earlier
<1>2. Once(s) /\ DOMAIN s \subseteq Nat \ {0}  BY DEF Orderly
<1>3. ASSUME Reached(s, n, op) \/ (n \in DOMAIN s /\ s[n] = op) PROVE k <= n
  BY <1>1, <1>2, <1>3 DEF Reached, Once
<1>4. ASSUME k <= n PROVE Reached(s, n, e)
  <2>1. j \in 1 .. n - 1  BY <1>1, <1>2, <1>4
  <2> QED  BY <1>1, <2>1 DEF Reached
<1>5. ASSUME k <= n, Open(s, n, e) PROVE FALSE
  <2>1. PICK l \in 1 .. n - 1 : l \in DOMAIN s /\ s[l] = e /\ Since(s, l, n)
    BY <1>5 DEF Open
  <2>2. l = j  BY <1>1, <1>2, <2>1 DEF Once
  <2>3. w \in l .. n - 1  BY <1>1, <1>2, <1>5, <2>2
  <2> QED  BY <1>1, <2>1, <2>3 DEF Since
<1> QED  BY <1>3, <1>4, <1>5

LEMMA EarlierJoined ==
  ASSUME NEW s \in Seq(Operation), NEW t \in Seq(Operation), NEW e, NEW op
  PROVE  /\ Earlier(s, e, op) => Earlier(s \o t, e, op)
         /\ Earlier(t, e, op) => Earlier(s \o t, e, op)
         /\ Awaited(s) /\ Has(s, e) /\ NeedsWait(e) /\ Has(t, op) => Earlier(s \o t, e, op)
<1> DEFINE u == s \o t
<1>1. /\ \A k \in DOMAIN s : k \in DOMAIN u /\ u[k] = s[k]
      /\ \A k \in DOMAIN t : Len(s) + k \in DOMAIN u /\ u[Len(s) + k] = t[k]
      /\ Len(s) \in Nat /\ DOMAIN s = 1 .. Len(s) /\ DOMAIN t \subseteq Nat \ {0}
  BY PartsOfJoin
<1> HIDE DEF u
<1>2. Earlier(s, e, op) => Earlier(u, e, op)  BY <1>1 DEF Earlier
<1>3. ASSUME Earlier(t, e, op) PROVE Earlier(u, e, op)
  <2>1. PICK j \in DOMAIN t, w \in DOMAIN t, k \in DOMAIN t :
          j < w /\ w < k /\ t[j] = e /\ t[w] = Wait /\ t[k] = op
    BY <1>3 DEF Earlier
  <2>2. Len(s) + j < Len(s) + w /\ Len(s) + w < Len(s) + k  BY <1>1, <2>1
  <2> QED  BY <1>1, <2>1, <2>2 DEF Earlier
<1>4. ASSUME Awaited(s), Has(s, e), NeedsWait(e), Has(t, op) PROVE Earlier(u, e, op)
  <2>1. PICK j \in DOMAIN s : s[j] = e  BY <1>4 DEF Has
  <2>2. PICK w \in DOMAIN s : j < w /\ s[w] = Wait  BY <1>4, <2>1 DEF Awaited
  <2>3. PICK k \in DOMAIN t : t[k] = op  BY <1>4 DEF Has
  <2>4. w < Len(s) + k  BY <1>1
  <2> QED  BY <1>1, <2>1, <2>2, <2>3, <2>4 DEF Earlier
<1> QED  BY <1>2, <1>3, <1>4 DEF u

\* r's receive, and its send, in the round with mask m.
FromBehind(S, c, r, m) == IRecv(Behind(S, r, m), "barrier", c)

ToAhead(S, c, r, m) == ISend(Ahead(S, r, m), "barrier", c)

LEMMA RoundsInOrder ==
  ASSUME NEW S \in SUBSET Process, NEW r \in S, NEW c \in {"world", "node", "roots"},
         NEW h \in Masks(Cardinality(S)), NEW m \in Masks(Cardinality(S)), h < m
  PROVE  /\ Earlier(Dissemination(S, c, r), FromBehind(S, c, r, h), FromBehind(S, c, r, m))
         /\ Earlier(Dissemination(S, c, r), FromBehind(S, c, r, h), ToAhead(S, c, r, m))
<1> DEFINE B == Dissemination(S, c, r)
<1>1. DissPart(S, c, r, B)  BY DissPartIs
<1>2. PICK j \in 1 .. Rounds(S) : MaskAt(S, j) = h  BY MasksInOrder
<1>3. PICK k \in 1 .. Rounds(S) : MaskAt(S, k) = m  BY MasksInOrder
<1>4. Rounds(S) \in Nat /\ j < k
  <2>1. Rounds(S) \in Nat  BY MasksInOrder
  <2>2. h \in Nat /\ m \in Nat  BY <1>2, <1>3, MasksInOrder
  <2>3. k < j => m < h  BY <1>2, <1>3, MasksInOrder
  <2> QED  BY <1>2, <1>3, <2>1, <2>2, <2>3
<1> HIDE DEF B
<1>5. /\ B[3 * j - 2] = FromBehind(S, c, r, h) /\ B[3 * j] = Wait
      /\ B[3 * k - 2] = FromBehind(S, c, r, m) /\ B[3 * k - 1] = ToAhead(S, c, r, m)
  BY <1>1, <1>2, <1>3 DEF DissPart, FromBehind, ToAhead
<1>6. /\ 3 * j - 2 \in DOMAIN B /\ 3 * j \in DOMAIN B
      /\ 3 * k - 2 \in DOMAIN B /\ 3 * k - 1 \in DOMAIN B
  <2>1. DOMAIN B = 1 .. 3 * Rounds(S)  BY <1>1, <1>4 DEF DissPart
  <2> QED  BY <1>4, <2>1
<1>7. 3 * j - 2 < 3 * j /\ 3 * j < 3 * k - 2 /\ 3 * j < 3 * k - 1  BY <1>4
<1> QED  BY <1>5, <1>6, <1>7 DEF Earlier, B

-----------------------------------------------------------------------------
(* How far q is behind r in its communicator. *)
Distance(S, q, r) ==
  IF RankIn(S, q) <= RankIn(S, r) THEN RankIn(S, r) - RankIn(S, q)
  ELSE RankIn(S, r) - RankIn(S, q) + Cardinality(S)

\* Got: the rounds a rank has waited for; Gone: those it has sent in.
Rippling(S, Got, Gone, G) ==
  \A r \in S : \A m \in Masks(Cardinality(S)) :
    /\ <<r, m>> \in Got =>
         /\ r \in G /\ <<Behind(S, r, m), m>> \in Gone
         /\ \A h \in Masks(Cardinality(S)) : h < m => <<r, h>> \in Got
    /\ <<r, m>> \in Gone =>
         /\ r \in G
         /\ \A h \in Masks(Cardinality(S)) : h < m => <<r, h>> \in Got

LEMMA RippleStep ==
  ASSUME NEW S \in SUBSET Process, NEW Got, NEW Gone, NEW G, Rippling(S, Got, Gone, G),
         NEW m \in Masks(Cardinality(S)),
         \A h \in Masks(Cardinality(S)) : h < m =>
           \A r \in S : <<r, h>> \in Got => \A q \in S : Distance(S, q, r) < 2 * h => q \in G,
         NEW r \in S, <<r, m>> \in Got, NEW q \in S, Distance(S, q, r) < 2 * m
  PROVE  q \in G
<1> DEFINE size == Cardinality(S)
           p == Behind(S, r, m)
<1>1. size \in Nat /\ m \in 1 .. size - 1
  <2>1. size \in 1 .. N /\ N \in Nat  BY RankBelowSize, InputAssumption
  <2>2. size \in Nat  BY <2>1
  <2> QED  BY <2>2, MasksDouble
<1>2. p \in S /\ RankIn(S, p) = IF RankIn(S, r) < m THEN RankIn(S, r) - m + size
                                ELSE RankIn(S, r) - m
  BY <1>1, PartnersAre
<1>3. /\ RankIn(S, r) \in 0 .. size - 1 /\ RankIn(S, q) \in 0 .. size - 1
      /\ RankIn(S, p) \in 0 .. size - 1
  BY <1>1, <1>2, RankBelowSize
<1>4. r \in G /\ p \in G /\ <<p, m>> \in Gone  BY <1>2 DEF Rippling
<1>5. \/ m = 1
      \/ \E h \in Masks(size) : m = 2 * h
  BY <1>1, MasksDouble
<1>6. \A a \in S : RankIn(S, a) = RankIn(S, q) => a = q  BY MemberOfRank
<1>7. CASE m = 1
  <2> HIDE DEF p, size
  <2>1. RankIn(S, q) = RankIn(S, r) \/ RankIn(S, q) = RankIn(S, p)
    BY <1>1, <1>2, <1>3, <1>7 DEF Distance, size
  <2> QED  BY <1>2, <1>4, <1>6, <2>1
<1>8. CASE \E h \in Masks(size) : m = 2 * h
  <2>1. PICK h \in Masks(size) : m = 2 * h  BY <1>8
  <2>2. h \in 1 .. size - 1 /\ h < m  BY <1>1, <2>1, MasksDouble
  <2>3. <<r, h>> \in Got /\ <<p, h>> \in Got  BY <1>2, <1>4, <2>2 DEF Rippling
  <2>4. Distance(S, q, r) < m \/ Distance(S, q, p) < m
    <3> HIDE DEF p, size
    <3> QED  BY <1>1, <1>2, <1>3 DEF Distance, size
  <2> QED  BY <1>2, <2>1, <2>2, <2>3, <2>4
<1> QED  BY <1>5, <1>7, <1>8

LEMMA Ripples ==
  ASSUME NEW S \in SUBSET Process, NEW Got, NEW Gone, NEW G, Rippling(S, Got, Gone, G),
         NEW r \in S, r \in G, \A m \in Masks(Cardinality(S)) : <<r, m>> \in Got
  PROVE  S \subseteq G
<1> DEFINE size == Cardinality(S)
           Far(m) == \A a \in S : <<a, m>> \in Got =>
                       \A q \in S : Distance(S, q, a) < 2 * m => q \in G
           T == {m \in Masks(size) : ~Far(m)}
<1>1. size \in Nat /\ Masks(size) \subseteq 1 .. size - 1
  <2>1. size \in 1 .. N /\ N \in Nat  BY RankBelowSize, InputAssumption
  <2>2. size \in Nat  BY <2>1
  <2> QED  BY <2>2, MasksDouble
<1>2. T = {}
  <2>1. SUFFICES ASSUME T # {} PROVE FALSE  OBVIOUS
  <2>2. T \subseteq Nat  BY <1>1
  <2>3. PICK m \in T : \A k \in T : m <= k
    <3> HIDE DEF T
    <3> QED  BY <2>1, <2>2, LeastNumber
  <2>4. \A h \in Masks(size) : h < m => Far(h)
    BY <1>1, <2>3
  <2>5. \A a \in S : <<a, m>> \in Got => \A q \in S : Distance(S, q, a) < 2 * m => q \in G
    BY <2>3, <2>4, RippleStep
  <2> QED  BY <2>3, <2>5
<1>3. ASSUME NEW q \in S PROVE q \in G
  <2>1. /\ RankIn(S, r) \in 0 .. size - 1 /\ RankIn(S, q) \in 0 .. size - 1
    BY <1>1, RankBelowSize
  <2>2. Distance(S, q, r) \in 0 .. size - 1  BY <1>1, <2>1 DEF Distance
  <2>3. CASE size = 1
    <3>1. RankIn(S, q) = RankIn(S, r)  BY <2>1, <2>3
    <3> QED  BY <3>1, MemberOfRank
  <2>4. CASE size > 1
    <3> DEFINE U == {x \in Nat : \E m \in Masks(size) : x = size - m}
    <3>1. 1 \in Masks(size)  BY <1>1, <2>4, MasksDouble
    <3>2. U \subseteq Nat /\ U # {}
      <4>1. size - 1 \in U  BY <1>1, <2>4, <3>1
      <4> QED  BY <4>1
    <3>3. PICK u \in U : \A x \in U : u <= x
      <4> HIDE DEF U
      <4> QED  BY <3>2, LeastNumber
    <3>4. PICK m \in Masks(size) : u = size - m  BY <3>3
    <3>5. ASSUME 2 * m < size PROVE FALSE
      <4>1. 2 * m \in Masks(size)  BY <1>1, <3>4, <3>5, MasksDouble
      <4>2. size - 2 * m \in U  BY <1>1, <4>1
      <4> QED  BY <1>1, <3>3, <3>4, <4>2
    <3>6. Distance(S, q, r) < 2 * m  BY <1>1, <2>2, <3>4, <3>5
    <3>7. Far(m)  BY <1>2, <3>4
    <3> QED  BY <3>4, <3>6, <3>7
  <2> QED  BY <1>1, <2>1, <2>3, <2>4
<1> QED  BY <1>3

LEMMA JoinHas ==
  ASSUME NEW s \in Seq(Operation), NEW t \in Seq(Operation), NEW op
  PROVE  Has(s \o t, op) <=> Has(s, op) \/ Has(t, op)
<1> DEFINE u == s \o t
<1>1. /\ \A k \in DOMAIN u : \/ k \in DOMAIN s /\ u[k] = s[k]
                            \/ /\ k > Len(s) /\ k - Len(s) \in DOMAIN t
                               /\ u[k] = t[k - Len(s)]
      /\ \A k \in DOMAIN s : k \in DOMAIN u /\ u[k] = s[k]
      /\ \A k \in DOMAIN t : /\ Len(s) + k \in DOMAIN u
                            /\ u[Len(s) + k] = t[k]
  BY PartsOfJoin
<1> HIDE DEF u
<1>2. Has(u, op) <=> Has(s, op) \/ Has(t, op)  BY <1>1 DEF Has
<1> QED  BY <1>2 DEF u

LEMMA ThreeParts ==
  ASSUME NEW s \in Seq(Operation), NEW t \in Seq(Operation), NEW u \in Seq(Operation),
         NEW B, B = (s \o t) \o u
  PROVE  /\ \A op : Has(B, op) <=> Has(s, op) \/ Has(t, op) \/ Has(u, op)
         /\ \A e, op : Earlier(s, e, op) \/ Earlier(t, e, op) => Earlier(B, e, op)
         /\ \A e, op : Awaited(s) /\ Has(s, e) /\ NeedsWait(e) /\ (Has(t, op) \/ Has(u, op))
                       => Earlier(B, e, op)
         /\ \A e, op : Awaited(t) /\ Has(t, e) /\ NeedsWait(e) /\ Has(u, op)
                       => Earlier(B, e, op)
<1> DEFINE st == s \o t
           tu == t \o u
<1>1. st \in Seq(Operation) /\ tu \in Seq(Operation) /\ B = st \o u /\ B = s \o tu
  <2>1. st \in Seq(Operation) /\ tu \in Seq(Operation)  BY PartsOfJoin
  <2>2. (s \o t) \o u = s \o (t \o u)  BY ConcatAssociative, SMTT(20)
  <2> QED  BY <2>1, <2>2
<1>2. \A op : Has(st, op) <=> Has(s, op) \/ Has(t, op)  BY JoinHas
<1>3. \A op : Has(tu, op) <=> Has(t, op) \/ Has(u, op)  BY JoinHas
<1>4. \A e, op : Earlier(s, e, op) \/ Earlier(t, e, op) => Earlier(st, e, op)
  BY EarlierJoined
<1>5. \A e, op : Awaited(t) /\ Has(t, e) /\ NeedsWait(e) /\ Has(u, op) => Earlier(tu, e, op)
  BY EarlierJoined
<1> HIDE DEF st, tu
<1>6. ASSUME NEW op PROVE Has(B, op) <=> Has(st, op) \/ Has(u, op)
  <2>1. Has(st \o u, op) <=> Has(st, op) \/ Has(u, op)  BY <1>1, JoinHas
  <2> QED  BY <1>1, <2>1
<1>7. \A e, op : Earlier(st, e, op) \/ Earlier(tu, e, op) => Earlier(B, e, op)
  BY <1>1, EarlierJoined
<1>8. \A e, op : Awaited(s) /\ Has(s, e) /\ NeedsWait(e) /\ Has(tu, op) => Earlier(B, e, op)
  BY <1>1, EarlierJoined
<1> QED  BY <1>2, <1>3, <1>4, <1>5, <1>6, <1>7, <1>8

(* The order of a rank's part in the barrier: all rounds among the ranks of  *)
(* a machine, all rounds among the roots, and the release.                   *)
LEMMA BarrierOrder ==
  ASSUME NEW node, NEW r \in Process, NEW c \in {"world", "node", "roots"}, Uses(node, r, c),
         NEW S, S = Members(node, r, c), NEW B, B = Barrier(node, r),
         NEW m \in Masks(Cardinality(S))
  PROVE  /\ Has(B, FromBehind(S, c, r, m)) /\ Has(B, ToAhead(S, c, r, m))
         /\ \A h \in Masks(Cardinality(S)) : h < m =>
              /\ Earlier(B, FromBehind(S, c, r, h), FromBehind(S, c, r, m))
              /\ Earlier(B, FromBehind(S, c, r, h), ToAhead(S, c, r, m))
         /\ \A op : Has(B, op) /\ op # Wait /\ op.context = "roots" /\ c = "node" =>
              Earlier(B, FromBehind(S, c, r, m), op)
         /\ \A op : Has(B, op) /\ op.tag = "bcast" /\ op # Wait =>
              Earlier(B, FromBehind(S, c, r, m), op)
<1> DEFINE D == Dissemination(S, c, r)
           e == FromBehind(S, c, r, m)
           f == ToAhead(S, c, r, m)
<1>0. S \in SUBSET Process /\ r \in S  BY MembersAre
<1>1. Orderly(D) /\ Has(D, e) /\ Has(D, f) /\ NeedsWait(e)
      /\ \A op : Has(D, op) /\ op # Wait => op.tag = "barrier" /\ op.context = c
  <2>1. Orderly(D) /\ \A op : Has(D, op) /\ op # Wait <=> DissOp(S, c, r, op)
    BY <1>0, DissSequence
  <2>2. PICK k \in 1 .. Rounds(S) : MaskAt(S, k) = m  BY <1>0, MasksInOrder
  <2>3. DissOp(S, c, r, e) /\ DissOp(S, c, r, f)
    BY <2>2 DEF DissOp, FromBehind, ToAhead
  <2>4. NeedsWait(e)  BY KindsApart DEF NeedsWait, FromBehind
  <2> HIDE DEF D, e, f
  <2>5. \A op : DissOp(S, c, r, op) => op.tag = "barrier" /\ op.context = c
    BY <1>0, DissOpIs
  <2> QED  BY <2>1, <2>3, <2>4, <2>5
<1>2. \A h \in Masks(Cardinality(S)) : h < m =>
        Earlier(D, FromBehind(S, c, r, h), e) /\ Earlier(D, FromBehind(S, c, r, h), f)
  BY <1>0, RoundsInOrder
<1>3. D \in Seq(Operation) /\ Awaited(D)  BY <1>1 DEF Orderly
<1>4. CASE c = "world"
  <2>1. B = D
    BY <1>4 DEF Barrier, Uses, Members
  <2>2. ~(c = "node")  BY <1>4
  <2> HIDE DEF D, e, f
  <2>3. \A op : Has(D, op) /\ op # Wait => op.tag # "bcast"  BY <1>1
  <2> QED  BY <1>1, <1>2, <2>1, <2>2, <2>3 DEF e, f
<1>5. CASE c # "world"
  <2> DEFINE M == NodeMembers(node, r)
             X == Dissemination(M, "node", r)
             Y == RootsOnly(node, r, Dissemination(NodeRoots(node), "roots", r))
             Z == BinomialBcast(M, "node", r)
  <2>1. B = (X \o Y) \o Z /\ NodeAware(node)
    BY <1>5 DEF Barrier, Uses
  <2>2. M \in SUBSET Process /\ r \in M  BY DEF NodeMembers
  <2>3. Orderly(X) /\ \A op : Has(X, op) /\ op # Wait => op.tag = "barrier" /\ op.context = "node"
    <3>1. Orderly(X) /\ \A op : Has(X, op) /\ op # Wait <=> DissOp(M, "node", r, op)
      BY <2>2, DissSequence
    <3>2. \A op : DissOp(M, "node", r, op) => op.tag = "barrier" /\ op.context = "node"
      BY <2>2, DissOpIs
    <3> QED  BY <3>1, <3>2
  <2>4. Orderly(Y) /\ \A op : Has(Y, op) /\ op # Wait => op.tag = "barrier"
    <3>1. CASE r \in NodeRoots(node)
      <4>0. NodeRoots(node) \in SUBSET Process  BY DEF NodeRoots
      <4>1. Y = Dissemination(NodeRoots(node), "roots", r)  BY <3>1 DEF RootsOnly
      <4>2. Orderly(Y) /\ \A op : Has(Y, op) /\ op # Wait
                            <=> DissOp(NodeRoots(node), "roots", r, op)
        BY <3>1, <4>0, <4>1, DissSequence
      <4>3. \A op : DissOp(NodeRoots(node), "roots", r, op) => op.tag = "barrier"
        BY <3>1, <4>0, DissOpIs
      <4> QED  BY <4>2, <4>3
    <3>2. CASE r \notin NodeRoots(node)
      <4>1. Y = <<>>  BY <3>2 DEF RootsOnly
      <4> QED  BY <4>1, EmptyOrderly
    <3> QED  BY <3>1, <3>2
  <2>5. Z \in Seq(Operation) /\ \A op : Has(Z, op) /\ op # Wait => op.context = "node"
    <3>1. Orderly(Z) /\ \A op : Has(Z, op) /\ op # Wait <=> TreeOp(M, "node", r, op)
      BY <2>2, TreeSequence
    <3>2. \A op : TreeOp(M, "node", r, op) => op.context = "node"  BY <2>2, TreeOpIs
    <3> QED  BY <3>1, <3>2 DEF Orderly
  <2>6. X \in Seq(Operation) /\ Y \in Seq(Operation) /\ Awaited(X) /\ Awaited(Y)
    BY <2>3, <2>4 DEF Orderly
  <2>9. /\ \A op : Has(B, op) <=> Has(X, op) \/ Has(Y, op) \/ Has(Z, op)
        /\ \A a, b : Earlier(X, a, b) \/ Earlier(Y, a, b) => Earlier(B, a, b)
        /\ \A a, b : Awaited(X) /\ Has(X, a) /\ NeedsWait(a) /\ (Has(Y, b) \/ Has(Z, b))
                       => Earlier(B, a, b)
        /\ \A a, b : Awaited(Y) /\ Has(Y, a) /\ NeedsWait(a) /\ Has(Z, b)
                       => Earlier(B, a, b)
    <3> HIDE DEF X, Y, Z
    <3>1. \A op : Has(B, op) <=> Has(X, op) \/ Has(Y, op) \/ Has(Z, op)
      BY <2>1, <2>5, <2>6, ThreeParts, ZenonT(40)
    <3>2. \A a, b : Earlier(X, a, b) \/ Earlier(Y, a, b) => Earlier(B, a, b)
      BY <2>1, <2>5, <2>6, ThreeParts, ZenonT(40)
    <3>3. \A a, b : Awaited(X) /\ Has(X, a) /\ NeedsWait(a) /\ (Has(Y, b) \/ Has(Z, b))
                     => Earlier(B, a, b)
      BY <2>1, <2>5, <2>6, ThreeParts, ZenonT(40)
    <3>4. \A a, b : Awaited(Y) /\ Has(Y, a) /\ NeedsWait(a) /\ Has(Z, b)
                     => Earlier(B, a, b)
      BY <2>1, <2>5, <2>6, ThreeParts, ZenonT(40)
    <3> QED  BY <3>1, <3>2, <3>3, <3>4
  <2>7. CASE c = "node"
    <3>1. D = X  BY <2>7 DEF Members
    <3> HIDE DEF X, Y, Z, D, e, f
    <3>2. \A b : Has(X, b) /\ b # Wait => b.context # "roots" /\ b.tag # "bcast"  BY <2>3
    <3>3. \A b : Has(B, b) => Has(X, b) \/ Earlier(B, e, b)
      <4>1. \A b : Has(B, b) <=> Has(X, b) \/ Has(Y, b) \/ Has(Z, b)
        BY <2>9
      <4>0. Awaited(X) /\ Has(X, e) /\ NeedsWait(e)  BY <1>1, <2>6, <3>1
      <4>2. ASSUME NEW b, Has(Y, b) \/ Has(Z, b) PROVE Earlier(B, e, b)
        BY <2>9, <4>0, <4>2
      <4> QED  BY <4>1, <4>2
    <3>4. Has(B, e) /\ Has(B, f)  BY <1>1, <3>1, <2>9
    <3>5. \A a, b : Earlier(D, a, b) => Earlier(B, a, b)
      BY <3>1, <2>9
    <3>6. \A op : Has(B, op) /\ op # Wait /\ (op.context = "roots" \/ op.tag = "bcast")
            => Earlier(B, e, op)
      BY <3>2, <3>3
    <3> QED  BY <1>2, <3>4, <3>5, <3>6 DEF e, f
  <2>8. CASE c = "roots"
    <3>1. D = Y  BY <2>8 DEF Members, Uses, RootsOnly
    <3>0. c # "node"  BY <2>8
    <3> HIDE DEF X, Y, Z, D, e, f
    <3>2. \A b : (Has(X, b) \/ Has(Y, b)) /\ b # Wait => b.tag # "bcast"  BY <2>3, <2>4
    <3>3. \A b : Has(B, b) => Has(X, b) \/ Has(Y, b) \/ Earlier(B, e, b)
      <4>1. \A b : Has(B, b) <=> Has(X, b) \/ Has(Y, b) \/ Has(Z, b)
        BY <2>9
      <4>0. Awaited(Y) /\ Has(Y, e) /\ NeedsWait(e)  BY <1>1, <2>6, <3>1
      <4>2. ASSUME NEW b, Has(Z, b) PROVE Earlier(B, e, b)
        BY <2>9, <4>0, <4>2
      <4> QED  BY <4>1, <4>2
    <3>4. Has(B, e) /\ Has(B, f)  BY <1>1, <3>1, <2>9
    <3>5. \A a, b : Earlier(D, a, b) => Earlier(B, a, b)
      BY <3>1, <2>9
    <3>6. \A op : Has(B, op) /\ op # Wait /\ op.tag = "bcast" => Earlier(B, e, op)
      BY <3>2, <3>3
    <3> QED  BY <1>2, <3>0, <3>4, <3>5, <3>6 DEF e, f
  <2> QED  BY <1>5, <2>7, <2>8
<1> QED  BY <1>4, <1>5

\* Rank r has waited for the receive op of the barrier.
Over(i, st, sp, r, op) == Waited(i, r, st[r], sp[r], "barrier", op)

LEMMA BarrierPlan ==
  ASSUME NEW i \in Input, NEW r \in Process
  PROVE  /\ "barrier" \in Stage /\ Joins(i, r, "barrier")
         /\ Plan(i, r, "barrier") = Barrier(i.node, r) /\ Orderly(Plan(i, r, "barrier"))
<1>1. "barrier" \in Stage /\ Joins(i, r, "barrier")  BY DEF Stage, Joins
<1>2. Orderly(Plan(i, r, "barrier"))  BY <1>1, PlanIs
<1>3. Plan(i, r, "barrier") = Barrier(i.node, r)  BY InputIs DEF Plan
<1> QED  BY <1>1, <1>2, <1>3

LEMMA OverWhen ==
  ASSUME NEW i \in Input, NEW st, NEW sp, NEW req, Standing(i, st, sp, req),
         NEW r \in Process, NEW op, NEW e, e.kind = "irecv",
         Has(Plan(i, r, "barrier"), e), Earlier(Plan(i, r, "barrier"), e, op),
         \/ Did(i, st, sp, r, "barrier", op)
         \/ /\ st[r] = "barrier" /\ op # Wait
            /\ sp[r] \in DOMAIN Plan(i, r, "barrier") /\ Plan(i, r, "barrier")[sp[r]] = op
  PROVE  Over(i, st, sp, r, e)
<1> DEFINE s == Plan(i, r, "barrier")
<1>1. /\ Joins(i, r, "barrier") /\ Orderly(s) /\ DOMAIN s = 1 .. Len(s) /\ Len(s) \in Nat
  BY BarrierPlan, PlannedOperation
<1>2. Planned(i, r, "barrier", e)  BY <1>1 DEF Planned, Wait
<1>3. st[r] = "barrier" => sp[r] \in Nat
  <2>1. sp[r] \in 1 .. Len(Plan(i, r, st[r])) + 1  BY DEF Standing, Control
  <2> QED  BY <1>1, <2>1
<1>4. ASSUME st[r] = "barrier",
             Reached(s, sp[r], op) \/ (sp[r] \in DOMAIN s /\ s[sp[r]] = op), op # Wait
      PROVE  Reached(s, sp[r], e) /\ ~Open(s, sp[r], e)
  <2>1. e # Wait  BY DEF Wait
  <2> QED  BY <1>1, <1>3, <1>4, <2>1, EarlierWaited
<1> QED  BY <1>2, <1>4 DEF Over, Waited, Did, Planned

\* A receive that is over has taken what its sender sent in the barrier.
LEMMA OverIsSent ==
  ASSUME NEW i \in Input, NEW st, NEW sp, NEW req, Standing(i, st, sp, req),
         NEW K, Delivery(i, DidOf(i, st, sp), WaitOf(i, st, sp, req), K),
         NEW r \in Process, NEW p \in Process, NEW c,
         Over(i, st, sp, r, IRecv(p, "barrier", c))
  PROVE  /\ Did(i, st, sp, r, "barrier", IRecv(p, "barrier", c))
         /\ Did(i, st, sp, p, "barrier", ISend(r, "barrier", c))
<1> DEFINE op == IRecv(p, "barrier", c)
           D == DidOf(i, st, sp)
           W == WaitOf(i, st, sp, req)
<1>1. Did(i, st, sp, r, "barrier", op) /\ "barrier" \in Stage  BY BarrierPlan DEF Over, Waited, Did
<1>2. <<r, "barrier", op>> \in D
  <2> HIDE DEF op
  <2> QED  BY <1>1, DidIs
<1>3. <<r, "barrier", op>> \notin W
  <2> HIDE DEF op
  <2>1. SUFFICES ASSUME <<r, "barrier", op>> \in W PROVE FALSE  OBVIOUS
  <2>2. "barrier" = st[r] /\ Waiting(i, st, sp, req, r, op)
    <3> HIDE DEF Waiting
    <3> QED  BY <2>1, WaitIs
  <2>3. Open(Plan(i, r, st[r]), sp[r], op)  BY <2>2 DEF Waiting
  <2>4. ~(StageNo("barrier") < StageNo("barrier"))  BY DEF StageNo
  <2> QED  BY <2>2, <2>3, <2>4 DEF Over, Waited, op
<1>4. Recd(D, W, p, r, "barrier", "barrier", c)  BY <1>2, <1>3 DEF Recd
<1>5. Sent(D, p, r, "barrier", "barrier", c)
  <2> HIDE DEF op, D, W
  <2>1. NotInvented(i, D, W)  BY DEF Delivery, D, W
  <2>2. ~Exempt(i, p, r, "barrier", "barrier")  BY DEF Exempt
  <2> QED  BY <1>4, <2>1, <2>2 DEF NotInvented
<1>6. Did(i, st, sp, p, "barrier", ISend(r, "barrier", c))
  BY <1>5, DidIs DEF Sent
<1> QED  BY <1>1, <1>6

(* Who has been through all rounds in a communicator knows of all members   *)
(* what each knows of itself when it starts.                                *)
LEMMA CommRipples ==
  ASSUME NEW i \in Input, NEW st, NEW sp, NEW req, Standing(i, st, sp, req),
         NEW K, Delivery(i, DidOf(i, st, sp), WaitOf(i, st, sp, req), K),
         NEW r \in Process, NEW c \in {"world", "node", "roots"}, Uses(i.node, r, c),
         NEW S, S = Members(i.node, r, c), NEW G, r \in G,
         \A q \in S : \A m \in Masks(Cardinality(S)) :
           \/ Did(i, st, sp, q, "barrier", FromBehind(S, c, q, m))
           \/ Did(i, st, sp, q, "barrier", ToAhead(S, c, q, m))
           => q \in G,
         \A m \in Masks(Cardinality(S)) : Over(i, st, sp, r, FromBehind(S, c, r, m))
  PROVE  S \subseteq G
<1> DEFINE Ms == Masks(Cardinality(S))
           Got == {x \in S \X Ms : Over(i, st, sp, x[1], FromBehind(S, c, x[1], x[2]))}
           Gone == {x \in S \X Ms : Did(i, st, sp, x[1], "barrier", ToAhead(S, c, x[1], x[2]))}
<1>1. /\ S \in SUBSET Process /\ r \in S
      /\ \A q \in S : q \in Process /\ Uses(i.node, q, c) /\ S = Members(i.node, q, c)
  BY MembersAre
<1>2. ASSUME NEW q \in S, NEW m \in Ms
      PROVE  /\ <<q, m>> \in Got =>
                  /\ q \in G /\ <<Behind(S, q, m), m>> \in Gone
                  /\ \A h \in Ms : h < m => <<q, h>> \in Got
             /\ <<q, m>> \in Gone =>
                  q \in G /\ \A h \in Ms : h < m => <<q, h>> \in Got
  <2> DEFINE B == Barrier(i.node, q)
             e == FromBehind(S, c, q, m)
             f == ToAhead(S, c, q, m)
             p == Behind(S, q, m)
  <2>1. B = Plan(i, q, "barrier")  BY <1>1, BarrierPlan
  <2>2. m \in 1 .. Cardinality(S) - 1
    <3>1. Cardinality(S) \in 1 .. N /\ N \in Nat  BY <1>1, RankBelowSize, InputAssumption
    <3>2. Cardinality(S) \in Nat  BY <3>1
    <3> QED  BY <3>2, MasksDouble
  <2>3. p \in S /\ p \in Process /\ Ahead(S, p, m) = q  BY <1>1, <2>2, PartnersAre
  <2>4. ASSUME NEW h \in Ms, h < m,
               Did(i, st, sp, q, "barrier", e) \/ Did(i, st, sp, q, "barrier", f)
        PROVE  <<q, h>> \in Got
    <3> DEFINE g == FromBehind(S, c, q, h)
    <3>1. Has(B, g) /\ Earlier(B, g, e) /\ Earlier(B, g, f)
      BY <1>1, <2>4, BarrierOrder
    <3>2. g.kind = "irecv"  BY OpFields DEF FromBehind
    <3> HIDE DEF B, e, f, g
    <3>3. Over(i, st, sp, q, g)  BY <1>1, <2>1, <2>4, <3>1, <3>2, OverWhen
    <3> QED  BY <3>3 DEF g
  <2>5. ASSUME <<q, m>> \in Got
        PROVE  Did(i, st, sp, q, "barrier", e) /\ <<p, m>> \in Gone
    <3>1. Over(i, st, sp, q, IRecv(p, "barrier", c))  BY <2>5 DEF FromBehind
    <3>2. /\ Did(i, st, sp, q, "barrier", IRecv(p, "barrier", c))
          /\ Did(i, st, sp, p, "barrier", ISend(q, "barrier", c))
      <4> HIDE DEF p
      <4> QED  BY <1>1, <2>3, <3>1, OverIsSent
    <3>3. ISend(q, "barrier", c) = ToAhead(S, c, p, m)  BY <2>3 DEF ToAhead
    <3>4. <<p, m>> \in Gone
      <4> HIDE DEF p
      <4> QED  BY <2>3, <3>2, <3>3
    <3> QED  BY <3>2, <3>4 DEF FromBehind
  <2>6. <<q, m>> \in Gone => Did(i, st, sp, q, "barrier", f)  OBVIOUS
  <2>7. Did(i, st, sp, q, "barrier", e) \/ Did(i, st, sp, q, "barrier", f) => q \in G
    OBVIOUS
  <2> HIDE DEF Got, Gone, e, f, B, p
  <2> QED  BY <2>4, <2>5, <2>6, <2>7 DEF p
<1>3. Rippling(S, Got, Gone, G)
  <2> HIDE DEF Got, Gone
  <2> QED  BY <1>2 DEF Rippling
<1>4. \A m \in Ms : <<r, m>> \in Got  BY <1>1
<1> HIDE DEF Got, Gone
<1> QED  BY <1>1, <1>3, <1>4, Ripples

Entered(st) == {q \in Process : st[q] \in {"barrier", "done"}}

NodeIn(i, st) == {q \in Process : NodeMembers(i.node, q) \subseteq Entered(st)}

\* Rank r has been through all rounds in communicator c.
Through(i, st, sp, r, c) ==
  LET S == Members(i.node, r, c)
  IN  \A m \in Masks(Cardinality(S)) : Over(i, st, sp, r, FromBehind(S, c, r, m))

LEMMA DidEntered ==
  ASSUME NEW i \in Input, NEW st, NEW sp, NEW req, Standing(i, st, sp, req),
         NEW q \in Process, NEW op, Did(i, st, sp, q, "barrier", op)
  PROVE  q \in Entered(st)
<1>1. st[q] \in Stage  BY DEF Standing, Control
<1>2. StageNo("barrier") < StageNo(st[q]) \/ st[q] = "barrier"  BY DEF Did
<1> QED  BY <1>1, <1>2 DEF Stage, StageNo, Entered

LEMMA OneCommunicator ==
  ASSUME NEW i \in Input, NEW st, NEW sp, NEW req, Standing(i, st, sp, req),
         NEW K, Delivery(i, DidOf(i, st, sp), WaitOf(i, st, sp, req), K),
         NEW r \in Process, NEW c \in {"world", "node", "roots"}, Uses(i.node, r, c),
         st[r] \in {"barrier", "done"}, Through(i, st, sp, r, c)
  PROVE  Members(i.node, r, c) \subseteq Entered(st)
<1> DEFINE S == Members(i.node, r, c)
           G == Entered(st)
<1>1. S \in SUBSET Process  BY MembersAre
<1>2. r \in G  BY DEF Entered
<1>3. \A q \in S : \A m \in Masks(Cardinality(S)) :
        \/ Did(i, st, sp, q, "barrier", FromBehind(S, c, q, m))
        \/ Did(i, st, sp, q, "barrier", ToAhead(S, c, q, m))
        => q \in G
  <2> HIDE DEF S, G
  <2> QED  BY <1>1, DidEntered DEF G
<1>4. \A m \in Masks(Cardinality(S)) : Over(i, st, sp, r, FromBehind(S, c, r, m))
  BY DEF Through
<1> HIDE DEF G
<1> QED  BY <1>2, <1>3, <1>4, CommRipples DEF G

\* A root that has started the rounds among the roots knows its machine.
LEMMA RootKnowsNode ==
  ASSUME NEW i \in Input, NEW st, NEW sp, NEW req, Standing(i, st, sp, req),
         NEW K, Delivery(i, DidOf(i, st, sp), WaitOf(i, st, sp, req), K),
         NEW q \in Process, Uses(i.node, q, "roots"),
         NEW op, op.context = "roots", Did(i, st, sp, q, "barrier", op)
  PROVE  q \in NodeIn(i, st)
<1> DEFINE S == Members(i.node, q, "node")
           B == Plan(i, q, "barrier")
<1>1. Uses(i.node, q, "node") /\ S = NodeMembers(i.node, q)  BY DEF Uses, Members
<1>2. B = Barrier(i.node, q)  BY BarrierPlan
<1>3. Has(B, op) /\ op # Wait  BY DEF Did, Planned
<1>4. ASSUME NEW m \in Masks(Cardinality(S))
      PROVE  Over(i, st, sp, q, FromBehind(S, "node", q, m))
  <2> DEFINE e == FromBehind(S, "node", q, m)
  <2>1. Has(B, e) /\ Earlier(B, e, op)
    BY <1>1, <1>2, <1>3, BarrierOrder
  <2>2. e.kind = "irecv"  BY OpFields DEF FromBehind
  <2> HIDE DEF e, B, S
  <2>3. Over(i, st, sp, q, e)  BY <2>1, <2>2, OverWhen DEF B
  <2> QED  BY <2>3 DEF e
<1>5. st[q] \in {"barrier", "done"}  BY DidEntered DEF Entered
<1>6. Through(i, st, sp, q, "node")
  BY <1>4 DEF Through
<1>7. S \subseteq Entered(st)  BY <1>1, <1>5, <1>6, OneCommunicator
<1> QED  BY <1>1, <1>7 DEF NodeIn

LEMMA NodeHasRoot ==
  ASSUME NEW node, NEW q \in Process
  PROVE  \E r \in NodeRoots(node) : q \in NodeMembers(node, r)
<1> DEFINE M == NodeMembers(node, q)
<1>1. M \subseteq Nat /\ M # {} /\ M \subseteq Process
  <2>1. q \in M /\ M \subseteq Process  BY DEF NodeMembers
  <2>2. Process \subseteq Nat  BY InputAssumption DEF Process
  <2> QED  BY <2>1, <2>2
<1>2. PICK r \in M : \A p \in M : r <= p
  <2> HIDE DEF M
  <2> QED  BY <1>1, LeastNumber
<1> QED  BY <1>2 DEF NodeMembers, NodeRoots

LEMMA RootTold ==
  ASSUME NEW i \in Input, NEW st, NEW sp, NEW req, Standing(i, st, sp, req),
         NEW K, Delivery(i, DidOf(i, st, sp), WaitOf(i, st, sp, req), K),
         NEW r \in Process, Uses(i.node, r, "roots"), st[r] \in {"barrier", "done"},
         Through(i, st, sp, r, "node"), Through(i, st, sp, r, "roots")
  PROVE  AllEntered(st)
<1> DEFINE S == Members(i.node, r, "roots")
           G == NodeIn(i, st)
<1>1. /\ S = NodeRoots(i.node) /\ S \in SUBSET Process /\ r \in S
      /\ \A q \in S : Uses(i.node, q, "roots")
  <2>1. S = NodeRoots(i.node)  BY DEF Members
  <2>2. S \in SUBSET Process /\ r \in S /\ \A q \in S : Uses(i.node, q, "roots")
    BY MembersAre
  <2> QED  BY <2>1, <2>2
<1>2. r \in G
  <2>1. Uses(i.node, r, "node") /\ Members(i.node, r, "node") = NodeMembers(i.node, r)
    BY DEF Uses, Members
  <2> QED  BY <2>1, OneCommunicator DEF NodeIn
<1>3. \A q \in S : \A m \in Masks(Cardinality(S)) :
        \/ Did(i, st, sp, q, "barrier", FromBehind(S, "roots", q, m))
        \/ Did(i, st, sp, q, "barrier", ToAhead(S, "roots", q, m))
        => q \in G
  <2>1. \A q, m : /\ FromBehind(S, "roots", q, m).context = "roots"
                  /\ ToAhead(S, "roots", q, m).context = "roots"
    BY OpFields DEF FromBehind, ToAhead
  <2> HIDE DEF S, G
  <2> QED  BY <1>1, <2>1, RootKnowsNode DEF G
<1>4. \A m \in Masks(Cardinality(S)) : Over(i, st, sp, r, FromBehind(S, "roots", r, m))
  BY DEF Through
<1>5. S \subseteq G
  <2> HIDE DEF G
  <2> QED  BY <1>2, <1>3, <1>4, CommRipples
<1>6. ASSUME NEW q \in Process PROVE q \in Entered(st)
  <2>1. PICK p \in NodeRoots(i.node) : q \in NodeMembers(i.node, p)  BY NodeHasRoot
  <2> QED  BY <1>1, <1>5, <2>1 DEF NodeIn
<1> QED  BY <1>6 DEF Entered, AllEntered

(***************************************************************************)
(* Who has come to the end of the barrier, or to the release of others,    *)
(* knows that all have entered it, or has noticed an error.                *)
(***************************************************************************)
AtRelease(i, st, sp, r) ==
  LET s == Plan(i, r, "barrier")
  IN  \/ sp[r] > Len(s)
      \/ sp[r] \in DOMAIN s /\ s[sp[r]].kind = "isend" /\ s[sp[r]].tag = "bcast"

LEMMA OverAtRelease ==
  ASSUME NEW i \in Input, NEW st, NEW sp, NEW req, Standing(i, st, sp, req),
         NEW r \in Process, st[r] = "barrier", AtRelease(i, st, sp, r),
         NEW e, e.kind = "irecv", Has(Plan(i, r, "barrier"), e),
         \A op : Has(Plan(i, r, "barrier"), op) /\ op.kind = "isend" /\ op.tag = "bcast"
           => Earlier(Plan(i, r, "barrier"), e, op)
  PROVE  Over(i, st, sp, r, e)
<1> DEFINE s == Plan(i, r, "barrier")
           n == sp[r]
<1>1. /\ Joins(i, r, "barrier") /\ Orderly(s) /\ DOMAIN s = 1 .. Len(s) /\ Len(s) \in Nat
  BY BarrierPlan, PlannedOperation
<1>2. CASE n > Len(s)
  <2>1. n \in Nat
    <3>1. sp[r] \in 1 .. Len(Plan(i, r, st[r])) + 1  BY DEF Standing, Control
    <3> QED  BY <1>1, <3>1
  <2>2. e # Wait /\ NeedsWait(e)  BY DEF Wait, NeedsWait
  <2> HIDE DEF s, n
  <2>3. Reached(s, n, e) /\ ~Open(s, n, e)
    BY <1>1, <1>2, <2>1, <2>2, AtTheEnds DEF s
  <2> QED  BY <1>1, <2>2, <2>3 DEF Over, Waited, Planned, s, n
<1>3. CASE n \in DOMAIN s /\ s[n].kind = "isend" /\ s[n].tag = "bcast"
  <2> DEFINE op == s[n]
  <2>1. Has(s, op) /\ op # Wait  BY <1>3 DEF Has, Wait
  <2>2. Earlier(s, e, op)  BY <1>3, <2>1
  <2> QED  BY <1>3, <2>1, <2>2, OverWhen
<1> QED  BY <1>2, <1>3 DEF AtRelease

LEMMA ThroughAtRelease ==
  ASSUME NEW i \in Input, NEW st, NEW sp, NEW req, Standing(i, st, sp, req),
         NEW r \in Process, st[r] = "barrier", AtRelease(i, st, sp, r),
         NEW c \in {"world", "node", "roots"}, Uses(i.node, r, c)
  PROVE  Through(i, st, sp, r, c)
<1> DEFINE S == Members(i.node, r, c)
           B == Plan(i, r, "barrier")
<1>1. ASSUME NEW m \in Masks(Cardinality(S))
      PROVE  Over(i, st, sp, r, FromBehind(S, c, r, m))
  <2> DEFINE e == FromBehind(S, c, r, m)
  <2>1. B = Barrier(i.node, r)  BY BarrierPlan
  <2>2. Has(B, e) /\ \A op : Has(B, op) /\ op.tag = "bcast" /\ op # Wait => Earlier(B, e, op)
    BY <2>1, BarrierOrder
  <2>3. \A op : op.kind = "isend" => op # Wait  BY DEF Wait
  <2>4. e.kind = "irecv"  BY OpFields DEF FromBehind
  <2> HIDE DEF e, B
  <2>5. Over(i, st, sp, r, e)  BY <2>2, <2>3, <2>4, OverAtRelease DEF B
  <2> QED  BY <2>5 DEF e
<1> QED  BY <1>1 DEF Through

LEMMA ReleaseOrder ==
  ASSUME NEW node, NEW r \in Process, NodeAware(node), RankIn(NodeMembers(node, r), r) > 0,
         NEW e, e = IRecv(Parent(NodeMembers(node, r), r), "bcast", "node")
  PROVE  /\ Has(Barrier(node, r), e)
         /\ \A op : Has(Barrier(node, r), op) /\ op.kind = "isend" /\ op.tag = "bcast"
              => Earlier(Barrier(node, r), e, op)
<1> DEFINE M == NodeMembers(node, r)
           R == NodeRoots(node)
           X == Dissemination(M, "node", r)
           Y == RootsOnly(node, r, Dissemination(R, "roots", r))
           Z == BinomialBcast(M, "node", r)
           B == Barrier(node, r)
<1>1. B = (X \o Y) \o Z  BY DEF Barrier
<1>2. M \in SUBSET Process /\ r \in M /\ R \in SUBSET Process
  BY DEF NodeMembers, NodeRoots
<1>3. X \in Seq(Operation) /\ \A op : Has(X, op) /\ op # Wait => op.tag = "barrier"
  <2>1. Orderly(X) /\ \A op : Has(X, op) /\ op # Wait <=> DissOp(M, "node", r, op)
    BY <1>2, DissSequence
  <2>2. \A op : DissOp(M, "node", r, op) => op.tag = "barrier"  BY <1>2, DissOpIs
  <2> QED  BY <2>1, <2>2 DEF Orderly
<1>4. Y \in Seq(Operation) /\ \A op : Has(Y, op) /\ op # Wait => op.tag = "barrier"
  <2>1. CASE r \in R
    <3>1. Y = Dissemination(R, "roots", r)  BY <2>1 DEF RootsOnly
    <3>2. Orderly(Y) /\ \A op : Has(Y, op) /\ op # Wait <=> DissOp(R, "roots", r, op)
      BY <1>2, <2>1, <3>1, DissSequence
    <3>3. \A op : DissOp(R, "roots", r, op) => op.tag = "barrier"  BY <1>2, <2>1, DissOpIs
    <3> QED  BY <3>2, <3>3 DEF Orderly
  <2>2. CASE r \notin R
    <3>1. Y = <<>>  BY <2>2 DEF RootsOnly
    <3> QED  BY <3>1, EmptyOrderly DEF Orderly
  <2> QED  BY <2>1, <2>2
<1>5. TreePart(M, "node", r, Z)  BY <1>2, BinomialIs
<1> HIDE DEF X, Y, Z, B
<1>6. /\ Z \in Seq(Operation) /\ Len(Z) >= 2 /\ Z[1] = e /\ Z[2] = Wait
      /\ DOMAIN Z = 1 .. Len(Z) /\ Len(Z) \in Nat
  BY <1>5 DEF TreePart
<1>7. e.kind = "irecv" /\ Wait.kind = "wait"  BY OpFields, KindsApart
<1>8. ASSUME NEW op, Has(Z, op), op.kind = "isend" PROVE Earlier(Z, e, op)
  <2>1. PICK k \in DOMAIN Z : Z[k] = op  BY <1>8 DEF Has
  <2>2. k # 1 /\ k # 2  BY <1>6, <1>7, <1>8, <2>1
  <2>3. 1 \in DOMAIN Z /\ 2 \in DOMAIN Z /\ 1 < 2 /\ 2 < k  BY <1>6, <2>2
  <2> QED  BY <1>6, <2>1, <2>3 DEF Earlier
<1>9. X \o Y \in Seq(Operation)  BY <1>3, <1>4, PartsOfJoin
<1>10. ASSUME NEW op, Has(B, op), op.kind = "isend", op.tag = "bcast" PROVE Earlier(B, e, op)
  <2>1. op # Wait  BY <1>7, <1>10
  <2>2. Has(Z, op)  BY <1>1, <1>3, <1>4, <1>6, <1>10, <2>1, ThreeParts
  <2>3. Earlier(Z, e, op)  BY <1>8, <1>10, <2>2
  <2> QED  BY <1>1, <1>6, <1>9, <2>3, EarlierJoined
<1>11. Has(B, e)
  <2>1. Has(Z, e)  BY <1>6 DEF Has
  <2> QED  BY <1>1, <1>3, <1>4, <1>6, <2>1, ThreeParts, ZenonT(40)
<1> QED  BY <1>10, <1>11 DEF B

LEMMA BarrierTold ==
  ASSUME NEW i \in Input, NEW st, NEW sp, NEW req, Standing(i, st, sp, req),
         NEW K, Delivery(i, DidOf(i, st, sp), WaitOf(i, st, sp, req), K),
         NEW r \in Process, st[r] = "barrier", AtRelease(i, st, sp, r),
         NEW m, NEW x, Remembers(i, AllEntered(st), r, st[r], sp[r], m, x)
  PROVE  x \/ AllEntered(st)
<1> DEFINE M == NodeMembers(i.node, r)
<1>1. CASE ~NodeAware(i.node)
  <2>1. Uses(i.node, r, "world") /\ Members(i.node, r, "world") = Process
    BY <1>1 DEF Uses, Members
  <2>2. Through(i, st, sp, r, "world")  BY <2>1, ThroughAtRelease
  <2>3. Process \subseteq Entered(st)  BY <2>1, <2>2, OneCommunicator
  <2> QED  BY <2>3 DEF Entered, AllEntered
<1>2. CASE NodeAware(i.node) /\ RankIn(M, r) = 0
  <2>1. M \in SUBSET Process /\ r \in M  BY DEF NodeMembers
  <2>2. r \in NodeRoots(i.node)
    <3>1. \A q \in M : r <= q  BY <1>2, <2>1, RankZero
    <3> QED  BY <3>1 DEF NodeRoots
  <2>3. Uses(i.node, r, "node") /\ Uses(i.node, r, "roots")  BY <1>2, <2>2 DEF Uses
  <2>4. Through(i, st, sp, r, "node") /\ Through(i, st, sp, r, "roots")
    BY <2>3, ThroughAtRelease
  <2> QED  BY <2>3, <2>4, RootTold
<1>3. CASE NodeAware(i.node) /\ RankIn(M, r) > 0
  <2> DEFINE e == IRecv(Parent(M, r), "bcast", "node")
  <2>1. /\ Has(Plan(i, r, "barrier"), e)
        /\ \A op : Has(Plan(i, r, "barrier"), op) /\ op.kind = "isend" /\ op.tag = "bcast"
             => Earlier(Plan(i, r, "barrier"), e, op)
    <3>1. Plan(i, r, "barrier") = Barrier(i.node, r)  BY BarrierPlan
    <3> QED  BY <1>3, <3>1, ReleaseOrder
  <2>2. e.kind = "irecv" /\ e.tag = "bcast"  BY OpFields
  <2> HIDE DEF e
  <2>3. Over(i, st, sp, r, e)  BY <2>1, <2>2, OverAtRelease
  <2>4. Absorbed(i, AllEntered(st), r, m, x, "barrier", e)  BY <2>3 DEF Over, Remembers
  <2> QED  BY <2>2, <2>4 DEF Absorbed
<1> QED
  <2>1. RankIn(M, r) \in Nat
    <3>1. M \in SUBSET Process /\ r \in M  BY DEF NodeMembers
    <3> QED  BY <3>1, RankBelowSize
  <2> QED  BY <1>1, <1>2, <1>3, <2>1

-----------------------------------------------------------------------------
(* The invariant of the communication, and the sends.                      *)

(* All that holds of one rank, apart from where it stands. *)
RankOK(i, all, r, a, n, rq, pq, m, x) ==
  /\ RequestsOK(i, all, r, a, n, rq) /\ PostedOK(i, r, a, n, pq)
  /\ Remembers(i, all, r, a, n, m, x)

LEMMA RankMore ==
  ASSUME NEW i, NEW all, NEW bll, all => bll, NEW r, NEW a, NEW n, NEW rq, NEW pq,
         NEW m, NEW x, RankOK(i, all, r, a, n, rq, pq, m, x)
  PROVE  RankOK(i, bll, r, a, n, rq, pq, m, x)
<1>1. ASSUME NEW op, NEW y, RecvOK(i, all, r, a, op, y) PROVE RecvOK(i, bll, r, a, op, y)
  BY <1>1, RightMore DEF RecvOK
<1>2. ASSUME NEW p, NEW y, SendOK(i, all, r, a, p, y) PROVE SendOK(i, bll, r, a, p, y)
  BY <1>2, RightMore DEF SendOK
<1>3. RequestsOK(i, bll, r, a, n, rq)  BY <1>1, <1>2 DEF RankOK, RequestsOK
<1>4. ASSUME NEW b, NEW op, Absorbed(i, all, r, m, x, b, op) PROVE Absorbed(i, bll, r, m, x, b, op)
  BY <1>4 DEF Absorbed
<1>5. Remembers(i, bll, r, a, n, m, x)  BY <1>4 DEF RankOK, Remembers
<1> QED  BY <1>3, <1>5 DEF RankOK

\* The sizes rank r has learned are those of the matrix, where it uses them.
LEMMA OperationsArePlan ==
  ASSUME input \in Input, NEW all, NEW r \in Process,
         Control(input, r, stage[r], step[r], request[r]),
         Remembers(input, all, r, stage[r], step[r], memory[r], errflag[r])
  PROVE  Operations(r) = Plan(input, r, stage[r])
<1> DEFINE a == stage[r]
<1>1. a \in Stage /\ step[r] \in Nat /\ Joins(input, r, a)
  <2>1. a \in Stage /\ Joins(input, r, a) /\ step[r] \in 1 .. Len(Plan(input, r, a)) + 1
    BY DEF Control
  <2>2. Len(Plan(input, r, a)) \in Nat  BY <2>1, PlannedOperation
  <2> QED  BY <2>1, <2>2
<1>2. CASE a = "chunk"
  <2>1. StageNo(a) > 2  BY <1>2 DEF StageNo
  <2>2. memory[r].rows = input.rows /\ memory[r].cols = input.cols
    BY <1>1, <2>1, KnowsSizes
  <2> QED  BY <1>2, <2>2 DEF Operations, Plan, SendCounts
<1>3. CASE a = "products"
  <2>1. StageNo(a) > 2  BY <1>3 DEF StageNo
  <2>2. memory[r].rows = input.rows /\ memory[r].cols = input.cols
    BY <1>1, <2>1, KnowsSizes
  <2>3. input.rows \in Nat /\ input.cols \in Nat \ {0}
    BY <1>1, <1>3, InputIs DEF Joins
  <2>4. \A p \in Process : RowCount(input.rows, input.cols, p) = RowsOf(input.rows, p)
    <3>1. Process \subseteq Nat  BY InputIs
    <3> QED  BY <2>3, <3>1, RowCountIs
  <2>5. RowCounts(r) = [p \in Process |-> RowsOf(input.rows, p)]
    BY <2>2, <2>4 DEF RowCounts
  <2> QED  BY <1>3, <2>5 DEF Operations, Plan
<1>4. CASE a \notin {"chunk", "products"}
  BY <1>1, <1>4 DEF Operations, Plan, Stage
<1> QED  BY <1>2, <1>3, <1>4

\* What a rank that sends has to send.
LEMMA SenderKnows ==
  ASSUME NEW i \in Input, NEW all, NEW r \in Process, NEW a \in Stage, Joins(i, r, a),
         NEW s, s = Plan(i, r, a), NEW n \in DOMAIN s, s[n].kind = "isend",
         NEW m, NEW x, Remembers(i, all, r, a, n, m, x)
  PROVE  /\ a = "rows" => m.rows = i.rows
         /\ a = "cols" => m.cols = i.cols
         /\ a = "vector" => m.vector = Vector(i)
         /\ a = "chunk" => r = 0 /\ m.rows = i.rows /\ m.cols = i.cols
         /\ a = "products" => m.products[r] = ProductsOf(i, r)
<1>1. CASE a \in {"rows", "cols", "vector"}
  <2>1. Orderly(s) /\ DOMAIN s = 1 .. Len(s) /\ Len(s) \in Nat  BY PlannedOperation
  <2>2. Relay(s, r)
    <3>1. s = Bcast(i.node, r)  BY <1>1, InputIs DEF Plan
    <3> QED  BY <3>1, BcastRelays
  <2>3. CASE r # 0
    <3>1. n > 2
      <4>1. s[1].kind = "irecv" /\ s[2] = Wait  BY <2>2, <2>3 DEF Relay
      <4>2. n # 1 /\ n # 2  BY <4>1 DEF Wait
      <4> QED  BY <2>1, <4>2
    <3>2. PICK op : Waited(i, r, a, n, a, op)  BY <1>1, <2>1, <2>3, <3>1, BcastDone
    <3>3. Absorbed(i, all, r, m, x, a, op)  BY <3>2 DEF Remembers
    <3> QED  BY <1>1, <3>3 DEF Absorbed
  <2>4. CASE r = 0
    <3>1. a = "vector" => StageNo(a) >= 3 /\ Joins(i, r, "chunk")  BY DEF StageNo, Joins
    <3>2. Own(i, r, a, m)  BY DEF Remembers
    <3> QED  BY <1>1, <2>4, <3>1, <3>2 DEF Own
  <2> QED  BY <2>3, <2>4
<1>2. CASE a = "chunk"
  <2>1. Planned(i, r, a, s[n])  BY DEF Planned, Has, Wait
  <2>2. ScatterOp(i, r, s[n])  BY <1>2, <2>1, PlannedIs
  <2>3. r = 0
    <3>1. s[n] # IRecv(0, "scatterv", "world")  BY OpFields
    <3> QED  BY <2>2, <3>1 DEF ScatterOp
  <2> QED  BY <1>2, <2>3 DEF Remembers, Own
<1>3. CASE a = "products"
  <2>1. StageNo(a) >= 5  BY <1>3 DEF StageNo
  <2> QED  BY <1>3, <2>1 DEF Remembers, Own
<1>4. CASE a \notin {"rows", "cols", "vector", "chunk", "products"}
  BY <1>4
<1> QED  BY <1>1, <1>2, <1>3, <1>4

LEMMA OutgoingIs ==
  ASSUME NEW all, NEW r \in Process, stage[r] \in Stage, input \in Input,
         Joins(input, r, stage[r]),
         NEW s, s = Plan(input, r, stage[r]), step[r] \in DOMAIN s,
         NEW d, NEW t, NEW c, s[step[r]] = ISend(d, t, c),
         Remembers(input, all, r, stage[r], step[r], memory[r], errflag[r])
  PROVE  /\ d \in Process /\ t \in OperationTag /\ c \in Communicator
         /\ Planned(input, r, stage[r], ISend(d, t, c))
         /\ Outgoing(r, d, t) = Content(input, r, d, stage[r], t)
<1> DEFINE a == stage[r]
           m == memory[r]
           op == ISend(d, t, c)
<1>1. Planned(input, r, a, op)  BY OpFields DEF Planned, Has, Wait
<1>2. op.kind = "isend" /\ op.peer = d /\ op.tag = t /\ op.context = c  BY OpFields
<1>3. /\ d \in Process /\ c \in Communicator /\ a \notin {"files", "done"}
      /\ a \in {"rows", "cols", "vector"} => t = "bcast"
      /\ a = "chunk" => t = "scatterv"
      /\ a = "products" => t = "gatherv"
      /\ a = "barrier" => t \in {"barrier", "bcast"}
  <2> HIDE DEF op
  <2> QED  BY <1>1, <1>2, PlannedIs DEF Communicator
<1>4. /\ a = "rows" => m.rows = input.rows
      /\ a = "cols" => m.cols = input.cols
      /\ a = "vector" => m.vector = Vector(input)
      /\ a = "chunk" => r = 0 /\ m.rows = input.rows /\ m.cols = input.cols
      /\ a = "products" => m.products[r] = ProductsOf(input, r)
  BY <1>2, SenderKnows
<1>5. t \in OperationTag  BY <1>3 DEF OperationTag, Stage
<1>6. Outgoing(r, d, t) = Content(input, r, d, a, t)
  <2>1. CASE a = "rows"  BY <1>3, <1>4, <2>1 DEF Outgoing, Content
  <2>2. CASE a = "cols"  BY <1>3, <1>4, <2>2 DEF Outgoing, Content
  <2>3. CASE a = "vector"  BY <1>3, <1>4, <2>3 DEF Outgoing, Content
  <2>4. CASE a = "chunk"  BY <1>3, <1>4, <2>4 DEF Outgoing, Content, ChunkOf
  <2>5. CASE a = "products"  BY <1>3, <1>4, <2>5 DEF Outgoing, Content
  <2>6. CASE a = "barrier"  BY <1>3, <2>6 DEF Outgoing, Content
  <2> QED  BY <1>3, <2>1, <2>2, <2>3, <2>4, <2>5, <2>6 DEF Stage
<1> QED  BY <1>1, <1>3, <1>5, <1>6

LEMMA MessageRight ==
  ASSUME input \in Input, Standing(input, stage, step, request),
         NEW K, Delivery(input, DidOf(input, stage, step),
                         WaitOf(input, stage, step, request), K),
         NEW r \in Process,
         NEW s, s = Plan(input, r, stage[r]), step[r] \in DOMAIN s,
         NEW d, NEW t, NEW c, s[step[r]] = ISend(d, t, c),
         Remembers(input, AllEntered(stage), r, stage[r], step[r], memory[r], errflag[r]),
         NEW m, m = Message(r, Outgoing(r, d, t), t)
  PROVE  /\ Right(input, AllEntered(stage), r, d, stage[r], t, m)
         /\ m.size <= EagerThreshold \/ stage[r] \in Large
<1> DEFINE a == stage[r]
           C == Content(input, r, d, a, t)
<1>1. a \in Stage /\ Joins(input, r, a)  BY DEF Standing, Control
<1>2. /\ d \in Process /\ t \in OperationTag
      /\ Outgoing(r, d, t) = C
      /\ Planned(input, r, a, ISend(d, t, c))
  BY <1>1, OutgoingIs
<1>3. /\ a \notin {"files", "done"}
      /\ a \in {"rows", "cols", "vector"} => t = "bcast"
      /\ a = "chunk" => t = "scatterv"
      /\ a = "products" => t = "gatherv"
      /\ a = "barrier" => t \in {"barrier", "bcast"}
  <2> DEFINE op == ISend(d, t, c)
  <2>1. op.tag = t /\ Planned(input, r, a, op)  BY <1>2, OpFields
  <2> HIDE DEF op
  <2> QED  BY <1>1, <1>2, <2>1, PlannedIs
<1>4. m = [data |-> C, error |-> errflag[r],
           size |-> IF a = "barrier" /\ t = "bcast" THEN 1 ELSE Len(C) * IntegerBytes]
  BY <1>2 DEF Message
<1>5. errflag[r] \in BOOLEAN /\ (errflag[r] => a = "barrier" /\ Split(input))
  BY DEF Remembers
<1>6. ASSUME a = "barrier", t = "bcast" PROVE errflag[r] \/ AllEntered(stage)
  <2>1. AtRelease(input, stage, step, r)  BY <1>6, OpFields DEF AtRelease
  <2> QED  BY <1>6, <2>1, BarrierTold
<1>7. Right(input, AllEntered(stage), r, d, a, t, m)
  <2> HIDE DEF a, C
  <2> QED  BY <1>4, <1>5, <1>6 DEF Right, C, a
<1>8. ASSUME a \notin Large PROVE m.size <= EagerThreshold
  <2>1. m.size = IF a = "barrier" /\ t = "bcast" THEN 1 ELSE Len(C) * 4
    BY <1>4 DEF IntegerBytes
  <2>2. EagerThreshold \in Nat /\ input.cols \in Nat /\ EagerThreshold >= 4 * input.cols + 4
    BY InputIs, InputAssumption
  <2>3. a = "vector" => Len(C) = input.cols  BY <2>2 DEF Content, Vector
  <2>4. a \in {"rows", "cols"} => Len(C) = 1  BY DEF Content
  <2>5. a = "barrier" /\ t = "barrier" => Len(C) = 0  BY DEF Content
  <2> HIDE DEF C
  <2>6. a \in {"rows", "cols", "vector", "barrier"}  BY <1>1, <1>3, <1>8 DEF Stage, Large
  <2>7. CASE a \in {"rows", "cols"}
    <3>1. a # "barrier" /\ Len(C) = 1  BY <2>4, <2>7
    <3>2. m.size = 4  BY <2>1, <3>1
    <3> QED  BY <2>2, <3>2
  <2>8. CASE a = "vector"  BY <2>1, <2>2, <2>3, <2>8
  <2>9. CASE a = "barrier"  BY <1>3, <2>1, <2>2, <2>5, <2>9
  <2> QED  BY <2>6, <2>7, <2>8, <2>9
<1> QED  BY <1>7, <1>8

\* What follows for a rank from starting an operation.
LEMMA RankStarts ==
  ASSUME NEW i \in Input, NEW all, NEW r \in Process, NEW a \in Stage,
         NEW s, s = Plan(i, r, a), NEW n \in DOMAIN s, s[n] # Wait,
         NEW pq, NEW m, NEW x, PostedOK(i, r, a, n, pq), Remembers(i, all, r, a, n, m, x)
  PROVE  PostedOK(i, r, a, n + 1, pq) /\ Remembers(i, all, r, a, n + 1, m, x)
<1>1. \A op : Open(s, n, op) => Open(s, n + 1, op)  BY WaitedSteps
<1>2. \A b, op : Waited(i, r, a, n + 1, b, op) => Waited(i, r, a, n, b, op)  BY WaitedSteps
<1>3. PostedOK(i, r, a, n + 1, pq)  BY <1>1 DEF PostedOK
<1>4. Remembers(i, all, r, a, n + 1, m, x)  BY <1>2 DEF Remembers
<1> QED  BY <1>3, <1>4

\* The request that rank s may keep for its message m to d, and the packet.
Handed(i, st, req, new, s, d, t, c, m, e) ==
  \/ new = req /\ e = Eager(EnvelopeOf(s, t, c), m)
  \/ /\ st[s] \in Large /\ req[s][<<"send", d>>] = None
     /\ Puts(req[s], new[s], <<"send", d>>, [state |-> "sending", payload |-> m])
     /\ Renewed(req, new, s, new[s])
     /\ e = ReadyToSend(EnvelopeOf(s, t, c), <<"send", d>>)

LEMMA SendKeeps ==
  ASSUME NEW i \in Input, NEW st, NEW sp, NEW req, Standing(i, st, sp, req),
         NEW Q, Flow(i, st, sp, req, Q), Sound(Q, req), NEW s \in Process,
         NEW p, p = Plan(i, s, st[s]), sp[s] \in DOMAIN p,
         NEW d \in Process, NEW t \in OperationTag, NEW c \in Communicator,
         p[sp[s]] = ISend(d, t, c),
         NEW m, Right(i, AllEntered(st), s, d, st[s], t, m), NEW tp, Further(sp, tp, s),
         NEW new, NEW e, Handed(i, st, req, new, s, d, t, c, m, e),
         NEW pq, NEW y, NEW x,
         RankOK(i, AllEntered(st), s, st[s], sp[s], req[s], pq, y, x),
         NEW R, Put(Q, R, Channel(s, d), e)
  PROVE  /\ Standing(i, st, tp, new) /\ Flow(i, st, tp, new, R)
         /\ RankOK(i, AllEntered(st), s, st[s], tp[s], new[s], pq, y, x)
<1> DEFINE n == sp[s]
           a == st[s]
           all == AllEntered(st)
           h == <<"send", d>>
<1>1. /\ a \in Stage /\ Joins(i, s, a) /\ Asked(p, n, req[s]) /\ RequestShape(req)
      /\ Orderly(p) /\ tp[s] = n + 1
  <2>1. a \in Stage /\ Joins(i, s, a) /\ Asked(p, n, req[s]) /\ RequestShape(req)
    BY DEF Standing, Control
  <2>2. Orderly(p)  BY <2>1, PlannedOperation
  <2>3. tp[s] = n + 1  BY DEF Further, Standing
  <2> QED  BY <2>1, <2>2, <2>3
<1>2. /\ p[n].kind = "isend" /\ p[n].peer = d /\ p[n].tag = t /\ p[n] # Wait
  BY OpFields DEF Wait
<1>3. a \in Large => NeedsWait(p[n])
  <2>1. Planned(i, s, a, p[n])  BY <1>1, <1>2 DEF Planned, Has
  <2>2. /\ a = "chunk" => p[n].tag = "scatterv"
        /\ a = "products" => p[n].tag = "gatherv"
    BY <1>1, <2>1, PlannedIs
  <2> QED  BY <1>2, <2>2 DEF NeedsWait, Large
<1>4. Asked(p, n + 1, new[s])
  <2>1. \/ new[s] = req[s]
        \/ \E z : NeedsWait(p[n]) /\ Puts(req[s], new[s], <<"send", p[n].peer>>, z)
    BY <1>2, <1>3 DEF Handed
  <2> QED  BY <1>1, <1>2, <2>1, AskSend
<1>5. Renewed(req, new, s, new[s])
  BY <1>1 DEF Handed, Renewed
<1>6. Standing(i, st, tp, new)
  BY <1>4, <1>5, StandStep
<1>7. \A q, r \in Process : new[q][<<"recv", r>>] = req[q][<<"recv", r>>]
  <2>1. ASSUME NEW r \in Process PROVE new[s][<<"recv", r>>] = req[s][<<"recv", r>>]
    BY HandlesAre DEF Handed, Puts
  <2> QED  BY <1>5, <2>1 DEF Renewed
<1>8. \A r \in Process : \/ new[s][<<"send", r>>] = req[s][<<"send", r>>]
                         \/ /\ r = d /\ req[s][h] = None /\ a \in Large
                            /\ new[s][h] = [state |-> "sending", payload |-> m]
  BY HandlesAre DEF Handed, Puts
<1>9. Kept(Q, st, st, req, new)
  <2>1. h \in Handle /\ Rank = Process  BY HandlesAre, InputIs
  <2>2. req[s][h] = None => SendFree(Q, <<s, h>>)
    <3>1. req[s][h] = None => req[s][h].state # "sending"  BY DEF None
    <3> QED  BY <2>1, <3>1, NotNamed
  <2>3. \A q \in Process \ {s} : new[q] = req[q]  BY <1>5 DEF Renewed
  <2>4. SendsKept(Q, req, new)  BY <1>8, <2>2, <2>3 DEF SendsKept
  <2> QED  BY <2>4 DEF Kept, StagesKept
<1>10. /\ AnnouncedOK(i, all, new, Channel(s, d), e, a)
       /\ e.envelope = EnvelopeOf(s, t, c) /\ Channel(s, d) \in Place
  <2>1. Channel(s, d)[3] = d  BY DEF Channel
  <2>2. Channel(s, d) \in Place  BY InputIs DEF Channel, Place
  <2>3. e.envelope = EnvelopeOf(s, t, c)  BY PacketTypes DEF Handed
  <2>4. CASE new = req /\ e = Eager(EnvelopeOf(s, t, c), m)
    BY <2>1, <2>2, <2>3, <2>4 DEF AnnouncedOK
  <2>5. CASE /\ a \in Large /\ e = ReadyToSend(EnvelopeOf(s, t, c), h)
             /\ new[s][h].payload = m
    BY <2>1, <2>2, <2>3, <2>5 DEF AnnouncedOK
  <2> QED  BY <2>4, <2>5 DEF Handed, Puts
<1>11. Flow(i, st, tp, new, R)
  <2> HIDE DEF h, n, a, all
  <2> QED  BY <1>6, <1>7, <1>9, <1>10, FlowSend DEF a, all
<1>12. RequestsOK(i, all, s, a, n + 1, new[s])
  <2>1. \A op : Open(p, n + 1, op) <=> Open(p, n, op) \/ op = p[n]
    BY <1>1, <1>2, StepsOn
  <2>2. ASSUME NEW op, Open(p, n + 1, op), op.kind = "irecv"
        PROVE  RecvOK(i, all, s, a, op, new[s][<<"recv", op.peer>>])
    <3>1. Open(p, n, op)  BY <1>2, <2>1, <2>2
    <3>2. op.peer \in Process  BY <3>1, OpenIs
    <3> QED  BY <1>7, <2>2, <3>1, <3>2 DEF RankOK, RequestsOK
  <2>3. ASSUME NEW q \in Process, new[s][<<"send", q>>] # None
        PROVE  SendOK(i, all, s, a, q, new[s][<<"send", q>>])
    <3>1. CASE new[s][<<"send", q>>] = req[s][<<"send", q>>]
      BY <2>3, <3>1 DEF RankOK, RequestsOK
    <3>2. CASE q = d /\ a \in Large /\ new[s][h] = [state |-> "sending", payload |-> m]
      <4>1. Right(i, all, s, d, a, "none", m)  BY <3>2, RightAnyTag
      <4> QED  BY <3>2, <4>1 DEF SendOK
    <3> QED  BY <1>8, <3>1, <3>2
  <2> QED  BY <2>2, <2>3 DEF RequestsOK
<1>13. PostedOK(i, s, a, n + 1, pq) /\ Remembers(i, all, s, a, n + 1, y, x)
  BY <1>1, <1>2, RankStarts DEF RankOK
<1> QED  BY <1>1, <1>6, <1>11, <1>12, <1>13 DEF RankOK

(* A packet or a queue's element joins, or leaves, the family.  *)
LEMMA JoinChannel ==
  ASSUME NEW c, NEW p, NEW u, Shaped(c, p, u), NEW s \in Rank, NEW d \in Rank, NEW x,
         NEW e, Enqueued(c, e, s, d, x)
  PROVE  Shaped(e, p, u) /\ Put(Family(c, p, u), Family(e, p, u), Channel(s, d), x)
<1> DEFINE Q == Family(c, p, u)
           q == Channel(s, d)
           y == Append(Q[q], x)
<1>1. q \in Place /\ Q[q] = c[s][d]  BY Parts
<1>2. SetAtTwo(c, e, s, d, y)  BY <1>1 DEF Shaped, Enqueued, SetAtTwo
<1> HIDE DEF y
<1>3. Shaped(e, p, u) /\ SetAt(Q, Family(e, p, u), q, y)  BY <1>2, ChangeChannel
<1> HIDE DEF Q, q
<1> QED  BY <1>3 DEF Put, SetAt, y, Q, q

LEMMA LeaveChannel ==
  ASSUME NEW c, NEW p, NEW u, Shaped(c, p, u), IsFamily(Family(c, p, u)),
         NEW s \in Rank, NEW d \in Rank, c[s][d] # <<>>, NEW e, Dequeued(c, e, s, d)
  PROVE  /\ Shaped(e, p, u) /\ Took(Family(c, p, u), Family(e, p, u), Channel(s, d), 1)
         /\ Channel(s, d) \in Place /\ 1 \in DOMAIN Family(c, p, u)[Channel(s, d)]
         /\ Family(c, p, u)[Channel(s, d)][1] = Head(c[s][d])
<1> DEFINE Q == Family(c, p, u)
           q == Channel(s, d)
           y == Without(Q[q], 1)
<1>1. q \in Place /\ Q[q] = c[s][d]  BY Parts
<1>2. \E S : Q[q] \in Seq(S)  BY <1>1 DEF IsFamily
<1>3. 1 \in DOMAIN Q[q] /\ Head(c[s][d]) = Q[q][1] /\ Tail(c[s][d]) = Without(Q[q], 1)
  BY <1>1, <1>2, HeadIsFirst
<1>4. SetAtTwo(c, e, s, d, y)  BY <1>3 DEF Shaped, Dequeued, SetAtTwo
<1> HIDE DEF y
<1>5. Shaped(e, p, u) /\ SetAt(Q, Family(e, p, u), q, y)  BY <1>4, ChangeChannel
<1> HIDE DEF Q, q
<1> QED  BY <1>1, <1>3, <1>5 DEF Took, SetAt, y, Q, q

LEMMA JoinQueue ==
  ASSUME NEW c, NEW p, NEW u, Shaped(c, p, u), NEW d \in Rank, NEW x, NEW e
  PROVE  /\ Joined(p, e, d, x) =>
              Shaped(c, e, u) /\ Put(Family(c, p, u), Family(c, e, u), Posted(d), x)
         /\ Joined(u, e, d, x) =>
              Shaped(c, p, e) /\ Put(Family(c, p, u), Family(c, p, e), Unexpected(d), x)
<1> DEFINE Q == Family(c, p, u)
<1>1. /\ Posted(d) \in Place /\ Q[Posted(d)] = p[d]
      /\ Unexpected(d) \in Place /\ Q[Unexpected(d)] = u[d]
  BY Parts
<1>2. ASSUME Joined(p, e, d, x)
      PROVE  Shaped(c, e, u) /\ Put(Q, Family(c, e, u), Posted(d), x)
  <2> DEFINE y == Append(Q[Posted(d)], x)
  <2>1. SetAt(p, e, d, y)  BY <1>1, <1>2 DEF Shaped, Joined, SetAt
  <2> HIDE DEF y
  <2>2. Shaped(c, e, u) /\ SetAt(Q, Family(c, e, u), Posted(d), y)  BY <2>1, ChangePosted
  <2> HIDE DEF Q
  <2> QED  BY <2>2 DEF Put, SetAt, y
<1>3. ASSUME Joined(u, e, d, x)
      PROVE  Shaped(c, p, e) /\ Put(Q, Family(c, p, e), Unexpected(d), x)
  <2> DEFINE y == Append(Q[Unexpected(d)], x)
  <2>1. SetAt(u, e, d, y)  BY <1>1, <1>3 DEF Shaped, Joined, SetAt
  <2> HIDE DEF y
  <2>2. Shaped(c, p, e) /\ SetAt(Q, Family(c, p, e), Unexpected(d), y)
    BY <2>1, ChangeUnexpected
  <2> HIDE DEF Q
  <2> QED  BY <2>2 DEF Put, SetAt, y
<1> QED  BY <1>2, <1>3

LEMMA LeaveQueue ==
  ASSUME NEW c, NEW p, NEW u, Shaped(c, p, u), NEW d \in Rank, NEW i, NEW e
  PROVE  /\ Found(p, e, d, i) =>
              Shaped(c, e, u) /\ Took(Family(c, p, u), Family(c, e, u), Posted(d), i)
         /\ Found(u, e, d, i) =>
              Shaped(c, p, e) /\ Took(Family(c, p, u), Family(c, p, e), Unexpected(d), i)
<1> DEFINE Q == Family(c, p, u)
<1>1. /\ Posted(d) \in Place /\ Q[Posted(d)] = p[d]
      /\ Unexpected(d) \in Place /\ Q[Unexpected(d)] = u[d]
  BY Parts
<1>2. ASSUME Found(p, e, d, i)
      PROVE  Shaped(c, e, u) /\ Took(Q, Family(c, e, u), Posted(d), i)
  <2> DEFINE y == Without(Q[Posted(d)], i)
  <2>1. SetAt(p, e, d, y)  BY <1>1, <1>2 DEF Shaped, Found, SetAt
  <2> HIDE DEF y
  <2>2. Shaped(c, e, u) /\ SetAt(Q, Family(c, e, u), Posted(d), y)  BY <2>1, ChangePosted
  <2> HIDE DEF Q
  <2> QED  BY <2>2 DEF Took, SetAt, y
<1>3. ASSUME Found(u, e, d, i)
      PROVE  Shaped(c, p, e) /\ Took(Q, Family(c, p, e), Unexpected(d), i)
  <2> DEFINE y == Without(Q[Unexpected(d)], i)
  <2>1. SetAt(u, e, d, y)  BY <1>1, <1>3 DEF Shaped, Found, SetAt
  <2> HIDE DEF y
  <2>2. Shaped(c, p, e) /\ SetAt(Q, Family(c, p, e), Unexpected(d), y)
    BY <2>1, ChangeUnexpected
  <2> HIDE DEF Q
  <2> QED  BY <2>2 DEF Took, SetAt, y
<1> QED  BY <1>2, <1>3

-----------------------------------------------------------------------------
(***************************************************************************)
(* Where the ranks stand and what is on its way between them, and what     *)
(* each rank holds.                                                        *)
(***************************************************************************)
FlowInv ==
  /\ Standing(input, stage, step, request)
  /\ Flow(input, stage, step, request, Family(channel, posted, unexpected))

HoldsOK(r) ==
  RankOK(input, AllEntered(stage), r, stage[r], step[r], request[r], posted[r],
         memory[r], errflag[r])

RanksInv == \A r \in Process : HoldsOK(r)

CommInv == HandshakeInv /\ FlowInv /\ RanksInv

LEMMA Basics ==
  ASSUME CommInv, NEW r \in Process
  PROVE  /\ input \in Input /\ Rank = Process
         /\ Operations(r) = Plan(input, r, stage[r])
         /\ stage[r] \in Stage /\ step[r] \in Nat /\ Joins(input, r, stage[r])
         /\ Orderly(Plan(input, r, stage[r])) /\ Asked(Plan(input, r, stage[r]), step[r], request[r])
         /\ Remembers(input, AllEntered(stage), r, stage[r], step[r], memory[r], errflag[r])
         /\ Shaped(channel, posted, unexpected)
         /\ Sound(Family(channel, posted, unexpected), request)
         /\ RequestShape(request)
<1>1. Control(input, r, stage[r], step[r], request[r])  BY DEF CommInv, FlowInv, Standing
<1>2. Remembers(input, AllEntered(stage), r, stage[r], step[r], memory[r], errflag[r])
  BY DEF CommInv, RanksInv, HoldsOK, RankOK
<1>3. input \in Input /\ Rank = Process  BY InputAssumption DEF CommInv, HandshakeInv
<1>4. Operations(r) = Plan(input, r, stage[r])  BY <1>1, <1>2, <1>3, OperationsArePlan
<1>5. stage[r] \in Stage /\ Joins(input, r, stage[r])
      /\ Asked(Plan(input, r, stage[r]), step[r], request[r])
      /\ step[r] \in 1 .. Len(Plan(input, r, stage[r])) + 1
  BY <1>1 DEF Control
<1>6. Orderly(Plan(input, r, stage[r])) /\ Len(Plan(input, r, stage[r])) \in Nat
  BY <1>3, <1>5, PlannedOperation
<1>7. step[r] \in Nat  BY <1>5, <1>6
<1> QED  BY <1>2, <1>3, <1>4, <1>5, <1>6, <1>7 DEF CommInv, HandshakeInv, Good

\* The other ranks hold what they held.
LEMMA OthersHold ==
  ASSUME CommInv, NEW r \in Process, input' = input,
         AllEntered(stage) => AllEntered(stage'),
         \A q \in Process \ {r} :
           /\ stage'[q] = stage[q] /\ step'[q] = step[q] /\ request'[q] = request[q]
           /\ posted'[q] = posted[q] /\ memory'[q] = memory[q] /\ errflag'[q] = errflag[q],
         HoldsOK(r)'
  PROVE  RanksInv'
<1>1. ASSUME NEW q \in Process, q # r PROVE HoldsOK(q)'
  <2> DEFINE all == AllEntered(stage)
             bll == AllEntered(stage')
  <2>1. RankOK(input, all, q, stage[q], step[q], request[q], posted[q], memory[q], errflag[q])
    BY DEF CommInv, RanksInv, HoldsOK
  <2> HIDE DEF all, bll
  <2>2. RankOK(input, bll, q, stage[q], step[q], request[q], posted[q], memory[q], errflag[q])
    BY <2>1, RankMore DEF all, bll
  <2> QED  BY <1>1, <2>2 DEF HoldsOK, bll
<1> QED  BY <1>1 DEF RanksInv

LEMMA IsendKeeps ==
  ASSUME CommInv, NEW r \in Process, Isend(r)
  PROVE  FlowInv' /\ RanksInv'
<1> DEFINE a == stage[r]
           s == Plan(input, r, a)
           n == step[r]
           op == s[n]
           d == op.peer
           t == op.tag
           c == op.context
           m == Message(r, Outgoing(r, d, t), t)
           Q == Family(channel, posted, unexpected)
           R == Family(channel', posted, unexpected)
<1>1. /\ input \in Input /\ Rank = Process /\ Operations(r) = s
      /\ a \in Stage /\ n \in Nat /\ Joins(input, r, a)
      /\ Remembers(input, AllEntered(stage), r, a, n, memory[r], errflag[r])
      /\ Shaped(channel, posted, unexpected) /\ Sound(Q, request) /\ RequestShape(request)
  BY Basics
<1>2. /\ n \in DOMAIN s /\ op.kind = "isend"
      /\ IF m.size <= EagerThreshold
         THEN SendEager(r, d, EnvelopeOf(r, t, c), m)
         ELSE SendRndv(r, d, <<"send", d>>, EnvelopeOf(r, t, c), m)
      /\ step' = [step EXCEPT ![r] = @ + 1]
      /\ UNCHANGED <<input, stage, errflag, memory>>
  BY <1>1 DEF Isend, InOperation, EnvelopeOf
<1>3. op = ISend(d, t, c)
  <2>1. Planned(input, r, a, op)  BY <1>1, <1>2 DEF Planned, Has, Wait
  <2> HIDE DEF op
  <2> QED  BY <1>1, <1>2, <2>1, PlannedIs
<1>4. d \in Process /\ t \in OperationTag /\ c \in Communicator
  <2> HIDE DEF op, d, t, c
  <2> QED  BY <1>1, <1>2, <1>3, OutgoingIs DEF op
<1>5. PICK L : Delivery(input, DidOf(input, stage, step),
                        WaitOf(input, stage, step, request), KeysIn(Q, L))
  BY DEF CommInv, FlowInv, Flow
<1>6. Standing(input, stage, step, request) /\ Flow(input, stage, step, request, Q)
  BY DEF CommInv, FlowInv
<1>7. Right(input, AllEntered(stage), r, d, a, t, m) /\ (m.size <= EagerThreshold \/ a \in Large)
  <2> HIDE DEF op, d, t, c, Q
  <2> QED  BY <1>1, <1>2, <1>3, <1>5, <1>6, MessageRight DEF op
<1>8. \E e : /\ Handed(input, stage, request, request', r, d, t, c, m, e)
             /\ Enqueued(channel, channel', r, d, e)
             /\ UNCHANGED <<posted, unexpected>>
  <2> HIDE DEF m, d, t, c
  <2>1. CASE m.size <= EagerThreshold
    <3>1. Enqueued(channel, channel', r, d, Eager(EnvelopeOf(r, t, c), m))
      BY <1>2, <2>1 DEF SendEager, Enqueued
    <3> QED  BY <1>2, <2>1, <3>1 DEF SendEager, Handed
  <2>2. CASE ~(m.size <= EagerThreshold)
    <3> DEFINE h == <<"send", d>>
               y == [state |-> "sending", payload |-> m]
    <3>1. SendRndv(r, d, h, EnvelopeOf(r, t, c), m) /\ a \in Large  BY <1>2, <1>7, <2>2
    <3>2. h \in Handle  BY <1>4, HandlesAre
    <3>3. request[r][h] = None /\ RequestSet(request, request', r, h, y)
      BY <3>1 DEF SendRndv, RequestSet
    <3>4. RequestShape(request') /\ ChangedOnly({<<r, h>>}, request, request') /\ request'[r][h] = y
      <4> HIDE DEF h, y
      <4> QED  BY <1>1, <3>2, <3>3, SetRequest
    <3>5. Puts(request[r], request'[r], h, y) /\ \A q \in Process \ {r} : request'[q] = request[q]
      <4>1. \A g \in Handle : g # h => request'[r][g] = request[r][g]
        BY <1>1, <3>4 DEF ChangedOnly
      <4>2. \A q \in Process \ {r} : request'[q] = request[q]
        BY <1>1, <3>3 DEF RequestShape, RequestSet
      <4> QED  BY <3>4, <4>1, <4>2 DEF Puts
    <3>6. Enqueued(channel, channel', r, d, ReadyToSend(EnvelopeOf(r, t, c), h))
      BY <3>1 DEF SendRndv, Enqueued
    <3> QED  BY <3>1, <3>3, <3>4, <3>5, <3>6 DEF Handed, Renewed, SendRndv
  <2> QED  BY <2>1, <2>2
<1>9. PICK e : /\ Handed(input, stage, request, request', r, d, t, c, m, e)
               /\ Enqueued(channel, channel', r, d, e)
               /\ UNCHANGED <<posted, unexpected>>
  BY <1>8
<1>10. Put(Q, R, Channel(r, d), e)
  <2> HIDE DEF d
  <2> QED  BY <1>1, <1>4, <1>9, JoinChannel
<1>11. Further(step, step', r)  BY <1>2 DEF Further
<1>12. RankOK(input, AllEntered(stage), r, a, n, request[r], posted[r], memory[r], errflag[r])
  BY DEF CommInv, RanksInv, HoldsOK
<1>13. /\ Standing(input, stage, step', request') /\ Flow(input, stage, step', request', R)
       /\ RankOK(input, AllEntered(stage), r, stage[r], step'[r], request'[r], posted[r],
                 memory[r], errflag[r])
  <2> DEFINE new == request'
             sp == step'
  <2>1. /\ n = step[r] /\ a = stage[r] /\ s = Plan(input, r, stage[r])
        /\ s[n] = ISend(d, t, c)
    BY <1>3
  <2>2. /\ Right(input, AllEntered(stage), r, d, stage[r], t, m)
        /\ Handed(input, stage, request, new, r, d, t, c, m, e) /\ Further(step, sp, r)
        /\ RankOK(input, AllEntered(stage), r, stage[r], step[r], request[r], posted[r],
                  memory[r], errflag[r])
    BY <1>7, <1>9, <1>11, <1>12
  <2> HIDE DEF op, d, t, c, m, Q, R, new, sp, s, n, a
  <2>3. s[step[r]] = ISend(d, t, c) /\ step[r] \in DOMAIN s  BY <1>2, <2>1
  <2>4. /\ Standing(input, stage, sp, new) /\ Flow(input, stage, sp, new, R)
        /\ RankOK(input, AllEntered(stage), r, stage[r], sp[r], new[r], posted[r],
                  memory[r], errflag[r])
    BY <1>1, <1>4, <1>6, <1>10, <2>1, <2>2, <2>3, SendKeeps
  <2> QED  BY <2>4 DEF new, sp
<1>14. FlowInv'  BY <1>2, <1>9, <1>13 DEF FlowInv
<1>15. HoldsOK(r)'
  BY <1>2, <1>9, <1>13 DEF HoldsOK
<1>16. RanksInv'
  <2>1. \A q \in Process \ {r} : request'[q] = request[q]
    BY <1>9 DEF Handed, Renewed
  <2>2. \A q \in Process \ {r} : step'[q] = step[q]  BY <1>2
  <2> QED  BY <1>2, <1>9, <1>15, <2>1, <2>2, OthersHold
<1> QED  BY <1>14, <1>16

-----------------------------------------------------------------------------
(* The receives, which find their message or are posted.                   *)

\* What a receive finds in the message it takes.
LEMMA TakenIs ==
  ASSUME NEW i, NEW all, NEW st, NEW req, NEW s \in Process, NEW d \in Process,
         NEW t, NEW c, NEW q, q[3] = d, NEW e, Announces(q, e),
         e.envelope.source = s, e.envelope.tag = t, e.envelope.context = c,
         ElementOK(i, all, st, req, q, e, Meant(i, s, d, st[d], t))
  PROVE  /\ e.type \in {"eager", "rts"}
         /\ e.type = "eager" => RecvOK(i, all, d, st[d], IRecv(s, t, c), Complete(e.payload))
         /\ e.type = "rts" =>
              LET f == ClearToSend(e.sender, <<"recv", s>>)
              IN  /\ ~Announces(Channel(d, s), f)
                  /\ \A a : ElementOK(i, all, st, req, Channel(d, s), f, a)
<1> DEFINE a == Meant(i, s, d, st[d], t)
<1>1. /\ e.type \in {"eager", "rts"}
      /\ e.type = "eager" => Right(i, all, s, d, a, t, e.payload)
      /\ e.type = "rts" => /\ e.sender = <<"send", d>> /\ a \in Large
                           /\ Right(i, all, s, d, a, t, req[s][<<"send", d>>].payload)
  <2> HIDE DEF a
  <2>1. ElementOK(i, all, st, req, q, e, a)  BY DEF a
  <2> QED  BY <2>1, ElementIs
<1>2. ASSUME e.type = "eager"
      PROVE  RecvOK(i, all, d, st[d], IRecv(s, t, c), Complete(e.payload))
  BY <1>1, <1>2, OpFields DEF RecvOK
<1>3. ASSUME e.type = "rts"
      PROVE  LET f == ClearToSend(e.sender, <<"recv", s>>)
             IN  /\ ~Announces(Channel(d, s), f)
                 /\ \A b : ElementOK(i, all, st, req, Channel(d, s), f, b)
  <2> DEFINE f == ClearToSend(e.sender, <<"recv", s>>)
             q2 == Channel(d, s)
             m == req[s][<<"send", d>>].payload
  <2>1. a = st[d] /\ a \in Large
    BY <1>1, <1>3 DEF Meant, Large
  <2>2. Right(i, all, s, d, st[d], "none", m)
    <3>1. Right(i, all, s, d, a, t, m)  BY <1>1, <1>3
    <3> HIDE DEF a, m
    <3> QED  BY <2>1, <3>1, RightAnyTag
  <2>3. q2[1] = "channel" /\ q2[2] = d /\ q2[3] = s  BY DEF Channel
  <2>4. f = ClearToSend(<<"send", d>>, <<"recv", s>>)  BY <1>1, <1>3
  <2>5. ClearOK(i, all, st, req, q2, f)  BY <2>1, <2>2, <2>3, <2>4 DEF ClearOK
  <2>6. ~Announces(q2, f)  BY <2>3, PacketTypes DEF Announces
  <2> QED  BY <2>5, <2>6 DEF ElementOK
<1> QED  BY <1>1, <1>2, <1>3

\* The request for a receive is made: what follows, wherever the message is.
Asks(i, st, sp, tp, req, new, d, s, t, c, x) ==
  /\ Standing(i, st, sp, req) /\ sp[d] \in DOMAIN Plan(i, d, st[d])
  /\ Plan(i, d, st[d])[sp[d]] = IRecv(s, t, c) /\ Further(sp, tp, d)
  /\ req[d][<<"recv", s>>] = None /\ x # None
  /\ Puts(req[d], new[d], <<"recv", s>>, x) /\ Renewed(req, new, d, new[d])

SendsSame(req, new) ==
  \A r, q \in Process : new[r][<<"send", q>>] = req[r][<<"send", q>>]

LEMMA ReceiveKept ==
  ASSUME NEW st, NEW req, NEW new, NEW d \in Process, NEW s, NEW x,
         Puts(req[d], new[d], <<"recv", s>>, x), Renewed(req, new, d, new[d]), NEW Q
  PROVE  SendsSame(req, new) /\ Kept(Q, st, st, req, new)
<1>1. ASSUME NEW q \in Process PROVE new[d][<<"send", q>>] = req[d][<<"send", q>>]
  BY HandlesAre DEF Puts
<1>2. SendsSame(req, new)
  BY <1>1 DEF Renewed, SendsSame
<1> QED  BY <1>2 DEF Kept, SendsKept, StagesKept, SendsSame

(* What rank d has begun with the receive op, whose request is x. *)
Begun(i, st, sp, tp, req, new, d, op, x) ==
  /\ Standing(i, st, sp, req) /\ Standing(i, st, tp, new)
  /\ Planned(i, d, st[d], op) /\ <<d, st[d], op>> \notin DidOf(i, st, sp)
  /\ DidOf(i, st, tp) = DidOf(i, st, sp) \union {<<d, st[d], op>>}
  /\ <<d, st[d], op>> \notin WaitOf(i, st, sp, req)
  /\ x.state = "posted" =>
       WaitOf(i, st, tp, new) = WaitOf(i, st, sp, req) \union {<<d, st[d], op>>}
  /\ x.state # "posted" => WaitOf(i, st, tp, new) = WaitOf(i, st, sp, req)

LEMMA AskedStands ==
  ASSUME NEW i \in Input, NEW st, NEW sp, NEW tp, NEW req, NEW new, NEW d \in Process,
         NEW s, NEW t, NEW c, NEW x, Asks(i, st, sp, tp, req, new, d, s, t, c, x),
         NEW op, op = IRecv(s, t, c)
  PROVE  s \in Process /\ Begun(i, st, sp, tp, req, new, d, op, x)
<1> DEFINE n == sp[d]
           a == st[d]
           p == Plan(i, d, a)
           h == <<"recv", op.peer>>
<1>1. /\ Standing(i, st, sp, req) /\ n \in DOMAIN p /\ op = p[n] /\ Further(sp, tp, d)
      /\ op.kind = "irecv" /\ op.peer = s /\ p[n].kind = "irecv" /\ p[n].peer = s
      /\ req[d][h] = None /\ x # None /\ Puts(req[d], new[d], h, x)
      /\ Renewed(req, new, d, new[d]) /\ op # Wait
  <2>1. op.kind = "irecv" /\ op.peer = s /\ op # Wait  BY OpFields DEF Wait
  <2> QED  BY <2>1 DEF Asks
<1>2. a \in Stage /\ Asked(p, n, req[d]) /\ Orderly(p)
  <2>1. a \in Stage /\ Asked(p, n, req[d])  BY <1>1 DEF Standing, Control
  <2> QED  BY <2>1, PlannedOperation
<1>3. Asked(p, n + 1, new[d])
  <2> HIDE DEF p, n, a, h
  <2>1. req[d][<<"recv", p[n].peer>>] = None /\ Puts(req[d], new[d], <<"recv", p[n].peer>>, x)
    BY <1>1 DEF h
  <2> QED  BY <1>1, <1>2, <2>1, AskReceive
<1>4. Standing(i, st, tp, new)
  BY <1>1, <1>3, StandStep
<1>5. /\ Planned(i, d, a, op) /\ <<d, a, op>> \notin DidOf(i, st, sp)
      /\ DidOf(i, st, tp) = DidOf(i, st, sp) \union {<<d, a, op>>}
  <2> QED  BY <1>1, DidStep
<1>6. /\ <<d, a, op>> \notin WaitOf(i, st, sp, req)
      /\ x.state = "posted" =>
           WaitOf(i, st, tp, new) = WaitOf(i, st, sp, req) \union {<<d, a, op>>}
      /\ x.state # "posted" => WaitOf(i, st, tp, new) = WaitOf(i, st, sp, req)
  <2> QED  BY <1>1, <1>4, WaitReceive DEF h
<1>7. s \in Process
  <2> QED  BY <1>1, <1>2, <1>5, PlannedIs
<1> QED  BY <1>1, <1>4, <1>5, <1>6, <1>7 DEF Begun

LEMMA AskedKeeps ==
  ASSUME NEW i \in Input, NEW st, NEW sp, NEW tp, NEW req, NEW new, NEW d \in Process,
         NEW s, NEW t, NEW c, NEW x, Asks(i, st, sp, tp, req, new, d, s, t, c, x),
         NEW all, RecvOK(i, all, d, st[d], IRecv(s, t, c), x),
         NEW pq, NEW y, NEW z, RankOK(i, all, d, st[d], sp[d], req[d], pq, y, z)
  PROVE  /\ RankOK(i, all, d, st[d], tp[d], new[d], pq, y, z)
         /\ Open(Plan(i, d, st[d]), tp[d], IRecv(s, t, c))
<1> DEFINE n == sp[d]
           a == st[d]
           p == Plan(i, d, a)
           op == IRecv(s, t, c)
           h == <<"recv", s>>
<1>1. /\ Standing(i, st, sp, req) /\ n \in DOMAIN p /\ p[n] = op /\ Further(sp, tp, d)
      /\ op.kind = "irecv" /\ op.peer = s /\ op # Wait
      /\ Puts(req[d], new[d], h, x) /\ Renewed(req, new, d, new[d])
      /\ req[d][h] = None
  <2>1. op.kind = "irecv" /\ op.peer = s /\ op # Wait  BY OpFields DEF Wait
  <2> QED  BY <2>1 DEF Asks
<1>2. a \in Stage /\ Orderly(p) /\ s \in Process /\ tp[d] = n + 1 /\ Asked(p, n, req[d])
  <2>1. a \in Stage /\ Asked(p, n, req[d])  BY <1>1 DEF Standing, Control
  <2>2. tp[d] = n + 1  BY <1>1 DEF Further, Standing
  <2>3. s \in Process  BY AskedStands
  <2> QED  BY <2>1, <2>2, <2>3, PlannedOperation
<1>3. \A r, q \in Process : new[r][<<"send", q>>] = req[r][<<"send", q>>]
  <2>1. SendsSame(req, new)  BY <1>1, ReceiveKept
  <2> QED  BY <2>1 DEF SendsSame
<1>5. \A e : Open(p, n + 1, e) <=> Open(p, n, e) \/ e = op
  <2> HIDE DEF op
  <2> QED  BY <1>1, <1>2, StepsOn
<1>6. RequestsOK(i, all, d, a, n + 1, new[d])
  <2>1. ASSUME NEW e, Open(p, n + 1, e), e.kind = "irecv"
        PROVE  RecvOK(i, all, d, a, e, new[d][<<"recv", e.peer>>])
    <3>1. CASE e = op  BY <1>1, <3>1 DEF Puts
    <3>2. CASE e # op
      <4>1. Open(p, n, e)  BY <1>5, <2>1, <3>2
      <4>2. e.peer \in Process  BY <1>1, <4>1, OpenIs
      <4>3. req[d][<<"recv", e.peer>>] # None  BY <1>2, <2>1, <4>1 DEF Asked
      <4>4. e.peer # s  BY <1>1, <4>3
      <4>5. new[d][<<"recv", e.peer>>] = req[d][<<"recv", e.peer>>]
        BY <1>1, <1>2, <4>2, <4>4, HandlesAre DEF Puts
      <4> QED  BY <2>1, <4>1, <4>5 DEF RankOK, RequestsOK
    <3> QED  BY <3>1, <3>2
  <2>2. ASSUME NEW q \in Process, new[d][<<"send", q>>] # None
        PROVE  SendOK(i, all, d, a, q, new[d][<<"send", q>>])
    BY <1>3, <2>2 DEF RankOK, RequestsOK
  <2> QED  BY <2>1, <2>2 DEF RequestsOK
<1>7. PostedOK(i, d, a, n + 1, pq) /\ Remembers(i, all, d, a, n + 1, y, z)
  <2>1. PostedOK(i, d, a, n, pq) /\ Remembers(i, all, d, a, n, y, z)  BY DEF RankOK
  <2> HIDE DEF op
  <2> QED  BY <1>1, <1>2, <2>1, RankStarts
<1> QED  BY <1>2, <1>5, <1>6, <1>7 DEF RankOK

\* The request x is posted: the queue pq becomes pr, with e for the receive op.
Posts(x, e, op, pq, pr) ==
  /\ x = [state |-> "posted"] /\ e = Entry(op) /\ pr = Append(pq, e)
  /\ \E S : pq \in Seq(S)

LEMMA PostKeeps ==
  ASSUME NEW i \in Input, NEW st, NEW sp, NEW tp, NEW req, NEW new, NEW d \in Process,
         NEW s, NEW t, NEW c, NEW x, Asks(i, st, sp, tp, req, new, d, s, t, c, x),
         NEW Q, Flow(i, st, sp, req, Q), Posted(d) \in Place,
         NEW e, NEW R, Put(Q, R, Posted(d), e),
         NEW pq, NEW pr, Posts(x, e, IRecv(s, t, c), pq, pr), NEW y, NEW z,
         RankOK(i, AllEntered(st), d, st[d], sp[d], req[d], pq, y, z)
  PROVE  /\ Standing(i, st, tp, new) /\ Flow(i, st, tp, new, R)
         /\ RankOK(i, AllEntered(st), d, st[d], tp[d], new[d], pr, y, z)
<1> DEFINE op == IRecv(s, t, c)
           a == st[d]
           all == AllEntered(st)
<1>1. /\ Standing(i, st, sp, req) /\ Standing(i, st, tp, new) /\ Planned(i, d, a, op)
      /\ <<d, a, op>> \notin DidOf(i, st, sp)
      /\ DidOf(i, st, tp) = DidOf(i, st, sp) \union {<<d, a, op>>}
      /\ WaitOf(i, st, tp, new) = WaitOf(i, st, sp, req) \union {<<d, a, op>>}
      /\ Kept(Q, st, st, req, new)
  <2>1. Standing(i, st, sp, req) /\ x.state = "posted"  BY DEF Asks, Posts
  <2>2. Kept(Q, st, st, req, new)
    <3>1. Puts(req[d], new[d], <<"recv", s>>, x) /\ Renewed(req, new, d, new[d])
      BY DEF Asks
    <3> QED  BY <3>1, ReceiveKept
  <2>3. op = IRecv(s, t, c)  OBVIOUS
  <2> HIDE DEF op
  <2>4. s \in Process /\ Begun(i, st, sp, tp, req, new, d, op, x)
    BY <2>3, AskedStands
  <2> QED  BY <2>1, <2>2, <2>4 DEF Begun
<1>2. Flow(i, st, tp, new, R)
  BY <1>1, FlowPost
<1>3. RecvOK(i, all, d, a, op, x)  BY DEF RecvOK, Posts
<1>4. /\ RankOK(i, all, d, a, tp[d], new[d], pq, y, z)
      /\ Open(Plan(i, d, a), tp[d], op)
  <2> HIDE DEF all
  <2>1. RankOK(i, all, d, st[d], sp[d], req[d], pq, y, z)  BY DEF all
  <2> QED  BY <1>3, <2>1, AskedKeeps
<1>5. PostedOK(i, d, a, tp[d], pr)
  <2>1. /\ DOMAIN pr = 1 .. Len(pq) + 1 /\ DOMAIN pq = 1 .. Len(pq)
        /\ \A k \in 1 .. Len(pq) : pr[k] = pq[k]
        /\ pr[Len(pq) + 1] = e
    BY AppendIs DEF Posts
  <2>2. op.kind = "irecv"  BY OpFields
  <2>3. ASSUME NEW k \in DOMAIN pr
        PROVE  \E o : Open(Plan(i, d, a), tp[d], o) /\ o.kind = "irecv" /\ pr[k] = Entry(o)
    <3>1. CASE k \in 1 .. Len(pq)  BY <1>4, <2>1, <3>1 DEF RankOK, PostedOK
    <3>2. CASE k = Len(pq) + 1  BY <1>4, <2>1, <2>2, <3>2 DEF Posts
    <3> QED  BY <2>1, <3>1, <3>2
  <2> QED  BY <2>3 DEF PostedOK
<1> QED  BY <1>1, <1>2, <1>4, <1>5 DEF RankOK

(* The message at place k of q fits the receive, and none before it does. *)
Oldest(Q, q, d, k, s, t, c) ==
  /\ q \in Place /\ q[3] = d /\ k \in DOMAIN Q[q] /\ Announces(q, Q[q][k])
  /\ Q[q][k].envelope.source = s /\ Q[q][k].envelope.tag = t
  /\ Q[q][k].envelope.context = c
  /\ \A p, j : Announced(Q, p, j) /\ SameStream(p, Q[p][j], q, Q[q][k]) => ~Before(p, j, q, k)

(* The message e is taken: it completes the receive, or is cleared to send. *)
Answers(e, Q, R, d, s, x) ==
  \/ e.type = "eager" /\ x = Complete(e.payload) /\ R = Q
  \/ /\ e.type = "rts" /\ x = Cleared
     /\ Put(Q, R, Channel(d, s), ClearToSend(e.sender, <<"recv", s>>))

LEMMA AnsweredFlow ==
  ASSUME NEW i, NEW st, NEW sp, NEW req, NEW Q, Flow(i, st, sp, req, Q),
         NEW s \in Process, NEW d \in Process, Channel(d, s) \in Place,
         NEW t, NEW c, NEW q, q[3] = d, NEW e, Announces(q, e),
         e.envelope.source = s, e.envelope.tag = t, e.envelope.context = c,
         ElementOK(i, AllEntered(st), st, req, q, e, Meant(i, s, d, st[d], t)),
         NEW R, NEW x, Answers(e, Q, R, d, s, x)
  PROVE  Flow(i, st, sp, req, R) /\ RecvOK(i, AllEntered(st), d, st[d], IRecv(s, t, c), x)
<1> DEFINE all == AllEntered(st)
           f == ClearToSend(e.sender, <<"recv", s>>)
<1>1. /\ e.type = "eager" => RecvOK(i, all, d, st[d], IRecv(s, t, c), Complete(e.payload))
      /\ e.type = "rts" => /\ ~Announces(Channel(d, s), f)
                           /\ \A a : ElementOK(i, all, st, req, Channel(d, s), f, a)
  <2> HIDE DEF all
  <2>1. ElementOK(i, all, st, req, q, e, Meant(i, s, d, st[d], t))  BY DEF all
  <2> QED  BY <2>1, TakenIs
<1>2. CASE e.type = "eager" /\ x = Complete(e.payload) /\ R = Q
  BY <1>1, <1>2
<1>3. CASE e.type = "rts" /\ x = Cleared /\ Put(Q, R, Channel(d, s), f)
  <2>1. RecvOK(i, all, d, st[d], IRecv(s, t, c), x)  BY <1>3 DEF RecvOK
  <2>2. Flow(i, st, sp, req, R)
    <3>1. ~Announces(Channel(d, s), f)  BY <1>1, <1>3
    <3>2. \A a : ElementOK(i, AllEntered(st), st, req, Channel(d, s), f, a)  BY <1>1, <1>3
    <3> HIDE DEF f
    <3> QED  BY <1>3, <3>1, <3>2, FlowPutOther
  <2> QED  BY <2>1, <2>2
<1> QED  BY <1>2, <1>3 DEF Answers

LEMMA TakeKeeps ==
  ASSUME NEW i \in Input, NEW st, NEW sp, NEW tp, NEW req, NEW new, NEW d \in Process,
         NEW s, NEW t, NEW c, NEW x, Asks(i, st, sp, tp, req, new, d, s, t, c, x),
         NEW Q, Flow(i, st, sp, req, Q), \A r \in Process : Channel(d, r) \in Place,
         NEW q, NEW k, Oldest(Q, q, d, k, s, t, c), NEW P, Took(Q, P, q, k),
         NEW R, Answers(Q[q][k], P, R, d, s, x),
         NEW pq, NEW y, NEW z,
         RankOK(i, AllEntered(st), d, st[d], sp[d], req[d], pq, y, z)
  PROVE  /\ Standing(i, st, tp, new) /\ Flow(i, st, tp, new, R)
         /\ RankOK(i, AllEntered(st), d, st[d], tp[d], new[d], pq, y, z)
<1> DEFINE op == IRecv(s, t, c)
           a == st[d]
           e == Q[q][k]
           D == DidOf(i, st, sp)
           W == WaitOf(i, st, sp, req)
<1>1. /\ Standing(i, st, sp, req) /\ Standing(i, st, tp, new) /\ Planned(i, d, a, op)
      /\ s \in Process /\ <<d, a, op>> \notin D
      /\ DidOf(i, st, tp) = D \union {<<d, a, op>>}
      /\ <<d, a, op>> \notin W
      /\ x.state # "posted" => WaitOf(i, st, tp, new) = W
      /\ Kept(Q, st, st, req, new)
  <2>1. Standing(i, st, sp, req)  BY DEF Asks
  <2>2. Kept(Q, st, st, req, new)
    <3>1. Puts(req[d], new[d], <<"recv", s>>, x) /\ Renewed(req, new, d, new[d])
      BY DEF Asks
    <3> QED  BY <3>1, ReceiveKept
  <2>3. op = IRecv(s, t, c)  OBVIOUS
  <2> HIDE DEF op
  <2>4. s \in Process /\ Begun(i, st, sp, tp, req, new, d, op, x)
    BY <2>3, AskedStands
  <2> QED  BY <2>1, <2>2, <2>4 DEF Begun
<1>2. WaitOf(i, st, tp, new) = W \ {<<d, a, op>>}
  <2>1. x.state # "posted"
    <3> HIDE DEF e
    <3>1. x = Cleared \/ \E m : x = Complete(m)  BY DEF Answers
    <3> QED  BY <3>1 DEF Complete, Cleared
  <2> HIDE DEF e, op, a, D, W
  <2>2. WaitOf(i, st, tp, new) = W /\ <<d, a, op>> \notin W  BY <1>1, <2>1
  <2> QED  BY <2>2
<1>3. /\ Flow(i, st, tp, new, P)
      /\ ElementOK(i, AllEntered(st), st, new, q, e, Meant(i, s, d, a, t))
  <2> HIDE DEF a, D, W
  <2>1. /\ q \in Place /\ q[3] = d /\ k \in DOMAIN Q[q] /\ Announces(q, Q[q][k])
        /\ Q[q][k].envelope.source = s /\ Q[q][k].envelope.tag = t
        /\ Q[q][k].envelope.context = c
        /\ \A p, j : Announced(Q, p, j) /\ SameStream(p, Q[p][j], q, Q[q][k])
                       => ~Before(p, j, q, k)
    BY DEF Oldest
  <2>2. /\ Planned(i, d, st[d], op) /\ <<d, st[d], op>> \notin DidOf(i, st, sp)
        /\ DidOf(i, st, tp) = DidOf(i, st, sp) \union {<<d, st[d], op>>}
        /\ WaitOf(i, st, tp, new) = WaitOf(i, st, sp, req) \ {<<d, st[d], op>>}
    BY <1>1, <1>2 DEF a, D, W
  <2> QED  BY <1>1, <2>1, <2>2, FlowTake DEF a
<1>4. Flow(i, st, tp, new, R) /\ RecvOK(i, AllEntered(st), d, a, op, x)
  <2>1. /\ q[3] = d /\ Announces(q, e) /\ e.envelope.source = s /\ e.envelope.tag = t
        /\ e.envelope.context = c
    BY DEF Oldest
  <2> HIDE DEF e, op
  <2>2. Answers(e, P, R, d, s, x)  BY DEF e
  <2> QED  BY <1>1, <1>3, <2>1, <2>2, AnsweredFlow DEF op
<1>5. RankOK(i, AllEntered(st), d, a, tp[d], new[d], pq, y, z)
  <2> DEFINE all == AllEntered(st)
  <2>1. RecvOK(i, all, d, a, op, x)  BY <1>4
  <2> HIDE DEF all
  <2>3. RankOK(i, all, d, st[d], sp[d], req[d], pq, y, z)  BY DEF all
  <2>2. RankOK(i, all, d, st[d], tp[d], new[d], pq, y, z)  BY <2>1, <2>3, AskedKeeps
  <2> QED  BY <2>2 DEF all, a
<1> QED  BY <1>1, <1>4, <1>5

LEMMA MatchMeans ==
  ASSUME NEW s \in Process, NEW t \in OperationTag, NEW c, NEW e
  PROVE  Matches(EnvelopeOf(s, t, c), e) <=> e.source = s /\ e.tag = t /\ e.context = c
<1>1. s # AnySource /\ t # AnyTag
  BY InputAssumption, WildcardAssumption DEF OperationTag
<1> QED  BY <1>1 DEF Matches, EnvelopeOf

LEMMA SetPuts ==
  ASSUME NEW req, RequestShape(req), NEW r \in Rank, NEW h \in Handle, NEW x, NEW new,
         RequestSet(req, new, r, h, x)
  PROVE  Puts(req[r], new[r], h, x) /\ Renewed(req, new, r, new[r])
<1>1. RequestShape(new) /\ ChangedOnly({<<r, h>>}, req, new) /\ new[r][h] = x
  BY SetRequest
<1>2. \A g \in Handle : g # h => new[r][g] = req[r][g]
  BY <1>1 DEF ChangedOnly
<1>3. \A q \in Process \ {r} : new[q] = req[q]
  BY InputAssumption DEF RequestShape, RequestSet
<1> QED  BY <1>1, <1>2, <1>3 DEF Puts, Renewed

\* The operation a rank starts.
LEMMA StartsPlanned ==
  ASSUME CommInv, NEW r \in Process, step[r] \in DOMAIN Operations(r),
         NEW op, op = Operations(r)[step[r]], op.kind # "wait"
  PROVE  /\ Planned(input, r, stage[r], op) /\ op.peer \in Process
         /\ op.tag \in OperationTag /\ op.context \in Communicator
         /\ op.kind = "irecv" => op = IRecv(op.peer, op.tag, op.context)
         /\ op.kind = "isend" => op = ISend(op.peer, op.tag, op.context)
<1>1. /\ input \in Input /\ Operations(r) = Plan(input, r, stage[r])
      /\ stage[r] \in Stage /\ Joins(input, r, stage[r])
  BY Basics
<1>2. Planned(input, r, stage[r], op)  BY <1>1 DEF Planned, Has, Wait
<1>3. op.tag \in OperationTag /\ op.context \in Communicator
  BY <1>1, <1>2, PlannedIs DEF OperationTag, Communicator, Stage
<1> QED  BY <1>1, <1>2, <1>3, PlannedIs

\* What a receive does to the queues and connections.
Receiving(r, s, t, c, x) ==
  \/ /\ x = [state |-> "posted"]
     /\ Joined(posted, posted', r, Entry(IRecv(s, t, c)))
     /\ UNCHANGED <<channel, unexpected>>
  \/ \E k \in DOMAIN unexpected[r] :
       LET e == unexpected[r][k] IN
       /\ IsFirstUnexpected(r, k, EnvelopeOf(s, t, c))
       /\ Found(unexpected, unexpected', r, k) /\ UNCHANGED posted
       /\ \/ e.type = "eager" /\ x = Complete(e.payload) /\ UNCHANGED channel
          \/ /\ e.type = "rts" /\ x = Cleared
             /\ Enqueued(channel, channel', r, s, ClearToSend(e.sender, <<"recv", s>>))

LEMMA ReceiveIs ==
  ASSUME NEW r \in Process, NEW s \in Process, NEW t \in OperationTag, NEW c,
         Receive(r, <<"recv", s>>, EnvelopeOf(s, t, c))
  PROVE  /\ request[r][<<"recv", s>>] = None
         /\ \E x : /\ RequestSet(request, request', r, <<"recv", s>>, x) /\ x # None
                   /\ Receiving(r, s, t, c, x)
<1> DEFINE h == <<"recv", s>>
           match == EnvelopeOf(s, t, c)
<1>1. CASE PostReceive(r, h, match)
  <2>1. Entry(IRecv(s, t, c)) = [match |-> match, handle |-> h]
    BY OpFields DEF Entry, EnvelopeOf
  <2>2. Joined(posted, posted', r, Entry(IRecv(s, t, c)))
    BY <1>1, <2>1 DEF PostReceive, Joined
  <2>3. RequestSet(request, request', r, h, [state |-> "posted"])
    BY <1>1 DEF PostReceive, RequestSet
  <2>4. [state |-> "posted"] # None  BY DEF None
  <2> QED  BY <1>1, <2>2, <2>3, <2>4 DEF PostReceive, Receiving, Receive
<1>2. CASE TakeUnexpected(r, h, match)
  <2>1. PICK k \in DOMAIN unexpected[r] :
          /\ IsFirstUnexpected(r, k, match)
          /\ unexpected' = [unexpected EXCEPT ![r] = Without(@, k)]
          /\ \/ /\ unexpected[r][k].type = "eager"
                /\ request' = [request EXCEPT ![r][h] = Complete(unexpected[r][k].payload)]
                /\ UNCHANGED channel
             \/ /\ unexpected[r][k].type = "rts"
                /\ request' = [request EXCEPT ![r][h] = Cleared]
                /\ channel' = [channel EXCEPT ![r][unexpected[r][k].envelope.source] =
                                 Append(@, ClearToSend(unexpected[r][k].sender, h))]
          /\ UNCHANGED posted
    BY <1>2 DEF TakeUnexpected
  <2> DEFINE e == unexpected[r][k]
  <2>2. Found(unexpected, unexpected', r, k)  BY <2>1 DEF Found
  <2>3. e.envelope.source = s
    <3>1. Matches(EnvelopeOf(s, t, c), e.envelope)  BY <2>1 DEF IsFirstUnexpected
    <3> HIDE DEF e
    <3> QED  BY <3>1, MatchMeans
  <2>4. CASE /\ e.type = "eager" /\ UNCHANGED channel
             /\ request' = [request EXCEPT ![r][h] = Complete(e.payload)]
    <3>1. RequestSet(request, request', r, h, Complete(e.payload))  BY <2>4 DEF RequestSet
    <3>2. Complete(e.payload) # None  BY DEF Complete, None
    <3>3. Receiving(r, s, t, c, Complete(e.payload))
      BY <2>1, <2>2, <2>4 DEF Receiving
    <3> QED  BY <3>1, <3>2, <3>3 DEF Receive
  <2>5. CASE /\ e.type = "rts"
             /\ request' = [request EXCEPT ![r][h] = Cleared]
             /\ channel' = [channel EXCEPT ![r][s] = Append(@, ClearToSend(e.sender, h))]
    <3>1. RequestSet(request, request', r, h, Cleared)  BY <2>5 DEF RequestSet
    <3>2. Cleared # None  BY DEF Cleared, None
    <3>3. Enqueued(channel, channel', r, s, ClearToSend(e.sender, h))  BY <2>5 DEF Enqueued
    <3>4. Receiving(r, s, t, c, Cleared)  BY <2>1, <2>2, <2>5, <3>3 DEF Receiving
    <3> QED  BY <3>1, <3>2, <3>4 DEF Receive
  <2> QED  BY <2>1, <2>3, <2>4, <2>5
<1> QED  BY <1>1, <1>2 DEF Receive

\* The first message of a queue that fits is the oldest one.
LEMMA FirstIsOldest ==
  ASSUME NEW r \in Process, NEW Q, Q = Family(channel, posted, unexpected),
         Shaped(channel, posted, unexpected), IsFamily(Q),
         NEW s \in Process, NEW t \in OperationTag, NEW c,
         NEW k, IsFirstUnexpected(r, k, EnvelopeOf(s, t, c))
  PROVE  Oldest(Q, Unexpected(r), r, k, s, t, c) /\ Q[Unexpected(r)][k] = unexpected[r][k]
<1> DEFINE q == Unexpected(r)
<1>1. q \in Place /\ Q[q] = unexpected[r]  BY InputAssumption, Parts
<1>2. \E S : Q[q] \in Seq(S)  BY <1>1 DEF IsFamily
<1>3. q[1] = "unexpected" /\ q[3] = r  BY DEF Unexpected
<1>4. /\ k \in DOMAIN Q[q] /\ Matches(EnvelopeOf(s, t, c), Q[q][k].envelope)
      /\ \A j \in 1 .. k - 1 : ~Matches(EnvelopeOf(s, t, c), Q[q][j].envelope)
  BY <1>1 DEF IsFirstUnexpected
<1>5. ASSUME NEW p, NEW j, Announced(Q, p, j), SameStream(p, Q[p][j], q, Q[q][k]),
             Before(p, j, q, k)
      PROVE  FALSE
  <2>1. p = q /\ j < k /\ j \in DOMAIN Q[q]  BY <1>3, <1>5 DEF Before, Announced
  <2>2. j \in 1 .. k - 1  BY <1>2, <1>4, <2>1
  <2>3. Q[q][j].envelope.source = s /\ Q[q][j].envelope.tag = t /\ Q[q][j].envelope.context = c
    BY <1>4, <1>5, <2>1, MatchMeans DEF SameStream
  <2> QED  BY <1>4, <2>2, <2>3, MatchMeans
<1> HIDE DEF q
<1>6. Oldest(Q, q, r, k, s, t, c)
  <2>1. Announces(q, Q[q][k])  BY <1>3 DEF Announces
  <2> QED  BY <1>1, <1>3, <1>4, <1>5, <2>1, MatchMeans DEF Oldest
<1> QED  BY <1>1, <1>6 DEF q

LEMMA IrecvKeeps ==
  ASSUME CommInv, NEW r \in Process, Irecv(r)
  PROVE  FlowInv' /\ RanksInv'
<1> DEFINE n == step[r]
           p == Plan(input, r, stage[r])
           op == p[n]
           s == op.peer
           t == op.tag
           c == op.context
           h == <<"recv", s>>
           Q == Family(channel, posted, unexpected)
           R == Family(channel', posted', unexpected')
           new == request'
           sp == step'
<1>1. /\ input \in Input /\ Rank = Process /\ Operations(r) = p
      /\ Shaped(channel, posted, unexpected) /\ Sound(Q, request) /\ RequestShape(request)
      /\ stage[r] \in Stage
  BY Basics
<1>2. /\ n \in DOMAIN p /\ op.kind = "irecv"
      /\ Receive(r, h, EnvelopeOf(s, t, c))
      /\ step' = [step EXCEPT ![r] = @ + 1]
      /\ UNCHANGED <<input, stage, errflag, memory>>
  BY <1>1 DEF Irecv, InOperation, EnvelopeOf
<1>3. op = IRecv(s, t, c) /\ s \in Process /\ t \in OperationTag /\ c \in Communicator
  <2>1. n \in DOMAIN Operations(r) /\ op = Operations(r)[n] /\ op.kind # "wait"
    BY <1>1, <1>2
  <2> HIDE DEF op
  <2> QED  BY <1>2, <2>1, StartsPlanned
<1>4. PICK x : /\ request[r][h] = None /\ RequestSet(request, new, r, h, x)
               /\ x # None /\ Receiving(r, s, t, c, x)
  <2> HIDE DEF s, t, c
  <2> QED  BY <1>2, <1>3, ReceiveIs
<1>5. Asks(input, stage, step, sp, request, new, r, s, t, c, x)
  <2>1. Puts(request[r], new[r], h, x) /\ Renewed(request, new, r, new[r])
    <3>1. h \in Handle  BY <1>3, HandlesAre
    <3> HIDE DEF h, new
    <3> QED  BY <1>1, <1>4, <3>1, SetPuts
  <2>2. Further(step, sp, r)  BY <1>2 DEF Further
  <2> QED  BY <1>2, <1>3, <1>4, <2>1, <2>2 DEF Asks, CommInv, FlowInv
<1>6. /\ Flow(input, stage, step, request, Q)
      /\ RankOK(input, AllEntered(stage), r, stage[r], step[r], request[r], posted[r],
                memory[r], errflag[r])
  BY DEF CommInv, FlowInv, RanksInv, HoldsOK
<1>7. /\ Unexpected(r) \in Place /\ Posted(r) \in Place
      /\ \A q \in Process : Channel(r, q) \in Place
      /\ Q[Posted(r)] = posted[r]
  BY <1>1, Parts
<1>8. /\ Standing(input, stage, sp, new) /\ Flow(input, stage, sp, new, R)
      /\ RankOK(input, AllEntered(stage), r, stage[r], sp[r], new[r], posted'[r],
                memory[r], errflag[r])
  <2>1. CASE /\ x = [state |-> "posted"]
             /\ Joined(posted, posted', r, Entry(IRecv(s, t, c)))
             /\ UNCHANGED <<channel, unexpected>>
    <3> DEFINE e == Entry(IRecv(s, t, c))
               pr == posted'[r]
    <3>1. Put(Q, R, Posted(r), e)
      <4> HIDE DEF e
      <4> QED  BY <1>1, <2>1, JoinQueue DEF e
    <3> DEFINE pq == posted[r]
    <3>2. Posts(x, e, IRecv(s, t, c), pq, pr)
      <4>1. \E S : pq \in Seq(S)  BY <1>1, <1>7 DEF Sound, IsFamily
      <4>2. pr = Append(pq, e)  BY <1>1, <2>1 DEF Joined, Shaped
      <4> QED  BY <2>1, <4>1, <4>2 DEF Posts
    <3>5. RankOK(input, AllEntered(stage), r, stage[r], step[r], request[r], pq,
                 memory[r], errflag[r])
      BY <1>6
    <3> HIDE DEF e, pr, R, Q, s, t, c, new, sp, pq
    <3>6. /\ Standing(input, stage, sp, new) /\ Flow(input, stage, sp, new, R)
          /\ RankOK(input, AllEntered(stage), r, stage[r], sp[r], new[r], pr,
                    memory[r], errflag[r])
      BY <1>1, <1>5, <1>6, <1>7, <3>1, <3>2, <3>5, PostKeeps
    <3> QED  BY <3>6 DEF pr
  <2>2. CASE \E k \in DOMAIN unexpected[r] :
               LET e == unexpected[r][k] IN
               /\ IsFirstUnexpected(r, k, EnvelopeOf(s, t, c))
               /\ Found(unexpected, unexpected', r, k) /\ UNCHANGED posted
               /\ \/ e.type = "eager" /\ x = Complete(e.payload) /\ UNCHANGED channel
                  \/ /\ e.type = "rts" /\ x = Cleared
                     /\ Enqueued(channel, channel', r, s, ClearToSend(e.sender, h))
    <3>1. PICK k \in DOMAIN unexpected[r] :
            LET e == unexpected[r][k] IN
            /\ IsFirstUnexpected(r, k, EnvelopeOf(s, t, c))
            /\ Found(unexpected, unexpected', r, k) /\ UNCHANGED posted
            /\ \/ e.type = "eager" /\ x = Complete(e.payload) /\ UNCHANGED channel
               \/ /\ e.type = "rts" /\ x = Cleared
                  /\ Enqueued(channel, channel', r, s, ClearToSend(e.sender, h))
      BY <2>2
    <3> DEFINE P == Family(channel, posted, unexpected')
               q == Unexpected(r)
               e == unexpected[r][k]
               f == ClearToSend(e.sender, h)
    <3>2. Oldest(Q, q, r, k, s, t, c) /\ Q[q][k] = e
      <4>1. Q = Family(channel, posted, unexpected) /\ IsFamily(Q)  BY <1>1 DEF Sound
      <4> HIDE DEF Q, s, t, c
      <4> QED  BY <1>1, <1>3, <3>1, <4>1, FirstIsOldest
    <3>3. Shaped(channel, posted, unexpected') /\ Took(Q, P, q, k)
      BY <1>1, <3>1, LeaveQueue
    <3>4. Answers(e, P, R, r, s, x)
      <4>1. CASE e.type = "eager" /\ x = Complete(e.payload) /\ UNCHANGED channel
        BY <3>1, <4>1 DEF Answers
      <4>2. CASE e.type = "rts" /\ x = Cleared /\ Enqueued(channel, channel', r, s, f)
        <5>1. Put(P, Family(channel', posted, unexpected'), Channel(r, s), f)
          <6> HIDE DEF f, s, P
          <6> QED  BY <1>1, <1>3, <3>3, <4>2, JoinChannel DEF P
        <5> QED  BY <3>1, <4>2, <5>1 DEF Answers
      <4> QED  BY <3>1, <4>1, <4>2
    <3> HIDE DEF e, P, R, Q, q, s, t, c, new, sp
    <3>5. Answers(Q[q][k], P, R, r, s, x)  BY <3>2, <3>4
    <3>6. /\ Standing(input, stage, sp, new) /\ Flow(input, stage, sp, new, R)
          /\ RankOK(input, AllEntered(stage), r, stage[r], sp[r], new[r], posted[r],
                    memory[r], errflag[r])
      BY <1>1, <1>5, <1>6, <1>7, <3>2, <3>3, <3>5, TakeKeeps
    <3> QED  BY <3>1, <3>6
  <2> QED  BY <1>4, <2>1, <2>2 DEF Receiving
<1>9. FlowInv'  BY <1>2, <1>8 DEF FlowInv
<1>10. HoldsOK(r)'  BY <1>2, <1>8 DEF HoldsOK
<1>11. RanksInv'
  <2>1. \A q \in Process \ {r} : request'[q] = request[q]  BY <1>5 DEF Asks, Renewed
  <2>2. \A q \in Process \ {r} : posted'[q] = posted[q]
    BY <1>1, <1>4 DEF Receiving, Joined, Shaped
  <2> QED  BY <1>2, <1>10, <2>1, <2>2, OthersHold
<1> QED  BY <1>9, <1>11

-----------------------------------------------------------------------------
(* The packets a rank handles while it waits.                              *)

(* The request of a receive that rank d has started becomes x. *)
LEMMA RenewOne ==
  ASSUME NEW i \in Input, NEW all, NEW st, NEW sp, NEW req, Standing(i, st, sp, req),
         NEW d \in Process, NEW op, op.kind = "irecv", Open(Plan(i, d, st[d]), sp[d], op),
         NEW x, RecvOK(i, all, d, st[d], op, x),
         NEW new, Puts(req[d], new[d], <<"recv", op.peer>>, x), Renewed(req, new, d, new[d]),
         RequestsOK(i, all, d, st[d], sp[d], req[d])
  PROVE  RequestsOK(i, all, d, st[d], sp[d], new[d])
<1> DEFINE p == Plan(i, d, st[d])
           n == sp[d]
<1>1. Asked(p, n, req[d])  BY DEF Standing, Control
<1>2. ASSUME NEW e, Open(p, n, e), e.kind = "irecv"
      PROVE  RecvOK(i, all, d, st[d], e, new[d][<<"recv", e.peer>>])
  <2>1. CASE e = op  BY <2>1 DEF Puts
  <2>2. CASE e # op
    <3>1. e.peer # op.peer  BY <1>1, <1>2, <2>2 DEF Asked
    <3>2. e.peer \in Process /\ op.peer \in Process  BY <1>2, OpenIs
    <3>3. new[d][<<"recv", e.peer>>] = req[d][<<"recv", e.peer>>]
      BY <3>1, <3>2, HandlesAre DEF Puts
    <3> QED  BY <1>2, <3>3 DEF RequestsOK
  <2> QED  BY <2>1, <2>2
<1>3. ASSUME NEW q \in Process, new[d][<<"send", q>>] # None
      PROVE  SendOK(i, all, d, st[d], q, new[d][<<"send", q>>])
  <2>1. SendsSame(req, new)  BY ReceiveKept
  <2>2. new[d][<<"send", q>>] = req[d][<<"send", q>>]  BY <2>1 DEF SendsSame
  <2> QED  BY <1>3, <2>2 DEF RequestsOK
<1> QED  BY <1>2, <1>3 DEF RequestsOK

\* A message for the posted receive is found, and its request becomes x.
Finds(i, st, sp, req, new, d, s, t, c, x) ==
  /\ Standing(i, st, sp, req) /\ Waiting(i, st, sp, req, d, IRecv(s, t, c))
  /\ x.state # "posted" /\ x # None
  /\ Puts(req[d], new[d], <<"recv", s>>, x) /\ Renewed(req, new, d, new[d])

LEMMA RenewedStands ==
  ASSUME NEW i \in Input, NEW st, NEW sp, NEW req, Standing(i, st, sp, req),
         NEW d \in Process, NEW h \in Handle, NEW x, x # None, req[d][h] # None, NEW new,
         Puts(req[d], new[d], h, x), Renewed(req, new, d, new[d])
  PROVE  Standing(i, st, sp, new)
<1>1. \A q \in Process, g \in Handle : new[q][g] = None <=> req[q][g] = None
  BY DEF Puts, Renewed
<1> QED  BY <1>1, StandSame DEF Renewed

\* The posted receive op has its message.
Answered(i, st, sp, req, new, d, op) ==
  /\ Standing(i, st, sp, new) /\ Planned(i, d, st[d], op)
  /\ <<d, st[d], op>> \in WaitOf(i, st, sp, req)
  /\ DidOf(i, st, sp) = DidOf(i, st, sp) \union {<<d, st[d], op>>}
  /\ WaitOf(i, st, sp, new) = WaitOf(i, st, sp, req) \ {<<d, st[d], op>>}

LEMMA FindStands ==
  ASSUME NEW i \in Input, NEW st, NEW sp, NEW req, NEW new, NEW d \in Process,
         NEW s, NEW t, NEW c, NEW x, Finds(i, st, sp, req, new, d, s, t, c, x),
         NEW op, op = IRecv(s, t, c)
  PROVE  s \in Process /\ Answered(i, st, sp, req, new, d, op)
<1>1. /\ Standing(i, st, sp, req) /\ Waiting(i, st, sp, req, d, op) /\ op.peer = s
      /\ x.state # "posted" /\ x # None /\ op.kind = "irecv"
      /\ Puts(req[d], new[d], <<"recv", op.peer>>, x) /\ Renewed(req, new, d, new[d])
  BY OpFields DEF Finds
<1>2. op.peer \in Process /\ Planned(i, d, st[d], op) /\ Did(i, st, sp, d, st[d], op)
  BY <1>1, OpenIs DEF Waiting
<1>3. Standing(i, st, sp, new)
  <2> DEFINE h == <<"recv", op.peer>>
  <2>1. h \in Handle  BY <1>2, HandlesAre
  <2>2. req[d][h] # None  BY <1>1 DEF Waiting, None
  <2> HIDE DEF h
  <2>3. Puts(req[d], new[d], h, x)  BY <1>1 DEF h
  <2> QED  BY <1>1, <2>1, <2>2, <2>3, RenewedStands
<1>4. /\ <<d, st[d], op>> \in WaitOf(i, st, sp, req)
      /\ WaitOf(i, st, sp, new) = WaitOf(i, st, sp, req) \ {<<d, st[d], op>>}
  BY <1>1, <1>3, WaitFound
<1>5. <<d, st[d], op>> \in DidOf(i, st, sp)
  <2>1. st[d] \in Stage  BY <1>1 DEF Standing, Control
  <2> QED  BY <1>2, <2>1, DidIs
<1>6. DidOf(i, st, sp) = DidOf(i, st, sp) \union {<<d, st[d], op>>}  BY <1>5
<1> QED  BY <1>1, <1>2, <1>3, <1>4, <1>6 DEF Answered

LEMMA FindKeeps ==
  ASSUME NEW i \in Input, NEW st, NEW sp, NEW req, NEW new, NEW d \in Process,
         NEW s, NEW t, NEW c, NEW x, Finds(i, st, sp, req, new, d, s, t, c, x),
         NEW Q, Flow(i, st, sp, req, Q), \A r \in Process : Channel(d, r) \in Place,
         NEW q, NEW k, Oldest(Q, q, d, k, s, t, c), NEW P, Took(Q, P, q, k),
         Posted(d) \in Place, NEW j, j \in DOMAIN P[Posted(d)],
         NEW O, Took(P, O, Posted(d), j),
         NEW R, Answers(Q[q][k], O, R, d, s, x),
         RequestsOK(i, AllEntered(st), d, st[d], sp[d], req[d])
  PROVE  /\ Standing(i, st, sp, new) /\ Flow(i, st, sp, new, R)
         /\ RequestsOK(i, AllEntered(st), d, st[d], sp[d], new[d])
<1> DEFINE op == IRecv(s, t, c)
           e == Q[q][k]
<1>1. /\ Standing(i, st, sp, new) /\ s \in Process
      /\ Planned(i, d, st[d], op) /\ <<d, st[d], op>> \in WaitOf(i, st, sp, req)
      /\ DidOf(i, st, sp) = DidOf(i, st, sp) \union {<<d, st[d], op>>}
      /\ WaitOf(i, st, sp, new) = WaitOf(i, st, sp, req) \ {<<d, st[d], op>>}
  <2>1. op = IRecv(s, t, c)  OBVIOUS
  <2> HIDE DEF op
  <2>2. s \in Process /\ Answered(i, st, sp, req, new, d, op)  BY <2>1, FindStands
  <2> QED  BY <2>2 DEF Answered
<1>2. /\ Standing(i, st, sp, req) /\ Waiting(i, st, sp, req, d, op)
      /\ Puts(req[d], new[d], <<"recv", s>>, x) /\ Renewed(req, new, d, new[d])
  BY DEF Finds
<1>3. Kept(Q, st, st, req, new)  BY <1>2, ReceiveKept
<1>4. /\ Flow(i, st, sp, new, P)
      /\ ElementOK(i, AllEntered(st), st, new, q, e, Meant(i, s, d, st[d], t))
  <2>1. /\ q \in Place /\ q[3] = d /\ k \in DOMAIN Q[q] /\ Announces(q, Q[q][k])
        /\ Q[q][k].envelope.source = s /\ Q[q][k].envelope.tag = t
        /\ Q[q][k].envelope.context = c
        /\ \A p, l : Announced(Q, p, l) /\ SameStream(p, Q[p][l], q, Q[q][k])
                       => ~Before(p, l, q, k)
    BY DEF Oldest
  <2> QED  BY <1>1, <1>2, <1>3, <2>1, FlowTake
<1>5. Flow(i, st, sp, new, O)
  <2> DEFINE p == Posted(d)
  <2>1. ~Announces(p, P[p][j])  BY DEF Posted, Announces
  <2> HIDE DEF p
  <2>2. p \in Place /\ j \in DOMAIN P[p] /\ Took(P, O, p, j)  BY DEF p
  <2> QED  BY <1>4, <2>1, <2>2, FlowTakeOther
<1>6. Flow(i, st, sp, new, R) /\ RecvOK(i, AllEntered(st), d, st[d], op, x)
  <2>1. /\ q[3] = d /\ Announces(q, e) /\ e.envelope.source = s /\ e.envelope.tag = t
        /\ e.envelope.context = c
    BY DEF Oldest
  <2> HIDE DEF e, op
  <2>2. Answers(e, O, R, d, s, x)  BY DEF e
  <2> QED  BY <1>1, <1>4, <1>5, <2>1, <2>2, AnsweredFlow DEF op
<1>7. RequestsOK(i, AllEntered(st), d, st[d], sp[d], new[d])
  <2> DEFINE all == AllEntered(st)
  <2>1. /\ RequestsOK(i, all, d, st[d], sp[d], req[d]) /\ RecvOK(i, all, d, st[d], op, x)
        /\ op.peer = s /\ op.kind = "irecv" /\ Open(Plan(i, d, st[d]), sp[d], op)
    BY <1>2, <1>6, OpFields DEF Waiting
  <2> HIDE DEF all, op
  <2>2. Puts(req[d], new[d], <<"recv", op.peer>>, x)  BY <1>2, <2>1
  <2>3. RequestsOK(i, all, d, st[d], sp[d], new[d])  BY <1>2, <2>1, <2>2, RenewOne
  <2> QED  BY <2>3 DEF all
<1> QED  BY <1>1, <1>6, <1>7

\* The packet rank r handles next.
LEMMA PacketIs ==
  ASSUME CommInv, NEW r \in Process, NEW s \in Process, channel[s][r] # <<>>,
         NEW e, e = Head(channel[s][r])
  PROVE  LET Q == Family(channel, posted, unexpected)
             q == Channel(s, r)
         IN  /\ q \in Place /\ 1 \in DOMAIN Q[q] /\ Q[q][1] = e
             /\ \E a : ElementOK(input, AllEntered(stage), stage, request, q, e, a)
             /\ Held(request, q, e)
             /\ e.type \in {"eager", "rts", "cts", "data"}
             /\ e.type \in {"eager", "rts"} <=> Announces(q, e)
             /\ Announces(q, e) =>
                  /\ e.envelope.source = s /\ e.envelope.tag \in OperationTag
                  /\ e.envelope.context \in Communicator
<1> DEFINE Q == Family(channel, posted, unexpected)
           q == Channel(s, r)
           all == AllEntered(stage)
<1>1. /\ input \in Input /\ Rank = Process /\ Sound(Q, request)
      /\ Shaped(channel, posted, unexpected)
  BY Basics
<1>2. q \in Place /\ 1 \in DOMAIN Q[q] /\ Q[q][1] = e
  <2>1. q \in Place /\ Q[q] = channel[s][r]  BY <1>1, Parts
  <2>2. \E S : Q[q] \in Seq(S)  BY <1>1, <2>1 DEF Sound, IsFamily
  <2> QED  BY <2>1, <2>2, HeadIsFirst
<1>3. PICK L : Tracked(Q, L) /\ Contents(input, all, stage, request, Q, L)
  BY DEF CommInv, FlowInv, Flow, Stream
<1>4. q[1] = "channel" /\ q[2] = s /\ q[3] = r  BY DEF Channel
<1>5. ElementOK(input, all, stage, request, q, e, L[q][1])  BY <1>2, <1>3 DEF Contents
<1>6. Held(request, q, e)  BY <1>1, <1>2 DEF Sound
<1>7. /\ e.type \in {"eager", "rts", "cts", "data"}
      /\ Announces(q, e) => /\ e.envelope.tag \in OperationTag
                            /\ e.envelope.context \in Communicator
  <2> DEFINE b == L[q][1]
  <2>1. ElementOK(input, all, stage, request, q, e, b)  BY <1>5
  <2> HIDE DEF q, all, b
  <2>2. q[1] = "channel" => e.type \in {"eager", "rts", "cts", "data"}  BY <2>1, ElementIs, ZenonT(40)
  <2>3. Announces(q, e) => /\ e.envelope.tag \in OperationTag
                           /\ e.envelope.context \in Communicator
    BY <2>1, ElementIs
  <2> QED  BY <1>4, <2>2, <2>3
<1>8. e.type \in {"eager", "rts"} <=> Announces(q, e)  BY <1>4 DEF Announces
<1>9. Announces(q, e) => e.envelope.source = s
  <2>1. Announces(q, e) => Announced(Q, q, 1)  BY <1>2 DEF Announced
  <2> QED  BY <1>2, <1>3, <1>4, <2>1 DEF Tracked, Sourced
<1> QED  BY <1>2, <1>5, <1>6, <1>7, <1>8, <1>9

\* A receive that waits in the queue of rank r.
LEMMA PostedIs ==
  ASSUME CommInv, NEW r \in Process, NEW k \in DOMAIN posted[r]
  PROVE  \E s \in Process, t \in OperationTag, c \in Communicator :
           /\ posted[r][k].match = EnvelopeOf(s, t, c)
           /\ posted[r][k].handle = <<"recv", s>>
           /\ Waiting(input, stage, step, request, r, IRecv(s, t, c))
<1> DEFINE Q == Family(channel, posted, unexpected)
           p == Plan(input, r, stage[r])
           e == posted[r][k]
<1>1. /\ input \in Input /\ Rank = Process /\ Sound(Q, request)
      /\ Shaped(channel, posted, unexpected) /\ stage[r] \in Stage
  BY Basics
<1>2. Standing(input, stage, step, request) /\ PostedOK(input, r, stage[r], step[r], posted[r])
  BY DEF CommInv, FlowInv, RanksInv, HoldsOK, RankOK
<1>3. PICK op : Open(p, step[r], op) /\ op.kind = "irecv" /\ e = Entry(op)
  BY <1>2 DEF PostedOK
<1>4. Planned(input, r, stage[r], op)  BY <1>1, <1>2, <1>3, OpenIs
<1>5. /\ op.peer \in Process /\ op.tag \in OperationTag /\ op.context \in Communicator
      /\ op = IRecv(op.peer, op.tag, op.context)
  BY <1>1, <1>3, <1>4, PlannedIs DEF OperationTag, Communicator, Stage
<1>6. e.match = EnvelopeOf(op.peer, op.tag, op.context) /\ e.handle = <<"recv", op.peer>>
  BY <1>3 DEF Entry, EnvelopeOf
<1>7. request[r][<<"recv", op.peer>>].state = "posted"
  <2>1. Posted(r) \in Place /\ Q[Posted(r)] = posted[r]  BY <1>1, Parts
  <2>2. Held(request, Posted(r), e)  BY <1>1, <2>1 DEF Sound
  <2> HIDE DEF e
  <2> QED  BY <1>1, <1>6, <2>2, HeldMeans, SMTT(20)
<1>8. Waiting(input, stage, step, request, r, op)  BY <1>3, <1>7 DEF Waiting
<1> QED  BY <1>5, <1>6, <1>8

\* What the handler of an announcement does when a receive is posted for it.
Answering(s, r, e, k, h, x, f) ==
  /\ IsFirstPosted(r, k, e.envelope) /\ posted[r][k].handle = h
  /\ Found(posted, posted', r, k) /\ UNCHANGED unexpected
  /\ Dequeued(channel, f, s, r)
  /\ RequestSet(request, request', r, h, x) /\ x # None /\ x.state # "posted"
  /\ \/ e.type = "eager" /\ x = Complete(e.payload) /\ channel' = f
     \/ /\ e.type = "rts" /\ x = Cleared
        /\ Enqueued(f, channel', r, s, ClearToSend(e.sender, h))

LEMMA MatchPostedIs ==
  ASSUME Shaped(channel, posted, unexpected),
         NEW s \in Rank, NEW r \in Rank, s # r, MatchPosted(s, r),
         NEW e, e = Head(channel[s][r])
  PROVE  \E k \in DOMAIN posted[r] : \E x, f : Answering(s, r, e, k, posted[r][k].handle, x, f)
<1>1. PICK k \in DOMAIN posted[r] :
        /\ IsFirstPosted(r, k, e.envelope)
        /\ posted' = [posted EXCEPT ![r] = Without(@, k)]
        /\ \/ /\ e.type = "eager"
              /\ request' = [request EXCEPT ![r][posted[r][k].handle] = Complete(e.payload)]
              /\ channel' = [channel EXCEPT ![s][r] = Tail(@)]
           \/ /\ e.type = "rts"
              /\ request' = [request EXCEPT ![r][posted[r][k].handle] = Cleared]
              /\ channel' = [channel EXCEPT ![s][r] = Tail(@),
                               ![r][s] = Append(@, ClearToSend(e.sender, posted[r][k].handle))]
        /\ UNCHANGED unexpected
  BY DEF MatchPosted
<1> DEFINE h == posted[r][k].handle
<1>2. Found(posted, posted', r, k)  BY <1>1 DEF Found
<1>3. CASE /\ e.type = "eager"
           /\ request' = [request EXCEPT ![r][h] = Complete(e.payload)]
           /\ channel' = [channel EXCEPT ![s][r] = Tail(@)]
  <2>1. RequestSet(request, request', r, h, Complete(e.payload))  BY <1>3 DEF RequestSet
  <2>2. Dequeued(channel, channel', s, r)  BY <1>3 DEF Dequeued
  <2>3. Complete(e.payload) # None /\ Complete(e.payload).state # "posted"
    BY DEF Complete, None
  <2>4. Answering(s, r, e, k, h, Complete(e.payload), channel')
    BY <1>1, <1>2, <1>3, <2>1, <2>2, <2>3 DEF Answering
  <2> QED  BY <2>4
<1>4. CASE /\ e.type = "rts"
           /\ request' = [request EXCEPT ![r][h] = Cleared]
           /\ channel' = [channel EXCEPT ![s][r] = Tail(@),
                            ![r][s] = Append(@, ClearToSend(e.sender, h))]
  <2>1. RequestSet(request, request', r, h, Cleared)  BY <1>4 DEF RequestSet
  <2>2. Cleared # None /\ Cleared.state # "posted"  BY DEF Cleared, None
  <2>3. PICK f : /\ Dequeued(channel, f, s, r)
                 /\ Enqueued(f, channel', r, s, ClearToSend(e.sender, h))
    BY <1>4, TwoConnections DEF Shaped
  <2>4. Answering(s, r, e, k, h, Cleared, f)
    BY <1>1, <1>2, <1>4, <2>1, <2>2, <2>3 DEF Answering
  <2> QED  BY <2>4
<1> QED  BY <1>1, <1>3, <1>4

\* Only the connections, the queues and the requests of rank r change.
OnlyQueues(r) ==
  /\ UNCHANGED <<input, stage, step, errflag, memory>>
  /\ \A q \in Process \ {r} : request'[q] = request[q] /\ posted'[q] = posted[q]

\* It suffices to look at the rank that handles the packet.
LEMMA ProgressFollows ==
  ASSUME CommInv, NEW r \in Process, OnlyQueues(r),
         Standing(input, stage, step, request'),
         Flow(input, stage, step, request', Family(channel', posted', unexpected')),
         RequestsOK(input, AllEntered(stage), r, stage[r], step[r], request'[r]),
         PostedOK(input, r, stage[r], step[r], posted'[r])
  PROVE  FlowInv' /\ RanksInv'
<1>1. FlowInv'  BY DEF OnlyQueues, FlowInv
<1>2. HoldsOK(r)'  BY DEF CommInv, RanksInv, HoldsOK, RankOK, OnlyQueues
<1>3. RanksInv'  BY <1>2, OthersHold DEF OnlyQueues
<1> QED  BY <1>1, <1>3

LEMMA HoldsNow ==
  ASSUME CommInv, NEW r \in Process
  PROVE  /\ Standing(input, stage, step, request)
         /\ Flow(input, stage, step, request, Family(channel, posted, unexpected))
         /\ RequestsOK(input, AllEntered(stage), r, stage[r], step[r], request[r])
         /\ PostedOK(input, r, stage[r], step[r], posted[r])
BY DEF CommInv, FlowInv, RanksInv, HoldsOK, RankOK

\* The packet is the oldest message the posted receive matches.
LEMMA PacketIsOldest ==
  ASSUME CommInv, QueuesInv, NEW r \in Process, NEW s \in Process, channel[s][r] # <<>>,
         NEW e, e = Head(channel[s][r]), e.type \in {"eager", "rts"},
         NEW k \in DOMAIN posted[r], Matches(posted[r][k].match, e.envelope),
         NEW o \in Process, NEW t \in OperationTag, NEW c,
         posted[r][k].match = EnvelopeOf(o, t, c),
         NEW Q, Q = Family(channel, posted, unexpected)
  PROVE  o = s /\ Oldest(Q, Channel(s, r), r, 1, s, t, c) /\ Q[Channel(s, r)][1] = e
<1> DEFINE q == Channel(s, r)
<1>1. /\ q \in Place /\ 1 \in DOMAIN Q[q] /\ Q[q][1] = e /\ Announces(q, e)
      /\ e.envelope.source = s
  BY PacketIs
<1>2. e.envelope.source = o /\ e.envelope.tag = t /\ e.envelope.context = c
  BY MatchMeans
<1>3. q[1] = "channel" /\ q[3] = r  BY DEF Channel
<1>4. /\ Unexpected(r) \in Place /\ Q[Unexpected(r)] = unexpected[r]
      /\ IsFamily(Q) /\ Rank = Process
  BY Basics, Parts DEF Sound
<1>5. ASSUME NEW p, NEW j, Announced(Q, p, j), SameStream(p, Q[p][j], q, Q[q][1]),
             Before(p, j, q, 1)
      PROVE  FALSE
  <2>1. CASE p[1] = "unexpected"
    <3>1. p = Unexpected(r)
      <4>1. p \in Place /\ p[3] = r  BY <1>3, <1>5 DEF Announced, SameStream
      <4> QED  BY <2>1, <4>1 DEF Place, Unexpected
    <3>2. j \in DOMAIN unexpected[r] /\ Q[p][j] = unexpected[r][j]
      BY <1>4, <1>5, <3>1 DEF Announced
    <3>3. unexpected[r][j].envelope.source = o /\ unexpected[r][j].envelope.tag = t
          /\ unexpected[r][j].envelope.context = c
      BY <1>1, <1>2, <1>5, <3>2 DEF SameStream
    <3>4. Matches(posted[r][k].match, unexpected[r][j].envelope)
      BY <3>3, MatchMeans
    <3> QED  BY <1>4, <3>2, <3>4 DEF QueuesInv, QueuesDisjoint
  <2>2. CASE p = q /\ j < 1
    <3>1. \E S : Q[q] \in Seq(S)  BY <1>1, <1>4 DEF IsFamily
    <3>2. j \in DOMAIN Q[q]  BY <1>5, <2>2 DEF Announced
    <3> QED  BY <2>2, <3>1, <3>2
  <2> QED  BY <1>5, <2>1, <2>2 DEF Before
<1> HIDE DEF q
<1>6. Oldest(Q, q, r, 1, s, t, c)
  BY <1>1, <1>2, <1>3, <1>5 DEF Oldest
<1> QED  BY <1>1, <1>2, <1>6 DEF q

LEMMA MatchPostedKeeps ==
  ASSUME CommInv, QueuesInv, NEW r \in Process, NEW s \in Process, s # r,
         channel[s][r] # <<>>, Head(channel[s][r]).type \in {"eager", "rts"},
         MatchPosted(s, r), UNCHANGED programVars
  PROVE  FlowInv' /\ RanksInv'
<1> DEFINE e == Head(channel[s][r])
           Q == Family(channel, posted, unexpected)
           R == Family(channel', posted', unexpected')
           new == request'
           q == Channel(s, r)
<1>1. /\ input \in Input /\ Rank = Process /\ Shaped(channel, posted, unexpected)
      /\ Sound(Q, request) /\ RequestShape(request)
  BY Basics
<1>a. PICK k \in DOMAIN posted[r] :
        \E x, f : Answering(s, r, e, k, posted[r][k].handle, x, f)
  BY <1>1, MatchPostedIs
<1>2. PICK x, f : Answering(s, r, e, k, posted[r][k].handle, x, f)
  BY <1>a
<1>3. PICK o \in Process, t \in OperationTag, c \in Communicator :
        /\ posted[r][k].match = EnvelopeOf(o, t, c) /\ posted[r][k].handle = <<"recv", o>>
        /\ Waiting(input, stage, step, request, r, IRecv(o, t, c))
  BY PostedIs
<1>4. o = s /\ Oldest(Q, q, r, 1, s, t, c) /\ Q[q][1] = e
  <2>1. Matches(posted[r][k].match, e.envelope)  BY <1>2 DEF Answering, IsFirstPosted
  <2>2. e = Head(channel[s][r]) /\ Q = Family(channel, posted, unexpected)  OBVIOUS
  <2> HIDE DEF e, Q
  <2> QED  BY <1>3, <2>1, <2>2, PacketIsOldest
<1> DEFINE h == <<"recv", s>>
<1>5. Answering(s, r, e, k, h, x, f) /\ Waiting(input, stage, step, request, r, IRecv(s, t, c))
  BY <1>2, <1>3, <1>4
<1>6. Puts(request[r], new[r], h, x) /\ Renewed(request, new, r, new[r])
  <2>1. h \in Handle  BY HandlesAre
  <2> HIDE DEF h, new
  <2>2. RequestSet(request, new, r, h, x)  BY <1>5 DEF Answering, new
  <2> QED  BY <1>1, <2>1, <2>2, SetPuts
<1>7. Finds(input, stage, step, request, new, r, s, t, c, x)
  BY <1>5, <1>6, HoldsNow DEF Finds, Answering
<1> DEFINE P == Family(f, posted, unexpected)
           O == Family(f, posted', unexpected)
<1>8. Shaped(f, posted, unexpected) /\ Took(Q, P, q, 1)
  BY <1>1, <1>5, LeaveChannel DEF Sound, Answering
<1>9. /\ Shaped(f, posted', unexpected) /\ Took(P, O, Posted(r), k)
      /\ k \in DOMAIN P[Posted(r)]
  <2>1. P[Posted(r)] = posted[r]  BY <1>1, <1>8, Parts
  <2> QED  BY <1>1, <1>5, <1>8, <2>1, LeaveQueue DEF Answering
<1>10. Answers(e, O, R, r, s, x)
  <2>1. CASE e.type = "eager" /\ x = Complete(e.payload) /\ channel' = f
    BY <1>5, <2>1 DEF Answers, Answering
  <2>2. CASE /\ e.type = "rts" /\ x = Cleared
             /\ Enqueued(f, channel', r, s, ClearToSend(e.sender, h))
    <3> DEFINE y == ClearToSend(e.sender, h)
    <3>1. Put(O, Family(channel', posted', unexpected), Channel(r, s), y)
      <4> HIDE DEF y, O
      <4> QED  BY <1>1, <1>9, <2>2, JoinChannel DEF O, y
    <3> QED  BY <1>5, <2>2, <3>1 DEF Answers, Answering
  <2> QED  BY <1>5, <2>1, <2>2 DEF Answering
<1>11. /\ Standing(input, stage, step, new) /\ Flow(input, stage, step, new, R)
       /\ RequestsOK(input, AllEntered(stage), r, stage[r], step[r], new[r])
  <2>1. Posted(r) \in Place /\ \A p \in Process : Channel(r, p) \in Place
    BY <1>1, Parts
  <2>2. Answers(Q[q][1], O, R, r, s, x)  BY <1>4, <1>10
  <2>3. /\ Flow(input, stage, step, request, Q)
        /\ RequestsOK(input, AllEntered(stage), r, stage[r], step[r], request[r])
    BY HoldsNow
  <2>4. Oldest(Q, q, r, 1, s, t, c)  BY <1>4
  <2> HIDE DEF e, P, O, R, Q, q, new
  <2> QED  BY <1>1, <1>7, <1>8, <1>9, <2>1, <2>2, <2>3, <2>4, FindKeeps
<1>12. PostedOK(input, r, stage[r], step[r], posted'[r])
  <2>1. posted'[r] = Without(posted[r], k)  BY <1>1, <1>5 DEF Answering, Found, Shaped
  <2>2. \E S : posted[r] \in Seq(S)  BY <1>1 DEF QueuesInv, IsQueues
  <2>3. \A j \in DOMAIN posted'[r] : \E l \in DOMAIN posted[r] : posted'[r][j] = posted[r][l]
    BY <2>1, <2>2, WithoutShrinks
  <2> QED  BY <2>3, HoldsNow DEF PostedOK
<1>13. OnlyQueues(r)
  <2>1. \A p \in Process \ {r} : request'[p] = request[p]  BY <1>6 DEF Renewed
  <2>2. \A p \in Process \ {r} : posted'[p] = posted[p]
    BY <1>1, <1>5 DEF Answering, Found, Shaped
  <2> QED  BY <2>1, <2>2 DEF OnlyQueues, programVars
<1> QED  BY <1>11, <1>12, <1>13, ProgressFollows

\* A message nobody waits for goes to the queue of unexpected ones.
LEMMA QueueKeeps ==
  ASSUME CommInv, NEW r \in Process, NEW s \in Process,
         channel[s][r] # <<>>, Head(channel[s][r]).type \in {"eager", "rts"},
         QueueUnexpected(s, r), UNCHANGED programVars
  PROVE  FlowInv' /\ RanksInv'
<1> DEFINE e == Head(channel[s][r])
           Q == Family(channel, posted, unexpected)
           P == Family(channel', posted, unexpected)
           R == Family(channel', posted, unexpected')
           q == Channel(s, r)
<1>1. /\ input \in Input /\ Rank = Process /\ Shaped(channel, posted, unexpected)
      /\ Sound(Q, request)
  BY Basics
<1>2. /\ Dequeued(channel, channel', s, r) /\ Joined(unexpected, unexpected', r, e)
      /\ UNCHANGED <<posted, request>>
  BY DEF QueueUnexpected, Dequeued, Joined
<1>3. /\ Shaped(channel', posted, unexpected) /\ Took(Q, P, q, 1)
      /\ q \in Place /\ 1 \in DOMAIN Q[q] /\ Q[q][1] = e
  BY <1>1, <1>2, LeaveChannel DEF Sound
<1>4. Put(P, R, Unexpected(r), e)
  <2> HIDE DEF e
  <2> QED  BY <1>1, <1>2, <1>3, JoinQueue
<1>5. Announces(q, e)  BY <1>1, <1>2, PacketIs
<1>6. Flow(input, stage, step, request, R)
  <2>1. Flow(input, stage, step, request, Q) /\ Unexpected(r) \in Place
    BY <1>1, HoldsNow, Parts
  <2>2. /\ Announces(Channel(s, r), Q[Channel(s, r)][1]) /\ 1 \in DOMAIN Q[Channel(s, r)]
        /\ Channel(s, r) \in Place /\ Took(Q, P, Channel(s, r), 1)
        /\ Put(P, R, Unexpected(r), Q[Channel(s, r)][1])
    BY <1>3, <1>4, <1>5
  <2> HIDE DEF Q, P, R
  <2> QED  BY <1>1, <2>1, <2>2, FlowMove
<1>7. OnlyQueues(r)  BY <1>2 DEF OnlyQueues, programVars
<1>8. /\ Standing(input, stage, step, request') /\ Flow(input, stage, step, request', Family(channel', posted', unexpected'))
      /\ RequestsOK(input, AllEntered(stage), r, stage[r], step[r], request'[r])
      /\ PostedOK(input, r, stage[r], step[r], posted'[r])
  BY <1>2, <1>6, HoldsNow
<1> QED  BY <1>7, <1>8, ProgressFollows

\* A request that waits in no queue changes to another that waits in none.
LEMMA NoneWaits ==
  ASSUME NEW i \in Input, NEW st, NEW sp, NEW req, Standing(i, st, sp, req),
         NEW d \in Process, NEW h \in Handle, NEW x, x # None, x.state # "posted",
         req[d][h] # None, req[d][h].state # "posted",
         NEW new, Puts(req[d], new[d], h, x), Renewed(req, new, d, new[d])
  PROVE  /\ Standing(i, st, sp, new)
         /\ WaitOf(i, st, sp, new) = WaitOf(i, st, sp, req)
<1>1. Standing(i, st, sp, new)  BY RenewedStands
<1>2. ASSUME NEW q \in Process, NEW e
      PROVE  Waiting(i, st, sp, new, q, e) <=> Waiting(i, st, sp, req, q, e)
  <2>1. CASE q # d
    <3>1. new[q] = req[q]  BY <2>1 DEF Renewed
    <3> QED  BY <3>1 DEF Waiting
  <2>2. CASE q = d
    <3>1. ASSUME Open(Plan(i, d, st[d]), sp[d], e)
          PROVE  new[d][<<"recv", e.peer>>].state = "posted"
                   <=> req[d][<<"recv", e.peer>>].state = "posted"
      <4>1. e.peer \in Process  BY <3>1, OpenIs
      <4>2. <<"recv", e.peer>> \in Handle  BY <4>1, HandlesAre
      <4> QED  BY <4>2 DEF Puts
    <3> QED  BY <2>2, <3>1 DEF Waiting
  <2> QED  BY <2>1, <2>2
<1>3. WaitOf(i, st, sp, new) = WaitOf(i, st, sp, req)
  BY <1>1, <1>2, SameWaits
<1> QED  BY <1>1, <1>3

\* What a clear-to-send, or the data, makes of a request of rank r.
LEMMA SendRenewed ==
  ASSUME NEW i \in Input, NEW all, NEW st, NEW sp, NEW req, Standing(i, st, sp, req),
         NEW r \in Process, NEW p \in Process, req[r][<<"send", p>>].state = "sending",
         RequestsOK(i, all, r, st[r], sp[r], req[r]),
         NEW new, NEW x, x = [req[r][<<"send", p>>] EXCEPT !.state = "complete"],
         Puts(req[r], new[r], <<"send", p>>, x), Renewed(req, new, r, new[r])
  PROVE  /\ RequestsOK(i, all, r, st[r], sp[r], new[r])
         /\ x # None /\ x.state = "complete" /\ x.payload = req[r][<<"send", p>>].payload
<1> DEFINE h == <<"send", p>>
<1>1. h \in Handle  BY HandlesAre
<1>2. req[r][h] # None  BY DEF None
<1>3. SendOK(i, all, r, st[r], p, req[r][h])  BY <1>2 DEF RequestsOK
<1>4. PICK m, v : /\ req[r][h] = [state |-> v, payload |-> m] /\ v \in {"sending", "complete"}
                  /\ st[r] \in Large /\ Right(i, all, r, p, st[r], "none", m)
  BY <1>3 DEF SendOK
<1>5. x = [state |-> "complete", payload |-> m]  BY <1>4
<1>6. x # None /\ x.state = "complete" /\ x.payload = req[r][h].payload
  BY <1>4, <1>5 DEF None
<1>7. SendOK(i, all, r, st[r], p, x)
  <2>1. x = [state |-> "complete", payload |-> m] /\ "complete" \in {"sending", "complete"}
    BY <1>5
  <2> QED  BY <1>4, <2>1 DEF SendOK
<1>8. \A q \in Process : new[r][<<"recv", q>>] = req[r][<<"recv", q>>]
  BY HandlesAre DEF Puts
<1>9. \A q \in Process : q # p => new[r][<<"send", q>>] = req[r][<<"send", q>>]
  BY HandlesAre DEF Puts
<1>10. new[r][h] = x  BY DEF Puts
<1>11. ASSUME NEW op, Open(Plan(i, r, st[r]), sp[r], op), op.kind = "irecv"
       PROVE  RecvOK(i, all, r, st[r], op, new[r][<<"recv", op.peer>>])
  <2>1. op.peer \in Process  BY <1>11, OpenIs
  <2>2. RecvOK(i, all, r, st[r], op, req[r][<<"recv", op.peer>>])
    BY <1>11 DEF RequestsOK
  <2> QED  BY <1>8, <2>1, <2>2
<1>12. ASSUME NEW q \in Process, new[r][<<"send", q>>] # None
       PROVE  SendOK(i, all, r, st[r], q, new[r][<<"send", q>>])
  <2>1. CASE q = p  BY <1>7, <1>10, <2>1
  <2>2. CASE q # p
    <3>1. req[r][<<"send", q>>] # None  BY <1>9, <1>12, <2>2
    <3>2. SendOK(i, all, r, st[r], q, req[r][<<"send", q>>])  BY <3>1 DEF RequestsOK
    <3> QED  BY <1>9, <2>2, <3>2
  <2> QED  BY <2>1, <2>2
<1>13. RequestsOK(i, all, r, st[r], sp[r], new[r])  BY <1>11, <1>12 DEF RequestsOK
<1> QED  BY <1>6, <1>13

LEMMA ClearKeeps ==
  ASSUME CommInv, NEW r \in Process, NEW s \in Process, s # r,
         HandleClearToSend(s, r), UNCHANGED programVars
  PROVE  FlowInv' /\ RanksInv'
<1> DEFINE e == Head(channel[s][r])
           Q == Family(channel, posted, unexpected)
           R == Family(channel', posted, unexpected)
           q == Channel(s, r)
           h == <<"send", s>>
           x == [request[r][h] EXCEPT !.state = "complete"]
           new == request'
           d == RndvData(e.receiver, request[r][e.sender].payload)
<1>1. /\ input \in Input /\ Rank = Process /\ Shaped(channel, posted, unexpected)
      /\ Sound(Q, request) /\ RequestShape(request)
  BY Basics
<1>2. /\ channel[s][r] # <<>> /\ e.type = "cts" /\ UNCHANGED <<posted, unexpected>>
  BY DEF HandleClearToSend, Arrived
<1>3. /\ q \in Place /\ 1 \in DOMAIN Q[q] /\ Q[q][1] = e /\ ~Announces(q, e)
      /\ \E a : ElementOK(input, AllEntered(stage), stage, request, q, e, a)
      /\ Held(request, q, e)
  BY <1>2, PacketIs
<1>4. ClearOK(input, AllEntered(stage), stage, request, q, e)
  <2>1. q[1] = "channel"  BY DEF Channel
  <2> DEFINE all == AllEntered(stage)
  <2>2. PICK a : ElementOK(input, all, stage, request, q, e, a)  BY <1>3
  <2>3. ClearOK(input, all, stage, request, q, e)
    <3>1. e.type = "cts"  BY <1>2
    <3> HIDE DEF e, q, all
    <3> QED  BY <2>1, <2>2, <3>1, ElementIs
  <2> QED  BY <2>3
<1>5. /\ e.sender = h /\ e.receiver = <<"recv", r>> /\ stage[s] \in Large
      /\ Right(input, AllEntered(stage), r, s, stage[s], "none", request[r][h].payload)
  BY <1>4, PacketTypes DEF ClearOK, Channel
<1>6. request[r][h].state = "sending"
  <2>1. Held(request, Channel(s, r), e) /\ e.type = "cts" /\ e.sender = h
    BY <1>2, <1>3, <1>5
  <2>2. request[r][e.sender].state = "sending"
    <3> HIDE DEF e, h
    <3> QED  BY <1>1, <2>1, HeldMeans
  <2> HIDE DEF e, h
  <2> QED  BY <2>1, <2>2
<1>7. Puts(request[r], new[r], h, x) /\ Renewed(request, new, r, new[r])
  <2>1. new = [request EXCEPT ![r][h].state = "complete"]
    BY <1>5 DEF HandleClearToSend
  <2>2. RequestSet(request, new, r, h, x)  BY <2>1 DEF RequestSet
  <2>3. h \in Handle  BY HandlesAre
  <2> HIDE DEF h, x, new
  <2> QED  BY <1>1, <2>2, <2>3, SetPuts
<1>8. /\ RequestsOK(input, AllEntered(stage), r, stage[r], step[r], new[r])
      /\ x # None /\ x.state = "complete" /\ x.payload = request[r][h].payload
  <2> DEFINE all == AllEntered(stage)
  <2>1. RequestsOK(input, all, r, stage[r], step[r], request[r])
        /\ Standing(input, stage, step, request)
    BY HoldsNow
  <2>2. x = [request[r][<<"send", s>>] EXCEPT !.state = "complete"]  OBVIOUS
  <2> HIDE DEF x, new, all
  <2>3. RequestsOK(input, all, r, stage[r], step[r], new[r])
        /\ x # None /\ x.state = "complete" /\ x.payload = request[r][h].payload
    BY <1>1, <1>6, <1>7, <2>1, <2>2, SendRenewed
  <2> QED  BY <2>3 DEF all
<1>9. Standing(input, stage, step, new) /\ WaitOf(input, stage, step, new) = WaitOf(input, stage, step, request)
  <2>1. request[r][h] # None /\ request[r][h].state # "posted" /\ h \in Handle
    <3>1. h \in Handle  BY HandlesAre
    <3> HIDE DEF h
    <3> QED  BY <1>6, <3>1 DEF None
  <2>2. Standing(input, stage, step, request)  BY HoldsNow
  <2>3. x # None /\ x.state # "posted"  BY <1>8
  <2> HIDE DEF x, new, h
  <2> QED  BY <1>1, <1>7, <2>1, <2>2, <2>3, NoneWaits
<1>10. PICK f : Dequeued(channel, f, s, r) /\ Enqueued(f, channel', r, s, d)
  <2>1. channel = [a \in Rank |-> [b \in Rank |-> channel[a][b]]]  BY <1>1 DEF Shaped
  <2>2. channel' = [channel EXCEPT ![s][r] = Tail(@), ![r][s] = Append(@, d)]
    BY DEF HandleClearToSend
  <2> HIDE DEF d
  <2> QED  BY <1>1, <2>1, <2>2, TwoConnections
<1> DEFINE P == Family(f, posted, unexpected)
<1>11. Shaped(f, posted, unexpected) /\ Took(Q, P, q, 1)
  BY <1>1, <1>2, <1>10, LeaveChannel DEF Sound
<1>12. Put(P, R, Channel(r, s), d)
  <2> HIDE DEF d
  <2> QED  BY <1>1, <1>10, <1>11, JoinChannel
<1>13. Flow(input, stage, step, request, P)
  <2>1. Flow(input, stage, step, request, Q)  BY HoldsNow
  <2>2. ~Announces(q, Q[q][1])  BY <1>3
  <2> HIDE DEF Q, P, q
  <2> QED  BY <1>3, <1>11, <2>1, <2>2, FlowTakeOther
<1>14. Flow(input, stage, step, request, R)
  <2> DEFINE y == Channel(r, s)
             all == AllEntered(stage)
  <2>1. y \in Place  BY <1>1, Parts
  <2>2. ~Announces(y, d)  BY PacketTypes, SMTT(20) DEF Announces, Channel
  <2>3. DataOK(input, all, stage, y, d)
    <3>1. y[2] = r /\ y[3] = s  BY DEF Channel
    <3>2. d = RndvData(<<"recv", y[2]>>, request[r][h].payload)  BY <1>5, <3>1
    <3> QED  BY <1>5, <3>1, <3>2 DEF DataOK
  <2>4. \A a : ElementOK(input, all, stage, request, y, d, a)
    BY <2>2, <2>3 DEF ElementOK
  <2> HIDE DEF y, d, P, R
  <2> QED  BY <1>12, <1>13, <2>1, <2>2, <2>4, FlowPutOther DEF y
<1>15. Flow(input, stage, step, new, R)
  <2>1. Kept(R, stage, stage, request, new)
    <3>1. ASSUME NEW a \in Process, NEW p \in Process
          PROVE  new[a][<<"send", p>>].payload = request[a][<<"send", p>>].payload
      <4>1. CASE a # r  BY <1>7, <4>1 DEF Renewed
      <4>2. CASE a = r /\ p # s
        <5>1. <<"send", p>> \in Handle /\ <<"send", p>> # h  BY <4>2, HandlesAre
        <5> HIDE DEF h, x
        <5> QED  BY <1>7, <4>2, <5>1 DEF Puts
      <4>3. CASE a = r /\ p = s  BY <1>7, <1>8, <4>3 DEF Puts
      <4> QED  BY <4>1, <4>2, <4>3
    <3> QED  BY <3>1 DEF Kept, SendsKept, StagesKept
  <2> HIDE DEF R, new
  <2> QED  BY <1>9, <1>14, <2>1, FlowSame
<1>16. OnlyQueues(r)
  <2>1. \A p \in Process \ {r} : new[p] = request[p]  BY <1>7 DEF Renewed
  <2> QED  BY <1>2, <2>1 DEF OnlyQueues, programVars
<1>17. PostedOK(input, r, stage[r], step[r], posted'[r])  BY <1>2, HoldsNow
<1>18. Flow(input, stage, step, request', Family(channel', posted', unexpected'))
  BY <1>2, <1>15
<1> QED  BY <1>8, <1>9, <1>16, <1>17, <1>18, ProgressFollows

LEMMA DataKeeps ==
  ASSUME CommInv, NEW r \in Process, NEW s \in Process, s # r,
         HandleData(s, r), UNCHANGED programVars
  PROVE  FlowInv' /\ RanksInv'
<1> DEFINE e == Head(channel[s][r])
           Q == Family(channel, posted, unexpected)
           R == Family(channel', posted, unexpected)
           q == Channel(s, r)
           h == <<"recv", s>>
           new == request'
           all == AllEntered(stage)
<1>1. /\ input \in Input /\ Rank = Process /\ Shaped(channel, posted, unexpected)
      /\ Sound(Q, request) /\ RequestShape(request)
      /\ Asked(Plan(input, r, stage[r]), step[r], request[r])
  BY Basics
<1>2. /\ channel[s][r] # <<>> /\ e.type = "data" /\ UNCHANGED <<posted, unexpected>>
      /\ Dequeued(channel, channel', s, r)
  BY DEF HandleData, Arrived, Dequeued
<1>3. /\ q \in Place /\ 1 \in DOMAIN Q[q] /\ Q[q][1] = e /\ ~Announces(q, e)
      /\ \E a : ElementOK(input, all, stage, request, q, e, a)
      /\ Held(request, q, e)
  BY <1>2, PacketIs
<1>4. DataOK(input, all, stage, q, e)
  <2>1. q[1] = "channel"  BY DEF Channel
  <2>2. PICK a : ElementOK(input, all, stage, request, q, e, a)  BY <1>3
  <2>3. e.type = "data"  BY <1>2
  <2> HIDE DEF e, q, all
  <2> QED  BY <2>1, <2>2, <2>3, ElementIs
<1>5. PICK m : /\ e = RndvData(h, m) /\ stage[r] \in Large
               /\ Right(input, all, s, r, stage[r], "none", m)
  BY <1>4 DEF DataOK, Channel
<1>6. e.receiver = h /\ e.payload = m  BY <1>5, PacketTypes
<1>7. request[r][h].state = "cleared"
  <2>1. Held(request, Channel(s, r), e) /\ e.type = "data" /\ e.receiver = h
    BY <1>2, <1>3, <1>6
  <2>2. request[r][e.receiver].state = "cleared"
    <3> HIDE DEF e, h
    <3> QED  BY <1>1, <2>1, HeldMeans
  <2> HIDE DEF e, h
  <2> QED  BY <2>1, <2>2
<1>8. h \in Handle  BY HandlesAre
<1> DEFINE x == Complete(m)
<1>9. x # None /\ x.state = "complete"  BY DEF Complete, None
<1>10. Puts(request[r], new[r], h, x) /\ Renewed(request, new, r, new[r])
  <2>1. RequestSet(request, new, r, h, x)
    BY <1>6 DEF HandleData, RequestSet
  <2> HIDE DEF h, x, new
  <2> QED  BY <1>1, <1>8, <2>1, SetPuts
<1>11. request[r][h] # None /\ request[r][h].state # "posted"
  <2> HIDE DEF h
  <2> QED  BY <1>7 DEF None
<1>12. PICK op : Open(Plan(input, r, stage[r]), step[r], op) /\ op.kind = "irecv" /\ op.peer = s
  BY <1>1, <1>11 DEF Asked
<1>13. RecvOK(input, all, r, stage[r], op, x)
  <2>1. Meant(input, s, r, stage[r], op.tag) = stage[r]
    BY <1>5 DEF Meant, Exempt, Large
  <2>2. Right(input, all, s, r, stage[r], op.tag, m)
    <3> HIDE DEF all
    <3> QED  BY <1>5, RightAnyTag
  <2>3. Right(input, all, op.peer, r, Meant(input, op.peer, r, stage[r], op.tag), op.tag, m)
    BY <1>12, <2>1, <2>2
  <2> QED  BY <2>3 DEF RecvOK
<1>14. /\ Standing(input, stage, step, request)
       /\ Flow(input, stage, step, request, Q)
       /\ RequestsOK(input, all, r, stage[r], step[r], request[r])
       /\ PostedOK(input, r, stage[r], step[r], posted[r])
  BY HoldsNow
<1>15. RequestsOK(input, all, r, stage[r], step[r], new[r])
  <2>1. Puts(request[r], new[r], <<"recv", op.peer>>, x)  BY <1>10, <1>12
  <2> HIDE DEF x, new, all, h
  <2> QED  BY <1>1, <1>10, <1>12, <1>13, <1>14, <2>1, RenewOne
<1>16. /\ Standing(input, stage, step, new)
       /\ WaitOf(input, stage, step, new) = WaitOf(input, stage, step, request)
  <2>1. x # None /\ x.state # "posted"  BY <1>9
  <2> HIDE DEF x, new, h
  <2> QED  BY <1>1, <1>8, <1>10, <1>11, <1>14, <2>1, NoneWaits
<1>17. Shaped(channel', posted, unexpected) /\ Took(Q, R, q, 1)
  BY <1>1, <1>2, LeaveChannel DEF Sound
<1>18. Flow(input, stage, step, request, R)
  <2>1. ~Announces(q, Q[q][1])  BY <1>3
  <2> HIDE DEF Q, R, q
  <2> QED  BY <1>3, <1>14, <1>17, <2>1, FlowTakeOther
<1>19. Flow(input, stage, step, new, R)
  <2>1. Kept(R, stage, stage, request, new)
    <3> HIDE DEF R, new, x
    <3> QED  BY <1>10, ReceiveKept
  <2> HIDE DEF R, new
  <2> QED  BY <1>16, <1>18, <2>1, FlowSame
<1>20. OnlyQueues(r)
  <2>1. \A p \in Process \ {r} : new[p] = request[p]  BY <1>10 DEF Renewed
  <2> QED  BY <1>2, <2>1 DEF OnlyQueues, programVars
<1>21. PostedOK(input, r, stage[r], step[r], posted'[r])  BY <1>2, <1>14
<1>22. Flow(input, stage, step, request', Family(channel', posted', unexpected'))
  BY <1>2, <1>19
<1> QED  BY <1>15, <1>16, <1>20, <1>21, <1>22, ProgressFollows

LEMMA ProgressKeeps ==
  ASSUME CommInv, QueuesInv, NEW r \in Process, Progress(r)
  PROVE  FlowInv' /\ RanksInv'
<1>1. PICK s \in Process \ {r} : Deliver(s, r)  BY DEF Progress
<1>2. UNCHANGED programVars  BY DEF Progress
<1>3. CASE HandleAnnouncement(s, r)
  <2>1. channel[s][r] # <<>> /\ Head(channel[s][r]).type \in {"eager", "rts"}
    BY <1>3 DEF HandleAnnouncement, Arrived
  <2>2. CASE MatchPosted(s, r)  BY <1>1, <1>2, <2>1, <2>2, MatchPostedKeeps
  <2>3. CASE QueueUnexpected(s, r)  BY <1>1, <1>2, <2>1, <2>3, QueueKeeps
  <2> QED  BY <1>3, <2>2, <2>3 DEF HandleAnnouncement
<1>4. CASE HandleClearToSend(s, r)  BY <1>1, <1>2, <1>4, ClearKeeps
<1>5. CASE HandleData(s, r)  BY <1>1, <1>2, <1>5, DataKeeps
<1> QED  BY <1>1, <1>3, <1>4, <1>5 DEF Deliver
=============================================================================
