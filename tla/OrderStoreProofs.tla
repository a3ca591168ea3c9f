-------------------------- MODULE OrderStoreProofs --------------------------
(* Proofs about OrderStore, for every set of users, products and quantities, *)
(* every input file, and every number of threads and commands; at the end,   *)
(* that StoreServer uses it, for every set of clients and commands. Only     *)
(* those last theorems have two threads (ServerAssumption).                  *)
EXTENDS StoreServer, FiniteSetTheorems, WellFoundedInduction, TLAPS

\* Whoever is in execute() has the lock.
LockInv == \A t \in Thread : pc[t] \notin {"idle", "enter"} <=> lock = t

Purchasing == {"user", "check", "count", "construct", "add", "take"}
Cancelling == {"find", "giveback", "remove"}

\* A thread is in the method of its command.
OpInv ==
    \A t \in Thread :
        /\ pc[t] \in Purchasing => command[t].op = "purchase"
        /\ pc[t] \in Cancelling => command[t].op = "cancel"

\* Every purchase that is not counted yet was submitted.
Uncounted == {t \in Thread : /\ pc[t] \in {"enter", "user", "check", "count"}
                             /\ command[t].op = "purchase"}

CountInv == currentID + Cardinality(Uncounted) <= calls

\* What the local variables of a thread say about the shared ones.
LocalInv ==
    \A t \in Thread :
        /\ pc[t] \in {"check", "count", "construct", "add", "take"} => user[t] = command[t].user
        /\ pc[t] \in {"count", "construct", "add", "take"} =>
               /\ command[t].product \in Sold
               /\ inventoryHasEnoughOf(command[t].product, command[t].quantity)
        /\ pc[t] \in {"add", "take"} => order[t] = NewOrder(command[t], currentID)
        /\ pc[t] = "take" => order[t] \in orderHistory[user[t]]
        /\ pc[t] \in {"giveback", "remove"} => order[t] \in orderHistory[user[t]]

\* Orders are of what is sold, and have IDs that were counted; the ID of an
\* order that is not added yet is new.
HistoryInv ==
    \A u \in UserName : \A o \in orderHistory[u] :
        /\ o.product \in Sold
        /\ o.id <= currentID
        /\ \A t \in Thread : pc[t] \in {"construct", "add"} => o.id < currentID

IInv == TypeOK /\ LockInv /\ OpInv /\ CountInv /\ LocalInv /\ HistoryInv /\ UniqueIDs /\ NoOverselling

-----------------------------------------------------------------------------
\* The arguments of a purchase.
LEMMA PurchaseCommand ==
    ASSUME NEW c \in Command, c.op = "purchase"
    PROVE  c.user \in UserName /\ c.product \in Product /\ c.quantity \in Quantity
BY DEF Command

LEMMA SearchCommand ==
    ASSUME NEW c \in Command, c.op = "search"
    PROVE  c.user \in UserName
BY DEF Command

\* The threads with an uncounted purchase can be counted.
LEMMA UncountedFinite == IsFiniteSet(Uncounted) /\ Cardinality(Uncounted) \in Nat
<1>1. Uncounted \subseteq Thread  BY DEF Uncounted
<1> QED  BY <1>1, ThreadAssumption, FS_Subset, FS_CardinalityType

LEMMA InitIInv == Init => IInv
<1> SUFFICES ASSUME Init PROVE IInv
  OBVIOUS
<1>1. Uncounted = {}
  BY DEF Init, Uncounted
<1>2. CountInv
  BY <1>1, FS_EmptySet DEF Init, CountInv
<1>3. NoCommand \in Command /\ NoResult \in Result
  BY DEF NoCommand, NoResult, Command, Result
<1>4. TypeOK
  BY <1>3, StockAssumption, MaxCallsAssumption DEF Init, TypeOK, Sold
<1>5. NoOverselling
  BY StockAssumption DEF Init, NoOverselling, Sold
<1>6. LockInv /\ OpInv /\ LocalInv /\ HistoryInv /\ UniqueIDs
  BY ThreadAssumption DEF Init, LockInv, OpInv, LocalInv, HistoryInv, UniqueIDs, Purchasing, Cancelling
<1> QED  BY <1>2, <1>4, <1>5, <1>6 DEF IInv

\* While a thread is in execute() no other is.
LEMMA Alone ==
    ASSUME IInv, NEW t \in Thread, pc[t] \notin {"idle", "enter"}, NEW u \in Thread, u # t
    PROVE  pc[u] \in {"idle", "enter"}
BY DEF IInv, LockInv

\* When one thread takes a step, the number of uncounted purchases grows at
\* most by its own command.
LEMMA UncountedStep ==
    ASSUME TypeOK, NEW t \in Thread,
           \A u \in Thread \ {t} : pc'[u] = pc[u] /\ command'[u] = command[u]
    PROVE  /\ Cardinality(Uncounted') \in Nat
           /\ Cardinality(Uncounted') <= Cardinality(Uncounted) + 1
           /\ (t \in Uncounted' => t \in Uncounted) => Cardinality(Uncounted') <= Cardinality(Uncounted)
           /\ t \in Uncounted /\ t \notin Uncounted' => Cardinality(Uncounted') = Cardinality(Uncounted) - 1
<1>1. \A u \in Thread \ {t} : u \in Uncounted' <=> u \in Uncounted
  BY DEF Uncounted
<1>2. Uncounted \subseteq Thread /\ Uncounted' \subseteq Thread
  BY DEF Uncounted
<1>3. IsFiniteSet(Uncounted \cup {t}) /\ Cardinality(Uncounted \cup {t}) <= Cardinality(Uncounted) + 1
      /\ Cardinality(Uncounted \cup {t}) \in Nat
  <2>1. CASE t \in Uncounted
    <3>1. Uncounted \cup {t} = Uncounted
      BY <2>1
    <3>2. Cardinality(Uncounted) <= Cardinality(Uncounted) + 1
      BY UncountedFinite
    <3> QED  BY <3>1, <3>2, UncountedFinite, Zenon
  <2>2. CASE t \notin Uncounted
    BY <2>2, UncountedFinite, FS_AddElement
  <2> QED  BY <2>1, <2>2
<1>4. IsFiniteSet(Uncounted') /\ Cardinality(Uncounted') \in Nat
      /\ Cardinality(Uncounted') <= Cardinality(Uncounted \cup {t})
  <2>1. Uncounted' \subseteq Uncounted \cup {t}
    BY <1>1, <1>2
  <2> QED  BY <2>1, <1>3, FS_Subset, FS_CardinalityType
<1>5. ASSUME t \in Uncounted' => t \in Uncounted
      PROVE  Cardinality(Uncounted') <= Cardinality(Uncounted)
  <2>1. Uncounted' \subseteq Uncounted
    BY <1>1, <1>2, <1>5
  <2> QED  BY <2>1, UncountedFinite, FS_Subset
<1>6. ASSUME t \in Uncounted, t \notin Uncounted'
      PROVE  Cardinality(Uncounted') = Cardinality(Uncounted) - 1
  <2>1. Uncounted' = Uncounted \ {t}
    BY <1>1, <1>2, <1>6
  <2> QED  BY <2>1, <1>6, UncountedFinite, FS_RemoveElement
<1> QED  BY <1>3, <1>4, <1>5, <1>6, UncountedFinite

\* A step of a thread that adds no order and counts nothing leaves IDs new.
LEMMA HistoryKept ==
    ASSUME HistoryInv, UniqueIDs, NEW t \in Thread, UNCHANGED <<orderHistory, currentID>>,
           \A u \in Thread \ {t} : pc'[u] = pc[u],
           pc'[t] \in {"construct", "add"} => pc[t] \in {"construct", "add"}
    PROVE  HistoryInv' /\ UniqueIDs'
BY DEF HistoryInv, UniqueIDs

\* A new command is one more that may count.
LEMMA CallKeepsIInv ==
    ASSUME IInv, NEW t \in Thread, NEW c \in Command, Call(t, c)
    PROVE  IInv'
<1> USE DEF IInv
<1>1. \A u \in Thread \ {t} : /\ pc'[u] = pc[u] /\ command'[u] = command[u]
                           /\ user'[u] = user[u] /\ order'[u] = order[u]
  BY DEF Call, Go, Return, Continue, store, TypeOK
<1>2. pc[t] = "idle" /\ pc'[t] = "enter" /\ lock' = lock /\ command'[t] = c
  BY DEF Call, Go, Return, Continue, store, TypeOK, inventoryHasEnoughOf, FirstStep
<1>3. LockInv' /\ OpInv'
  BY <1>1, <1>2, ThreadAssumption DEF TypeOK, LockInv, OpInv, Purchasing, Cancelling
<1>4. CountInv'
  <2>1. Cardinality(Uncounted') \in Nat /\ Cardinality(Uncounted') <= Cardinality(Uncounted) + 1
    BY <1>1, UncountedStep
  <2>2. currentID' = currentID /\ calls' = calls + 1
    BY DEF Call, store
  <2> QED  BY <2>1, <2>2, UncountedFinite, MaxCallsAssumption DEF CountInv, TypeOK
<1>5. TypeOK'
  <2>1. /\ pc' \in [Thread -> {"idle", "enter", "user", "check", "count", "construct", "add", "take",
                           "find", "giveback", "remove", "report"}]
        /\ lock' \in Thread \cup {NoThread}
    BY <1>2 DEF Call, Go, Return, Continue, store, TypeOK
  <2>2. calls' \in 0 .. MaxCalls
    BY MaxCallsAssumption DEF Call, Go, Return, Continue, store, TypeOK
  <2>3. command' \in [Thread -> Command]
    BY DEF Call, Go, Return, Continue, store, TypeOK
  <2> QED  BY <2>1, <2>2, <2>3, <1>2 DEF TypeOK, Call, Go, Return, Continue, store
<1>6. LocalInv'
  BY <1>1, <1>2 DEF Call, Go, Return, Continue, store, TypeOK, LocalInv, inventoryHasEnoughOf
<1>7. HistoryInv' /\ UniqueIDs'
  BY <1>1, <1>2, HistoryKept DEF Call, Go, Return, Continue, store
<1>8. NoOverselling'
  BY DEF Call, Go, Return, Continue, store, NoOverselling
<1> QED  BY <1>1, <1>2, <1>3, <1>4, <1>5, <1>6, <1>7, <1>8

\* The lock is free, so nobody else is in execute().
LEMMA EnterKeepsIInv ==
    ASSUME IInv, NEW t \in Thread, Enter(t)
    PROVE  IInv'
<1> USE DEF IInv
<1>1. \A u \in Thread \ {t} : /\ pc'[u] = pc[u] /\ command'[u] = command[u]
                           /\ user'[u] = user[u] /\ order'[u] = order[u]
  BY DEF Enter, Go, Return, Continue, store, TypeOK
<1>2. /\ pc[t] = "enter" /\ lock = NoThread /\ lock' = t
      /\ command'[t] = command[t] /\ pc'[t] \in {"user", "find", "report"}
      /\ pc'[t] = "user" => command[t].op = "purchase"
      /\ pc'[t] = "find" => command[t].op = "cancel"
  BY DEF Enter, Go, Return, Continue, store, TypeOK, inventoryHasEnoughOf, FirstStep
<1>3. LockInv' /\ OpInv'
  BY <1>1, <1>2, ThreadAssumption DEF TypeOK, LockInv, OpInv, Purchasing, Cancelling
<1>4. CountInv'
  <2>1. t \in Uncounted' => t \in Uncounted
    BY <1>2 DEF Uncounted, OpInv, Purchasing
  <2>2. Cardinality(Uncounted') \in Nat /\ Cardinality(Uncounted') <= Cardinality(Uncounted)
    BY <1>1, <2>1, UncountedStep
  <2>3. currentID' = currentID /\ calls' = calls
    BY DEF Enter, Go, Return, Continue, store
  <2> QED  BY <2>2, <2>3, UncountedFinite, MaxCallsAssumption DEF CountInv, TypeOK
<1>5. TypeOK'
  <2>1. /\ pc' \in [Thread -> {"idle", "enter", "user", "check", "count", "construct", "add", "take",
                           "find", "giveback", "remove", "report"}]
        /\ lock' \in Thread \cup {NoThread}
    BY <1>2 DEF Enter, Go, Return, Continue, store, TypeOK
  <2> QED  BY <2>1, <1>2 DEF TypeOK, Enter, Go, Return, Continue, store
<1>6. LocalInv'
  BY <1>1, <1>2 DEF Enter, Go, Return, Continue, store, TypeOK, LocalInv, inventoryHasEnoughOf
<1>7. HistoryInv' /\ UniqueIDs'
  BY <1>1, <1>2, HistoryKept DEF Enter, Go, Return, Continue, store
<1>8. NoOverselling'
  BY DEF Enter, Go, Return, Continue, store, NoOverselling
<1> QED  BY <1>1, <1>2, <1>3, <1>4, <1>5, <1>6, <1>7, <1>8

\* The user is known from here on.
LEMMA FindUserKeepsIInv ==
    ASSUME IInv, NEW t \in Thread, FindUser(t)
    PROVE  IInv'
<1> USE DEF IInv
<1>1. \A u \in Thread \ {t} : /\ pc'[u] = pc[u] /\ command'[u] = command[u]
                           /\ user'[u] = user[u] /\ order'[u] = order[u]
                           /\ pc[u] \in {"idle", "enter"}
  BY Alone DEF FindUser, Go, Return, Continue, store, TypeOK
<1>2. pc[t] = "user" /\ pc'[t] = "check" /\ lock' = lock /\ command'[t] = command[t]
  BY DEF FindUser, Go, Return, Continue, store, TypeOK, inventoryHasEnoughOf, FirstStep
<1>3. LockInv' /\ OpInv'
  BY <1>1, <1>2, ThreadAssumption DEF TypeOK, LockInv, OpInv, Purchasing, Cancelling
<1>4. CountInv'
  <2>1. t \in Uncounted' => t \in Uncounted
    BY <1>2 DEF Uncounted, OpInv, Purchasing
  <2>2. Cardinality(Uncounted') \in Nat /\ Cardinality(Uncounted') <= Cardinality(Uncounted)
    BY <1>1, <2>1, UncountedStep
  <2>3. currentID' = currentID /\ calls' = calls
    BY DEF FindUser, Go, Return, Continue, store
  <2> QED  BY <2>2, <2>3, UncountedFinite, MaxCallsAssumption DEF CountInv, TypeOK
<1>5. TypeOK'
  <2>1. /\ pc' \in [Thread -> {"idle", "enter", "user", "check", "count", "construct", "add", "take",
                           "find", "giveback", "remove", "report"}]
        /\ lock' \in Thread \cup {NoThread}
    BY <1>2 DEF FindUser, Go, Return, Continue, store, TypeOK
  <2>2. clients' \subseteq UserName /\ user' \in [Thread -> UserName]
    BY <1>2, PurchaseCommand DEF FindUser, Go, Return, Continue, store, TypeOK, OpInv, Purchasing
  <2> QED  BY <2>1, <2>2, <1>2 DEF TypeOK, FindUser, Go, Return, Continue, store
<1>6. LocalInv'
  BY <1>1, <1>2 DEF FindUser, Go, Return, Continue, store, TypeOK, LocalInv, inventoryHasEnoughOf
<1>7. HistoryInv' /\ UniqueIDs'
  BY <1>1, <1>2, HistoryKept DEF FindUser, Go, Return, Continue, store
<1>8. NoOverselling'
  BY DEF FindUser, Go, Return, Continue, store, NoOverselling
<1> QED  BY <1>1, <1>2, <1>3, <1>4, <1>5, <1>6, <1>7, <1>8

\* What is checked here is what purchase() relies on.
LEMMA CheckInventoryKeepsIInv ==
    ASSUME IInv, NEW t \in Thread, CheckInventory(t)
    PROVE  IInv'
<1> USE DEF IInv
<1>1. \A u \in Thread \ {t} : /\ pc'[u] = pc[u] /\ command'[u] = command[u]
                           /\ user'[u] = user[u] /\ order'[u] = order[u]
                           /\ pc[u] \in {"idle", "enter"}
  BY Alone DEF CheckInventory, Go, Return, Continue, store, TypeOK
<1>2. /\ pc[t] = "check" /\ command' = command /\ UNCHANGED <<user, order>>
      /\ \/ pc'[t] = "idle" /\ lock' = NoThread
         \/ /\ pc'[t] = "count" /\ lock' = lock /\ result' = result
            /\ command[t].product \in Sold /\ stock[command[t].product] >= command[t].quantity
  BY DEF CheckInventory, Go, Return, Continue, store, TypeOK, inventoryHasEnoughOf, FirstStep
<1>3. LockInv' /\ OpInv'
  BY <1>1, <1>2, ThreadAssumption DEF TypeOK, LockInv, OpInv, Purchasing, Cancelling
<1>4. CountInv'
  <2>1. t \in Uncounted' => t \in Uncounted
    BY <1>2 DEF Uncounted, OpInv, Purchasing
  <2>2. Cardinality(Uncounted') \in Nat /\ Cardinality(Uncounted') <= Cardinality(Uncounted)
    BY <1>1, <2>1, UncountedStep
  <2>3. currentID' = currentID /\ calls' = calls
    BY DEF CheckInventory, Go, Return, Continue, store
  <2> QED  BY <2>2, <2>3, UncountedFinite, MaxCallsAssumption DEF CountInv, TypeOK
<1>5. TypeOK'
  <2>1. /\ pc' \in [Thread -> {"idle", "enter", "user", "check", "count", "construct", "add", "take",
                           "find", "giveback", "remove", "report"}]
        /\ lock' \in Thread \cup {NoThread}
    BY <1>2 DEF CheckInventory, Go, Return, Continue, store, TypeOK
  <2>2. result' \in [Thread -> Result]
    <3>1. [is |-> "not sold"] \in Result /\ [is |-> "not enough"] \in Result
      BY DEF Result
    <3> QED  BY <3>1 DEF CheckInventory, Go, Return, Continue, store, TypeOK
  <2> QED  BY <2>1, <2>2, <1>2 DEF TypeOK, CheckInventory, Go, Return, Continue, store
<1>6. LocalInv'
  BY <1>1, <1>2 DEF CheckInventory, Go, Return, Continue, store, TypeOK, LocalInv, inventoryHasEnoughOf
<1>7. HistoryInv' /\ UniqueIDs'
  BY <1>1, <1>2, HistoryKept DEF CheckInventory, Go, Return, Continue, store
<1>8. NoOverselling'
  BY DEF CheckInventory, Go, Return, Continue, store, NoOverselling
<1> QED  BY <1>1, <1>2, <1>3, <1>4, <1>5, <1>6, <1>7, <1>8

\* The new ID is larger than those of all orders.
LEMMA CountOrderKeepsIInv ==
    ASSUME IInv, NEW t \in Thread, CountOrder(t)
    PROVE  IInv'
<1> USE DEF IInv
<1>1. \A u \in Thread \ {t} : /\ pc'[u] = pc[u] /\ command'[u] = command[u]
                           /\ user'[u] = user[u] /\ order'[u] = order[u]
                           /\ pc[u] \in {"idle", "enter"}
  BY Alone DEF CountOrder, Go, Return, Continue, store, TypeOK
<1>2. /\ pc[t] = "count" /\ pc'[t] = "construct" /\ lock' = lock /\ command' = command
      /\ currentID' = currentID + 1 /\ UNCHANGED <<stock, orderHistory, calls>>
  BY DEF CountOrder, Go, Return, Continue, store, TypeOK, inventoryHasEnoughOf, FirstStep
<1>3. LockInv' /\ OpInv'
  BY <1>1, <1>2, ThreadAssumption DEF TypeOK, LockInv, OpInv, Purchasing, Cancelling
<1>4. CountInv'
  <2>1. t \in Uncounted /\ t \notin Uncounted'
    BY <1>2 DEF Uncounted, OpInv, Purchasing
  <2>2. Cardinality(Uncounted') \in Nat /\ Cardinality(Uncounted') = Cardinality(Uncounted) - 1
    BY <1>1, <2>1, UncountedStep
  <2> QED  BY <1>2, <2>2, UncountedFinite, MaxCallsAssumption DEF CountInv, TypeOK
<1>5. TypeOK'
  <2>1. /\ pc' \in [Thread -> {"idle", "enter", "user", "check", "count", "construct", "add", "take",
                           "find", "giveback", "remove", "report"}]
        /\ lock' \in Thread \cup {NoThread}
    BY <1>2 DEF CountOrder, Go, Return, Continue, store, TypeOK
  <2>2. currentID' \in 0 .. MaxCalls
    BY <1>4, UncountedStep, <1>1, MaxCallsAssumption DEF CountOrder, Go, Return, Continue, store, TypeOK, CountInv
  <2> QED  BY <2>1, <2>2, <1>2 DEF TypeOK, CountOrder, Go, Return, Continue, store
<1>6. LocalInv'
  BY <1>1, <1>2 DEF CountOrder, Go, Return, Continue, store, TypeOK, LocalInv, inventoryHasEnoughOf
<1>7. HistoryInv' /\ UniqueIDs'
  <2>1. \A u \in UserName : \A o \in orderHistory[u] : o.id \in Nat /\ o.id < currentID'
    BY <1>2, MaxCallsAssumption DEF HistoryInv, TypeOK, Orders
  <2>2. \A u \in UserName : \A o \in orderHistory[u] : o.id <= currentID'
    BY <2>1, <1>2, MaxCallsAssumption DEF TypeOK
  <2> QED  BY <1>2, <2>1, <2>2 DEF HistoryInv, UniqueIDs
<1>8. NoOverselling'
  BY DEF CountOrder, Go, Return, Continue, store, NoOverselling
<1> QED  BY <1>1, <1>2, <1>3, <1>4, <1>5, <1>6, <1>7, <1>8

\* The order gets the ID that was just counted.
LEMMA ConstructOrderKeepsIInv ==
    ASSUME IInv, NEW t \in Thread, ConstructOrder(t)
    PROVE  IInv'
<1> USE DEF IInv
<1>1. \A u \in Thread \ {t} : /\ pc'[u] = pc[u] /\ command'[u] = command[u]
                           /\ user'[u] = user[u] /\ order'[u] = order[u]
                           /\ pc[u] \in {"idle", "enter"}
  BY Alone DEF ConstructOrder, Go, Return, Continue, store, TypeOK
<1>2. /\ pc[t] = "construct" /\ pc'[t] = "add" /\ lock' = lock /\ command' = command
      /\ order'[t] = NewOrder(command[t], currentID)
  BY DEF ConstructOrder, Go, Return, Continue, store, TypeOK, inventoryHasEnoughOf, FirstStep
<1>3. LockInv' /\ OpInv'
  BY <1>1, <1>2, ThreadAssumption DEF TypeOK, LockInv, OpInv, Purchasing, Cancelling
<1>4. CountInv'
  <2>1. t \in Uncounted' => t \in Uncounted
    BY <1>2 DEF Uncounted, OpInv, Purchasing
  <2>2. Cardinality(Uncounted') \in Nat /\ Cardinality(Uncounted') <= Cardinality(Uncounted)
    BY <1>1, <2>1, UncountedStep
  <2>3. currentID' = currentID /\ calls' = calls
    BY DEF ConstructOrder, Go, Return, Continue, store
  <2> QED  BY <2>2, <2>3, UncountedFinite, MaxCallsAssumption DEF CountInv, TypeOK
<1>5. TypeOK'
  <2>1. /\ pc' \in [Thread -> {"idle", "enter", "user", "check", "count", "construct", "add", "take",
                           "find", "giveback", "remove", "report"}]
        /\ lock' \in Thread \cup {NoThread}
    BY <1>2 DEF ConstructOrder, Go, Return, Continue, store, TypeOK
  <2>2. NewOrder(command[t], currentID) \in Orders
    BY <1>2, PurchaseCommand DEF NewOrder, Orders, TypeOK, OpInv, Purchasing
  <2>3. order' \in [Thread -> Orders \cup {NoOrder}]
    BY <2>2 DEF ConstructOrder, Go, Return, Continue, store, TypeOK
  <2> QED  BY <2>1, <2>2, <2>3, <1>2 DEF TypeOK, ConstructOrder, Go, Return, Continue, store
<1>6. LocalInv'
  BY <1>1, <1>2 DEF ConstructOrder, Go, Return, Continue, store, TypeOK, LocalInv, inventoryHasEnoughOf
<1>7. HistoryInv' /\ UniqueIDs'
  BY <1>1, <1>2, HistoryKept DEF ConstructOrder, Go, Return, Continue, store
<1>8. NoOverselling'
  BY DEF ConstructOrder, Go, Return, Continue, store, NoOverselling
<1> QED  BY <1>1, <1>2, <1>3, <1>4, <1>5, <1>6, <1>7, <1>8

\* The new order's ID is in no history yet.
LEMMA AddOrderKeepsIInv ==
    ASSUME IInv, NEW t \in Thread, AddOrder(t)
    PROVE  IInv'
<1> USE DEF IInv
<1>1. \A u \in Thread \ {t} : /\ pc'[u] = pc[u] /\ command'[u] = command[u]
                           /\ user'[u] = user[u] /\ order'[u] = order[u]
                           /\ pc[u] \in {"idle", "enter"}
  BY Alone DEF AddOrder, Go, Return, Continue, store, TypeOK
<1>2. /\ pc[t] = "add" /\ pc'[t] = "take" /\ lock' = lock /\ command' = command
      /\ orderHistory' = [orderHistory EXCEPT ![user[t]] = @ \cup {order[t]}]
      /\ order[t] = NewOrder(command[t], currentID) /\ command[t].product \in Sold
      /\ UNCHANGED <<stock, currentID, calls, user, order, result, clients>>
  BY DEF AddOrder, Go, Return, Continue, store, TypeOK, inventoryHasEnoughOf, LocalInv, NewOrder
<1>3. LockInv' /\ OpInv'
  BY <1>1, <1>2, ThreadAssumption DEF TypeOK, LockInv, OpInv, Purchasing, Cancelling
<1>4. CountInv'
  <2>1. t \in Uncounted' => t \in Uncounted
    BY <1>2 DEF Uncounted, OpInv, Purchasing
  <2>2. Cardinality(Uncounted') \in Nat /\ Cardinality(Uncounted') <= Cardinality(Uncounted)
    BY <1>1, <2>1, UncountedStep
  <2>3. currentID' = currentID /\ calls' = calls
    BY DEF AddOrder, Go, Return, Continue, store
  <2> QED  BY <2>2, <2>3, UncountedFinite, MaxCallsAssumption DEF CountInv, TypeOK
<1>5. TypeOK'
  <2>1. /\ pc' \in [Thread -> {"idle", "enter", "user", "check", "count", "construct", "add", "take",
                           "find", "giveback", "remove", "report"}]
        /\ lock' \in Thread \cup {NoThread}
    BY <1>2 DEF AddOrder, Go, Return, Continue, store, TypeOK
  <2>2. order[t] \in Orders
    BY <1>2, PurchaseCommand DEF NewOrder, Orders, TypeOK, OpInv, Purchasing
  <2>3. orderHistory' \in [UserName -> SUBSET Orders]
    BY <1>2, <2>2 DEF TypeOK
  <2> QED  BY <2>1, <2>2, <2>3, <1>2 DEF TypeOK, AddOrder, Go, Return, Continue, store
<1>6. LocalInv'
  BY <1>1, <1>2 DEF AddOrder, Go, Return, Continue, store, TypeOK, LocalInv, inventoryHasEnoughOf
<1>7. HistoryInv' /\ UniqueIDs'
  <2>1. /\ order[t].id = currentID /\ order[t].product \in Sold
        /\ \A u \in UserName : \A o \in orderHistory[u] : o.id \in Nat /\ o.id < currentID
    BY <1>2, MaxCallsAssumption DEF NewOrder, HistoryInv, TypeOK, Orders
  <2>2. \A u \in UserName : \A o \in orderHistory'[u] : o \in orderHistory[u] \/ (u = user[t] /\ o = order[t])
    BY <1>2 DEF TypeOK
  <2>3. \A u \in Thread : pc'[u] \notin {"construct", "add"}
    BY <1>1, <1>2
  <2>4. HistoryInv'
    BY <1>2, <2>1, <2>2, <2>3, MaxCallsAssumption DEF HistoryInv, TypeOK
  <2>5. UniqueIDs'
    BY <2>1, <2>2, MaxCallsAssumption DEF UniqueIDs, TypeOK
  <2> QED  BY <2>4, <2>5
<1>8. NoOverselling'
  BY DEF AddOrder, Go, Return, Continue, store, NoOverselling
<1> QED  BY <1>1, <1>2, <1>3, <1>4, <1>5, <1>6, <1>7, <1>8

\* There is enough in stock, as nobody bought since the check.
LEMMA PurchaseQuantityKeepsIInv ==
    ASSUME IInv, NEW t \in Thread, PurchaseQuantity(t)
    PROVE  IInv'
<1> USE DEF IInv
<1>1. \A u \in Thread \ {t} : /\ pc'[u] = pc[u] /\ command'[u] = command[u]
                           /\ user'[u] = user[u] /\ order'[u] = order[u]
                           /\ pc[u] \in {"idle", "enter"}
  BY Alone DEF PurchaseQuantity, Go, Return, Continue, store, TypeOK
<1>2. /\ pc[t] = "take" /\ pc'[t] = "idle" /\ lock' = NoThread /\ command' = command
      /\ order[t].product = command[t].product /\ order[t].quantity = command[t].quantity
      /\ order[t].id = currentID
      /\ command[t].product \in Sold /\ command[t].quantity \in Int
      /\ stock' = [stock EXCEPT ![command[t].product] = @ - command[t].quantity]
      /\ stock[command[t].product] >= command[t].quantity
  <2>1. pc[t] = "take" /\ pc'[t] = "idle" /\ lock' = NoThread /\ command' = command
    BY DEF PurchaseQuantity, Return, Go, TypeOK
  <2>2. /\ order[t].product = command[t].product /\ order[t].quantity = command[t].quantity
        /\ order[t].id = currentID
    <3>1. order[t] = NewOrder(command[t], currentID)
      BY <2>1 DEF LocalInv
    <3> QED  BY <3>1 DEF NewOrder
  <2>3. command[t].quantity \in Int
    BY <2>1, PurchaseCommand, QuantityAssumption DEF OpInv, Purchasing, TypeOK
  <2>4. command[t].product \in Sold /\ stock[command[t].product] >= command[t].quantity
    BY <2>1 DEF LocalInv, inventoryHasEnoughOf
  <2> QED  BY <2>1, <2>2, <2>3, <2>4 DEF PurchaseQuantity
<1>3. LockInv' /\ OpInv'
  BY <1>1, <1>2, ThreadAssumption DEF TypeOK, LockInv, OpInv, Purchasing, Cancelling
<1>4. CountInv'
  <2>1. t \in Uncounted' => t \in Uncounted
    BY <1>2 DEF Uncounted, OpInv, Purchasing
  <2>2. Cardinality(Uncounted') \in Nat /\ Cardinality(Uncounted') <= Cardinality(Uncounted)
    BY <1>1, <2>1, UncountedStep
  <2>3. currentID' = currentID /\ calls' = calls
    BY DEF PurchaseQuantity, Go, Return, Continue, store
  <2> QED  BY <2>2, <2>3, UncountedFinite, MaxCallsAssumption DEF CountInv, TypeOK
<1>5. TypeOK'
  <2>1. /\ pc' \in [Thread -> {"idle", "enter", "user", "check", "count", "construct", "add", "take",
                           "find", "giveback", "remove", "report"}]
        /\ lock' \in Thread \cup {NoThread}
    BY <1>2 DEF PurchaseQuantity, Go, Return, Continue, store, TypeOK
  <2>2. stock' \in [Sold -> Int]
    BY <1>2 DEF TypeOK
  <2>3. result' \in [Thread -> Result]
    <3>1. [is |-> "placed", id |-> order[t].id] \in Result
      BY <1>2 DEF Result, TypeOK
    <3> QED  BY <3>1 DEF PurchaseQuantity, Go, Return, Continue, store, TypeOK
  <2> QED  BY <2>1, <2>2, <2>3, <1>2 DEF TypeOK, PurchaseQuantity, Go, Return, Continue, store
<1>6. LocalInv'
  BY <1>1, <1>2 DEF PurchaseQuantity, Go, Return, Continue, store, TypeOK, LocalInv, inventoryHasEnoughOf
<1>7. HistoryInv' /\ UniqueIDs'
  BY <1>1, <1>2, HistoryKept DEF PurchaseQuantity, Go, Return, Continue, store
<1>8. NoOverselling'
  BY <1>2, QuantityAssumption DEF NoOverselling, TypeOK
<1> QED  BY <1>1, <1>2, <1>3, <1>4, <1>5, <1>6, <1>7, <1>8

\* The order that cancel() finds is in its user's history.
LEMMA FindOrderKeepsIInv ==
    ASSUME IInv, NEW t \in Thread, FindOrder(t)
    PROVE  IInv'
<1> USE DEF IInv
<1>1. \A u \in Thread \ {t} : /\ pc'[u] = pc[u] /\ command'[u] = command[u]
                           /\ user'[u] = user[u] /\ order'[u] = order[u]
                           /\ pc[u] \in {"idle", "enter"}
  BY Alone DEF FindOrder, Go, Return, Continue, store, TypeOK
<1>2. /\ pc[t] = "find" /\ command' = command
      /\ \/ pc'[t] = "idle" /\ lock' = NoThread /\ UNCHANGED <<user, order>>
         \/ /\ pc'[t] = "giveback" /\ lock' = lock /\ result' = result
            /\ \E u \in UserName : \E o \in orderHistory[u] :
                 user' = [user EXCEPT ![t] = u] /\ order' = [order EXCEPT ![t] = o]
  BY DEF FindOrder, Go, Return, Continue, store, TypeOK, inventoryHasEnoughOf, FirstStep
<1>3. LockInv' /\ OpInv'
  BY <1>1, <1>2, ThreadAssumption DEF TypeOK, LockInv, OpInv, Purchasing, Cancelling
<1>4. CountInv'
  <2>1. t \in Uncounted' => t \in Uncounted
    BY <1>2 DEF Uncounted, OpInv, Purchasing
  <2>2. Cardinality(Uncounted') \in Nat /\ Cardinality(Uncounted') <= Cardinality(Uncounted)
    BY <1>1, <2>1, UncountedStep
  <2>3. currentID' = currentID /\ calls' = calls
    BY DEF FindOrder, Go, Return, Continue, store
  <2> QED  BY <2>2, <2>3, UncountedFinite, MaxCallsAssumption DEF CountInv, TypeOK
<1>5. TypeOK'
  <2>1. /\ pc' \in [Thread -> {"idle", "enter", "user", "check", "count", "construct", "add", "take",
                           "find", "giveback", "remove", "report"}]
        /\ lock' \in Thread \cup {NoThread}
    BY <1>2 DEF FindOrder, Go, Return, Continue, store, TypeOK
  <2>2. result' \in [Thread -> Result]
    <3>1. [is |-> "no such order"] \in Result
      BY DEF Result
    <3> QED  BY <3>1 DEF FindOrder, Go, Return, Continue, store, TypeOK
  <2>3. user' \in [Thread -> UserName] /\ order' \in [Thread -> Orders \cup {NoOrder}]
    BY <1>2 DEF TypeOK
  <2> QED  BY <2>1, <2>2, <2>3, <1>2 DEF TypeOK, FindOrder, Go, Return, Continue, store
<1>6. LocalInv'
  BY <1>1, <1>2 DEF FindOrder, Go, Return, Continue, store, TypeOK, LocalInv, inventoryHasEnoughOf
<1>7. HistoryInv' /\ UniqueIDs'
  BY <1>1, <1>2, HistoryKept DEF FindOrder, Go, Return, Continue, store
<1>8. NoOverselling'
  BY DEF FindOrder, Go, Return, Continue, store, NoOverselling
<1> QED  BY <1>1, <1>2, <1>3, <1>4, <1>5, <1>6, <1>7, <1>8

\* Giving back keeps the stock natural.
LEMMA ReturnQuantityKeepsIInv ==
    ASSUME IInv, NEW t \in Thread, ReturnQuantity(t)
    PROVE  IInv'
<1> USE DEF IInv
<1>1. \A u \in Thread \ {t} : /\ pc'[u] = pc[u] /\ command'[u] = command[u]
                           /\ user'[u] = user[u] /\ order'[u] = order[u]
                           /\ pc[u] \in {"idle", "enter"}
  BY Alone DEF ReturnQuantity, Go, Return, Continue, store, TypeOK
<1>2. /\ pc[t] = "giveback" /\ pc'[t] = "remove" /\ lock' = lock /\ command' = command
      /\ order[t].product \in Sold /\ order[t].quantity \in Quantity /\ order[t].quantity \in Int
      /\ stock' = [stock EXCEPT ![order[t].product] = @ + order[t].quantity]
  <2>1. pc[t] = "giveback" /\ pc'[t] = "remove" /\ lock' = lock /\ command' = command
    BY DEF ReturnQuantity, Continue, Go, TypeOK
  <2>2. order[t] \in orderHistory[user[t]] /\ user[t] \in UserName
    BY <2>1 DEF LocalInv, TypeOK
  <2>3. order[t].product \in Sold /\ order[t].quantity \in Quantity
    BY <2>2 DEF HistoryInv, TypeOK, Orders
  <2>4. order[t].quantity \in Int
    BY <2>3, QuantityAssumption
  <2> QED  BY <2>1, <2>3, <2>4 DEF ReturnQuantity
<1>3. LockInv' /\ OpInv'
  BY <1>1, <1>2, ThreadAssumption DEF TypeOK, LockInv, OpInv, Purchasing, Cancelling
<1>4. CountInv'
  <2>1. t \in Uncounted' => t \in Uncounted
    BY <1>2 DEF Uncounted, OpInv, Purchasing
  <2>2. Cardinality(Uncounted') \in Nat /\ Cardinality(Uncounted') <= Cardinality(Uncounted)
    BY <1>1, <2>1, UncountedStep
  <2>3. currentID' = currentID /\ calls' = calls
    BY DEF ReturnQuantity, Go, Return, Continue, store
  <2> QED  BY <2>2, <2>3, UncountedFinite, MaxCallsAssumption DEF CountInv, TypeOK
<1>5. TypeOK'
  <2>1. /\ pc' \in [Thread -> {"idle", "enter", "user", "check", "count", "construct", "add", "take",
                           "find", "giveback", "remove", "report"}]
        /\ lock' \in Thread \cup {NoThread}
    BY <1>2 DEF ReturnQuantity, Go, Return, Continue, store, TypeOK
  <2>2. stock' \in [Sold -> Int]
    BY <1>2 DEF TypeOK
  <2> QED  BY <2>1, <2>2, <1>2 DEF TypeOK, ReturnQuantity, Go, Return, Continue, store
<1>6. LocalInv'
  BY <1>1, <1>2 DEF ReturnQuantity, Go, Return, Continue, store, TypeOK, LocalInv, inventoryHasEnoughOf
<1>7. HistoryInv' /\ UniqueIDs'
  BY <1>1, <1>2, HistoryKept DEF ReturnQuantity, Go, Return, Continue, store
<1>8. NoOverselling'
  <2>1. Quantity \subseteq Nat => order[t].quantity \in Nat
    BY <1>2
  <2> QED  BY <1>2, <2>1 DEF NoOverselling, TypeOK
<1> QED  BY <1>1, <1>2, <1>3, <1>4, <1>5, <1>6, <1>7, <1>8

\* Removing an order keeps the others.
LEMMA RemoveOrderKeepsIInv ==
    ASSUME IInv, NEW t \in Thread, RemoveOrder(t)
    PROVE  IInv'
<1> USE DEF IInv
<1>1. \A u \in Thread \ {t} : /\ pc'[u] = pc[u] /\ command'[u] = command[u]
                           /\ user'[u] = user[u] /\ order'[u] = order[u]
                           /\ pc[u] \in {"idle", "enter"}
  BY Alone DEF RemoveOrder, Go, Return, Continue, store, TypeOK
<1>2. pc[t] = "remove" /\ pc'[t] = "idle" /\ lock' = NoThread /\ command' = command
  BY DEF RemoveOrder, Go, Return, Continue, store, TypeOK, inventoryHasEnoughOf, FirstStep
<1>3. LockInv' /\ OpInv'
  BY <1>1, <1>2, ThreadAssumption DEF TypeOK, LockInv, OpInv, Purchasing, Cancelling
<1>4. CountInv'
  <2>1. t \in Uncounted' => t \in Uncounted
    BY <1>2 DEF Uncounted, OpInv, Purchasing
  <2>2. Cardinality(Uncounted') \in Nat /\ Cardinality(Uncounted') <= Cardinality(Uncounted)
    BY <1>1, <2>1, UncountedStep
  <2>3. currentID' = currentID /\ calls' = calls
    BY DEF RemoveOrder, Go, Return, Continue, store
  <2> QED  BY <2>2, <2>3, UncountedFinite, MaxCallsAssumption DEF CountInv, TypeOK
<1>5. TypeOK'
  <2>1. /\ pc' \in [Thread -> {"idle", "enter", "user", "check", "count", "construct", "add", "take",
                           "find", "giveback", "remove", "report"}]
        /\ lock' \in Thread \cup {NoThread}
    BY <1>2 DEF RemoveOrder, Go, Return, Continue, store, TypeOK
  <2>2. result' \in [Thread -> Result]
    <3>1. [is |-> "cancelled"] \in Result
      BY DEF Result
    <3> QED  BY <3>1 DEF RemoveOrder, Go, Return, Continue, store, TypeOK
  <2>3. orderHistory' \in [UserName -> SUBSET Orders]
    BY DEF RemoveOrder, Go, Return, Continue, store, TypeOK
  <2> QED  BY <2>1, <2>2, <2>3, <1>2 DEF TypeOK, RemoveOrder, Go, Return, Continue, store
<1>6. LocalInv'
  BY <1>1, <1>2 DEF RemoveOrder, Go, Return, Continue, store, TypeOK, LocalInv, inventoryHasEnoughOf
<1>7. HistoryInv' /\ UniqueIDs'
  <2>1. \A u \in UserName : orderHistory'[u] \subseteq orderHistory[u]
    BY DEF RemoveOrder, TypeOK
  <2>2. currentID' = currentID
    BY DEF RemoveOrder
  <2> QED  BY <1>1, <1>2, <2>1, <2>2 DEF HistoryInv, UniqueIDs
<1>8. NoOverselling'
  BY DEF RemoveOrder, Go, Return, Continue, store, NoOverselling
<1> QED  BY <1>1, <1>2, <1>3, <1>4, <1>5, <1>6, <1>7, <1>8

\* Reports change nothing.
LEMMA AnswerReportKeepsIInv ==
    ASSUME IInv, NEW t \in Thread, AnswerReport(t)
    PROVE  IInv'
<1> USE DEF IInv
<1>1. \A u \in Thread \ {t} : /\ pc'[u] = pc[u] /\ command'[u] = command[u]
                           /\ user'[u] = user[u] /\ order'[u] = order[u]
                           /\ pc[u] \in {"idle", "enter"}
  BY Alone DEF AnswerReport, Go, Return, Continue, store, TypeOK
<1>2. pc[t] = "report" /\ pc'[t] = "idle" /\ lock' = NoThread /\ command' = command
  BY DEF AnswerReport, Go, Return, Continue, store, TypeOK, inventoryHasEnoughOf, FirstStep
<1>3. LockInv' /\ OpInv'
  BY <1>1, <1>2, ThreadAssumption DEF TypeOK, LockInv, OpInv, Purchasing, Cancelling
<1>4. CountInv'
  <2>1. t \in Uncounted' => t \in Uncounted
    BY <1>2 DEF Uncounted, OpInv, Purchasing
  <2>2. Cardinality(Uncounted') \in Nat /\ Cardinality(Uncounted') <= Cardinality(Uncounted)
    BY <1>1, <2>1, UncountedStep
  <2>3. currentID' = currentID /\ calls' = calls
    BY DEF AnswerReport, Go, Return, Continue, store
  <2> QED  BY <2>2, <2>3, UncountedFinite, MaxCallsAssumption DEF CountInv, TypeOK
<1>5. TypeOK'
  <2>1. /\ pc' \in [Thread -> {"idle", "enter", "user", "check", "count", "construct", "add", "take",
                           "find", "giveback", "remove", "report"}]
        /\ lock' \in Thread \cup {NoThread}
    BY <1>2 DEF AnswerReport, Go, Return, Continue, store, TypeOK
  <2>2. Report(command[t]) \in Result
    BY SearchCommand DEF Report, Result, TypeOK
  <2>3. result' \in [Thread -> Result]
    BY <2>2 DEF AnswerReport, Go, Return, Continue, store, TypeOK
  <2> QED  BY <2>1, <2>2, <2>3, <1>2 DEF TypeOK, AnswerReport, Go, Return, Continue, store
<1>6. LocalInv'
  BY <1>1, <1>2 DEF AnswerReport, Go, Return, Continue, store, TypeOK, LocalInv, inventoryHasEnoughOf
<1>7. HistoryInv' /\ UniqueIDs'
  BY <1>1, <1>2, HistoryKept DEF AnswerReport, Go, Return, Continue, store
<1>8. NoOverselling'
  BY DEF AnswerReport, Go, Return, Continue, store, NoOverselling
<1> QED  BY <1>1, <1>2, <1>3, <1>4, <1>5, <1>6, <1>7, <1>8

LEMMA NextIInv == IInv /\ [Next]_storeVars => IInv'
<1> SUFFICES ASSUME IInv, [Next]_storeVars PROVE IInv'
  OBVIOUS
<1>1. ASSUME UNCHANGED storeVars PROVE IInv'
  BY <1>1 DEF storeVars, IInv, TypeOK, LockInv, OpInv, CountInv, Uncounted, LocalInv,
              HistoryInv, UniqueIDs, NoOverselling, inventoryHasEnoughOf
<1>2. ASSUME NEW t \in Thread, Execute(t) PROVE IInv'
  BY <1>2, EnterKeepsIInv, FindUserKeepsIInv, CheckInventoryKeepsIInv, CountOrderKeepsIInv,
     ConstructOrderKeepsIInv, AddOrderKeepsIInv, PurchaseQuantityKeepsIInv, FindOrderKeepsIInv,
     ReturnQuantityKeepsIInv, RemoveOrderKeepsIInv, AnswerReportKeepsIInv DEF Execute
<1> QED  BY <1>1, <1>2, CallKeepsIInv DEF Next

LEMMA Invariance == Spec => []IInv
<1> QED  BY InitIInv, NextIInv, PTL DEF Spec

-----------------------------------------------------------------------------
\* Types; in particular no more IDs are given than commands were submitted.
THEOREM TypeCorrectness == Spec => []TypeOK
<1>1. IInv => TypeOK  BY DEF IInv
<1> QED  BY <1>1, Invariance, PTL

\* Nobody can buy what another thread was promised (Server.java:130-138).
THEOREM NeverOversold == Spec => []NoOverselling
<1>1. IInv => NoOverselling  BY DEF IInv
<1> QED  BY <1>1, Invariance, PTL

\* The constructor of Order gives every order an ID of its own (Order.java:15-20).
THEOREM DistinctIDs == Spec => []UniqueIDs
<1>1. IInv => UniqueIDs  BY DEF IInv
<1> QED  BY <1>1, Invariance, PTL

-----------------------------------------------------------------------------
(* The items in a set of orders. MapThenSumSet is a recursive function, whose *)
(* properties are proved from its definition.                                 *)

\* Numbers are well-founded. What follows goes by the smallest counterexample.
LEMMA LeastNumber ==
    ASSUME NEW T, T \subseteq Nat, T # {}
    PROVE  \E m \in T : \A k \in T : m <= k
<1>1. IsWellFoundedOn(OpToRel(<, Nat), Nat)
  BY NatLessThanWellFounded
<1>2. PICK m \in T : \A k \in T : <<k, m>> \notin OpToRel(<, Nat)
  <2> HIDE <1>1
  <2> QED BY <1>1, WFMin, Zenon
<1>3. \A k \in T : ~(k < m)
  BY <1>2 DEF OpToRel
<1> QED  BY <1>3

\* The orders of users, as pairs, and the items in a set of them.
Amount(uo) == uo[2].quantity
Total(S) == MapThenSumSet(LAMBDA uo : uo[2].quantity, S)

First(S) == CHOOSE uo \in S : TRUE
Rest(S) == S \ {First(S)}

\* The recursive function behind MapThenSumSet.
Adds(g, D) == g = [s \in D |-> IF s = {} THEN 0 ELSE Amount(First(s)) + g[Rest(s)]]

\* The sum is the value of that function at the whole set.
LEMMA TotalIs == ASSUME NEW S PROVE Total(S) = (CHOOSE g : Adds(g, SUBSET S))[S]
BY DEF Total, MapThenSumSet, MapThenFoldSet, Adds, Amount, First, Rest

\* The recursion goes to a smaller set.
LEMMA RestSmaller ==
    ASSUME NEW S, IsFiniteSet(S), S # {}
    PROVE  /\ First(S) \in S /\ First(S) \notin Rest(S) /\ Rest(S) \subseteq S
           /\ IsFiniteSet(Rest(S)) /\ Cardinality(Rest(S)) = Cardinality(S) - 1
           /\ Cardinality(S) \in Nat \ {0}
<1>1. First(S) \in S
  BY DEF First
<1>2. Cardinality(S) \in Nat \ {0}
  BY FS_CardinalityType, FS_EmptySet
<1>3. /\ IsFiniteSet(Rest(S)) /\ Cardinality(Rest(S)) = Cardinality(S) - 1
  BY <1>1, FS_RemoveElement DEF Rest
<1> QED  BY <1>1, <1>2, <1>3 DEF Rest

\* There is such a function on the subsets of a finite set.
LEMMA AddsExists ==
    ASSUME NEW S, IsFiniteSet(S)
    PROVE  \E g : Adds(g, SUBSET S)
<1> DEFINE Small(n) == {s \in SUBSET S : Cardinality(s) <= n}
           Bad == {n \in Nat : ~\E g : Adds(g, Small(n))}
<1>0. \A s \in SUBSET S : IsFiniteSet(s) /\ Cardinality(s) \in Nat /\ Cardinality(s) <= Cardinality(S)
  BY FS_Subset, FS_CardinalityType
<1>1. Bad = {}
  <2> SUFFICES ASSUME Bad # {} PROVE FALSE
    OBVIOUS
  <2>1. PICK n \in Bad : \A k \in Bad : n <= k
    BY LeastNumber
  <2>2. CASE n = 0
    <3>1. \A s \in Small(0) : s = {}
      BY <1>0, FS_EmptySet
    <3>2. Adds([s \in Small(0) |-> 0], Small(0))
      BY <3>1 DEF Adds
    <3> QED  BY <2>2, <3>2
  <2>3. CASE n # 0
    <3>1. n - 1 \in Nat /\ n - 1 \notin Bad
      <4>1. Bad \subseteq Nat
        OBVIOUS
      <4> HIDE DEF Bad
      <4> QED  BY <2>1, <2>3, <4>1
    <3>2. PICK g : Adds(g, Small(n - 1))
      BY <3>1
    <3> DEFINE h == [s \in Small(n) |-> IF s = {} THEN 0 ELSE Amount(First(s)) + g[Rest(s)]]
    <3>3. \A s \in Small(n) : s # {} => Rest(s) \in Small(n - 1) /\ Rest(s) \in Small(n)
      <4> SUFFICES ASSUME NEW s \in Small(n), s # {} PROVE Rest(s) \in Small(n - 1) /\ Rest(s) \in Small(n)
        OBVIOUS
      <4>1. IsFiniteSet(s) /\ s \subseteq S /\ Cardinality(s) <= n
        BY <1>0
      <4>2. Rest(s) \subseteq s /\ Cardinality(Rest(s)) = Cardinality(s) - 1 /\ Cardinality(s) \in Nat
        BY <4>1, RestSmaller
      <4> QED  BY <4>1, <4>2
    <3>4. \A s \in Small(n - 1) : s \in Small(n) /\ h[s] = g[s]
      <4> SUFFICES ASSUME NEW s \in Small(n - 1) PROVE s \in Small(n) /\ h[s] = g[s]
        OBVIOUS
      <4>1. s \in Small(n)
        BY <1>0
      <4>2. g[s] = IF s = {} THEN 0 ELSE Amount(First(s)) + g[Rest(s)]
        BY <3>2 DEF Adds
      <4> QED  BY <4>1, <4>2
    <3>5. Adds(h, Small(n))
      <4>1. \A s \in Small(n) : s # {} => h[Rest(s)] = g[Rest(s)]
        BY <3>3, <3>4
      <4>2. h = [s \in Small(n) |-> IF s = {} THEN 0 ELSE Amount(First(s)) + h[Rest(s)]]
        BY <4>1
      <4> HIDE DEF h
      <4> QED  BY <4>2 DEF Adds
    <3> QED  BY <3>5
  <2> QED  BY <2>2, <2>3
<1>2. Cardinality(S) \in Nat
  BY FS_CardinalityType
<1>3. Small(Cardinality(S)) = SUBSET S
  BY <1>0
<1>4. Cardinality(S) \notin Bad
  BY <1>1
<1> QED  BY <1>2, <1>3, <1>4

\* Such functions agree where both are defined.
LEMMA AddsUnique ==
    \A S, T, g, h, s :
        /\ Adds(g, SUBSET S) /\ Adds(h, SUBSET T)
        /\ IsFiniteSet(s) /\ s \subseteq S /\ s \subseteq T
        => g[s] = h[s]
<1> TAKE S, T, g, h, s
<1> HAVE /\ Adds(g, SUBSET S) /\ Adds(h, SUBSET T)
         /\ IsFiniteSet(s) /\ s \subseteq S /\ s \subseteq T
<1> DEFINE Bad == {n \in Nat : \E r \in SUBSET s : Cardinality(r) = n /\ g[r] # h[r]}
<1>1. Bad = {}
  <2> SUFFICES ASSUME Bad # {} PROVE FALSE
    OBVIOUS
  <2>1. PICK n \in Bad : \A k \in Bad : n <= k
    BY LeastNumber
  <2>2. PICK r \in SUBSET s : Cardinality(r) = n /\ g[r] # h[r]
    BY <2>1
  <2>3. /\ g[r] = IF r = {} THEN 0 ELSE Amount(First(r)) + g[Rest(r)]
        /\ h[r] = IF r = {} THEN 0 ELSE Amount(First(r)) + h[Rest(r)]
    BY DEF Adds
  <2>4. r # {} /\ g[Rest(r)] # h[Rest(r)]
    BY <2>2, <2>3
  <2>5. IsFiniteSet(r)
    BY FS_Subset
  <2>6. Rest(r) \in SUBSET s /\ Cardinality(Rest(r)) = n - 1 /\ n - 1 \in Nat
    BY <2>2, <2>4, <2>5, RestSmaller
  <2>7. n - 1 \in Bad
    BY <2>4, <2>6
  <2> QED  BY <2>1, <2>7
<1>2. Cardinality(s) \in Nat
  BY FS_CardinalityType
<1> QED  BY <1>1, <1>2

\* The sum of a set is one amount and the sum of the rest.
LEMMA TotalStep ==
    /\ Total({}) = 0
    /\ \A S : IsFiniteSet(S) /\ S # {} => Total(S) = Amount(First(S)) + Total(Rest(S))
<1> DEFINE Sum(S) == CHOOSE g : Adds(g, SUBSET S)
<1>1. \A S : IsFiniteSet(S) => Adds(Sum(S), SUBSET S)
  BY AddsExists
<1>2. \A S : Total(S) = Sum(S)[S]
  BY TotalIs
<1> HIDE DEF Sum
<1>3. Total({}) = 0
  BY <1>1, <1>2, FS_EmptySet DEF Adds
<1>4. ASSUME NEW S, IsFiniteSet(S), S # {} PROVE Total(S) = Amount(First(S)) + Total(Rest(S))
  <2>1. Sum(S)[S] = Amount(First(S)) + Sum(S)[Rest(S)]
    BY <1>1, <1>4 DEF Adds
  <2>2. IsFiniteSet(Rest(S)) /\ Rest(S) \subseteq S
    BY <1>4, RestSmaller
  <2>3. Sum(S)[Rest(S)] = Sum(Rest(S))[Rest(S)]
    <3>1. Adds(Sum(S), SUBSET S) /\ Adds(Sum(Rest(S)), SUBSET Rest(S))
      BY <1>1, <1>4, <2>2
    <3> QED  BY <2>2, <3>1, AddsUnique
  <2> QED  BY <1>2, <2>1, <2>3
<1> QED  BY <1>3, <1>4

\* A sum of integers is an integer.
LEMMA TotalType ==
    ASSUME NEW S, IsFiniteSet(S), \A uo \in S : Amount(uo) \in Int
    PROVE  Total(S) \in Int
<1> DEFINE Bad == {n \in Nat : \E r \in SUBSET S : Cardinality(r) = n /\ Total(r) \notin Int}
<1>1. Bad = {}
  <2> SUFFICES ASSUME Bad # {} PROVE FALSE
    OBVIOUS
  <2>1. PICK n \in Bad : \A k \in Bad : n <= k
    BY LeastNumber
  <2>2. PICK r \in SUBSET S : Cardinality(r) = n /\ Total(r) \notin Int
    BY <2>1
  <2>3. r # {} /\ IsFiniteSet(r)
    <3>1. Total({}) \in Int
      BY TotalStep
    <3> QED  BY <2>2, <3>1, FS_Subset
  <2>4. Rest(r) \in SUBSET S /\ Cardinality(Rest(r)) = n - 1 /\ n - 1 \in Nat /\ First(r) \in S
    BY <2>2, <2>3, RestSmaller
  <2>5. Total(Rest(r)) \in Int
    BY <2>1, <2>4
  <2> QED  BY <2>2, <2>3, <2>4, <2>5, TotalStep
<1>2. Cardinality(S) \in Nat
  BY FS_CardinalityType
<1> QED  BY <1>1, <1>2

\* A new element adds its amount, whichever elements the recursion chooses first.
LEMMA TotalAdd ==
    ASSUME NEW S, IsFiniteSet(S), \A uo \in S : Amount(uo) \in Int,
           NEW x, x \notin S, Amount(x) \in Int
    PROVE  Total(S \cup {x}) = Total(S) + Amount(x)
<1> DEFINE Good(r, y) == Total(r \cup {y}) = Total(r) + Amount(y)
           Bad == {n \in Nat : \E r \in SUBSET (S \cup {x}), y \in S \cup {x} :
                       y \notin r /\ Cardinality(r) = n /\ ~Good(r, y)}
<1>0. \A r \in SUBSET (S \cup {x}) :
         IsFiniteSet(r) /\ Cardinality(r) \in Nat /\ Total(r) \in Int
  <2>1. IsFiniteSet(S \cup {x})
    BY FS_AddElement
  <2> SUFFICES ASSUME NEW r \in SUBSET (S \cup {x})
               PROVE  IsFiniteSet(r) /\ Cardinality(r) \in Nat /\ Total(r) \in Int
    OBVIOUS
  <2>2. IsFiniteSet(r)
    BY <2>1, FS_Subset
  <2>3. \A uo \in r : Amount(uo) \in Int
    OBVIOUS
  <2> QED  BY <2>2, <2>3, FS_CardinalityType, TotalType
<1>1. Bad = {}
  <2> SUFFICES ASSUME Bad # {} PROVE FALSE
    OBVIOUS
  <2>1. PICK n \in Bad : \A k \in Bad : n <= k
    BY LeastNumber
  <2>2. PICK r \in SUBSET (S \cup {x}), y \in S \cup {x} : y \notin r /\ Cardinality(r) = n /\ ~Good(r, y)
    BY <2>1
  <2> DEFINE t == r \cup {y}
             z == First(t)
  <2>3. t \in SUBSET (S \cup {x}) /\ t # {}
    BY <2>2
  <2>4. IsFiniteSet(t) /\ Total(t) = Amount(z) + Total(t \ {z}) /\ z \in t
    BY <1>0, <2>3, TotalStep, RestSmaller DEF Rest
  <2>5. Amount(y) \in Int /\ Amount(z) \in Int
    BY <2>3, <2>4
  <2>6. z # y
    <3> SUFFICES ASSUME z = y PROVE FALSE
      OBVIOUS
    <3>1. t \ {z} = r
      BY <2>2
    <3>2. Total(t) = Amount(y) + Total(r)
      BY <2>4, <3>1
    <3>3. Total(r) \in Int
      BY <1>0
    <3> QED  BY <2>2, <2>5, <3>2, <3>3
  <2> DEFINE s == r \ {z}
  <2>7. /\ z \in r /\ s \in SUBSET (S \cup {x}) /\ z \notin s /\ y \notin s
        /\ r = s \cup {z} /\ t \ {z} = s \cup {y}
    BY <2>2, <2>4, <2>6
  <2>8. Cardinality(s) = n - 1 /\ n - 1 \in Nat
    <3>1. IsFiniteSet(r) /\ Cardinality(r) = n
      BY <1>0, <2>2
    <3>2. Cardinality(s) = n - 1
      BY <2>7, <3>1, FS_RemoveElement
    <3>3. Cardinality(s) \in Nat
      BY <1>0, <2>7
    <3> QED  BY <3>2, <3>3
  <2>9. n - 1 \notin Bad
    BY <2>1, <2>8
  <2>10. Good(s, y) /\ Good(s, z)
    BY <2>7, <2>8, <2>9, <2>4, <2>3
  <2>11. Total(s) \in Int /\ Total(r) \in Int
    BY <1>0, <2>7
  <2>12. Total(t) = Amount(z) + (Total(s) + Amount(y)) /\ Total(r) = Total(s) + Amount(z)
    BY <2>4, <2>7, <2>10
  <2>13. Good(r, y)
    BY <2>5, <2>11, <2>12
  <2> QED  BY <2>2, <2>13
<1>2. Cardinality(S) \in Nat /\ S \in SUBSET (S \cup {x})
  BY FS_CardinalityType
<1>3. Cardinality(S) \notin Bad
  BY <1>1
<1> QED  BY <1>2, <1>3

-----------------------------------------------------------------------------
(* Items are neither lost nor made. In between, a purchase has its order      *)
(* placed before it takes the items, and a cancellation has them given back   *)
(* before it removes the order: Underway.                                     *)

\* The orders of a product, with their users.
Placed(p) == UNION {{<<u, o>> : o \in {h \in orderHistory[u] : h.product = p}} : u \in UserName}

\* What a command in between has placed and not taken, or given back and not
\* removed.
Underway(p) ==
    IF lock \in Thread /\ pc[lock] \in {"take", "remove"} /\ order[lock].product = p
    THEN order[lock].quantity
    ELSE 0

StockInv ==
    \A p \in Sold :
        /\ IsFiniteSet(Placed(p))
        /\ stock[p] + Ordered(p) = InitialStock[p] + Underway(p)

OrderedIsTotal ==
    \A p : /\ Ordered(p) = Total(Placed(p))
           /\ \A x : x \in Placed(p) <=> \E u \in UserName : \E o \in orderHistory[u] : o.product = p /\ x = <<u, o>>

\* The items ordered are the sum over what is placed.
LEMMA OrderedNow == OrderedIsTotal
<1>1. \A p : Ordered(p) = Total(Placed(p))
  BY DEF Ordered, Total, Placed
<1>2. \A p, x : x \in Placed(p) <=> \E u \in UserName : \E o \in orderHistory[u] : o.product = p /\ x = <<u, o>>
  BY DEF Placed
<1> QED  BY <1>1, <1>2 DEF OrderedIsTotal

LEMMA OrderedNext == OrderedIsTotal'
BY OrderedNow, PTL

\* So they are before and after a step.
LEMMA OrderedIs ==
    \A p : /\ Ordered(p) = Total(Placed(p))
           /\ Ordered(p)' = Total(Placed(p)')
BY OrderedNow, OrderedNext DEF OrderedIsTotal

LEMMA PlacedAre ==
    \A p, x :
        /\ x \in Placed(p) <=> \E u \in UserName : \E o \in orderHistory[u] : o.product = p /\ x = <<u, o>>
        /\ x \in Placed(p)' <=> \E u \in UserName : \E o \in orderHistory'[u] : o.product = p /\ x = <<u, o>>
BY OrderedNow, OrderedNext DEF OrderedIsTotal

\* All amounts are integers.
LEMMA AmountsAre ==
    ASSUME TypeOK, NEW p
    PROVE  \A x \in Placed(p) : Amount(x) \in Int
<1> SUFFICES ASSUME NEW x \in Placed(p) PROVE Amount(x) \in Int
  OBVIOUS
<1>1. PICK u \in UserName : \E o \in orderHistory[u] : x = <<u, o>>
  BY PlacedAre
<1>0. PICK o \in orderHistory[u] : x = <<u, o>>
  BY <1>1
<1>2. o.quantity \in Quantity
  BY <1>0 DEF TypeOK, Orders
<1> QED  BY <1>0, <1>2, QuantityAssumption DEF Amount

\* The ordered items are a number.
LEMMA OrderedType ==
    ASSUME TypeOK, StockInv, NEW p \in Sold
    PROVE  Ordered(p) \in Int
BY AmountsAre, OrderedIs, TotalType DEF StockInv

\* The orders determine what is placed.
LEMMA OrderHistoryKept ==
    ASSUME UNCHANGED orderHistory, NEW p
    PROVE  Placed(p)' = Placed(p) /\ Ordered(p)' = Ordered(p)
<1>1. Placed(p)' = Placed(p)
  BY DEF Placed
<1> QED  BY <1>1, OrderedIs

\* What a history lists was sold, in an integer quantity.
LEMMA OrderInHistory ==
    ASSUME IInv, NEW u \in UserName, NEW o \in orderHistory[u]
    PROVE  o.product \in Sold /\ o.quantity \in Int /\ o.id \in Nat
<1>1. o.product \in Sold
  BY DEF IInv, HistoryInv
<1>2. o \in Orders
  BY DEF IInv, TypeOK
<1>3. o.quantity \in Quantity /\ o.id \in Nat
  BY <1>2, MaxCallsAssumption DEF Orders
<1> QED  BY <1>1, <1>3, QuantityAssumption

\* A step that leaves the items, the orders and what is underway.
LEMMA StockKept ==
    ASSUME StockInv, UNCHANGED <<stock, orderHistory>>, \A p \in Sold : Underway(p)' = Underway(p)
    PROVE  StockInv'
<1>1. \A p : Placed(p)' = Placed(p) /\ Ordered(p)' = Ordered(p)
  BY OrderHistoryKept
<1> QED  BY <1>1 DEF StockInv

\* At first nothing is ordered.
LEMMA InitStockInv == Init => StockInv
<1> SUFFICES ASSUME Init PROVE StockInv
  OBVIOUS
<1> SUFFICES ASSUME NEW p \in Sold
             PROVE  IsFiniteSet(Placed(p)) /\ stock[p] + Ordered(p) = InitialStock[p] + Underway(p)
  BY DEF StockInv
<1>1. Placed(p) = {}
  BY PlacedAre DEF Init
<1>2. IsFiniteSet(Placed(p)) /\ Ordered(p) = 0
  BY <1>1, FS_EmptySet, OrderedIs, TotalStep
<1>3. Underway(p) = 0
  BY ThreadAssumption DEF Init, Underway
<1>4. stock[p] = InitialStock[p] /\ stock[p] \in Int
  BY StockAssumption DEF Init, Sold
<1> QED  BY <1>2, <1>3, <1>4

\* The new order was not there, and is the one underway.
LEMMA AddOrderKeepsStock ==
    ASSUME IInv, StockInv, NEW t \in Thread, AddOrder(t)
    PROVE  StockInv'
<1>1. pc[t] = "add" /\ lock = t /\ lock' = t /\ pc'[t] = "take" /\ order' = order /\ stock' = stock
  BY DEF IInv, LockInv, TypeOK, AddOrder, Continue, Go
<1>2. order[t] = NewOrder(command[t], currentID) /\ order[t].id = currentID
      /\ order[t].product \in Sold /\ order[t].quantity \in Int /\ user[t] \in UserName
  <2>1. command[t].op = "purchase" /\ command[t] \in Command /\ user[t] \in UserName
    BY <1>1 DEF IInv, OpInv, Purchasing, TypeOK
  <2>2. command[t].quantity \in Int
    BY <2>1, PurchaseCommand, QuantityAssumption
  <2>3. order[t] = NewOrder(command[t], currentID) /\ command[t].product \in Sold
    BY <1>1 DEF IInv, LocalInv
  <2> QED  BY <2>1, <2>2, <2>3 DEF NewOrder
<1>3. /\ \A u \in UserName \ {user[t]} : orderHistory'[u] = orderHistory[u]
      /\ orderHistory'[user[t]] = orderHistory[user[t]] \cup {order[t]}
  BY <1>2 DEF AddOrder, IInv, TypeOK
<1>4. order[t] \notin orderHistory[user[t]]
  <2>1. \A o \in orderHistory[user[t]] : o.id \in Nat /\ o.id < currentID
    BY <1>1, <1>2, MaxCallsAssumption DEF IInv, HistoryInv, TypeOK, Orders
  <2>2. currentID \in Nat
    BY MaxCallsAssumption DEF IInv, TypeOK
  <2> QED  BY <1>2, <2>1, <2>2
<1> SUFFICES ASSUME NEW p \in Sold
             PROVE  IsFiniteSet(Placed(p)') /\ stock'[p] + Ordered(p)' = InitialStock[p] + Underway(p)'
  BY DEF StockInv
<1>5. IsFiniteSet(Placed(p)) /\ stock[p] + Ordered(p) = InitialStock[p] + Underway(p)
      /\ Ordered(p) \in Int /\ stock[p] \in Int /\ InitialStock[p] \in Int
  BY OrderedType, StockAssumption DEF StockInv, IInv, TypeOK, Sold
<1>6. Underway(p) = 0
  BY <1>1 DEF Underway
<1>7. \A x : x \in Placed(p)' <=> \E u \in UserName : \E o \in orderHistory'[u] : o.product = p /\ x = <<u, o>>
  BY PlacedAre
<1>8. CASE order[t].product # p
  <2>1. \A u \in UserName : \A o : o.product = p => (o \in orderHistory'[u] <=> o \in orderHistory[u])
    BY <1>3, <1>8
  <2>4. \A x : x \in Placed(p)' <=> x \in Placed(p)
    BY <2>1, PlacedAre
  <2>5. Placed(p)' = Placed(p)
    BY <2>4
  <2>2. Ordered(p)' = Ordered(p)
    BY <2>5, OrderedIs
  <2>3. Underway(p)' = 0
    BY <1>1, <1>8 DEF Underway
  <2> QED  BY <1>1, <1>5, <1>6, <2>5, <2>2, <2>3
<1>9. CASE order[t].product = p
  <2> DEFINE x == <<user[t], order[t]>>
  <2>1. Placed(p)' = Placed(p) \cup {x}
    BY <1>9, <1>2, <1>3, <1>7, PlacedAre
  <2>2. x \notin Placed(p)
    BY <1>4, PlacedAre
  <2>3. Amount(x) = order[t].quantity
    BY DEF Amount
  <2>4. IsFiniteSet(Placed(p)') /\ Ordered(p)' = Ordered(p) + order[t].quantity
    <3>1. \A y \in Placed(p) : Amount(y) \in Int
      BY AmountsAre DEF IInv
    <3>2. Total(Placed(p) \cup {x}) = Total(Placed(p)) + Amount(x)
      BY <3>1, <2>2, <2>3, <1>2, <1>5, TotalAdd
    <3>3. Ordered(p)' = Total(Placed(p)')
      BY OrderedIs
    <3>4. Ordered(p) = Total(Placed(p))
      BY OrderedIs
    <3>5. IsFiniteSet(Placed(p) \cup {x})
      BY <1>5, FS_AddElement
    <3> QED  BY <2>1, <2>3, <3>2, <3>3, <3>4, <3>5
  <2>5. Underway(p)' = order[t].quantity
    BY <1>1, <1>9 DEF Underway
  <2> QED  BY <1>1, <1>2, <1>5, <1>6, <2>4, <2>5
<1> QED  BY <1>8, <1>9

\* What is removed is exactly the order that was given back.
LEMMA RemoveOrderKeepsStock ==
    ASSUME IInv, StockInv, NEW t \in Thread, RemoveOrder(t)
    PROVE  StockInv'
<1>1. pc[t] = "remove" /\ lock = t /\ lock' = NoThread /\ stock' = stock
  BY DEF IInv, LockInv, TypeOK, RemoveOrder, Return, Go
<1>2. order[t] \in orderHistory[user[t]] /\ user[t] \in UserName
  BY <1>1 DEF IInv, LocalInv, TypeOK
<1>3. order[t].product \in Sold /\ order[t].quantity \in Int
  BY <1>2, OrderInHistory
<1>4. /\ \A u \in UserName \ {user[t]} : orderHistory'[u] = orderHistory[u]
      /\ orderHistory'[user[t]] = orderHistory[user[t]] \ {order[t]}
  <2>1. \A o \in orderHistory[user[t]] : o.id = order[t].id => o = order[t]
    BY <1>2 DEF IInv, UniqueIDs
  <2> QED  BY <1>2, <2>1 DEF RemoveOrder, IInv, TypeOK
<1> SUFFICES ASSUME NEW p \in Sold
             PROVE  IsFiniteSet(Placed(p)') /\ stock'[p] + Ordered(p)' = InitialStock[p] + Underway(p)'
  BY DEF StockInv
<1>5. IsFiniteSet(Placed(p)) /\ stock[p] + Ordered(p) = InitialStock[p] + Underway(p)
      /\ Ordered(p) \in Int /\ stock[p] \in Int /\ InitialStock[p] \in Int
  BY OrderedType, StockAssumption DEF StockInv, IInv, TypeOK, Sold
<1>6. Underway(p)' = 0
  BY <1>1, ThreadAssumption DEF Underway
<1>8. CASE order[t].product # p
  <2>1. \A u \in UserName : \A o : o.product = p => (o \in orderHistory'[u] <=> o \in orderHistory[u])
    BY <1>4, <1>8
  <2>2. \A x : x \in Placed(p)' <=> x \in Placed(p)
    BY <2>1, PlacedAre
  <2>3. Placed(p)' = Placed(p)
    BY <2>2
  <2>4. Ordered(p)' = Ordered(p)
    BY <2>3, OrderedIs
  <2>5. Underway(p) = 0
    BY <1>1, <1>8 DEF Underway
  <2> QED  BY <1>1, <1>5, <1>6, <2>3, <2>4, <2>5
<1>9. CASE order[t].product = p
  <2> DEFINE x == <<user[t], order[t]>>
             S == Placed(p)'
  <2>1. Placed(p) = S \cup {x} /\ x \notin S /\ S \subseteq Placed(p)
    BY <1>9, <1>2, <1>4, PlacedAre
  <2>2. Amount(x) = order[t].quantity
    BY DEF Amount
  <2>3. IsFiniteSet(S)
    BY <1>5, <2>1, FS_Subset
  <2>4. \A y \in S : Amount(y) \in Int
    BY <2>1, AmountsAre DEF IInv
  <2>5. Total(S) \in Int /\ Total(Placed(p)) = Total(S) + order[t].quantity
    <3> HIDE DEF S
    <3>1. Total(S \cup {x}) = Total(S) + Amount(x)
      BY <2>1, <2>2, <2>3, <2>4, <1>3, TotalAdd
    <3> QED  BY <2>1, <2>2, <2>3, <2>4, <3>1, TotalType
  <2>6. Ordered(p) = Total(Placed(p)) /\ Ordered(p)' = Total(S)
    BY OrderedIs
  <2>7. Underway(p) = order[t].quantity
    BY <1>1, <1>9 DEF Underway
  <2> QED  BY <1>1, <1>3, <1>5, <1>6, <2>3, <2>5, <2>6, <2>7
<1> QED  BY <1>8, <1>9

\* The order underway is taken from the stock.
LEMMA PurchaseQuantityKeepsStock ==
    ASSUME IInv, StockInv, NEW t \in Thread, PurchaseQuantity(t)
    PROVE  StockInv'
<1>1. pc[t] = "take" /\ lock = t /\ lock' = NoThread /\ orderHistory' = orderHistory
  BY DEF IInv, LockInv, TypeOK, PurchaseQuantity, Return, Go
<1>2. order[t] \in orderHistory[user[t]] /\ user[t] \in UserName
  BY <1>1 DEF IInv, LocalInv, TypeOK
<1>3. order[t].product \in Sold /\ order[t].quantity \in Int
  BY <1>2, OrderInHistory
<1>4. stock' = [stock EXCEPT ![order[t].product] = @ - order[t].quantity]
  BY DEF PurchaseQuantity
<1> SUFFICES ASSUME NEW p \in Sold
             PROVE  IsFiniteSet(Placed(p)') /\ stock'[p] + Ordered(p)' = InitialStock[p] + Underway(p)'
  BY DEF StockInv
<1>5. IsFiniteSet(Placed(p)) /\ stock[p] + Ordered(p) = InitialStock[p] + Underway(p)
      /\ Ordered(p) \in Int /\ stock[p] \in Int /\ InitialStock[p] \in Int
  BY OrderedType, StockAssumption DEF StockInv, IInv, TypeOK, Sold
<1>6. Underway(p)' = 0
  BY <1>1, ThreadAssumption DEF Underway
<1>7. Underway(p) = IF order[t].product = p THEN order[t].quantity ELSE 0
  BY <1>1 DEF Underway
<1>8. stock'[p] = IF order[t].product = p THEN stock[p] - order[t].quantity ELSE stock[p]
  BY <1>3, <1>4 DEF IInv, TypeOK
<1>9. Placed(p)' = Placed(p) /\ Ordered(p)' = Ordered(p)
  BY <1>1, OrderHistoryKept
<1> QED  BY <1>3, <1>5, <1>6, <1>7, <1>8, <1>9

\* What is given back is the order that will be removed.
LEMMA ReturnQuantityKeepsStock ==
    ASSUME IInv, StockInv, NEW t \in Thread, ReturnQuantity(t)
    PROVE  StockInv'
<1>1. /\ pc[t] = "giveback" /\ lock = t /\ lock' = t /\ pc'[t] = "remove"
      /\ orderHistory' = orderHistory /\ order' = order
  BY DEF IInv, LockInv, TypeOK, ReturnQuantity, Continue, Go
<1>2. order[t] \in orderHistory[user[t]] /\ user[t] \in UserName
  BY <1>1 DEF IInv, LocalInv, TypeOK
<1>3. order[t].product \in Sold /\ order[t].quantity \in Int
  BY <1>2, OrderInHistory
<1>4. stock' = [stock EXCEPT ![order[t].product] = @ + order[t].quantity]
  BY DEF ReturnQuantity
<1> SUFFICES ASSUME NEW p \in Sold
             PROVE  IsFiniteSet(Placed(p)') /\ stock'[p] + Ordered(p)' = InitialStock[p] + Underway(p)'
  BY DEF StockInv
<1>5. IsFiniteSet(Placed(p)) /\ stock[p] + Ordered(p) = InitialStock[p] + Underway(p)
      /\ Ordered(p) \in Int /\ stock[p] \in Int /\ InitialStock[p] \in Int
  BY OrderedType, StockAssumption DEF StockInv, IInv, TypeOK, Sold
<1>6. Underway(p) = 0
  BY <1>1 DEF Underway
<1>7. Underway(p)' = IF order[t].product = p THEN order[t].quantity ELSE 0
  BY <1>1 DEF Underway
<1>8. stock'[p] = IF order[t].product = p THEN stock[p] + order[t].quantity ELSE stock[p]
  BY <1>3, <1>4 DEF IInv, TypeOK
<1>9. Placed(p)' = Placed(p) /\ Ordered(p)' = Ordered(p)
  BY <1>1, OrderHistoryKept
<1> QED  BY <1>3, <1>5, <1>6, <1>7, <1>8, <1>9

\* No other step moves items.
LEMMA StockStep ==
    ASSUME IInv, StockInv, [Next]_storeVars
    PROVE  StockInv'
<1>1. CASE UNCHANGED storeVars
  <2>1. \A p \in Sold : Underway(p)' = Underway(p)
    BY <1>1 DEF storeVars, Underway
  <2> QED  BY <1>1, <2>1, StockKept DEF storeVars
<1>2. ASSUME NEW t \in Thread, NEW c \in Command, Call(t, c)
      PROVE  StockInv'
  <2>1. /\ UNCHANGED <<stock, orderHistory, lock, order>> /\ pc[t] = "idle" /\ pc'[t] = "enter"
        /\ \A u \in Thread \ {t} : pc'[u] = pc[u]
    BY <1>2 DEF Call, Continue, Go, store, IInv, TypeOK
  <2>2. \A p \in Sold : Underway(p)' = Underway(p)
    BY <2>1 DEF Underway
  <2> QED  BY <2>1, <2>2, StockKept
<1>3. ASSUME NEW t \in Thread, Enter(t)
      PROVE  StockInv'
  <2>1. /\ UNCHANGED <<stock, orderHistory, order>> /\ lock = NoThread /\ lock' = t
        /\ pc'[t] \in {"user", "find", "report"}
    BY <1>3 DEF Enter, FirstStep, Go, store, IInv, TypeOK
  <2>2. \A p \in Sold : Underway(p)' = 0 /\ Underway(p) = 0
    BY <2>1, ThreadAssumption DEF Underway
  <2> QED  BY <2>1, <2>2, StockKept
<1>4. ASSUME NEW t \in Thread,
             FindUser(t) \/ CheckInventory(t) \/ CountOrder(t) \/ ConstructOrder(t)
                \/ FindOrder(t) \/ AnswerReport(t)
      PROVE  StockInv'
  <2>1. /\ UNCHANGED <<stock, orderHistory>> /\ pc[t] \notin {"take", "remove", "idle", "enter"}
        /\ pc'[t] \notin {"take", "remove"}
        /\ lock' = lock \/ lock' = NoThread
    BY <1>4 DEF FindUser, CheckInventory, CountOrder, ConstructOrder, FindOrder, AnswerReport,
                Continue, Return, Go, store, IInv, TypeOK
  <2>2. lock = t
    BY <2>1 DEF IInv, LockInv
  <2>3. \A p \in Sold : Underway(p)' = 0 /\ Underway(p) = 0
    BY <2>1, <2>2, ThreadAssumption DEF Underway
  <2> QED  BY <2>1, <2>3, StockKept
<1> QED  BY <1>1, <1>2, <1>3, <1>4, AddOrderKeepsStock, RemoveOrderKeepsStock,
            PurchaseQuantityKeepsStock, ReturnQuantityKeepsStock DEF Next, Execute

\* Whatever the threads do, cancellations of the same order and malformed
\* commands included, what is in stock and what is in orders add up to the input
\* file between commands (Server.java:108-171).
THEOREM Conserved == Spec => []Conservation
<1>1. Init => StockInv
  BY InitStockInv
<1>2. IInv /\ StockInv /\ [Next]_storeVars => StockInv'
  BY StockStep
<1>3. IInv /\ StockInv => Conservation
  <2> SUFFICES ASSUME IInv, StockInv, \A t \in Thread : pc[t] \in {"idle", "enter"}, NEW p \in Sold
               PROVE  stock[p] + Ordered(p) = InitialStock[p]
    BY DEF Conservation
  <2>1. Underway(p) = 0
    BY DEF Underway
  <2>2. InitialStock[p] \in Int
    BY StockAssumption DEF Sold
  <2> QED  BY <2>1, <2>2 DEF StockInv
<1> QED  BY <1>1, <1>2, <1>3, Invariance, PTL DEF Spec

-----------------------------------------------------------------------------
(* The refinement. These are what Atomic substitutes for the variables of    *)
(* AtomicStore; clients is the same.                                         *)
stocks == [p \in Sold |-> FinalStock(p)]
histories == [u \in UserName |-> FinalOrders(u)]

\* When a thread has the lock, what is final depends on its step only.
LEMMA FinalBuying ==
    ASSUME IInv, NEW t \in Thread, lock = t, Buying(t), NEW u \in UserName, NEW p \in Sold
    PROVE  /\ FinalStock(p) = IF command[t].product = p THEN stock[p] - command[t].quantity ELSE stock[p]
           /\ FinalOrders(u) = IF user[t] = u THEN orderHistory[u] \cup {NewOrder(command[t], FinalID)}
                               ELSE orderHistory[u]
BY ThreadAssumption DEF FinalStock, FinalOrders, Buying

\* Without a purchase or a cancellation under way everything is final.
LEMMA FinalQuiet ==
    ASSUME lock = NoThread \/ (~Buying(lock) /\ pc[lock] \notin {"giveback", "remove"})
    PROVE  /\ FinalID = currentID
           /\ \A p \in Sold : FinalStock(p) = stock[p]
           /\ \A u \in UserName : FinalOrders(u) = orderHistory[u]
BY DEF FinalID, FinalStock, FinalOrders, NotCounted, Buying

LEMMA InitRefines == Init => Atomic!Init
<1> SUFFICES ASSUME Init PROVE Atomic!Init
  OBVIOUS
<1>1. /\ FinalID = currentID
      /\ \A p \in Sold : FinalStock(p) = stock[p]
      /\ \A u \in UserName : FinalOrders(u) = orderHistory[u]
  BY FinalQuiet DEF Init
<1>2. stocks = InitialStock
  BY <1>1, StockAssumption DEF Init, stocks, Sold
<1> QED  BY <1>1, <1>2 DEF Init, Atomic!Init, stocks

\* Outside the lock and in reports, nothing that is final changes.
LEMMA QuietRefines ==
    ASSUME lock = NoThread \/ (~Buying(lock) /\ pc[lock] \notin {"giveback", "remove"}),
           lock' = NoThread \/ (~Buying(lock)' /\ pc'[lock'] \notin {"giveback", "remove"}),
           UNCHANGED store
    PROVE  UNCHANGED Atomic!vars
<1>1. /\ FinalID = currentID
      /\ \A p \in Sold : FinalStock(p) = stock[p]
      /\ \A u \in UserName : FinalOrders(u) = orderHistory[u]
  BY FinalQuiet
<1>2. /\ FinalID' = currentID'
      /\ \A p \in Sold : FinalStock(p)' = stock'[p]
      /\ \A u \in UserName : FinalOrders(u)' = orderHistory'[u]
  BY DEF FinalID, FinalStock, FinalOrders, NotCounted, Buying
<1> QED  BY <1>1, <1>2 DEF Atomic!vars, store

LEMMA CallRefines ==
    ASSUME IInv, NEW t \in Thread, NEW c \in Command, Call(t, c)
    PROVE  UNCHANGED Atomic!vars
<1>1. /\ pc[t] = "idle" /\ lock' = lock /\ UNCHANGED store
      /\ \A u \in Thread \ {t} : pc'[u] = pc[u] /\ command'[u] = command[u]
      /\ UNCHANGED <<user, order>>
  BY DEF IInv, TypeOK, Call, Continue, Go
<1>2. lock # t
  BY <1>1 DEF IInv, LockInv
<1>3. lock # NoThread => /\ lock \in Thread \ {t} /\ pc'[lock] = pc[lock] /\ command'[lock] = command[lock]
  BY <1>1, <1>2 DEF IInv, TypeOK
<1>4. /\ FinalID' = FinalID
      /\ \A p \in Sold : FinalStock(p)' = FinalStock(p)
      /\ \A u \in UserName : FinalOrders(u)' = FinalOrders(u)
  BY <1>1, <1>3 DEF FinalID, FinalStock, FinalOrders, NotCounted, Buying, store, inventoryHasEnoughOf
<1> QED  BY <1>1, <1>4 DEF Atomic!vars, store

LEMMA EnterRefines ==
    ASSUME IInv, NEW t \in Thread, Enter(t)
    PROVE  UNCHANGED Atomic!vars
<1>1. lock = NoThread /\ lock' = t /\ pc'[t] \in {"user", "find", "report"} /\ UNCHANGED store
  BY DEF IInv, TypeOK, Enter, Go, FirstStep
<1>2. ~Buying(lock)' /\ pc'[lock'] \notin {"giveback", "remove"}
  BY <1>1 DEF Buying
<1> QED  BY <1>1, <1>2, QuietRefines

LEMMA AnswerReportRefines ==
    ASSUME IInv, NEW t \in Thread, AnswerReport(t)
    PROVE  UNCHANGED Atomic!vars
<1>1. lock = t /\ pc[t] = "report" /\ lock' = NoThread /\ UNCHANGED store
  BY DEF IInv, LockInv, AnswerReport, Return
<1>2. ~Buying(lock) /\ pc[lock] \notin {"giveback", "remove"}
  BY <1>1 DEF Buying
<1> QED  BY <1>1, <1>2, QuietRefines

\* The purchase is final as soon as its user is found, if it will pass the check.
LEMMA FindUserRefines ==
    ASSUME IInv, NEW t \in Thread, FindUser(t)
    PROVE  Atomic!Next
<1> USE DEF IInv
<1> DEFINE c == command[t]
<1>1. /\ lock = t /\ lock' = t /\ t # NoThread /\ pc[t] = "user" /\ pc'[t] = "check"
      /\ command' = command /\ user'[t] = c.user
      /\ UNCHANGED <<stock, orderHistory, currentID>> /\ clients' = clients \cup {c.user}
  BY ThreadAssumption DEF TypeOK, LockInv, FindUser, Continue, Go
<1>2. c.user \in UserName /\ c.product \in Product /\ c.quantity \in Quantity
  BY <1>1, PurchaseCommand DEF TypeOK, OpInv, Purchasing
<1>3. /\ FinalID = currentID
      /\ \A p \in Sold : FinalStock(p) = stock[p]
      /\ \A u \in UserName : FinalOrders(u) = orderHistory[u]
  BY <1>1, FinalQuiet DEF Buying
<1>4. CASE c.product \in Sold /\ stock[c.product] >= c.quantity
  <2>1. Buying(t)' /\ NotCounted(t)' /\ FinalID' = currentID + 1
    BY <1>1, <1>4 DEF Buying, NotCounted, FinalID, inventoryHasEnoughOf
  <2>2. \A p \in Sold : FinalStock(p)' = IF p = c.product THEN stock[p] - c.quantity ELSE stock[p]
    BY <1>1, <2>1 DEF FinalStock
  <2>3. \A u \in UserName : FinalOrders(u)' = IF u = c.user
                                               THEN orderHistory[u] \cup {NewOrder(c, currentID + 1)}
                                               ELSE orderHistory[u]
    BY <1>1, <2>1 DEF FinalOrders
  <2>4. stocks' = [stocks EXCEPT ![c.product] = @ - c.quantity]
    BY <1>3, <1>4, <2>2 DEF stocks
  <2>5. histories' = [histories EXCEPT ![c.user] = @ \cup {NewOrder(c, currentID + 1)}]
    BY <1>2, <1>3, <2>3 DEF histories
  <2>6. NewOrder(c, currentID + 1) = [id |-> FinalID + 1, product |-> c.product, quantity |-> c.quantity]
    BY <1>3 DEF NewOrder
  <2>7. c.product \in DOMAIN stocks /\ stocks[c.product] >= c.quantity
    BY <1>3, <1>4 DEF stocks
  <2>8. Atomic!Purchase(c.user, c.product, c.quantity)
    BY <1>1, <1>3, <2>1, <2>4, <2>5, <2>6, <2>7 DEF Atomic!Purchase, stocks, histories
  <2> QED  BY <1>2, <2>8 DEF Atomic!Next
<1>5. CASE ~(c.product \in Sold /\ stock[c.product] >= c.quantity)
  <2>1. ~Buying(lock)' /\ pc'[lock'] \notin {"giveback", "remove"}
    BY <1>1, <1>5 DEF Buying, inventoryHasEnoughOf
  <2>2. /\ FinalID' = currentID
        /\ \A p \in Sold : FinalStock(p)' = stock[p]
        /\ \A u \in UserName : FinalOrders(u)' = orderHistory[u]
    BY <1>1, <2>1 DEF FinalID, FinalStock, FinalOrders, NotCounted, Buying
  <2>3. Atomic!Refuse(c.user)
    BY <1>1, <1>3, <2>2 DEF Atomic!Refuse
  <2> QED  BY <1>2, <2>3 DEF Atomic!Next
<1> QED  BY <1>4, <1>5

\* From then on the calls of purchase() only carry out what is final already.
LEMMA CheckInventoryRefines ==
    ASSUME IInv, NEW t \in Thread, CheckInventory(t)
    PROVE  UNCHANGED Atomic!vars
<1> USE DEF IInv
<1>1. /\ lock = t /\ t # NoThread /\ pc[t] = "check" /\ command' = command
      /\ UNCHANGED <<stock, orderHistory, clients, currentID, user, order>>
  BY ThreadAssumption DEF LockInv, CheckInventory, store
<1>2. CASE Buying(t)
  <2>1. pc'[t] = "count" /\ lock' = t
    BY <1>1, <1>2 DEF CheckInventory, Buying, Continue, Go, TypeOK
  <2>2. /\ FinalID' = FinalID
        /\ \A p \in Sold : FinalStock(p)' = FinalStock(p)
        /\ \A u \in UserName : FinalOrders(u)' = FinalOrders(u)
    BY <1>1, <1>2, <2>1 DEF FinalID, FinalStock, FinalOrders, NotCounted, Buying
  <2> QED  BY <1>1, <2>2 DEF Atomic!vars
<1>3. CASE ~Buying(t)
  <2>1. lock' = NoThread
    BY <1>1, <1>3 DEF CheckInventory, Buying, Return
  <2> QED  BY <1>1, <1>3, <2>1, QuietRefines DEF store
<1> QED  BY <1>2, <1>3

LEMMA CountOrderRefines ==
    ASSUME IInv, NEW t \in Thread, CountOrder(t)
    PROVE  UNCHANGED Atomic!vars
<1>1. /\ lock = t /\ lock' = t /\ t # NoThread /\ pc[t] = "count" /\ pc'[t] = "construct"
      /\ currentID' = currentID + 1
      /\ UNCHANGED <<stock, orderHistory, clients, user, order, command>>
  BY ThreadAssumption DEF IInv, LockInv, TypeOK, CountOrder, Continue, Go
<1>2. /\ FinalID' = FinalID
      /\ \A p \in Sold : FinalStock(p)' = FinalStock(p)
      /\ \A u \in UserName : FinalOrders(u)' = FinalOrders(u)
  BY <1>1 DEF FinalID, FinalStock, FinalOrders, NotCounted, Buying
<1> QED  BY <1>1, <1>2 DEF Atomic!vars

LEMMA ConstructOrderRefines ==
    ASSUME IInv, NEW t \in Thread, ConstructOrder(t)
    PROVE  UNCHANGED Atomic!vars
<1>1. /\ lock = t /\ lock' = t /\ t # NoThread /\ pc[t] = "construct" /\ pc'[t] = "add"
      /\ UNCHANGED <<stock, orderHistory, clients, currentID, user, command>>
  BY ThreadAssumption DEF IInv, LockInv, TypeOK, ConstructOrder, Continue, Go, store
<1>2. /\ FinalID' = FinalID
      /\ \A p \in Sold : FinalStock(p)' = FinalStock(p)
      /\ \A u \in UserName : FinalOrders(u)' = FinalOrders(u)
  BY <1>1 DEF FinalID, FinalStock, FinalOrders, NotCounted, Buying
<1> QED  BY <1>1, <1>2 DEF Atomic!vars

LEMMA AddOrderRefines ==
    ASSUME IInv, NEW t \in Thread, AddOrder(t)
    PROVE  UNCHANGED Atomic!vars
<1>1. /\ lock = t /\ lock' = t /\ t # NoThread /\ pc[t] = "add" /\ pc'[t] = "take"
      /\ orderHistory' = [orderHistory EXCEPT ![user[t]] = @ \cup {order[t]}]
      /\ UNCHANGED <<stock, clients, currentID, user, order, command>>
  BY ThreadAssumption DEF IInv, LockInv, TypeOK, AddOrder, Continue, Go
<1>2. order[t] = NewOrder(command[t], currentID)
  BY <1>1 DEF IInv, LocalInv
<1>3. Buying(t) /\ Buying(t)' /\ FinalID = currentID /\ FinalID' = currentID
  BY <1>1 DEF Buying, FinalID, NotCounted
<1>4. \A u \in UserName : FinalOrders(u)' = FinalOrders(u)
  BY <1>1, <1>2, <1>3 DEF FinalOrders, IInv, TypeOK
<1>5. \A p \in Sold : FinalStock(p)' = FinalStock(p)
  BY <1>1, <1>3 DEF FinalStock
<1> QED  BY <1>1, <1>3, <1>4, <1>5 DEF Atomic!vars

LEMMA PurchaseQuantityRefines ==
    ASSUME IInv, NEW t \in Thread, PurchaseQuantity(t)
    PROVE  UNCHANGED Atomic!vars
<1>1. /\ lock = t /\ lock' = NoThread /\ t # NoThread /\ pc[t] = "take"
      /\ stock' = [stock EXCEPT ![order[t].product] = @ - order[t].quantity]
      /\ UNCHANGED <<orderHistory, clients, currentID>>
  BY ThreadAssumption DEF IInv, LockInv, PurchaseQuantity, Return
<1>2. order[t] = NewOrder(command[t], currentID) /\ order[t] \in orderHistory[user[t]]
  BY <1>1 DEF IInv, LocalInv
<1>3. order[t].product = command[t].product /\ order[t].quantity = command[t].quantity
  BY <1>2 DEF NewOrder
<1>4. Buying(t) /\ FinalID = currentID /\ FinalID' = currentID
  BY <1>1 DEF Buying, FinalID, NotCounted
<1>5. \A u \in UserName : FinalOrders(u)' = FinalOrders(u)
  BY <1>1, <1>2, <1>4 DEF FinalOrders
<1>6. \A p \in Sold : FinalStock(p)' = FinalStock(p)
  BY <1>1, <1>3, <1>4 DEF FinalStock, IInv, TypeOK
<1> QED  BY <1>1, <1>4, <1>5, <1>6 DEF Atomic!vars

\* A cancellation is final when its order is found.
LEMMA FindOrderRefines ==
    ASSUME IInv, NEW t \in Thread, FindOrder(t)
    PROVE  Atomic!Next \/ UNCHANGED Atomic!vars
<1> USE DEF IInv
<1>1. lock = t /\ t # NoThread /\ pc[t] = "find" /\ UNCHANGED store
  BY ThreadAssumption DEF LockInv, FindOrder
<1>2. ~Buying(lock) /\ pc[lock] \notin {"giveback", "remove"}
  BY <1>1 DEF Buying
<1>3. CASE lock' = NoThread
  BY <1>1, <1>2, <1>3, QuietRefines
<1>4. CASE lock' # NoThread
  <2>1. PICK u \in UserName : \E o \in orderHistory[u] :
              /\ user' = [user EXCEPT ![t] = u] /\ order' = [order EXCEPT ![t] = o]
              /\ Continue(t, "giveback")
    BY <1>4 DEF FindOrder, Return
  <2>2. PICK o \in orderHistory[u] : /\ user' = [user EXCEPT ![t] = u]
                                     /\ order' = [order EXCEPT ![t] = o]
                                     /\ Continue(t, "giveback")
    BY <2>1
  <2>3. lock' = t /\ pc'[t] = "giveback" /\ user'[t] = u /\ order'[t] = o
    BY <1>1, <2>2 DEF Continue, Go, TypeOK
  <2>4. /\ FinalID = currentID /\ \A p \in Sold : FinalStock(p) = stock[p]
        /\ \A v \in UserName : FinalOrders(v) = orderHistory[v]
    BY <1>2, FinalQuiet
  <2>5. ~Buying(t)' /\ ~NotCounted(t)' /\ FinalID' = currentID
    BY <1>1, <2>3 DEF Buying, NotCounted, FinalID, store
  <2>6. \A p \in Sold : FinalStock(p)' = IF p = o.product THEN stock[p] + o.quantity ELSE stock[p]
    BY <1>1, <2>3, <2>5 DEF FinalStock, store
  <2>7. \A v \in UserName : FinalOrders(v)' = IF v = u THEN orderHistory[v] \ {o} ELSE orderHistory[v]
    BY <1>1, <2>3, <2>5 DEF FinalOrders, store
  <2>8. o.product \in Sold /\ o \in histories[u]
    BY <2>2, <2>4 DEF HistoryInv, histories
  <2>9. stocks' = [stocks EXCEPT ![o.product] = @ + o.quantity]
    BY <2>4, <2>6, <2>8 DEF stocks
  <2>10. histories' = [histories EXCEPT ![u] = @ \ {o}]
    BY <2>4, <2>7 DEF histories
  <2>11. Atomic!Cancel(u, o)
    BY <1>1, <2>4, <2>5, <2>8, <2>9, <2>10 DEF Atomic!Cancel, stocks, histories, store
  <2> QED  BY <2>8, <2>11 DEF Atomic!Next, histories
<1> QED  BY <1>3, <1>4

LEMMA ReturnQuantityRefines ==
    ASSUME IInv, NEW t \in Thread, ReturnQuantity(t)
    PROVE  UNCHANGED Atomic!vars
<1>1. /\ lock = t /\ lock' = t /\ t # NoThread /\ pc[t] = "giveback" /\ pc'[t] = "remove"
      /\ stock' = [stock EXCEPT ![order[t].product] = @ + order[t].quantity]
      /\ UNCHANGED <<orderHistory, clients, currentID, user, order>>
  BY ThreadAssumption DEF IInv, LockInv, TypeOK, ReturnQuantity, Continue, Go
<1>2. ~Buying(t) /\ ~Buying(t)' /\ ~NotCounted(t) /\ ~NotCounted(t)'
  BY <1>1 DEF Buying, NotCounted
<1>3. /\ FinalID' = FinalID
      /\ \A u \in UserName : FinalOrders(u)' = FinalOrders(u)
  BY <1>1, <1>2 DEF FinalID, FinalOrders
<1>4. \A p \in Sold : FinalStock(p)' = FinalStock(p)
  BY <1>1, <1>2 DEF FinalStock, IInv, TypeOK
<1> QED  BY <1>1, <1>3, <1>4 DEF Atomic!vars

\* Removing by ID removes just the order, since IDs are unique.
LEMMA RemoveOrderRefines ==
    ASSUME IInv, NEW t \in Thread, RemoveOrder(t)
    PROVE  UNCHANGED Atomic!vars
<1>1. /\ lock = t /\ lock' = NoThread /\ t # NoThread /\ pc[t] = "remove"
      /\ orderHistory' = [orderHistory EXCEPT ![user[t]] = {o \in @ : o.id # order[t].id}]
      /\ UNCHANGED <<stock, clients, currentID>>
  BY ThreadAssumption DEF IInv, LockInv, RemoveOrder, Return
<1>2. order[t] \in orderHistory[user[t]] /\ user[t] \in UserName
  BY <1>1 DEF IInv, LocalInv, TypeOK
<1>3. {o \in orderHistory[user[t]] : o.id # order[t].id} = orderHistory[user[t]] \ {order[t]}
  BY <1>2 DEF IInv, UniqueIDs
<1>4. ~Buying(t) /\ ~NotCounted(t)
  BY <1>1 DEF Buying, NotCounted
<1>5. \A u \in UserName : FinalOrders(u)' = FinalOrders(u)
  BY <1>1, <1>3, <1>4 DEF FinalOrders, IInv, TypeOK
<1>6. FinalID' = FinalID /\ \A p \in Sold : FinalStock(p)' = FinalStock(p)
  BY <1>1, <1>4 DEF FinalID, FinalStock
<1> QED  BY <1>1, <1>5, <1>6 DEF Atomic!vars

LEMMA StepRefines == IInv /\ [Next]_storeVars => [Atomic!Next]_(Atomic!vars)
<1> SUFFICES ASSUME IInv, [Next]_storeVars PROVE Atomic!Next \/ UNCHANGED Atomic!vars
  OBVIOUS
<1>1. ASSUME UNCHANGED storeVars PROVE UNCHANGED Atomic!vars
  <2>1. /\ FinalID' = FinalID
        /\ \A p \in Sold : FinalStock(p)' = FinalStock(p)
        /\ \A u \in UserName : FinalOrders(u)' = FinalOrders(u)
    BY <1>1 DEF storeVars, FinalID, FinalStock, FinalOrders, NotCounted, Buying, inventoryHasEnoughOf
  <2> QED  BY <1>1, <2>1 DEF Atomic!vars, storeVars
<1>2. ASSUME NEW t \in Thread, Execute(t) PROVE Atomic!Next \/ UNCHANGED Atomic!vars
  BY <1>2, EnterRefines, FindUserRefines, CheckInventoryRefines, CountOrderRefines,
     ConstructOrderRefines, AddOrderRefines, PurchaseQuantityRefines, FindOrderRefines,
     ReturnQuantityRefines, RemoveOrderRefines, AnswerReportRefines DEF Execute
<1> QED  BY <1>1, <1>2, CallRefines DEF Next

\* Executing commands under the lock is as good as executing them at once
\* (Server.java:108-171).
THEOREM ImplementsAtomicStore == Spec => Serializable
<1> QED  BY InitRefines, StepRefines, Invariance, PTL DEF Spec, Serializable, Atomic!Spec

-----------------------------------------------------------------------------
(* The server. It uses the store as Spec says, so that what is proved of the  *)
(* store holds of the server, its clients and the network around it.         *)

\* The commands that are on their way are commands.
Submitted ==
    /\ asked \in [Client -> Command]
    /\ \A d \in requests : d.command \in Command
    /\ backlog \in Seq(Client)
    /\ tcp = "read" => served \in Client

LEMMA NoCommandIsOne == NoCommand \in Command
BY DEF NoCommand, Command

LEMMA SubmittedInit == ServerInit => Submitted
BY NoCommandIsOne DEF ServerInit, Submitted

LEMMA SubmittedStep == Submitted /\ [ServerNext]_serverVars => Submitted'
<1> SUFFICES ASSUME Submitted, [ServerNext]_serverVars PROVE Submitted'
  OBVIOUS
<1>1. ASSUME NEW c \in Client, NEW q \in Script[c], Connect(c, q) PROVE Submitted'
  <2>1. q \in Command
    BY ServerAssumption
  <2>2. backlog' \in Seq(Client)
    BY <1>1 DEF Connect, Submitted
  <2> QED
    BY <1>1, <2>1, <2>2 DEF Connect, Ask, Submitted, udpVars
<1>2. ASSUME NEW c \in Client, NEW q \in Script[c], SendDatagram(c, q) PROVE Submitted'
  <2>1. q \in Command
    BY ServerAssumption
  <2> QED
    BY <1>2, <2>1 DEF SendDatagram, Datagram, Ask, Submitted, tcpVars
<1>3. ASSUME NEW c \in Client, WriteCommand(c) \/ ReadAnswer(c) \/ Disappear(c)
      PROVE  Submitted'
  BY <1>3 DEF WriteCommand, ReadAnswer, Disappear, Submitted, udpVars
<1>4. ASSUME NEW c \in Client, Lose(c) PROVE Submitted'
  BY <1>4 DEF Lose, Submitted, clientVars, tcpVars
<1>5. CASE Duplicate
  BY <1>5 DEF Duplicate, Datagram, Submitted, clientVars, tcpVars
<1>6. CASE Accept
  <2>1. Head(backlog) \in Client /\ Tail(backlog) \in Seq(Client)
    BY <1>6 DEF Accept, Submitted
  <2> QED
    BY <1>6, <2>1 DEF Accept, Submitted, clientVars, udpVars
<1>7. CASE ReadCommand \/ EndOfInput \/ AnswerTCP
  BY <1>7 DEF ReadCommand, EndOfInput, AnswerTCP, Submitted, clientVars, udpVars
<1>8. CASE UDPServer
  BY <1>8 DEF UDPServer, Receive, AnswerUDP, Submitted, clientVars, tcpVars
<1>9. ASSUME NEW t \in Thread, Pool(t) PROVE Submitted'
  BY <1>9 DEF Pool, Submitted, clientVars, tcpVars, udpVars
<1>10. CASE UNCHANGED serverVars
  BY <1>10 DEF serverVars, Submitted, clientVars, tcpVars, udpVars
<1> QED
  BY <1>1, <1>2, <1>3, <1>4, <1>5, <1>6, <1>7, <1>8, <1>9, <1>10
  DEF ServerNext, TCPServer

\* What the clients, the network and the loops do to the store is to call it.
LEMMA StoreStep == Submitted /\ [ServerNext]_serverVars => [Next]_storeVars
<1> SUFFICES ASSUME Submitted, [ServerNext]_serverVars PROVE [Next]_storeVars
  OBVIOUS
<1>1. CASE ReadCommand
  <2>1. "TCP" \in Thread /\ asked[served] \in Command
    BY <1>1, ServerAssumption DEF ReadCommand, Submitted
  <2> QED
    BY <1>1, <2>1 DEF ReadCommand, Next
<1>2. CASE Receive
  <2>1. PICK d \in requests : Call("UDP", d.command)
    BY <1>2 DEF Receive
  <2>2. "UDP" \in Thread /\ d.command \in Command
    BY ServerAssumption DEF Submitted
  <2> QED
    BY <2>1, <2>2 DEF Next
<1>3. ASSUME NEW t \in Thread, Pool(t) PROVE [Next]_storeVars
  BY <1>3 DEF Pool, Next
<1>4. ASSUME NEW c \in Client, NEW q \in Script[c], Connect(c, q) \/ SendDatagram(c, q)
      PROVE  UNCHANGED storeVars
  BY <1>4 DEF Connect, SendDatagram
<1>5. ASSUME NEW c \in Client, WriteCommand(c) \/ ReadAnswer(c) \/ Disappear(c) \/ Lose(c)
      PROVE  UNCHANGED storeVars
  BY <1>5 DEF WriteCommand, ReadAnswer, Disappear, Lose
<1>6. CASE Duplicate \/ Accept \/ EndOfInput \/ AnswerTCP \/ AnswerUDP
  BY <1>6 DEF Duplicate, Accept, EndOfInput, AnswerTCP, AnswerUDP
<1>7. CASE UNCHANGED serverVars
  BY <1>7 DEF serverVars
<1> QED
  BY <1>1, <1>2, <1>3, <1>4, <1>5, <1>6, <1>7 DEF ServerNext, TCPServer, UDPServer

\* The server implements the store of OrderStore: the sockets, the loops and the
\* clients of Server.java and Client.java add no other way to change it.
THEOREM ServerUsesStore == ServerSpec => Spec
<1>1. ServerInit => Init
  BY DEF ServerInit
<1> QED
  BY <1>1, SubmittedInit, SubmittedStep, StoreStep, PTL DEF ServerSpec, Spec

\* Behind the two loops no item is sold that is not there (Server.java line 136).
THEOREM ServerNeverOversold == ServerSpec => []NoOverselling
BY ServerUsesStore, NeverOversold, PTL

\* Behind the two loops an ID names one order of one user (Order.java).
THEOREM ServerDistinctIDs == ServerSpec => []UniqueIDs
BY ServerUsesStore, DistinctIDs, PTL

\* Behind the two loops the commands take effect one after the other.
THEOREM ServerSerializable == ServerSpec => Serializable
BY ServerUsesStore, ImplementsAtomicStore

\* Behind the two loops items are neither lost nor made.
THEOREM ServerConserves == ServerSpec => []Conservation
BY ServerUsesStore, Conserved, PTL

-----------------------------------------------------------------------------
(* The answers. A result fits its command when it is returned (ExecutedFits), *)
(* and what fits goes on fitting, as no ID is assigned twice (FitsStays); the *)
(* two loops and the network bring it to the client that asked.               *)

\* The IDs up to this one are given to orders that were added.
Assigned == IF \E t \in Thread : pc[t] \in {"construct", "add"} THEN currentID - 1 ELSE currentID

\* The command of a thread is the one its step belongs to.
FoundInv ==
    \A t \in Thread :
        /\ pc[t] \in {"giveback", "remove"} => order[t].id = command[t].id
        /\ pc[t] = "report" => command[t].op \notin {"purchase", "cancel"}

\* The result r is one of the command q, and true of the orders h when the IDs
\* up to n are assigned; as no ID is assigned twice it will stay true.
Fits(q, r, h, n) ==
    CASE q.op = "purchase" ->
           /\ r.is \in {"placed", "not sold", "not enough"}
           /\ r.is = "placed" =>
                /\ r.id \in Int /\ r.id <= n
                /\ \A u \in UserName : \A o \in h[u] : o.id = r.id => u = q.user /\ o = NewOrder(q, r.id)
      [] q.op = "cancel" ->
           /\ r.is \in {"cancelled", "no such order"}
           /\ r.is = "cancelled" =>
                /\ q.id \in Int /\ q.id <= n
                /\ \A u \in UserName : \A o \in h[u] : o.id # q.id
      [] q.op = "search" -> r.is \in {"orders", "no customer"}
      [] q.op = "list" -> r.is = "inventory"
      [] OTHER -> r.is \in {"invalid", "exception"}

\* At first no command is executed.
LEMMA InitFoundInv == Init => FoundInv
BY DEF Init, FoundInv

\* Every step keeps the two.
LEMMA FoundStep == IInv /\ FoundInv /\ [Next]_storeVars => FoundInv'
<1> SUFFICES ASSUME IInv, FoundInv, [Next]_storeVars PROVE FoundInv'
  OBVIOUS
<1>1. CASE UNCHANGED storeVars
  BY <1>1 DEF storeVars, FoundInv
<1>2. ASSUME NEW t \in Thread, NEW c \in Command, Call(t, c) PROVE FoundInv'
  BY <1>2 DEF Call, Continue, Go, FoundInv, IInv, TypeOK
<1>3. ASSUME NEW t \in Thread, Execute(t) PROVE FoundInv'
  <2>1. CASE Enter(t)
    <3>1. FirstStep(command[t]) = "report" => command[t].op \notin {"purchase", "cancel"}
      BY DEF FirstStep
    <3>2. FirstStep(command[t]) \in {"user", "find", "report"}
      BY DEF FirstStep
    <3> QED  BY <2>1, <3>1, <3>2 DEF Enter, Go, FoundInv, IInv, TypeOK
  <2>2. CASE FindOrder(t)
    BY <2>2 DEF FindOrder, Continue, Return, Go, FoundInv, IInv, TypeOK
  <2>3. CASE FindUser(t) \/ CheckInventory(t) \/ CountOrder(t) \/ ConstructOrder(t) \/ AddOrder(t)
             \/ PurchaseQuantity(t)
    BY <2>3 DEF FindUser, CheckInventory, CountOrder, ConstructOrder, AddOrder, PurchaseQuantity,
                Continue, Return, Go, FoundInv, IInv, TypeOK
  <2>4. CASE ReturnQuantity(t) \/ RemoveOrder(t) \/ AnswerReport(t)
    BY <2>4 DEF ReturnQuantity, RemoveOrder, AnswerReport, Continue, Return, Go, FoundInv, IInv, TypeOK
  <2> QED  BY <1>3, <2>1, <2>2, <2>3, <2>4 DEF Execute
<1> QED  BY <1>1, <1>2, <1>3 DEF Next

\* A step of one thread says nothing of the command and the result of another.
LEMMA OthersKept ==
    ASSUME IInv, NEW t \in Thread, Execute(t)
    PROVE  /\ command' = command
           /\ \A u \in Thread \ {t} : pc'[u] = pc[u] /\ result'[u] = result[u]
<1>1. CASE Enter(t)
  BY <1>1 DEF Enter, Go, IInv, TypeOK
<1>2. CASE FindUser(t) \/ CheckInventory(t) \/ CountOrder(t) \/ ConstructOrder(t) \/ AddOrder(t)
           \/ PurchaseQuantity(t)
  BY <1>2 DEF FindUser, CheckInventory, CountOrder, ConstructOrder, AddOrder, PurchaseQuantity,
              Continue, Return, Go, IInv, TypeOK
<1>3. CASE FindOrder(t) \/ ReturnQuantity(t) \/ RemoveOrder(t) \/ AnswerReport(t)
  BY <1>3 DEF FindOrder, ReturnQuantity, RemoveOrder, AnswerReport, Continue, Return, Go, IInv, TypeOK
<1> QED  BY <1>1, <1>2, <1>3 DEF Execute

\* No ID is assigned twice.
LEMMA AssignedOnce ==
    ASSUME IInv, [Next]_storeVars
    PROVE  /\ Assigned \in Int /\ Assigned' \in Int /\ Assigned <= Assigned'
           /\ \A u \in UserName : \A o \in orderHistory'[u] : o \in orderHistory[u] \/ o.id > Assigned
<1>0. currentID \in Nat /\ currentID' \in Nat
  BY NextIInv, MaxCallsAssumption DEF IInv, TypeOK
<1>1. CASE UNCHANGED storeVars
  BY <1>0, <1>1 DEF storeVars, Assigned
<1>2. ASSUME NEW t \in Thread, NEW c \in Command, Call(t, c)
      PROVE  UNCHANGED <<orderHistory, currentID>> /\ \A u \in Thread : pc'[u] \in {"construct", "add"} <=> pc[u] \in {"construct", "add"}
  BY <1>2 DEF Call, Continue, Go, store, IInv, TypeOK
<1>3. ASSUME NEW t \in Thread, Enter(t)
      PROVE  UNCHANGED <<orderHistory, currentID>> /\ \A u \in Thread : pc'[u] \in {"construct", "add"} <=> pc[u] \in {"construct", "add"}
  BY <1>3 DEF Enter, FirstStep, Go, store, IInv, TypeOK
<1>4. ASSUME NEW t \in Thread, FindUser(t) \/ CheckInventory(t) \/ ConstructOrder(t) \/ PurchaseQuantity(t)
      PROVE  UNCHANGED <<orderHistory, currentID>> /\ \A u \in Thread : pc'[u] \in {"construct", "add"} <=> pc[u] \in {"construct", "add"}
  BY <1>4 DEF FindUser, CheckInventory, ConstructOrder, PurchaseQuantity, Continue, Return, Go, store, IInv, TypeOK
<1>5. ASSUME NEW t \in Thread, FindOrder(t) \/ ReturnQuantity(t) \/ AnswerReport(t)
      PROVE  UNCHANGED <<orderHistory, currentID>> /\ \A u \in Thread : pc'[u] \in {"construct", "add"} <=> pc[u] \in {"construct", "add"}
  BY <1>5 DEF FindOrder, ReturnQuantity, AnswerReport, Continue, Return, Go, store, IInv, TypeOK
<1>6. ASSUME UNCHANGED <<orderHistory, currentID>>,
             \A u \in Thread : pc'[u] \in {"construct", "add"} <=> pc[u] \in {"construct", "add"}
      PROVE  /\ Assigned \in Int /\ Assigned' = Assigned
             /\ \A u \in UserName : \A o \in orderHistory'[u] : o \in orderHistory[u]
  BY <1>0, <1>6 DEF Assigned
<1>7. ASSUME NEW t \in Thread, CountOrder(t)
      PROVE  Assigned = currentID /\ Assigned' = currentID /\ orderHistory' = orderHistory
  <2>1. pc[t] = "count" /\ pc'[t] = "construct" /\ currentID' = currentID + 1 /\ orderHistory' = orderHistory
    BY <1>7 DEF CountOrder, Continue, Go, IInv, TypeOK
  <2>2. \A u \in Thread : pc[u] \notin {"construct", "add"}
    BY <2>1, Alone
  <2> QED  BY <1>0, <2>1, <2>2 DEF Assigned
<1>8. ASSUME NEW t \in Thread, AddOrder(t)
      PROVE  /\ Assigned = currentID - 1 /\ Assigned' = currentID
             /\ \A u \in UserName : \A o \in orderHistory'[u] : o \in orderHistory[u] \/ o.id = currentID
  <2>1. /\ pc[t] = "add" /\ pc' = [pc EXCEPT ![t] = "take"] /\ currentID' = currentID
        /\ orderHistory' = [orderHistory EXCEPT ![user[t]] = @ \cup {order[t]}]
    BY <1>8 DEF AddOrder, Continue, Go
  <2>2. \A u \in Thread : pc'[u] \notin {"construct", "add"}
    BY <2>1, Alone DEF IInv, TypeOK
  <2>3. order[t].id = currentID
    <3>1. order[t] = NewOrder(command[t], currentID)
      BY <2>1 DEF IInv, LocalInv
    <3> QED  BY <3>1 DEF NewOrder
  <2> QED  BY <1>0, <2>1, <2>2, <2>3 DEF Assigned, IInv, TypeOK
<1>9. ASSUME NEW t \in Thread, RemoveOrder(t)
      PROVE  /\ Assigned = currentID /\ Assigned' = currentID
             /\ \A u \in UserName : \A o \in orderHistory'[u] : o \in orderHistory[u]
  <2>1. /\ pc[t] = "remove" /\ pc' = [pc EXCEPT ![t] = "idle"] /\ currentID' = currentID
        /\ orderHistory' = [orderHistory EXCEPT ![user[t]] = {o \in @ : o.id # order[t].id}]
    BY <1>9 DEF RemoveOrder, Return, Go
  <2>2. \A u \in Thread : pc[u] \notin {"construct", "add"} /\ pc'[u] \notin {"construct", "add"}
    BY <2>1, Alone DEF IInv, TypeOK
  <2> QED  BY <2>1, <2>2 DEF Assigned, IInv, TypeOK
<1> QED
  <2>1. CASE UNCHANGED <<orderHistory, currentID>> /\ \A u \in Thread : pc'[u] \in {"construct", "add"} <=> pc[u] \in {"construct", "add"}
    BY <1>6, <2>1
  <2>2. ASSUME NEW t \in Thread, CountOrder(t) \/ AddOrder(t) \/ RemoveOrder(t)
        PROVE  /\ Assigned \in Int /\ Assigned' \in Int /\ Assigned <= Assigned'
               /\ \A u \in UserName : \A o \in orderHistory'[u] : o \in orderHistory[u] \/ o.id > Assigned
    BY <1>0, <1>7, <1>8, <1>9, <2>2
  <2> QED  BY <1>1, <1>2, <1>3, <1>4, <1>5, <2>1, <2>2 DEF Next, Execute

\* A result that fits a command goes on fitting it.
LEMMA FitsStays ==
    ASSUME IInv, [Next]_storeVars
    PROVE  \A q, r : Fits(q, r, orderHistory, Assigned) => Fits(q, r, orderHistory', Assigned')
<1>1. /\ Assigned \in Int /\ Assigned' \in Int /\ Assigned <= Assigned'
      /\ \A u \in UserName : \A o \in orderHistory'[u] : o \in orderHistory[u] \/ o.id > Assigned
  BY AssignedOnce
<1>2. \A id \in Int : id <= Assigned =>
         /\ id <= Assigned'
         /\ \A u \in UserName : \A o \in orderHistory'[u] : o.id = id => o \in orderHistory[u]
  BY <1>1
<1> SUFFICES ASSUME NEW q, NEW r, Fits(q, r, orderHistory, Assigned)
             PROVE  Fits(q, r, orderHistory', Assigned')
  OBVIOUS
<1>3. CASE q.op = "purchase"
  BY <1>2, <1>3 DEF Fits
<1>4. CASE q.op = "cancel"
  <2>1. r.is = "cancelled" =>
          /\ q.id \in Int /\ q.id <= Assigned'
          /\ \A u \in UserName : \A o \in orderHistory'[u] : o.id # q.id
    BY <1>2, <1>4 DEF Fits
  <2> QED  BY <1>4, <2>1 DEF Fits
<1>5. CASE q.op \notin {"purchase", "cancel"}
  BY <1>5 DEF Fits
<1> QED  BY <1>3, <1>4, <1>5

\* The result with which a command ends fits it.
LEMMA ExecutedFits ==
    ASSUME IInv, FoundInv, NEW t \in Thread, Execute(t), pc'[t] = "idle"
    PROVE  Fits(command'[t], result'[t], orderHistory', Assigned')
<1>1. CASE CheckInventory(t)
  <2>1. pc[t] = "check" /\ command' = command
    BY <1>1 DEF CheckInventory, store
  <2>2. command[t].op = "purchase"
    BY <2>1 DEF IInv, OpInv, Purchasing
  <2>3. result'[t].is \in {"not sold", "not enough"}
    <3>1. \/ Return(t, [is |-> "not sold"]) \/ Return(t, [is |-> "not enough"])
          \/ Continue(t, "count")
      BY <1>1 DEF CheckInventory
    <3>2. ~Continue(t, "count")
      BY DEF Continue, Go, IInv, TypeOK
    <3>3. \A r : Return(t, r) => result'[t] = r
      BY DEF Return, IInv, TypeOK
    <3>4. \/ result'[t] = [is |-> "not sold"] \/ result'[t] = [is |-> "not enough"]
      BY <3>1, <3>2, <3>3
    <3>5. [is |-> "not sold"].is = "not sold" /\ [is |-> "not enough"].is = "not enough"
      OBVIOUS
    <3> QED  BY <3>4, <3>5, Zenon
  <2> QED  BY <2>1, <2>2, <2>3 DEF Fits
<1>2. CASE PurchaseQuantity(t)
  <2>1. /\ pc[t] = "take" /\ command' = command /\ orderHistory' = orderHistory /\ currentID' = currentID
        /\ pc' = [pc EXCEPT ![t] = "idle"]
        /\ result'[t] = [is |-> "placed", id |-> order[t].id]
    BY <1>2 DEF PurchaseQuantity, Return, Go, IInv, TypeOK
  <2>2. command[t].op = "purchase"
    BY <2>1 DEF IInv, OpInv, Purchasing
  <2>3. /\ order[t] = NewOrder(command[t], currentID) /\ order[t] \in orderHistory[user[t]]
        /\ user[t] = command[t].user /\ user[t] \in UserName
    BY <2>1 DEF IInv, LocalInv, TypeOK
  <2>4. order[t].id = currentID /\ currentID \in Int
    BY <2>3, MaxCallsAssumption DEF NewOrder, IInv, TypeOK
  <2>5. Assigned' = currentID
    <3>1. \A u \in Thread : pc'[u] \notin {"construct", "add"}
      BY <2>1, Alone DEF IInv, TypeOK
    <3> QED  BY <2>1, <3>1 DEF Assigned
  <2>6. \A u \in UserName : \A o \in orderHistory'[u] :
           o.id = currentID => u = command[t].user /\ o = NewOrder(command[t], currentID)
    BY <2>1, <2>3, <2>4 DEF IInv, UniqueIDs
  <2> QED  BY <2>1, <2>2, <2>4, <2>5, <2>6 DEF Fits
<1>3. CASE FindOrder(t)
  <2>1. pc[t] = "find" /\ command' = command /\ result'[t].is = "no such order"
    <3>1. ~Continue(t, "giveback")
      BY DEF Continue, Go, IInv, TypeOK
    <3>2. pc[t] = "find" /\ command' = command /\ Return(t, [is |-> "no such order"])
      BY <1>3, <3>1 DEF FindOrder
    <3>3. result'[t] = [is |-> "no such order"]
      BY <3>2 DEF Return, IInv, TypeOK
    <3>4. [is |-> "no such order"].is = "no such order"
      OBVIOUS
    <3> QED  BY <3>2, <3>3, <3>4, Zenon
  <2>2. command[t].op = "cancel"
    BY <2>1 DEF IInv, OpInv, Cancelling
  <2> QED  BY <2>1, <2>2 DEF Fits
<1>4. CASE RemoveOrder(t)
  <2>1. /\ pc[t] = "remove" /\ command' = command /\ currentID' = currentID
        /\ pc' = [pc EXCEPT ![t] = "idle"]
        /\ orderHistory' = [orderHistory EXCEPT ![user[t]] = {o \in @ : o.id # order[t].id}]
        /\ result'[t].is = "cancelled"
    BY <1>4 DEF RemoveOrder, Return, Go, IInv, TypeOK
  <2>2. command[t].op = "cancel"
    BY <2>1 DEF IInv, OpInv, Cancelling
  <2>3. order[t] \in orderHistory[user[t]] /\ user[t] \in UserName /\ order[t].id = command[t].id
    BY <2>1 DEF IInv, LocalInv, TypeOK, FoundInv
  <2>4. order[t].id \in Int /\ order[t].id <= currentID
    BY <2>3, OrderInHistory DEF IInv, HistoryInv
  <2>5. Assigned' = currentID
    <3>1. \A u \in Thread : pc'[u] \notin {"construct", "add"}
      BY <2>1, Alone DEF IInv, TypeOK
    <3> QED  BY <2>1, <3>1 DEF Assigned
  <2>6. \A u \in UserName : \A o \in orderHistory'[u] : o.id # order[t].id
    <3>1. \A u \in UserName : orderHistory'[u] = IF u = user[t] THEN {o \in orderHistory[u] : o.id # order[t].id}
                                                   ELSE orderHistory[u]
      BY <2>1 DEF IInv, TypeOK
    <3> QED  BY <2>3, <3>1 DEF IInv, UniqueIDs
  <2> QED  BY <2>1, <2>2, <2>3, <2>4, <2>5, <2>6 DEF Fits
<1>5. CASE AnswerReport(t)
  <2>1. pc[t] = "report" /\ command' = command /\ result'[t] = Report(command[t])
    BY <1>5 DEF AnswerReport, Return, Go, IInv, TypeOK
  <2>2. command[t].op \notin {"purchase", "cancel"}
    BY <2>1 DEF FoundInv
  <2>3. /\ command[t].op = "search" => Report(command[t]).is \in {"orders", "no customer"}
        /\ command[t].op = "list" => Report(command[t]).is = "inventory"
        /\ command[t].op \notin {"search", "list"} => Report(command[t]).is \in {"invalid", "exception"}
    BY DEF Report
  <2> QED  BY <2>1, <2>2, <2>3 DEF Fits
<1>6. ~(Enter(t) \/ FindUser(t) \/ CountOrder(t) \/ ConstructOrder(t) \/ AddOrder(t) \/ ReturnQuantity(t))
  BY DEF Enter, FirstStep, FindUser, CountOrder, ConstructOrder, AddOrder, ReturnQuantity, Continue, Go, IInv, TypeOK
<1> QED  BY <1>1, <1>2, <1>3, <1>4, <1>5, <1>6 DEF Execute

Shapes == /\ at \in [Client -> {"ready", "connected", "tcp", "udp", "gone"}]
          /\ number \in [Client -> Nat]
          /\ DOMAIN reply = Client

\* Nobody waits twice, or waits and has an answer.
Queued(c) == \/ tcp \in {"read", "result"} /\ served = c
             \/ \E i \in 1 .. Len(backlog) : backlog[i] = c

QueueInv ==
    /\ \A c \in Client : Queued(c) => /\ at[c] \in {"connected", "tcp", "gone"}
                                      /\ \A a \in answers : a.client # c
    /\ \A i, j \in 1 .. Len(backlog) : backlog[i] = backlog[j] => i = j
    /\ tcp \in {"read", "result"} =>
           served \in Client /\ \A i \in 1 .. Len(backlog) : backlog[i] # served

\* A datagram with the number of the client's command is that command.
Known(c, n, q) == c \in Client /\ n \in Nat /\ n <= number[c] /\ (n = number[c] => q = asked[c])

RequestInv ==
    /\ \A d \in requests : Known(d.client, d.number, d.command)
    /\ udp = "result" => Known(request.client, request.number, command["UDP"])

\* What the loops wait for, what is on its way and what arrived fits.
LoopInv ==
    /\ tcp = "result" =>
           /\ command["TCP"] = asked[served]
           /\ pc["TCP"] = "idle" => Fits(command["TCP"], result["TCP"], orderHistory, Assigned)
    /\ udp = "result" /\ pc["UDP"] = "idle" => Fits(command["UDP"], result["UDP"], orderHistory, Assigned)

OnTheWay ==
    \A a \in answers :
        /\ a.client \in Client /\ at[a.client] \in {"tcp", "udp"}
        /\ Fits(asked[a.client], a.result, orderHistory, Assigned) /\ a.result.is # "exception"

ReplyInv ==
    \A c \in Client : reply[c] # NoReply =>
        Fits(asked[c], reply[c], orderHistory, Assigned) /\ reply[c].is # "exception"

\* The inductive invariant of the server.
ServerInv == /\ Submitted /\ IInv /\ FoundInv /\ Shapes
             /\ QueueInv /\ RequestInv /\ LoopInv /\ OnTheWay /\ ReplyInv

\* What fits goes on fitting: the conclusion of FitsStays.
Stays == \A q, r : Fits(q, r, orderHistory, Assigned) => Fits(q, r, orderHistory', Assigned')

\* A client that asks has no answer on the way and does not wait.
LEMMA ConnectKeeps ==
    ASSUME ServerInv, Stays, NEW c \in Client, NEW q \in Script[c], Connect(c, q)
    PROVE  Shapes' /\ QueueInv' /\ RequestInv' /\ LoopInv' /\ OnTheWay' /\ ReplyInv'
<1> USE DEF ServerInv
<1>1. /\ at[c] = "ready" /\ at' = [at EXCEPT ![c] = "connected"]
      /\ asked' = [asked EXCEPT ![c] = q] /\ number' = [number EXCEPT ![c] = @ + 1]
      /\ reply' = [reply EXCEPT ![c] = NoReply] /\ backlog' = Append(backlog, c)
      /\ UNCHANGED <<storeVars, tcp, served, udpVars, answers>>
  BY DEF Connect, Ask
<1>2. Shapes'
  BY <1>1 DEF Shapes
<1>3. ~Queued(c) /\ \A a \in answers : a.client # c
  BY <1>1 DEF QueueInv, OnTheWay
<1>4. QueueInv'
  <2>1. /\ backlog \in Seq(Client) /\ Len(backlog) \in Nat /\ Len(backlog') = Len(backlog) + 1
        /\ \A i \in 1 .. Len(backlog) : backlog'[i] = backlog[i]
        /\ backlog'[Len(backlog) + 1] = c
        /\ \A i \in 1 .. Len(backlog') : i \in 1 .. Len(backlog) \/ i = Len(backlog) + 1
    BY <1>1 DEF Submitted
  <2>2. \A d \in Client : Queued(d)' => d = c \/ Queued(d)
    BY <1>1, <2>1 DEF Queued
  <2>3. \A d \in Client \ {c} : at'[d] = at[d]
    BY <1>1 DEF Shapes
  <2>4. at'[c] = "connected"
    BY <1>1 DEF Shapes
  <2>5. \A d \in Client : Queued(d)' => at'[d] \in {"connected", "tcp", "gone"} /\ \A a \in answers' : a.client # d
    BY <1>1, <1>3, <2>2, <2>3, <2>4 DEF QueueInv
  <2>6. \A i \in 1 .. Len(backlog) : backlog[i] # c
    BY <1>3 DEF Queued
  <2>7. \A i, j \in 1 .. Len(backlog') : backlog'[i] = backlog'[j] => i = j
    BY <2>1, <2>6 DEF QueueInv
  <2>8. tcp' \in {"read", "result"} =>
           served' \in Client /\ \A i \in 1 .. Len(backlog') : backlog'[i] # served'
    BY <1>1, <1>3, <2>1 DEF QueueInv, Queued
  <2> QED  BY <2>5, <2>7, <2>8 DEF QueueInv
<1>5. RequestInv'
  BY <1>1 DEF RequestInv, Known, udpVars, storeVars, Shapes, Submitted
<1>6. LoopInv'
  <2>1. tcp \in {"read", "result"} => served \in Client \ {c}
    BY <1>3 DEF QueueInv, Queued
  <2> QED  BY <1>1, <2>1 DEF LoopInv, udpVars, storeVars, Submitted, Stays, Assigned
<1>7. OnTheWay'
  BY <1>1, <1>3 DEF OnTheWay, Shapes, Submitted, Stays
<1>8. ReplyInv'
  BY <1>1 DEF ReplyInv, Shapes, Submitted, Stays
<1> QED  BY <1>2, <1>4, <1>5, <1>6, <1>7, <1>8

\* Older datagrams have smaller numbers.
LEMMA SendDatagramKeeps ==
    ASSUME ServerInv, Stays, NEW c \in Client, NEW q \in Script[c], SendDatagram(c, q)
    PROVE  Shapes' /\ QueueInv' /\ RequestInv' /\ LoopInv' /\ OnTheWay' /\ ReplyInv'
<1> USE DEF ServerInv
<1>1. /\ at[c] = "ready" /\ at' = [at EXCEPT ![c] = "udp"]
      /\ asked' = [asked EXCEPT ![c] = q] /\ number' = [number EXCEPT ![c] = @ + 1]
      /\ reply' = [reply EXCEPT ![c] = NoReply]
      /\ requests' = requests \cup {[client |-> c, number |-> number'[c], command |-> q, copy |-> 1]}
      /\ UNCHANGED <<storeVars, tcpVars, udp, request, answers>>
  BY DEF SendDatagram, Ask, Datagram
<1>2. Shapes'
  BY <1>1 DEF Shapes
<1>3. ~Queued(c) /\ \A a \in answers : a.client # c
  BY <1>1 DEF QueueInv, OnTheWay
<1>4. QueueInv'
  BY <1>1, <1>3 DEF QueueInv, Queued, tcpVars, Shapes
<1>5. RequestInv'
  <2>1. \A d \in Client : number'[d] \in Nat /\ number[d] <= number'[d]
                          /\ (number[d] = number'[d] => asked'[d] = asked[d])
    BY <1>1 DEF Shapes, Submitted
  <2>2. number'[c] \in Nat /\ asked'[c] = q
    BY <1>1 DEF Shapes, Submitted
  <2>3. ASSUME NEW d, NEW n, NEW p, Known(d, n, p)
        PROVE  d \in Client /\ n \in Nat /\ n <= number'[d] /\ (n = number'[d] => p = asked'[d])
    BY <2>1, <2>3 DEF Known, Shapes
  <2>4. \A d \in requests' : d.client \in Client /\ d.number \in Nat /\ d.number <= number'[d.client]
                             /\ (d.number = number'[d.client] => d.command = asked'[d.client])
    BY <1>1, <2>2, <2>3 DEF RequestInv
  <2> QED  BY <1>1, <2>3, <2>4 DEF RequestInv, Known, storeVars
<1>6. LoopInv'
  <2>1. tcp \in {"read", "result"} => served \in Client \ {c}
    BY <1>3 DEF QueueInv, Queued
  <2> QED  BY <1>1, <2>1 DEF LoopInv, tcpVars, storeVars, Submitted, Stays, Assigned
<1>7. OnTheWay'
  BY <1>1, <1>3 DEF OnTheWay, Shapes, Submitted, Stays
<1>8. ReplyInv'
  BY <1>1 DEF ReplyInv, Shapes, Submitted, Stays
<1> QED  BY <1>2, <1>4, <1>5, <1>6, <1>7, <1>8

\* Writing, reading and disappearing.
LEMMA ClientKeeps ==
    ASSUME ServerInv, Stays, NEW c \in Client, WriteCommand(c) \/ ReadAnswer(c) \/ Disappear(c)
    PROVE  Shapes' /\ QueueInv' /\ RequestInv' /\ LoopInv' /\ OnTheWay' /\ ReplyInv'
<1> USE DEF ServerInv
<1>1. /\ UNCHANGED <<storeVars, asked, number, backlog, tcp, served, udpVars, sent>>
      /\ \/ /\ at[c] = "connected" /\ at' = [at EXCEPT ![c] = "tcp"] /\ UNCHANGED <<answers, reply>>
         \/ /\ \E a \in answers : a.client = c /\ reply' = [reply EXCEPT ![c] = a.result]
            /\ at' = [at EXCEPT ![c] = "ready"] /\ answers' = {a \in answers : a.client # c}
         \/ /\ at[c] \in {"connected", "tcp", "udp"}
            /\ at' = [at EXCEPT ![c] = "gone"] /\ reply' = reply /\ answers' = {a \in answers : a.client # c}
  BY DEF WriteCommand, ReadAnswer, Disappear
<1>2. Shapes'
  BY <1>1 DEF Shapes
<1>3. QueueInv'
  BY <1>1 DEF QueueInv, Queued, Shapes
<1>4. RequestInv' /\ LoopInv'
  BY <1>1 DEF RequestInv, Known, LoopInv, udpVars, storeVars, Assigned
<1>5. UNCHANGED orderHistory /\ Assigned' = Assigned
  BY <1>1 DEF storeVars, Assigned
<1>6. OnTheWay'
  BY <1>1, <1>5 DEF OnTheWay, Shapes
<1>7. ReplyInv'
  BY <1>1, <1>5 DEF ReplyInv, OnTheWay, Shapes
<1> QED  BY <1>2, <1>3, <1>4, <1>6, <1>7

\* The network.
LEMMA NetworkKeeps ==
    ASSUME ServerInv, Stays, Duplicate \/ \E c \in Client : Lose(c)
    PROVE  Shapes' /\ QueueInv' /\ RequestInv' /\ LoopInv' /\ OnTheWay' /\ ReplyInv'
<1> USE DEF ServerInv
<1>1. /\ UNCHANGED <<storeVars, clientVars, tcpVars, udp, request>> /\ answers' \subseteq answers
      /\ \A d \in requests' : d \in requests \/ \E e \in requests : d = Datagram(e.client, e.number, e.command, 2)
  BY DEF Duplicate, Lose
<1>2. Shapes' /\ QueueInv'
  BY <1>1 DEF Shapes, QueueInv, Queued, clientVars, tcpVars
<1>3. RequestInv'
  BY <1>1 DEF RequestInv, Known, clientVars, storeVars, Datagram
<1>4. UNCHANGED orderHistory /\ Assigned' = Assigned
  BY <1>1 DEF storeVars, Assigned
<1>5. LoopInv' /\ OnTheWay' /\ ReplyInv'
  BY <1>1, <1>4 DEF LoopInv, OnTheWay, ReplyInv, clientVars, tcpVars, storeVars
<1> QED  BY <1>2, <1>3, <1>5

\* The TCP loop: whom it serves does not wait any more, and gets the answer to what
\* it asks.
LEMMA TCPKeeps ==
    ASSUME ServerInv, Stays, TCPServer
    PROVE  Shapes' /\ QueueInv' /\ RequestInv' /\ LoopInv' /\ OnTheWay' /\ ReplyInv'
<1> USE DEF ServerInv
<1>1. UNCHANGED <<clientVars, connection, udpVars>>
  BY DEF TCPServer, Accept, ReadCommand, EndOfInput, AnswerTCP, tcpVars
<1>2. Shapes' /\ ReplyInv'
  BY <1>1 DEF Shapes, ReplyInv, clientVars, Stays
<1>3. CASE Accept
  <2>1. /\ tcp' = "read" /\ served' = Head(backlog) /\ backlog' = Tail(backlog) /\ backlog # <<>>
        /\ tcp = "accept" /\ UNCHANGED <<storeVars, answers>>
    BY <1>3 DEF Accept
  <2>2. /\ Len(backlog) \in Nat /\ Len(backlog') = Len(backlog) - 1 /\ Len(backlog) >= 1
        /\ \A i \in 1 .. Len(backlog') : backlog'[i] = backlog[i + 1] /\ i + 1 \in 1 .. Len(backlog) /\ i \in Int
        /\ served' = backlog[1] /\ served' \in Client /\ 1 \in 1 .. Len(backlog)
    BY <2>1 DEF Submitted
  <2>3. \A c \in Client : Queued(c)' => Queued(c)
    BY <2>1, <2>2 DEF Queued
  <2>4. \A c \in Client : Queued(c)' => /\ at'[c] \in {"connected", "tcp", "gone"}
                                        /\ \A a \in answers' : a.client # c
    BY <1>1, <2>1, <2>3 DEF QueueInv, clientVars
  <2>5. \A i, j \in 1 .. Len(backlog') : backlog'[i] = backlog'[j] => i = j
    <3> TAKE i, j \in 1 .. Len(backlog')
    <3> HAVE backlog'[i] = backlog'[j]
    <3>1. backlog[i + 1] = backlog[j + 1] /\ i + 1 \in 1 .. Len(backlog) /\ j + 1 \in 1 .. Len(backlog)
      BY <2>2
    <3>2. i + 1 = j + 1
      BY <3>1 DEF QueueInv
    <3> QED  BY <2>2, <3>2
  <2>6. \A i \in 1 .. Len(backlog') : backlog'[i] # served'
    <3> SUFFICES ASSUME NEW i \in 1 .. Len(backlog'), backlog'[i] = served' PROVE FALSE
      OBVIOUS
    <3>1. backlog[i + 1] = backlog[1] /\ i + 1 \in 1 .. Len(backlog)
      BY <2>2
    <3>2. i + 1 = 1
      BY <2>2, <3>1 DEF QueueInv
    <3> QED  BY <2>2, <3>2
  <2>7. QueueInv'
    BY <2>2, <2>4, <2>5, <2>6 DEF QueueInv
  <2>8. UNCHANGED orderHistory /\ Assigned' = Assigned
    BY <2>1 DEF storeVars, Assigned
  <2>9. RequestInv' /\ LoopInv' /\ OnTheWay'
    BY <1>1, <2>1, <2>8 DEF RequestInv, Known, LoopInv, OnTheWay, clientVars, udpVars, storeVars
  <2> QED  BY <1>2, <2>7, <2>9
<1>4. CASE ReadCommand
  <2>1. /\ tcp = "read" /\ tcp' = "result" /\ UNCHANGED <<backlog, served, answers>>
        /\ command' = [command EXCEPT !["TCP"] = asked[served]]
        /\ pc' = [pc EXCEPT !["TCP"] = "enter"] /\ result' = result
    BY <1>4 DEF ReadCommand, Call, Continue, Go
  <2>2. QueueInv'
    BY <1>1, <2>1 DEF QueueInv, Queued, clientVars
  <2>3. "TCP" \in Thread /\ "UDP" \in Thread
    BY ServerAssumption
  <2>4. command'["TCP"] = asked[served] /\ pc'["TCP"] = "enter"
        /\ command'["UDP"] = command["UDP"] /\ pc'["UDP"] = pc["UDP"]
    BY <2>1, <2>3 DEF IInv, TypeOK
  <2>5. RequestInv' /\ LoopInv' /\ OnTheWay'
    BY <1>1, <2>1, <2>4 DEF RequestInv, Known, LoopInv, OnTheWay, clientVars, udpVars, Stays
  <2> QED  BY <1>2, <2>2, <2>5
<1>5. CASE EndOfInput
  <2>1. tcp' = "ended" /\ UNCHANGED <<storeVars, backlog, served, answers>>
    BY <1>5 DEF EndOfInput
  <2>2. UNCHANGED orderHistory /\ Assigned' = Assigned
    BY <2>1 DEF storeVars, Assigned
  <2>3. QueueInv'
    BY <1>1, <2>1 DEF QueueInv, Queued, clientVars
  <2>4. RequestInv' /\ LoopInv' /\ OnTheWay'
    BY <1>1, <2>1, <2>2 DEF RequestInv, Known, LoopInv, OnTheWay, clientVars, udpVars, storeVars
  <2> QED  BY <1>2, <2>3, <2>4
<1>6. CASE AnswerTCP
  <2>1. /\ tcp = "result" /\ pc["TCP"] = "idle" /\ tcp' \in {"ended", "accept"} /\ UNCHANGED <<storeVars, backlog>>
        /\ \A a \in answers' : a \in answers \/
              /\ result["TCP"].is # "exception" /\ tcp' = "accept"
              /\ at[served] = "tcp" /\ a = Answer(served, number[served], result["TCP"])
    BY <1>6 DEF AnswerTCP
  <2>2. UNCHANGED orderHistory /\ Assigned' = Assigned
    BY <2>1 DEF storeVars, Assigned
  <2>3. served \in Client
    BY <2>1 DEF QueueInv
  <2>4. QueueInv'
    <3>1. \A c \in Client : Queued(c)' => c # served /\ Queued(c)
      BY <2>1 DEF Queued, QueueInv
    <3>2. \A a \in answers' : a \in answers \/ a.client = served
      BY <2>1 DEF Answer
    <3> QED  BY <1>1, <2>1, <3>1, <3>2 DEF QueueInv, clientVars
  <2>5. OnTheWay'
    <3>1. Fits(asked[served], result["TCP"], orderHistory, Assigned)
      BY <2>1 DEF LoopInv
    <3> QED  BY <1>1, <2>1, <2>2, <2>3, <3>1 DEF OnTheWay, Answer, clientVars
  <2>6. RequestInv' /\ LoopInv'
    BY <1>1, <2>1, <2>2 DEF RequestInv, Known, LoopInv, clientVars, udpVars, storeVars
  <2> QED  BY <1>2, <2>4, <2>5, <2>6
<1> QED  BY <1>3, <1>4, <1>5, <1>6 DEF TCPServer

\* The UDP loop: a late or second datagram has an old number, or is answered again.
LEMMA UDPKeeps ==
    ASSUME ServerInv, Stays, UDPServer
    PROVE  Shapes' /\ QueueInv' /\ RequestInv' /\ LoopInv' /\ OnTheWay' /\ ReplyInv'
<1> USE DEF ServerInv
<1>1. UNCHANGED <<clientVars, tcpVars>>
  BY DEF UDPServer, Receive, AnswerUDP
<1>2. Shapes' /\ ReplyInv'
  BY <1>1 DEF Shapes, ReplyInv, clientVars, Stays
<1>3. CASE Receive
  <2>1. PICK d \in requests : Call("UDP", d.command) /\ request' = d /\ requests' = requests \ {d}
    BY <1>3 DEF Receive
  <2>2. /\ answers' = answers /\ udp' = "result"
        /\ command' = [command EXCEPT !["UDP"] = d.command]
        /\ pc' = [pc EXCEPT !["UDP"] = "enter"] /\ result' = result
    BY <1>3, <2>1 DEF Receive, Call, Continue, Go
  <2>3. "TCP" \in Thread /\ "UDP" \in Thread
    BY ServerAssumption
  <2>4. command'["UDP"] = d.command /\ pc'["UDP"] = "enter"
        /\ command'["TCP"] = command["TCP"] /\ pc'["TCP"] = pc["TCP"]
    BY <2>2, <2>3 DEF IInv, TypeOK
  <2>5. QueueInv'
    BY <1>1, <2>2 DEF QueueInv, Queued, clientVars, tcpVars
  <2>6. RequestInv' /\ LoopInv' /\ OnTheWay'
    BY <1>1, <2>1, <2>2, <2>4 DEF RequestInv, Known, LoopInv, OnTheWay, clientVars, tcpVars, Stays
  <2> QED  BY <1>2, <2>5, <2>6
<1>4. CASE AnswerUDP
  <2> DEFINE c == request.client
  <2>1. /\ udp = "result" /\ pc["UDP"] = "idle" /\ udp' \in {"ended", "receive"} /\ UNCHANGED <<storeVars, requests>>
        /\ \A a \in answers' : a \in answers \/
              /\ result["UDP"].is # "exception" /\ at[c] = "udp" /\ number[c] = request.number
              /\ a = Answer(c, request.number, result["UDP"])
    BY <1>4 DEF AnswerUDP
  <2>2. UNCHANGED orderHistory /\ Assigned' = Assigned
    BY <2>1 DEF storeVars, Assigned
  <2>3. c \in Client /\ (number[c] = request.number => command["UDP"] = asked[c])
    BY <2>1 DEF RequestInv, Known
  <2>4. QueueInv'
    <3>1. \A a \in answers' : a \in answers \/ (a.client = c /\ at[c] = "udp")
      BY <2>1 DEF Answer
    <3>2. \A d \in Client : Queued(d)' => Queued(d)
      BY <1>1 DEF Queued, tcpVars
    <3>3. \A d \in Client : Queued(d)' => /\ at'[d] \in {"connected", "tcp", "gone"}
                                          /\ \A a \in answers' : a.client # d
      BY <1>1, <3>1, <3>2 DEF QueueInv, clientVars
    <3> QED  BY <1>1, <3>3 DEF QueueInv, tcpVars
  <2>5. OnTheWay'
    <3>1. Fits(command["UDP"], result["UDP"], orderHistory, Assigned)
      BY <2>1 DEF LoopInv
    <3> QED  BY <1>1, <2>1, <2>2, <2>3, <3>1 DEF OnTheWay, Answer, clientVars
  <2>6. RequestInv' /\ LoopInv'
    BY <1>1, <2>1, <2>2 DEF RequestInv, Known, LoopInv, clientVars, tcpVars, storeVars
  <2> QED  BY <1>2, <2>4, <2>5, <2>6
<1> QED  BY <1>3, <1>4 DEF UDPServer

\* The pool.
LEMMA PoolKeeps ==
    ASSUME ServerInv, Stays, NEW t \in Thread, Pool(t)
    PROVE  Shapes' /\ QueueInv' /\ RequestInv' /\ LoopInv' /\ OnTheWay' /\ ReplyInv'
<1> USE DEF ServerInv
<1>1. Execute(t) /\ UNCHANGED <<clientVars, tcpVars, udpVars, answers, sent>>
  BY DEF Pool
<1>2. command' = command /\ \A u \in Thread \ {t} : pc'[u] = pc[u] /\ result'[u] = result[u]
  BY <1>1, OthersKept
<1>3. pc'[t] = "idle" => Fits(command[t], result'[t], orderHistory', Assigned')
  BY <1>1, <1>2, ExecutedFits
<1>4. "TCP" \in Thread /\ "UDP" \in Thread
  BY ServerAssumption
<1>5. Shapes' /\ QueueInv' /\ RequestInv'
  BY <1>1, <1>2 DEF Shapes, QueueInv, Queued, RequestInv, Known, clientVars, tcpVars, udpVars
<1>6. LoopInv'
  BY <1>1, <1>2, <1>3, <1>4 DEF LoopInv, clientVars, tcpVars, udpVars, Stays
<1>7. OnTheWay' /\ ReplyInv'
  BY <1>1 DEF OnTheWay, ReplyInv, clientVars, Stays
<1> QED  BY <1>5, <1>6, <1>7

\* At first nobody asks.
LEMMA ServerInvInit == ServerInit => ServerInv
<1> SUFFICES ASSUME ServerInit PROVE ServerInv
  OBVIOUS
<1>1. Submitted /\ IInv /\ FoundInv
  BY SubmittedInit, InitIInv, InitFoundInv DEF ServerInit
<1>2. Shapes /\ RequestInv /\ LoopInv /\ OnTheWay /\ ReplyInv
  BY DEF ServerInit, Shapes, RequestInv, LoopInv, OnTheWay, ReplyInv
<1>3. QueueInv
  BY DEF ServerInit, QueueInv, Queued
<1> QED  BY <1>1, <1>2, <1>3 DEF ServerInv

\* Every step of the server keeps the invariant.
LEMMA ServerInvStep == ServerInv /\ [ServerNext]_serverVars => ServerInv'
<1> SUFFICES ASSUME ServerInv, [ServerNext]_serverVars PROVE ServerInv'
  OBVIOUS
<1>1. Submitted' /\ [Next]_storeVars
  BY SubmittedStep, StoreStep DEF ServerInv
<1>2. IInv' /\ FoundInv' /\ Stays
  BY <1>1, NextIInv, FoundStep, FitsStays DEF ServerInv, Stays
<1>3. CASE UNCHANGED serverVars
  BY <1>1, <1>2, <1>3 DEF serverVars, storeVars, clientVars, tcpVars, udpVars, ServerInv,
     Shapes, QueueInv, Queued, RequestInv, Known, LoopInv, OnTheWay, ReplyInv, Stays
<1> QED
  BY <1>1, <1>2, <1>3, ConnectKeeps, SendDatagramKeeps, ClientKeeps, NetworkKeeps, TCPKeeps, UDPKeeps, PoolKeeps
  DEF ServerNext, ServerInv

\* Every client gets an answer to its own command, and that answer stays true of
\* the store (Server.java:40-104, Client.java:60-119).
THEOREM ServerAnswersFit == ServerSpec => []AnswersFit
<1>1. ServerInv => AnswersFit
  <2> SUFFICES ASSUME ServerInv, NEW c \in Client, reply[c] # NoReply
               PROVE  CASE asked[c].op = "purchase" ->
                             /\ reply[c].is \in {"placed", "not sold", "not enough"}
                             /\ reply[c].is = "placed" => PlacedOrder(c, reply[c].id)
                        [] asked[c].op = "cancel" ->
                             /\ reply[c].is \in {"cancelled", "no such order"}
                             /\ reply[c].is = "cancelled" =>
                                  \A u \in UserName : \A o \in orderHistory[u] : o.id # asked[c].id
                        [] asked[c].op = "search" -> reply[c].is \in {"orders", "no customer"}
                        [] asked[c].op = "list" -> reply[c].is = "inventory"
                        [] OTHER -> reply[c].is = "invalid"
    BY DEF AnswersFit
  <2>1. Fits(asked[c], reply[c], orderHistory, Assigned) /\ reply[c].is # "exception"
    BY DEF ServerInv, ReplyInv
  <2> QED  BY <2>1 DEF Fits, PlacedOrder, NewOrder
<1> QED  BY <1>1, ServerInvInit, ServerInvStep, PTL DEF ServerSpec
=============================================================================
