----------------------------- MODULE OrderStore -----------------------------
(* The store of project3's Server.java with Item.java, Order.java and         *)
(* User.java: threads call execute(), which is static synchronized. A step is *)
(* one call on an Item, an Order, a User or the list of users.                *)
(*                                                                            *)
(* The orders of a user are a set, because they are found by their IDs, and   *)
(* listed in the order of their IDs. The input file names each product once.  *)
EXTENDS Integers, FiniteSets, FiniteSetsExt

CONSTANTS Thread,           \* the threads that execute commands
          NoThread,         \* the holder of a free lock
          UserName,
          Product,          \* the product names that commands use
          Quantity,         \* the numbers in them
          InitialStock,     \* the input file: product -> quantity
          MaxCalls          \* bound: how many commands are executed

ASSUME ThreadAssumption == IsFiniteSet(Thread) /\ NoThread \notin Thread
ASSUME QuantityAssumption == Quantity \subseteq Int
ASSUME StockAssumption ==
    /\ DOMAIN InitialStock \subseteq Product
    /\ InitialStock \in [DOMAIN InitialStock -> Nat]
ASSUME MaxCallsAssumption == MaxCalls \in Nat

VARIABLES stock,            \* Item.quantity of each item in inventory
          orderHistory,     \* the orders of each user
          clients,          \* the users in the list of users
          currentID,        \* Order.currentID
          lock,             \* the monitor of the class: its holder
          pc,               \* the next step of each thread: see TypeOK
          command,          \* its command
          user, order,      \* the User and the Order object it works with
          result,           \* what its last call returned
          calls             \* how many commands were submitted

store == <<stock, orderHistory, clients, currentID>>
storeVars == <<stock, orderHistory, clients, currentID, lock, pc, command, user, order, result, calls>>

Sold == DOMAIN InitialStock
Orders == [id : 0 .. MaxCalls, product : Product, quantity : Quantity]

\* "malformed" has too few arguments, or a number that is not one.
Command ==
    [op : {"purchase"}, user : UserName, product : Product, quantity : Quantity]
    \cup [op : {"cancel"}, id : 0 .. MaxCalls]
    \cup [op : {"search"}, user : UserName]
    \cup [op : {"list", "unknown", "malformed"}]

Result ==
    [is : {"placed"}, id : 0 .. MaxCalls]
    \cup [is : {"orders"}, orders : SUBSET Orders]
    \cup [is : {"inventory"}, stock : [Sold -> Int]]
    \cup [is : {"not sold", "not enough", "cancelled", "no such order", "no customer",
                "invalid", "exception"}]

NoCommand == [op |-> "list"]
NoOrder == [id |-> 0]
NoResult == [is |-> "invalid"]
NewOrder(c, id) == [id |-> id, product |-> c.product, quantity |-> c.quantity]

Init ==
    /\ stock = InitialStock
    /\ orderHistory = [u \in UserName |-> {}]
    /\ clients = {}
    /\ currentID = 0
    /\ lock = NoThread
    /\ pc = [t \in Thread |-> "idle"]
    /\ command = [t \in Thread |-> NoCommand]
    /\ user \in [Thread -> UserName]
    /\ order = [t \in Thread |-> NoOrder]
    /\ result = [t \in Thread |-> NoResult]
    /\ calls = 0

-----------------------------------------------------------------------------
Go(t, step) == pc' = [pc EXCEPT ![t] = step]

\* execute() returns r, or ends with an exception, and the lock is free again.
Return(t, r) ==
    /\ Go(t, "idle")
    /\ result' = [result EXCEPT ![t] = r]
    /\ lock' = NoThread

Continue(t, step) == Go(t, step) /\ UNCHANGED <<lock, result>>

\* A thread calls execute(c).
Call(t, c) ==
    /\ pc[t] = "idle"
    /\ calls < MaxCalls
    /\ calls' = calls + 1
    /\ command' = [command EXCEPT ![t] = c]
    /\ Continue(t, "enter")
    /\ UNCHANGED <<store, user, order>>

FirstStep(c) ==
    CASE c.op = "purchase" -> "user"
      [] c.op = "cancel" -> "find"
      [] OTHER -> "report"

\* Mutant: execute() is not synchronized (as in project4).
EnterUnsynchronized(t) ==
    /\ pc[t] = "enter"
    /\ Continue(t, FirstStep(command[t]))
    /\ UNCHANGED <<store, command, user, order, calls>>

\* It gets the lock, and execute() chooses what to do.
Enter(t) ==
    /\ pc[t] = "enter"
    /\ lock = NoThread
    /\ lock' = t
    /\ Go(t, FirstStep(command[t]))
    /\ UNCHANGED <<store, command, user, order, result, calls>>

\* purchase() finds its user, or makes it a customer.
FindUser(t) ==
    /\ pc[t] = "user"
    /\ user' = [user EXCEPT ![t] = command[t].user]
    /\ clients' = clients \cup {command[t].user}
    /\ Continue(t, "check")
    /\ UNCHANGED <<stock, orderHistory, currentID, command, order, calls>>

\* Mutant: one item too many may be bought.
HasEnoughOfOneLess(p, q) == stock[p] >= q - 1

inventoryHasEnoughOf(p, q) == stock[p] >= q

CheckInventory(t) ==
    LET p == command[t].product
        q == command[t].quantity
    IN  /\ pc[t] = "check"
        /\ \/ p \notin Sold /\ Return(t, [is |-> "not sold"])
           \/ p \in Sold /\ ~inventoryHasEnoughOf(p, q) /\ Return(t, [is |-> "not enough"])
           \/ p \in Sold /\ inventoryHasEnoughOf(p, q) /\ Continue(t, "count")
        /\ UNCHANGED <<store, command, user, order, calls>>

\* The constructor of Order counts, and reads its ID from the counter.
CountOrder(t) ==
    /\ pc[t] = "count"
    /\ currentID' = currentID + 1
    /\ Continue(t, "construct")
    /\ UNCHANGED <<stock, orderHistory, clients, command, user, order, calls>>

\* Mutant: the constructor counts a second time.
ConstructOrderNext(t) ==
    /\ pc[t] = "construct"
    /\ currentID' = currentID + 1
    /\ order' = [order EXCEPT ![t] = NewOrder(command[t], currentID + 1)]
    /\ Continue(t, "add")
    /\ UNCHANGED <<stock, orderHistory, clients, command, user, calls>>

ConstructOrder(t) ==
    /\ pc[t] = "construct"
    /\ order' = [order EXCEPT ![t] = NewOrder(command[t], currentID)]
    /\ Continue(t, "add")
    /\ UNCHANGED <<store, command, user, calls>>

AddOrder(t) ==
    /\ pc[t] = "add"
    /\ orderHistory' = [orderHistory EXCEPT ![user[t]] = @ \cup {order[t]}]
    /\ Continue(t, "take")
    /\ UNCHANGED <<stock, clients, currentID, command, user, order, calls>>

PurchaseQuantity(t) ==
    /\ pc[t] = "take"
    /\ stock' = [stock EXCEPT ![order[t].product] = @ - order[t].quantity]
    /\ Return(t, [is |-> "placed", id |-> order[t].id])
    /\ UNCHANGED <<orderHistory, clients, currentID, command, user, order, calls>>

\* cancel() finds the user and the order by the ID.
FindOrder(t) ==
    /\ pc[t] = "find"
    /\ \/ \E u \in UserName : \E o \in orderHistory[u] :
              /\ o.id = command[t].id
              /\ user' = [user EXCEPT ![t] = u]
              /\ order' = [order EXCEPT ![t] = o]
              /\ Continue(t, "giveback")
       \/ /\ \A u \in UserName : \A o \in orderHistory[u] : o.id # command[t].id
          /\ Return(t, [is |-> "no such order"])
          /\ UNCHANGED <<user, order>>
    /\ UNCHANGED <<store, command, calls>>

ReturnQuantity(t) ==
    /\ pc[t] = "giveback"
    /\ stock' = [stock EXCEPT ![order[t].product] = @ + order[t].quantity]
    /\ Continue(t, "remove")
    /\ UNCHANGED <<orderHistory, clients, currentID, command, user, order, calls>>

RemoveOrder(t) ==
    /\ pc[t] = "remove"
    /\ orderHistory' = [orderHistory EXCEPT ![user[t]] = {o \in @ : o.id # order[t].id}]
    /\ Return(t, [is |-> "cancelled"])
    /\ UNCHANGED <<stock, clients, currentID, command, user, order, calls>>

\* What search(), list() and the default case return, and malformed commands.
Report(c) ==
    CASE c.op = "search" /\ c.user \notin clients -> [is |-> "no customer"]
      [] c.op = "search" /\ c.user \in clients -> [is |-> "orders", orders |-> orderHistory[c.user]]
      [] c.op = "list" -> [is |-> "inventory", stock |-> stock]
      [] c.op = "malformed" -> [is |-> "exception"]
      [] OTHER -> [is |-> "invalid"]

AnswerReport(t) ==
    /\ pc[t] = "report"
    /\ Return(t, Report(command[t]))
    /\ UNCHANGED <<store, command, user, order, calls>>

\* A step of execute().
Execute(t) ==
    \/ Enter(t)
    \/ FindUser(t) \/ CheckInventory(t)
    \/ CountOrder(t) \/ ConstructOrder(t) \/ AddOrder(t) \/ PurchaseQuantity(t)
    \/ FindOrder(t) \/ ReturnQuantity(t) \/ RemoveOrder(t)
    \/ AnswerReport(t)

Next == \E t \in Thread : Execute(t) \/ \E c \in Command : Call(t, c)

Spec == Init /\ [][Next]_storeVars

-----------------------------------------------------------------------------
\* Every variable has its type.
TypeOK ==
    /\ stock \in [Sold -> Int]
    /\ orderHistory \in [UserName -> SUBSET Orders]
    /\ clients \subseteq UserName
    /\ currentID \in 0 .. MaxCalls
    /\ lock \in Thread \cup {NoThread}
    /\ pc \in [Thread -> {"idle", "enter", "user", "check", "count", "construct", "add", "take",
                         "find", "giveback", "remove", "report"}]
    /\ command \in [Thread -> Command]
    /\ user \in [Thread -> UserName]
    /\ order \in [Thread -> Orders \cup {NoOrder}]
    /\ result \in [Thread -> Result]
    /\ calls \in 0 .. MaxCalls

\* Items are neither lost nor made: between commands, what is in stock and what
\* is in orders are together what the input file said. Cancelling an order twice
\* at once, or one that is just placed, must not return items twice.
Ordered(p) ==
    MapThenSumSet(LAMBDA uo : uo[2].quantity,
                  UNION {{<<u, o>> : o \in {h \in orderHistory[u] : h.product = p}} : u \in UserName})

Conservation ==
    (\A t \in Thread : pc[t] \in {"idle", "enter"}) =>
        \A p \in Sold : stock[p] + Ordered(p) = InitialStock[p]

\* No item is sold that is not there, when all numbers are natural: nobody buys
\* between the check and the purchase of another thread.
NoOverselling == Quantity \subseteq Nat => \A p \in Sold : stock[p] >= 0

\* An ID names one order of one user.
UniqueIDs ==
    \A u, v \in UserName : \A o \in orderHistory[u], n \in orderHistory[v] :
        o.id = n.id => u = v /\ o = n

\* The store changes only by whole purchases and cancellations, although every
\* one consists of several calls. A purchase counts from the check on that it
\* passes, a cancellation from when its order is found.
Buying(t) ==
    \/ pc[t] = "check" /\ command[t].product \in Sold
                       /\ inventoryHasEnoughOf(command[t].product, command[t].quantity)
    \/ pc[t] \in {"count", "construct", "add", "take"}

\* What is still to come in the command of the thread that has the lock.
NotCounted(t) == pc[t] = "count" \/ (pc[t] = "check" /\ Buying(t))

FinalID == IF lock # NoThread /\ NotCounted(lock) THEN currentID + 1 ELSE currentID

FinalStock(p) ==
    IF lock # NoThread /\ Buying(lock) /\ command[lock].product = p
    THEN stock[p] - command[lock].quantity
    ELSE IF lock # NoThread /\ pc[lock] = "giveback" /\ order[lock].product = p
    THEN stock[p] + order[lock].quantity
    ELSE stock[p]

FinalOrders(u) ==
    IF lock # NoThread /\ Buying(lock) /\ user[lock] = u
    THEN orderHistory[u] \cup {NewOrder(command[lock], FinalID)}
    ELSE IF lock # NoThread /\ pc[lock] \in {"giveback", "remove"} /\ user[lock] = u
    THEN orderHistory[u] \ {order[lock]}
    ELSE orderHistory[u]

Atomic ==
    INSTANCE AtomicStore WITH
        stock <- [p \in Sold |-> FinalStock(p)],
        orderHistory <- [u \in UserName |-> FinalOrders(u)],
        currentID <- FinalID

Serializable == Atomic!Spec
=============================================================================
