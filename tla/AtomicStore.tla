---------------------------- MODULE AtomicStore ----------------------------
(* What the store of projects 3 and 4 promises: it changes only by whole     *)
(* purchases and whole cancellations.                                        *)
EXTENDS Integers

CONSTANTS UserName, Product, Quantity, InitialStock

VARIABLES stock,            \* the quantity of each item that is sold
          orderHistory,     \* the orders of each user
          clients,          \* the users known as customers
          currentID         \* the last order ID given

vars == <<stock, orderHistory, clients, currentID>>

Init ==
    /\ stock = InitialStock
    /\ orderHistory = [u \in UserName |-> {}]
    /\ clients = {}
    /\ currentID = 0

\* A purchase that fails still makes its user a customer.
Refuse(u) ==
    /\ clients' = clients \cup {u}
    /\ UNCHANGED <<stock, orderHistory, currentID>>

Purchase(u, p, q) ==
    /\ p \in DOMAIN stock /\ stock[p] >= q
    /\ clients' = clients \cup {u}
    /\ currentID' = currentID + 1
    /\ stock' = [stock EXCEPT ![p] = @ - q]
    /\ orderHistory' = [orderHistory EXCEPT ![u] =
                          @ \cup {[id |-> currentID + 1, product |-> p, quantity |-> q]}]

Cancel(u, o) ==
    /\ o \in orderHistory[u]
    /\ stock' = [stock EXCEPT ![o.product] = @ + o.quantity]
    /\ orderHistory' = [orderHistory EXCEPT ![u] = @ \ {o}]
    /\ UNCHANGED <<clients, currentID>>

Next ==
    \E u \in UserName :
        \/ Refuse(u)
        \/ \E p \in Product, q \in Quantity : Purchase(u, p, q)
        \/ \E o \in orderHistory[u] : Cancel(u, o)

Spec == Init /\ [][Next]_vars
=============================================================================
