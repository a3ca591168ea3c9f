---------------------------- MODULE MCStoreServer ----------------------------
(* Two clients and a small input file for StoreServer.                       *)
EXTENDS StoreServer

TwoPhones == [p \in {"phone"} |-> 2]

Purchase(u, p, q) == [op |-> "purchase", user |-> u, product |-> p, quantity |-> q]

Commands ==
    [client \in Client |->
        IF client \in Unsteady
        THEN {Purchase("bob", "phone", 2), [op |-> "cancel", id |-> 1],
              [op |-> "malformed"]}
        ELSE {Purchase("ann", "phone", 1), Purchase("ann", "tape", 1),
              [op |-> "cancel", id |-> 1], [op |-> "list"],
              [op |-> "search", user |-> "ann"]}]
=============================================================================
