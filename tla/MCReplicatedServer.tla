------------------------ MODULE MCReplicatedServer ------------------------
(***************************************************************************)
(* Small deployments of ReplicatedServer for TLC.                          *)
(***************************************************************************)
EXTENDS ReplicatedServer
CONSTANTS c1, c2

OneClient  == {c1}
TwoClients == {c1, c2}

OneCommand  == [c \in Client |-> <<"valid">>]
TwoCommands == [c \in Client |-> <<"valid", "valid">>]
OneOfEach   == [c \in Client |-> IF c = c1 THEN <<"valid">> ELSE <<"malformed">>]

\* Every client knows all the servers, and starts with the first.
SameOrder   == [c \in Client |-> [i \in Server |-> i]]
\* Every client knows the first server only.
FirstServer == [c \in Client |-> <<1>>]
\* The second client starts with the other server and then tries the first.
SecondComesOver == [c \in Client |-> IF c = c1 THEN <<1>> ELSE <<2, 1>>]
\* Every client knows all of two servers, and they start with different ones.
CrossedLists == [c \in Client |-> IF c = c1 THEN <<1, 2>> ELSE <<2, 1>>]
=============================================================================
