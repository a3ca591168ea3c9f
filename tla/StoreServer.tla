----------------------------- MODULE StoreServer -----------------------------
(* The server of project3 around the store: Server.java serves TCP in one     *)
(* thread and UDP in another, and each has its commands executed in the       *)
(* thread pool and waits for the result. Client.java sends one command after  *)
(* the other over either protocol and waits for each answer.                  *)
(*                                                                            *)
(* A client may disappear, or stop between two steps. Datagrams get lost,     *)
(* duplicated and reordered. When a loop has ended its socket stays open, as  *)
(* long as the garbage collector leaves it alone.                             *)
EXTENDS OrderStore, Sequences

CONSTANTS Client,
          Unsteady,         \* the clients that may stop or disappear
          Script,           \* the commands that each client may send
          NoClient, NoReply

ASSUME ServerAssumption ==
    /\ Thread = {"TCP", "UDP"}
    /\ Unsteady \subseteq Client /\ NoClient \notin Client
    /\ Script \in [Client -> SUBSET Command]

VARIABLES at,               \* what each client does: ready, connected, tcp, udp, gone
          asked,            \* its command
          number,           \* how many commands it has sent
          reply,            \* the answer to its command
          connection,       \* what it has written on its connection
          backlog,          \* the connections that wait for accept()
          requests,         \* the datagrams on the way to the server
          answers,          \* the answers on the way to the clients
          lost,             \* whether a datagram of its command was lost
          tcp, udp,         \* the step of either loop
          served,           \* the client that the TCP loop serves
          request,          \* the datagram that the UDP loop serves
          sent              \* how many commands were sent

clientVars == <<at, asked, number, reply>>
tcpVars == <<connection, backlog, tcp, served>>
udpVars == <<requests, lost, udp, request>>
serverVars == <<storeVars, clientVars, tcpVars, udpVars, answers, sent>>

Datagram(c, n, q, k) == [client |-> c, number |-> n, command |-> q, copy |-> k]
NoRequest == [client |-> NoClient]
Answer(c, n, r) == [client |-> c, number |-> n, result |-> r]

ServerInit ==
    /\ Init
    /\ user = [t \in Thread |-> CHOOSE u \in UserName : TRUE]
    /\ at = [c \in Client |-> "ready"]
    /\ asked = [c \in Client |-> NoCommand]
    /\ number = [c \in Client |-> 0]
    /\ reply = [c \in Client |-> NoReply]
    /\ connection = [c \in Client |-> "none"]
    /\ backlog = <<>>
    /\ requests = {}
    /\ answers = {}
    /\ lost = [c \in Client |-> FALSE]
    /\ tcp = "accept"
    /\ udp = "receive"
    /\ served = NoClient
    /\ request = NoRequest
    /\ sent = 0

-----------------------------------------------------------------------------
\* send(): a client turns to its next command.
Ask(c, q, step) ==
    /\ at[c] = "ready"
    /\ sent < MaxCalls
    /\ sent' = sent + 1
    /\ at' = [at EXCEPT ![c] = step]
    /\ asked' = [asked EXCEPT ![c] = q]
    /\ number' = [number EXCEPT ![c] = @ + 1]
    /\ reply' = [reply EXCEPT ![c] = NoReply]

\* sendTCP() connects, writes the command and reads the answer.
Connect(c, q) ==
    /\ Ask(c, q, "connected")
    /\ connection' = [connection EXCEPT ![c] = "open"]
    /\ backlog' = Append(backlog, c)
    /\ UNCHANGED <<storeVars, tcp, served, udpVars, answers>>

WriteCommand(c) ==
    /\ at[c] = "connected"
    /\ at' = [at EXCEPT ![c] = "tcp"]
    /\ connection' = [connection EXCEPT ![c] = "written"]
    /\ UNCHANGED <<storeVars, asked, number, reply, backlog, tcp, served, udpVars, answers, sent>>

\* sendUDP() sends a datagram from a socket of its own.
SendDatagram(c, q) ==
    /\ Ask(c, q, "udp")
    /\ requests' = requests \cup {Datagram(c, number'[c], q, 1)}
    /\ lost' = [lost EXCEPT ![c] = FALSE]
    /\ UNCHANGED <<storeVars, tcpVars, udp, request, answers>>

ReadAnswer(c) ==
    /\ at[c] \in {"tcp", "udp"}
    /\ \E a \in answers :
          /\ a.client = c
          /\ reply' = [reply EXCEPT ![c] = a.result]
    /\ at' = [at EXCEPT ![c] = "ready"]
    /\ connection' = [connection EXCEPT ![c] = "none"]
    /\ answers' = {a \in answers : a.client # c}
    /\ UNCHANGED <<storeVars, asked, number, backlog, tcp, served, udpVars, sent>>

\* A client ends, and what it has written can still be read.
Disappear(c) ==
    /\ c \in Unsteady
    /\ at[c] \in {"connected", "tcp", "udp"}
    /\ at' = [at EXCEPT ![c] = "gone"]
    /\ connection' = [connection EXCEPT ![c] = IF @ = "open" THEN "closed" ELSE @]
    /\ answers' = {a \in answers : a.client # c}
    /\ UNCHANGED <<storeVars, asked, number, reply, backlog, tcp, served, udpVars, sent>>

-----------------------------------------------------------------------------
\* TCPServer(): a loop over the connections.
Accept ==
    /\ tcp = "accept"
    /\ backlog # <<>>
    /\ tcp' = "read"
    /\ served' = Head(backlog)
    /\ backlog' = Tail(backlog)
    /\ UNCHANGED <<storeVars, clientVars, connection, udpVars, answers, sent>>

ReadCommand ==
    /\ tcp = "read"
    /\ connection[served] = "written"
    /\ Call("TCP", asked[served])
    /\ tcp' = "result"
    /\ UNCHANGED <<clientVars, connection, backlog, served, udpVars, answers, sent>>

\* nextLine() finds no line: NoSuchElementException, which nobody catches.
EndOfInput ==
    /\ tcp = "read"
    /\ connection[served] = "closed"
    /\ tcp' = "ended"
    /\ UNCHANGED <<storeVars, clientVars, connection, backlog, served, udpVars, answers, sent>>

\* Mutant: both loops keep the result in the same place.
AnswerTCPFromUDP ==
    /\ tcp = "result"
    /\ pc["TCP"] = "idle"
    /\ \/ /\ result["TCP"].is = "exception"
          /\ tcp' = "ended"
          /\ UNCHANGED <<answers, served>>
       \/ /\ result["TCP"].is # "exception"
          /\ tcp' = "accept"
          /\ served' = NoClient
          /\ answers' = answers \cup
               {Answer(c, number[c], result["UDP"]) : c \in {served} \cap {d \in Client : at[d] = "tcp"}}
    /\ UNCHANGED <<storeVars, clientVars, connection, backlog, udpVars, sent>>

\* result.get() returns, or throws ExecutionException, which ends the loop.
AnswerTCP ==
    /\ tcp = "result"
    /\ pc["TCP"] = "idle"
    /\ \/ /\ result["TCP"].is = "exception"
          /\ tcp' = "ended"
          /\ UNCHANGED <<answers, served>>
       \/ /\ result["TCP"].is # "exception"
          /\ tcp' = "accept"
          /\ served' = NoClient
          /\ answers' = answers \cup
               {Answer(c, number[c], result["TCP"]) : c \in {served} \cap {d \in Client : at[d] = "tcp"}}
    /\ UNCHANGED <<storeVars, clientVars, connection, backlog, udpVars, sent>>

\* Mutant: the loop waits while the other one serves a client.
ReceiveWhenFree ==
    /\ udp = "receive"
    /\ tcp = "accept"
    /\ \E d \in requests :
          /\ Call("UDP", d.command)
          /\ request' = d
          /\ requests' = requests \ {d}
    /\ udp' = "result"
    /\ UNCHANGED <<clientVars, tcpVars, lost, answers, sent>>

\* UDPServer(): a loop over the datagrams, in any order.
Receive ==
    /\ udp = "receive"
    /\ \E d \in requests :
          /\ Call("UDP", d.command)
          /\ request' = d
          /\ requests' = requests \ {d}
    /\ udp' = "result"
    /\ UNCHANGED <<clientVars, tcpVars, lost, answers, sent>>

\* An answer to a socket that is closed goes nowhere.
AnswerUDP ==
    LET c == request.client
        n == request.number
        open == at[c] = "udp" /\ number[c] = n
    IN  /\ udp = "result"
        /\ pc["UDP"] = "idle"
        /\ \/ /\ result["UDP"].is = "exception"
              /\ udp' = "ended"
              /\ UNCHANGED answers
           \/ /\ result["UDP"].is # "exception"
              /\ udp' = "receive"
              /\ answers' = IF open THEN answers \cup {Answer(c, n, result["UDP"])} ELSE answers
        /\ request' = NoRequest
        /\ UNCHANGED <<storeVars, clientVars, tcpVars, requests, lost, sent>>

-----------------------------------------------------------------------------
\* The network loses a datagram, or delivers it twice.
Lose(c) ==
    /\ at[c] = "udp"
    /\ \/ \E d \in requests : d.client = c /\ d.number = number[c]
                              /\ requests' = requests \ {d} /\ UNCHANGED answers
       \/ \E a \in answers : a.client = c
                             /\ answers' = answers \ {a} /\ UNCHANGED requests
    /\ lost' = [lost EXCEPT ![c] = TRUE]
    /\ UNCHANGED <<storeVars, clientVars, tcpVars, udp, request, sent>>

Duplicate ==
    /\ sent < MaxCalls
    /\ sent' = sent + 1
    /\ \E d \in requests :
          /\ d.copy = 1
          /\ requests' = requests \cup {Datagram(d.client, d.number, d.command, 2)}
    /\ UNCHANGED <<storeVars, clientVars, tcpVars, lost, udp, request, answers>>

TCPServer == Accept \/ ReadCommand \/ EndOfInput \/ AnswerTCP
UDPServer == Receive \/ AnswerUDP
Pool(t) == Execute(t) /\ UNCHANGED <<clientVars, tcpVars, udpVars, answers, sent>>

ServerNext ==
    \/ \E c \in Client :
          \/ \E q \in Script[c] : Connect(c, q) \/ SendDatagram(c, q)
          \/ WriteCommand(c) \/ ReadAnswer(c) \/ Disappear(c) \/ Lose(c)
    \/ Duplicate
    \/ TCPServer \/ UDPServer
    \/ \E t \in Thread : Pool(t)

ServerFairness ==
    /\ WF_serverVars(TCPServer) /\ WF_serverVars(UDPServer)
    /\ \A t \in Thread : WF_serverVars(Pool(t))
    /\ \A c \in Client : WF_serverVars(ReadAnswer(c))
    /\ \A c \in Client \ Unsteady : WF_serverVars(WriteCommand(c))

ServerSpec == ServerInit /\ [][ServerNext]_serverVars /\ ServerFairness

-----------------------------------------------------------------------------
\* The answer a client has is about its own command and still true of the store:
\* the order it names is its order, and what it cancelled stays cancelled, with
\* two loops, two pool threads and datagrams that arrive late or twice.
PlacedOrder(c, id) ==
    \A u \in UserName : \A o \in orderHistory[u] :
        o.id = id => /\ u = asked[c].user
                     /\ o = [id |-> id, product |-> asked[c].product,
                             quantity |-> asked[c].quantity]

AnswersFit ==
    \A c \in Client : reply[c] # NoReply =>
        CASE asked[c].op = "purchase" ->
               /\ reply[c].is \in {"placed", "not sold", "not enough"}
               /\ reply[c].is = "placed" => PlacedOrder(c, reply[c].id)
          [] asked[c].op = "cancel" ->
               /\ reply[c].is \in {"cancelled", "no such order"}
               /\ reply[c].is = "cancelled" =>
                    \A u \in UserName : \A o \in orderHistory[u] : o.id # asked[c].id
          [] asked[c].op = "search" -> reply[c].is \in {"orders", "no customer"}
          [] asked[c].op = "list" -> reply[c].is = "inventory"
          [] OTHER -> reply[c].is = "invalid"

\* Each protocol answers, whatever happens to the other. A client waits for ever
\* only when its loop has ended, when the TCP loop waits for a client that never
\* writes (line 51), or when a datagram was lost (Client.java line 73).
Waiting(c, protocol) == at[c] = protocol

Silent == tcp = "read" /\ served \in Unsteady /\ at[served] = "connected"

Served ==
    /\ \A c \in Client :
         Waiting(c, "tcp") ~> (~Waiting(c, "tcp") \/ tcp = "ended" \/ Silent)
    /\ \A c \in Client :
         Waiting(c, "udp") ~> (~Waiting(c, "udp") \/ udp = "ended" \/ lost[c])
=============================================================================
