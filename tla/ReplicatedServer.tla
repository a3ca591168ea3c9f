------------------------- MODULE ReplicatedServer -------------------------
(***************************************************************************)
(* project4: a replicated online store.  Server.java runs on every server  *)
(* and orders the clients' commands with a Lamport-style mutual exclusion; *)
(* Client.java sends its commands to the first server of its list and      *)
(* moves on to the next one when that server seems to be gone.             *)
(*                                                                         *)
(* A server process starts one ServerTask thread per accepted connection,  *)
(* and all of them share the clock, the pending queue, the queue of client *)
(* commands and the store without any lock.  The model gives every thread  *)
(* its own program counter: a step of the specification is one call on one *)
(* shared object, or one exchange with the network.  A few calls in a row  *)
(* are one step, and the comments of their actions name them: both clock   *)
(* updates of a Request handler, a clock update and the call or message    *)
(* that follows it, the failure of an exchange and the suspicion, the      *)
(* search for an entry of a suspected server and its removal, poll() with  *)
(* the execution of what it returns, and the last call of a task with the  *)
(* end of its connection.                                                  *)
(*                                                                         *)
(* The store itself is deterministic, so a replica's copy is represented   *)
(* by the sequence of commands it has executed.                            *)
(***************************************************************************)
EXTENDS TimeStamp, Sequences, FiniteSets

CONSTANTS
  serverInstances,  \* the number of servers
  Client,           \* the client processes
  Script,           \* the commands each client reads from its standard input
  ServerList,       \* the servers each client is configured with, in order
  MaxCrashes,       \* bound: server processes that may crash
  MaxTimeouts,      \* bound: reads that time out although the peer is alive
  NoJob             \* no client command (Java's null)

\* Servers are numbered from 1, as in the configuration file.
Server == 1 .. serverInstances

\* execute() throws on a malformed command (a missing or non-numeric argument).
Command == {"valid", "malformed"}

ASSUME InstancesAssumption == serverInstances \in Nat \ {0}
ASSUME ScriptAssumption    == Script \in [Client -> Seq(Command)]
ASSUME ListAssumption      ==
  /\ ServerList \in [Client -> Seq(Server)]
  /\ \A c \in Client : \A i, k \in DOMAIN ServerList[c] :
       ServerList[c][i] = ServerList[c][k] => i = k
ASSUME BoundAssumption     == MaxCrashes \in Nat /\ MaxTimeouts \in Nat

\* One connection of a client to a server of its list, for one of its commands.
\* A client drops a server that fails it, so it never makes the same connection
\* twice.
Job == UNION { [client : {c}, index : DOMAIN Script[c],
                server : {ServerList[c][i] : i \in DOMAIN ServerList[c]}] :
                 c \in Client }
ASSUME NoJobAssumption == NoJob \notin Job

CommandOf(j) == Script[j.client][j.index]

\* The ServerTask threads.  One serves a client connection, the others the
\* connections on which a server sends a Request, an Update or a Release.
Kind   == {"Client", "Request", "Update", "Release"}
Thread == {t \in [kind : Kind, job : Job, at : Server] :
             (t.kind = "Client") <=> (t.at = t.job.server)}

ClientThread(j)     == [kind |-> "Client", job |-> j, at |-> j.server]
PeerThread(k, j, p) == [kind |-> k, job |-> j, at |-> p]

VARIABLES
  (* the fields of each Server process *)
  clock,          \* myTimeStamp.logicalClock
  pendingQueue,   \* pendingQueue[s][p]: clocks of p's entries, in list order
  clientCommands, \* the PriorityQueue: what slot 0 holds, and the size field
  timedOutServers,
  log,            \* the commands executed on the store, in order
  (* the ServerTask threads *)
  pc,
  phase,          \* what the thread is sending: its last call of send()
  running,        \* the command on whose behalf it sends
  peer,           \* the last peer that send() has turned to
  stamp,          \* the clock written in the message sent, or received
  found,          \* the entry a Release handler found is still in the queue
  (* the clients *)
  cpc,
  index,          \* the command the client is at
  servers,        \* Client.servers
  answered,       \* connections on which a response was printed
  (* the environment *)
  crashed, timeouts

serverVars == <<clock, pendingQueue, clientCommands, timedOutServers, log>>
threadVars == <<pc, phase, running, peer, stamp, found>>
clientVars == <<cpc, index, servers>>
envVars    == <<crashed, timeouts>>
vars       == <<serverVars, threadVars, clientVars, answered, envVars>>

\* Where a thread is: "none" before its connection is made, "sent" when it has a
\* message to read, then its next call, and "closed" or "dead" at the end.
PCs    == {"none", "sent", "enter", "text", "acked", "search", "remove",
           "check", "poll", "send", "await", "drop", "closed", "dead"}
Phases == {"none", "Request", "Update", "Release"}

TypeOK ==
  /\ clock \in [Server -> Nat]
  /\ pendingQueue \in [Server -> [Server -> Seq(Nat)]]
  /\ clientCommands \in [Server -> [head : Job \cup {NoJob}, size : Nat]]
  /\ timedOutServers \in [Server -> SUBSET Server]
  /\ log \in [Server -> Seq(Job)]
  /\ pc \in [Thread -> PCs]
  /\ phase \in [Thread -> Phases]
  /\ running \in [Thread -> Job \cup {NoJob}]
  /\ peer \in [Thread -> Nat]
  /\ stamp \in [Thread -> Nat]
  /\ found \in [Thread -> BOOLEAN]
  /\ cpc \in [Client -> {"ready", "waiting", "failed"}]
  /\ index \in [Client -> Nat \ {0}]
  /\ servers \in [Client -> Seq(Server)]
  /\ answered \subseteq Job
  /\ crashed \subseteq Server
  /\ timeouts \in Nat

Init ==
  /\ clock = [s \in Server |-> 1]
  /\ pendingQueue = [s \in Server |-> [p \in Server |-> <<>>]]
  /\ clientCommands = [s \in Server |-> [head |-> NoJob, size |-> 0]]
  /\ timedOutServers = [s \in Server |-> {}]
  /\ log = [s \in Server |-> <<>>]
  /\ pc = [t \in Thread |-> "none"]
  /\ phase = [t \in Thread |-> "none"]
  /\ running = [t \in Thread |-> NoJob]
  /\ peer = [t \in Thread |-> 0]
  /\ stamp = [t \in Thread |-> 0]
  /\ found = [t \in Thread |-> FALSE]
  /\ cpc = [c \in Client |-> "ready"]
  /\ index = [c \in Client |-> 1]
  /\ servers = ServerList
  /\ answered = {}
  /\ crashed = {}
  /\ timeouts = 0

-----------------------------------------------------------------------------
(* Shared objects of a server *)

\* Mutant of AfterPoll: the command polled stays in the queue.
AfterPollPeek(q) == q

\* java.util.PriorityQueue of JDK 1.8 holding objects that are not Comparable,
\* which ClientInformation is not: offer raises size first and then casts the
\* element, unless the queue was empty; poll lowers size first and then
\* compares, unless at most one element is left.
OfferThrows(q) == q.size # 0
Offer(q, j)    == [head |-> IF q.size = 0 THEN j ELSE q.head, size |-> q.size + 1]
PollThrows(q)  == q.size >= 3
AfterPoll(q)   == [head |-> IF PollThrows(q) THEN q.head ELSE NoJob,
                   size |-> IF q.size = 0 THEN 0 ELSE q.size - 1]

\* Mutant of isSmallest: the own entry, too, has to be larger than itself.
isSmallestStrict(s) ==
  LET own == pendingQueue[s][s]
  IN  /\ own # <<>>
      /\ \A p \in Server : \A i \in DOMAIN pendingQueue[s][p] :
           compare(Stamp(own[1], s), Stamp(pendingQueue[s][p][i], p)) = 1

\* search(serverID), for the server's own entry, and the loop around it.
isSmallest(s) ==
  LET own == pendingQueue[s][s]
  IN  /\ own # <<>>
      /\ \A p \in Server : \A i \in DOMAIN pendingQueue[s][p] :
           compare(Stamp(own[1], s), Stamp(pendingQueue[s][p][i], p)) # -1

\* Another thread of the server is about to change the pending queue.  An
\* iteration of t over that ArrayList may overlap with the change, and then
\* throws ConcurrentModificationException.
Modifying(t) ==
  \E u \in Thread \ {t} :
    /\ u.at = t.at
    /\ \/ u.kind = "Client" /\ pc[u] = "enter"
       \/ u.kind = "Request" /\ pc[u] = "acked"
       \/ pc[u] = "drop" /\ pendingQueue[u.at][peer[u]] # <<>>
       \/ found[u]

\* A thread runs only while its process does.
At(t, label) == pc[t] = label /\ t.at \notin crashed

Goto(t, label) == pc' = [pc EXCEPT ![t] = label]

\* The task ends, and its local variables with it: scanner.close() also closes
\* the socket; an unchecked exception leaves the socket open.
Finish(t, label) ==
  /\ Goto(t, label)
  /\ peer' = [peer EXCEPT ![t] = 0]
  /\ stamp' = [stamp EXCEPT ![t] = 0]
EndTask(t) == Finish(t, "closed")
Throw(t)   == Finish(t, "dead")

\* A message is made, with the clock as it is now, and passed to send().
StartSend(t) ==
  /\ Goto(t, "send")
  /\ peer' = [peer EXCEPT ![t] = 0]
  /\ stamp' = [stamp EXCEPT ![t] = clock[t.at]]

-----------------------------------------------------------------------------
(* serviceServerTask, the branch for a client's command *)

\* Mutant of AcceptCommand: the exception of add() is caught.
AcceptCommandCaught(t) ==
  /\ t.kind = "Client" /\ At(t, "sent")
  /\ clock' = [clock EXCEPT ![t.at] = Tick(@)]
  /\ clientCommands' = [clientCommands EXCEPT ![t.at] = Offer(@, t.job)]
  /\ Goto(t, "enter")
  /\ UNCHANGED <<pendingQueue, timedOutServers, log, phase, running, peer,
                 stamp, found, clientVars, answered, envVars>>

\* setLogicalClockInternal(), clientCommands.add(...)
AcceptCommand(t) ==
  /\ t.kind = "Client" /\ At(t, "sent")
  /\ clock' = [clock EXCEPT ![t.at] = Tick(@)]
  /\ clientCommands' = [clientCommands EXCEPT ![t.at] = Offer(@, t.job)]
  /\ Goto(t, IF OfferThrows(clientCommands[t.at]) THEN "dead" ELSE "enter")
  /\ UNCHANGED <<pendingQueue, timedOutServers, log, phase, running, peer,
                 stamp, found, clientVars, answered, envVars>>

\* Mutant of EnterOwnRequest: the own entry is made with the next clock.
EnterOwnRequestTicked(t) ==
  /\ At(t, "enter")
  /\ pendingQueue' = [pendingQueue EXCEPT ![t.at][t.at] = Append(@, Tick(clock[t.at]))]
  /\ Goto(t, "text")
  /\ UNCHANGED <<clock, clientCommands, timedOutServers, log, phase, running,
                 peer, stamp, found, clientVars, answered, envVars>>

\* requestCriticalSection(): the server's own entry ...
EnterOwnRequest(t) ==
  /\ At(t, "enter")
  /\ pendingQueue' = [pendingQueue EXCEPT ![t.at][t.at] = Append(@, clock[t.at])]
  /\ Goto(t, "text")
  /\ UNCHANGED <<clock, clientCommands, timedOutServers, log, phase, running,
                 peer, stamp, found, clientVars, answered, envVars>>

\* ... then the text of the Request, which reads the clock again.
WriteRequest(t) ==
  /\ At(t, "text")
  /\ phase' = [phase EXCEPT ![t] = "Request"]
  /\ running' = [running EXCEPT ![t] = t.job]
  /\ StartSend(t)
  /\ UNCHANGED <<serverVars, found, clientVars, answered, envVars>>

-----------------------------------------------------------------------------
(* send(message): one peer after the other, each until it replies *)

\* The ServerTask thread that serves the connection t has to its current peer.
PeerTask(t) == PeerThread(phase[t], running[t], peer[t])

\* In send() and not waiting: at its start, after a suspicion, or because a
\* line other than "alive" may have arrived.  A Request is acknowledged after
\* the peer's clock has moved; an Update or a Release is answered with
\* "recieved" before the peer does anything at all, so that the sender may go
\* on as soon as it is delivered.
Sending(t) ==
  \/ At(t, "send")
  \/ At(t, "await") /\ (phase[t] = "Request" => pc[PeerTask(t)] # "sent")

\* Mutant of Unvisited: the loop ends before the last server.
UnvisitedShort(t) ==
  {p \in Server : /\ p > peer[t] /\ p # t.at /\ p \notin timedOutServers[t.at]
                  /\ p < serverInstances}

\* The servers the loop has still to turn to.
Unvisited(t) ==
  {p \in Server : p > peer[t] /\ p # t.at /\ p \notin timedOutServers[t.at]}

IsNextPeer(t, p) == p \in Unvisited(t) /\ \A q \in Unvisited(t) : p <= q

\* All peers have been served.
SendReturns(t, ph) == phase[t] = ph /\ Sending(t) /\ Unvisited(t) = {}

\* The connection is made and the message printed; setLogicalClockSend().
SendMessage(t) ==
  /\ Sending(t)
  /\ \E p \in Server \ crashed :
       /\ IsNextPeer(t, p)
       /\ LET m == PeerThread(phase[t], running[t], p)
          IN  /\ pc' = [pc EXCEPT ![t] = "await", ![m] = "sent"]
              /\ stamp' = [stamp EXCEPT ![m] = stamp[t]]
       /\ peer' = [peer EXCEPT ![t] = p]
  /\ clock' = [clock EXCEPT ![t.at] = Tick(@)]
  /\ UNCHANGED <<pendingQueue, clientCommands, timedOutServers, log, phase,
                 running, found, clientVars, answered, envVars>>

\* Mutant of Suspect: the number is taken for an index and counted up.
SuspectNext(t, p) ==
  /\ timedOutServers' = [timedOutServers EXCEPT ![t.at] = @ \cup {p + 1}]
  /\ peer' = [peer EXCEPT ![t] = p]
  /\ Goto(t, "drop")
  /\ UNCHANGED <<clock, pendingQueue, clientCommands, log, phase, running,
                 stamp, found, clientVars, answered>>

\* Mutant of Suspect: the same server is tried again.
SuspectRetry(t, p) ==
  /\ peer' = [peer EXCEPT ![t] = p - 1]
  /\ Goto(t, "drop")
  /\ UNCHANGED <<serverVars, phase, running, stamp, found, clientVars,
                 answered>>

\* deprecateServer(p), first half, in the step of the failure.
Suspect(t, p) ==
  /\ timedOutServers' = [timedOutServers EXCEPT ![t.at] = @ \cup {p}]
  /\ peer' = [peer EXCEPT ![t] = p]
  /\ Goto(t, "drop")
  /\ UNCHANGED <<clock, pendingQueue, clientCommands, log, phase, running,
                 stamp, found, clientVars, answered>>

\* ConnectException: nobody listens on the peer's port.
ConnectRefused(t) ==
  /\ Sending(t)
  /\ \E p \in crashed : IsNextPeer(t, p) /\ Suspect(t, p)
  /\ UNCHANGED envVars

\* The stream ends, or no line comes for 100 ms (NoSuchElementException).
ReplyFails(t) ==
  /\ At(t, "await")
  /\ \/ peer[t] \in crashed /\ UNCHANGED envVars
     \/ timeouts < MaxTimeouts /\ timeouts' = timeouts + 1 /\ UNCHANGED crashed
  /\ Suspect(t, peer[t])

\* pendingQueue.remove(e) for the oldest entry e of p. It is the one that every
\* search for p returned since the last removal.
RemoveOldest(s, p) ==
  /\ pendingQueue' = [pendingQueue EXCEPT ![s][p] = SubSeq(@, 2, Len(@))]
  /\ found' = [u \in Thread |-> found[u] /\ ~(u.at = s /\ u.job.server = p)]

\* deprecateServer(p), second half: remove(p) searches for an entry of p and
\* removes it, until there is none.
DropSuspect(t) ==
  /\ At(t, "drop")
  /\ \/ /\ RemoveOldest(t.at, peer[t])
        /\ Goto(t, IF pendingQueue[t.at][peer[t]] = <<>> THEN "send" ELSE "drop")
        /\ UNCHANGED <<peer, stamp>>
     \/ Modifying(t) /\ Throw(t) /\ UNCHANGED <<pendingQueue, found>>
  /\ UNCHANGED <<clock, clientCommands, timedOutServers, log, phase, running,
                 clientVars, answered, envVars>>

-----------------------------------------------------------------------------
(* serviceServerTask, the branches for a peer's message *)

\* Request: setLogicalClockReceive(), setLogicalClockSend(), and the
\* acknowledgement is printed ...
HandleRequest(t) ==
  /\ t.kind = "Request" /\ At(t, "sent")
  /\ clock' = [clock EXCEPT ![t.at] = Tick(Receive(@, stamp[t]))]
  /\ Goto(t, "acked")
  /\ UNCHANGED <<pendingQueue, clientCommands, timedOutServers, log, phase,
                 running, peer, stamp, found, clientVars, answered, envVars>>

\* ... before the entry is added to the queue.
AddRequest(t) ==
  /\ t.kind = "Request" /\ At(t, "acked")
  /\ pendingQueue' =
       [pendingQueue EXCEPT ![t.at][t.job.server] = Append(@, stamp[t])]
  /\ EndTask(t)
  /\ UNCHANGED <<clock, clientCommands, timedOutServers, log, phase, running,
                 found, clientVars, answered, envVars>>

\* Update, after the reply: setLogicalClockReceive(), and the replica executes
\* the command.
ApplyUpdate(t) ==
  /\ t.kind = "Update" /\ At(t, "sent")
  /\ clock' = [clock EXCEPT ![t.at] = Receive(@, stamp[t])]
  /\ log' = [log EXCEPT ![t.at] = Append(@, t.job)]
  /\ EndTask(t)
  /\ UNCHANGED <<pendingQueue, clientCommands, timedOutServers, phase, running,
                 found, clientVars, answered, envVars>>

\* Release, after the reply: the clock ...
HandleRelease(t) ==
  /\ t.kind = "Release" /\ At(t, "sent")
  /\ clock' = [clock EXCEPT ![t.at] = Receive(@, stamp[t])]
  /\ Goto(t, "search")
  /\ UNCHANGED <<pendingQueue, clientCommands, timedOutServers, log, phase,
                 running, peer, stamp, found, clientVars, answered, envVars>>

\* ... search() for the sender's first entry, if it has one, ...
SearchSender(t) ==
  /\ At(t, "search")
  /\ \/ /\ found' = [found EXCEPT ![t] = pendingQueue[t.at][t.job.server] # <<>>]
        /\ Goto(t, "remove") /\ UNCHANGED <<peer, stamp>>
     \/ Modifying(t) /\ Throw(t) /\ UNCHANGED found
  /\ UNCHANGED <<serverVars, phase, running, clientVars, answered, envVars>>

\* ... and its removal, unless another thread has removed it since.
RemoveRequest(t) ==
  /\ At(t, "remove")
  /\ IF found[t] THEN RemoveOldest(t.at, t.job.server)
                 ELSE UNCHANGED <<pendingQueue, found>>
  /\ Goto(t, "check")
  /\ UNCHANGED <<clock, clientCommands, timedOutServers, log, phase, running,
                 peer, stamp, clientVars, answered, envVars>>

-----------------------------------------------------------------------------
(* checkCriticalSection() *)

\* If the server is not the smallest the task ends, and closes its socket.
CheckSmallest(t) ==
  /\ At(t, "check") \/ SendReturns(t, "Request")
  /\ \/ isSmallest(t.at) /\ Goto(t, "poll") /\ UNCHANGED <<peer, stamp>>
     \/ ~isSmallest(t.at) /\ EndTask(t)
     \/ Modifying(t) /\ Throw(t)
  /\ UNCHANGED <<serverVars, phase, running, found, clientVars, answered,
                 envVars>>

\* clientCommands.poll(), execute(command), and the text of the Update: another
\* thread could come between only to run a command of its own first.  An
\* empty or broken queue gives a null client or throws in poll(); a malformed
\* command throws in execute(), after it was polled.
ExecuteNext(t) ==
  LET q == clientCommands[t.at]
      j == q.head
      polled == q.size # 0 /\ ~PollThrows(q) /\ j # NoJob
  IN  /\ At(t, "poll")
      /\ clientCommands' = [clientCommands EXCEPT ![t.at] = AfterPoll(q)]
      /\ \/ /\ polled
            /\ running' = [running EXCEPT ![t] = j]
            /\ phase' = [phase EXCEPT ![t] = "Update"]
            /\ \/ /\ CommandOf(j) = "valid"
                  /\ log' = [log EXCEPT ![t.at] = Append(@, j)]
                  /\ StartSend(t)
               \/ CommandOf(j) = "malformed" /\ Throw(t) /\ UNCHANGED log
         \/ ~polled /\ Throw(t) /\ UNCHANGED <<running, phase, log>>
      /\ UNCHANGED <<clock, pendingQueue, timedOutServers, found, clientVars,
                     answered, envVars>>

\* releaseCriticalSection(): the text of the Release.
BeginRelease(t) ==
  /\ SendReturns(t, "Update")
  /\ phase' = [phase EXCEPT ![t] = "Release"]
  /\ StartSend(t)
  /\ UNCHANGED <<serverVars, running, found, clientVars, answered, envVars>>

\* The response, if the client's socket is still open; then the task ends.
Respond(t) ==
  /\ SendReturns(t, "Release")
  /\ answered' = IF pc[ClientThread(running[t])] = "closed"
                 THEN answered ELSE answered \cup {running[t]}
  /\ EndTask(t)
  /\ UNCHANGED <<serverVars, phase, running, found, clientVars, envVars>>

ServerTask(t) ==
  \/ AcceptCommand(t) \/ EnterOwnRequest(t) \/ WriteRequest(t)
  \/ SendMessage(t) \/ ConnectRefused(t) \/ ReplyFails(t)
  \/ DropSuspect(t)
  \/ HandleRequest(t) \/ AddRequest(t) \/ ApplyUpdate(t)
  \/ HandleRelease(t) \/ SearchSender(t) \/ RemoveRequest(t)
  \/ CheckSmallest(t) \/ ExecuteNext(t)
  \/ BeginRelease(t) \/ Respond(t)

-----------------------------------------------------------------------------
(* Client.java *)

HasCommand(c) == index[c] \in DOMAIN Script[c]

\* The connection for c's current command, to the first server of its list.
CurrentJob(c) == [client |-> c, index |-> index[c], server |-> Head(servers[c])]

\* send(): connect to servers.get(0) and print the command.
ClientConnect(c) ==
  /\ cpc[c] = "ready" /\ HasCommand(c)
  /\ servers[c] # <<>> /\ Head(servers[c]) \notin crashed
  /\ pc' = [pc EXCEPT ![ClientThread(CurrentJob(c))] = "sent"]
  /\ cpc' = [cpc EXCEPT ![c] = "waiting"]
  /\ UNCHANGED <<serverVars, phase, running, peer, stamp, found, index, servers,
                 answered, envVars>>

\* deprecateServer(): drop the first server, and try the next one.
Deprecate(c) ==
  /\ servers' = [servers EXCEPT ![c] = Tail(@)]
  /\ cpc' = [cpc EXCEPT ![c] = "ready"]
  /\ UNCHANGED <<serverVars, threadVars, index, answered>>

\* ConnectException.
ClientRefused(c) ==
  /\ cpc[c] = "ready" /\ HasCommand(c)
  /\ servers[c] # <<>> /\ Head(servers[c]) \in crashed
  /\ Deprecate(c)
  /\ UNCHANGED envVars

\* A line other than "alive" arrives: main() goes on to the next command.
ClientReceive(c) ==
  /\ cpc[c] = "waiting" /\ CurrentJob(c) \in answered
  /\ cpc' = [cpc EXCEPT ![c] = "ready"]
  /\ index' = [index EXCEPT ![c] = @ + 1]
  /\ UNCHANGED <<serverVars, threadVars, servers, answered, envVars>>

\* NoSuchElementException: the server closed the connection without a
\* response, or it crashed, or it was silent for 100 ms.
ClientEndOfStream(c) ==
  /\ cpc[c] = "waiting"
  /\ \/ /\ \/ CurrentJob(c).server \in crashed
           \/ /\ pc[ClientThread(CurrentJob(c))] = "closed"
              /\ CurrentJob(c) \notin answered
        /\ UNCHANGED envVars
     \/ timeouts < MaxTimeouts /\ timeouts' = timeouts + 1 /\ UNCHANGED crashed
  /\ Deprecate(c)

\* servers.get(0) on an empty list: IndexOutOfBoundsException ends the client.
ClientFails(c) ==
  /\ cpc[c] = "ready" /\ HasCommand(c) /\ servers[c] = <<>>
  /\ cpc' = [cpc EXCEPT ![c] = "failed"]
  /\ UNCHANGED <<serverVars, threadVars, index, servers, answered, envVars>>

ClientStep(c) ==
  \/ ClientConnect(c) \/ ClientRefused(c) \/ ClientReceive(c)
  \/ ClientEndOfStream(c) \/ ClientFails(c)

-----------------------------------------------------------------------------

\* A server process stops for good: nothing in the code restarts it.
Crash(s) ==
  /\ s \notin crashed /\ Cardinality(crashed) < MaxCrashes
  /\ crashed' = crashed \cup {s}
  /\ UNCHANGED <<serverVars, threadVars, clientVars, answered, timeouts>>

Next ==
  \/ \E t \in Thread : ServerTask(t)
  \/ \E c \in Client : ClientStep(c)
  \/ \E s \in Server : Crash(s)

Spec == Init /\ [][Next]_vars

\* The servers keep running, and so do the clients, though not every thread need
\* make progress; crashes need not happen.
FairSpec ==
  /\ Spec
  /\ WF_vars(\E t \in Thread : ServerTask(t))
  /\ WF_vars(\E c \in Client : ClientStep(c))

-----------------------------------------------------------------------------
(* Properties *)

Executed(s) == {log[s][i] : i \in DOMAIN log[s]}

\* No replica executes the command of one connection twice (the polls of
\* Server.java:200 by client threads and Release handlers, and the Updates of
\* line 181), whatever crashes, times out or overlaps.
AtMostOnce ==
  \A s \in Server : \A i, k \in DOMAIN log[s] : log[s][i] = log[s][k] => i = k

\* A response reaches the client only after every server that its origin does
\* not suspect has been sent the Update (the order of Server.java:203, 204 and
\* 212, across all the peers that send() visits).
ReplicatedBeforeAnswer ==
  \A j \in answered : \A p \in Server \ {j.server} :
    p \in timedOutServers[j.server] \/ pc[PeerThread("Update", j, p)] # "none"

\* Thread t has taken the command of connection j out of the queue.
Polled(t, j) == running[t] = j /\ phase[t] \in {"Update", "Release"}

\* No command is polled twice (Server.java:200): its own thread and the handlers
\* of several Releases may find their server the smallest one after the other
\* (line 199) before any of them polls, and the queue may break meanwhile.
PolledOnce ==
  \A j \in Job : \A t, u \in Thread : Polled(t, j) /\ Polled(u, j) => t = u

\* No command is lost in the broken queue: one that was accepted, that nobody
\* has polled and whose thread was not ended by an exception (the add of
\* Server.java:186 throws when the queue is not empty) is the one that the next
\* poll returns, even when its own thread has found the server not smallest and
\* left it to a Release handler.
AcceptedIsHeld ==
  \A j \in Job :
    \/ pc[ClientThread(j)] \in {"none", "sent", "dead"}
    \/ \E t \in Thread : Polled(t, j)
    \/ clientCommands[j.server].head = j

\* The clock condition of the pending queues: a server's clock has reached the
\* stamp of each request it keeps, and passed those of the other servers, so
\* that a request it makes from now on comes after them (TimeStamp.java:45-47
\* with Server.java:160-165).
ClockPastEntries ==
  \A s, p \in Server : \A i \in DOMAIN pendingQueue[s][p] :
    /\ pendingQueue[s][p][i] <= clock[s]
    /\ p # s => pendingQueue[s][p][i] < clock[s]

\* At s, a request of p comes before s's own.
Defers(s, p) ==
  LET own == pendingQueue[s][s]
  IN  /\ own # <<>>
      /\ \E i \in DOMAIN pendingQueue[s][p] :
           compare(Stamp(own[1], s), Stamp(pendingQueue[s][p][i], p)) = -1

\* A server waits for another one only if the own entry of that one comes before
\* its own, so that servers never wait for each other in a circle.  They do not
\* compare the same stamps: Server.java:55-56 reads the clock twice, for the own
\* entry and for the Request, and a message may move it in between.
WaitsInOrder ==
  \A s, p \in Server : Defers(s, p) =>
    /\ pendingQueue[p][p] # <<>>
    /\ compare(Stamp(pendingQueue[s][s][1], s), Stamp(pendingQueue[p][p][1], p)) = -1

\* Without failures and contention every client gets a response to each of its
\* commands.
AllAnswered == \A c \in Client : <>(~HasCommand(c) /\ cpc[c] = "ready")

\* Without failures the replicas in the end have executed the same commands,
\* even when servers contend and their tasks end by exceptions, though perhaps
\* not in the same order (Server.java:200-203 and 176-182).
EventuallyReplicated ==
  <>[](\A s, p \in Server : Executed(s) = Executed(p))

\* Notes/Chapter 8.docx: no two processes are in the critical section at once.
\* Here it lasts from isSmallest() to the end of send(update).
InCriticalSection(s) ==
  \E t \in Thread :
    /\ t.at = s /\ s \notin crashed
    /\ \/ pc[t] = "poll"
       \/ phase[t] = "Update" /\ pc[t] \in {"send", "await", "drop"}
MutualExclusion ==
  \A s, p \in Server : InCriticalSection(s) /\ InCriticalSection(p) => s = p
=============================================================================
