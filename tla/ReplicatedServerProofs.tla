---------------------- MODULE ReplicatedServerProofs ----------------------
(***************************************************************************)
(* Theorems about ReplicatedServer, for any number of servers and clients, *)
(* any scripts and server lists, and any number of crashes and timeouts.   *)
(***************************************************************************)
EXTENDS ReplicatedServer, FiniteSetTheorems, SequenceTheorems, TLAPS

-----------------------------------------------------------------------------
(* The constants *)

LEMMA JobFacts ==
  ASSUME NEW j \in Job
  PROVE  /\ j.client \in Client /\ j.server \in Server
         /\ j.index \in DOMAIN Script[j.client]
  <1>1. PICK c \in Client :
          j \in [client : {c}, index : DOMAIN Script[c],
                 server : {ServerList[c][i] : i \in DOMAIN ServerList[c]}]
    BY DEF Job
  <1>2. \A i \in DOMAIN ServerList[c] : ServerList[c][i] \in Server
    BY ListAssumption, ElementOfSeq
  <1> QED
    BY <1>1, <1>2

LEMMA ThreadFacts ==
  ASSUME NEW t \in Thread
  PROVE  t.kind \in Kind /\ t.job \in Job /\ t.at \in Server
  BY DEF Thread

-----------------------------------------------------------------------------
(* Type correctness.  TypeOK is not inductive: send() must be known to wait for *)
(* a server and to work for a command, and a waiting client to have a server.   *)

WaitingHasServer == \A c \in Client : cpc[c] = "waiting" => servers[c] # <<>>

SendersServe ==
  \A t \in Thread : /\ pc[t] \in {"await", "drop"} => peer[t] \in Server
                    /\ phase[t] # "none" => running[t] \in Job

TypeInv == TypeOK /\ WaitingHasServer /\ SendersServe

LEMMA InitType == Init => TypeInv
  <1> SUFFICES ASSUME Init PROVE TypeInv
    OBVIOUS
  <1> USE DEF Init
  <1>1. clientCommands \in [Server -> [head : Job \cup {NoJob}, size : Nat]]
    OBVIOUS
  <1>2. servers \in [Client -> Seq(Server)]
    BY ListAssumption
  <1> QED
    BY <1>1, <1>2 DEF TypeOK, TypeInv, WaitingHasServer, SendersServe, PCs, Phases

\* What a thread's own locals become when it ends, throws, goes on or sends.
LocalStep(t) ==
  \/ EndTask(t) \/ Throw(t) \/ StartSend(t)
  \/ \E l \in PCs : /\ Goto(t, l) /\ UNCHANGED <<peer, stamp>>
                    /\ l \in {"await", "drop"} => peer[t] \in Server

LEMMA LocalType ==
  ASSUME TypeInv, NEW t \in Thread, LocalStep(t)
  PROVE  /\ pc' \in [Thread -> PCs]
         /\ peer' \in [Thread -> Nat]
         /\ stamp' \in [Thread -> Nat]
         /\ \A u \in Thread : pc'[u] \in {"await", "drop"} => peer'[u] \in Server
  <1> USE DEF TypeInv, TypeOK, SendersServe
  <1>1. ASSUME NEW l \in {"closed", "dead"}, Finish(t, l)
        PROVE  /\ pc' \in [Thread -> PCs]
               /\ peer' \in [Thread -> Nat]
               /\ stamp' \in [Thread -> Nat]
               /\ \A u \in Thread : pc'[u] \in {"await", "drop"} => peer'[u] \in Server
    BY <1>1 DEF Finish, Goto, PCs
  <1>2. CASE StartSend(t)
    BY <1>2, ThreadFacts DEF StartSend, Goto, PCs
  <1>3. CASE \E l \in PCs :
               /\ Goto(t, l) /\ UNCHANGED <<peer, stamp>>
               /\ l \in {"await", "drop"} => peer[t] \in Server
    BY <1>3 DEF Goto
  <1> QED
    BY <1>1, <1>2, <1>3 DEF LocalStep, EndTask, Throw

LEMMA SubSeqFromTwo ==
  ASSUME NEW S, NEW q \in Seq(S)
  PROVE  /\ SubSeq(q, 2, Len(q)) \in Seq(S)
         /\ \A i \in DOMAIN SubSeq(q, 2, Len(q)) :
              i + 1 \in DOMAIN q /\ SubSeq(q, 2, Len(q))[i] = q[i + 1]
  <1>1. Len(q) \in Nat /\ DOMAIN q = 1 .. Len(q)
    BY LenProperties
  <1>2. /\ SubSeq(q, 2, Len(q)) \in Seq(S)
        /\ Len(SubSeq(q, 2, Len(q))) = IF 2 <= Len(q) THEN Len(q) - 1 ELSE 0
        /\ \A i \in 1 .. Len(q) - 1 : SubSeq(q, 2, Len(q))[i] = q[i + 1]
    BY <1>1, SubSeqProperties
  <1>3. DOMAIN SubSeq(q, 2, Len(q)) = 1 .. Len(SubSeq(q, 2, Len(q)))
    BY <1>2, LenProperties
  <1> QED
    BY <1>1, <1>2, <1>3

\* What a removal does to the queue: one list loses its first entry.
LEMMA RemovalType ==
  ASSUME TypeInv, NEW s \in Server, NEW p \in Server, RemoveOldest(s, p)
  PROVE  /\ pendingQueue' \in [Server -> [Server -> Seq(Nat)]]
         /\ found' \in [Thread -> BOOLEAN]
  <1>1. pendingQueue \in [Server -> [Server -> Seq(Nat)]] /\ found \in [Thread -> BOOLEAN]
    BY DEF TypeInv, TypeOK
  <1> DEFINE new == SubSeq(pendingQueue[s][p], 2, Len(pendingQueue[s][p]))
  <1>2. new \in Seq(Nat)
    BY <1>1, SubSeqFromTwo
  <1>3. pendingQueue' = [pendingQueue EXCEPT ![s][p] = new]
    BY DEF RemoveOldest
  <1>4. found' \in [Thread -> BOOLEAN]
    BY <1>1 DEF RemoveOldest
  <1> QED
    BY <1>1, <1>2, <1>3, <1>4

LEMMA TypeServerTask ==
  ASSUME TypeInv, NEW t \in Thread, ServerTask(t)
  PROVE  TypeInv'
  <1>t. t.kind \in Kind /\ t.job \in Job /\ t.at \in Server
    BY ThreadFacts
  <1>s. Server \subseteq Nat
    BY DEF Server
  <1> USE <1>t DEF TypeInv, WaitingHasServer, SendersServe, serverVars, clientVars, envVars
  <1>1. CASE AcceptCommand(t)
    <2>1. LocalStep(t)
      BY <1>1 DEF AcceptCommand, LocalStep, PCs
    <2>2. clock' \in [Server -> Nat]
      BY <1>1 DEF AcceptCommand, TypeOK, Tick
    <2>3. clientCommands' \in [Server -> [head : Job \cup {NoJob}, size : Nat]]
      BY <1>1 DEF AcceptCommand, TypeOK, Offer
    <2> QED
      BY <1>1, <2>1, <2>2, <2>3, LocalType DEF AcceptCommand, TypeOK
  <1>2. CASE EnterOwnRequest(t)
    <2>1. LocalStep(t)
      BY <1>2 DEF EnterOwnRequest, LocalStep, PCs
    <2>2. pendingQueue' \in [Server -> [Server -> Seq(Nat)]]
      BY <1>2 DEF EnterOwnRequest, TypeOK
    <2> QED
      BY <1>2, <2>1, <2>2, LocalType DEF EnterOwnRequest, TypeOK
  <1>3. CASE WriteRequest(t)
    <2>1. LocalStep(t)
      BY <1>3 DEF WriteRequest, LocalStep
    <2>2. /\ phase' \in [Thread -> Phases]
          /\ running' \in [Thread -> Job \cup {NoJob}]
          /\ \A u \in Thread : phase'[u] # "none" => running'[u] \in Job
      BY <1>3 DEF WriteRequest, TypeOK, Phases
    <2> QED
      BY <1>3, <2>1, <2>2, LocalType DEF WriteRequest, TypeOK
  <1>4. CASE SendMessage(t)
    <2>1. PICK p \in Server \ crashed :
            LET m == PeerThread(phase[t], running[t], p)
            IN  /\ pc' = [pc EXCEPT ![t] = "await", ![m] = "sent"]
                /\ stamp' = [stamp EXCEPT ![m] = stamp[t]]
                /\ peer' = [peer EXCEPT ![t] = p]
                /\ clock' = [clock EXCEPT ![t.at] = Tick(@)]
      BY <1>4 DEF SendMessage
    <2>2. /\ pc' \in [Thread -> PCs]
          /\ peer' \in [Thread -> Nat]
          /\ stamp' \in [Thread -> Nat]
      BY <2>1, <1>s DEF TypeOK, PCs
    <2>3. \A u \in Thread : pc'[u] \in {"await", "drop"} => peer'[u] \in Server
      BY <2>1 DEF TypeOK
    <2>4. clock' \in [Server -> Nat]
      BY <2>1 DEF TypeOK, Tick
    <2> QED
      BY <1>4, <2>2, <2>3, <2>4 DEF SendMessage, TypeOK
  <1>5. ASSUME NEW p \in Server, Suspect(t, p), crashed' = crashed, timeouts' \in Nat
        PROVE  TypeInv'
    <2>1. /\ pc' \in [Thread -> PCs]
          /\ peer' \in [Thread -> Nat]
          /\ \A u \in Thread : pc'[u] \in {"await", "drop"} => peer'[u] \in Server
      BY <1>5, <1>s DEF Suspect, TypeOK, Goto, PCs
    <2>2. timedOutServers' \in [Server -> SUBSET Server]
      BY <1>5 DEF Suspect, TypeOK
    <2> QED
      BY <1>5, <2>1, <2>2 DEF Suspect, TypeOK
  <1>6. CASE ConnectRefused(t)
    BY <1>5, <1>6 DEF ConnectRefused, IsNextPeer, Unvisited, TypeOK
  <1>7. CASE ReplyFails(t)
    <2>1. peer[t] \in Server /\ Suspect(t, peer[t])
      BY <1>7 DEF ReplyFails, At
    <2>2. crashed' = crashed /\ timeouts' \in Nat
      BY <1>7 DEF ReplyFails, TypeOK
    <2> QED
      BY <1>5, <2>1, <2>2
  <1>8. CASE DropSuspect(t)
    <2>1. LocalStep(t)
      BY <1>8 DEF DropSuspect, At, LocalStep, PCs
    <2>2. peer[t] \in Server
      BY <1>8 DEF DropSuspect, At
    <2>3. RemoveOldest(t.at, peer[t]) \/ UNCHANGED <<pendingQueue, found>>
      BY <1>8 DEF DropSuspect
    <2>4. /\ pendingQueue' \in [Server -> [Server -> Seq(Nat)]]
          /\ found' \in [Thread -> BOOLEAN]
      BY <2>2, <2>3, RemovalType DEF TypeOK
    <2> QED
      BY <1>8, <2>1, <2>4, LocalType DEF DropSuspect, TypeOK
  <1>9. CASE HandleRequest(t)
    <2>1. LocalStep(t)
      BY <1>9 DEF HandleRequest, LocalStep, PCs
    <2>2. clock' \in [Server -> Nat]
      BY <1>9 DEF HandleRequest, TypeOK, Tick, Receive
    <2> QED
      BY <1>9, <2>1, <2>2, LocalType DEF HandleRequest, TypeOK
  <1>10. CASE AddRequest(t)
    <2>1. LocalStep(t)
      BY <1>10 DEF AddRequest, LocalStep
    <2>2. pendingQueue' \in [Server -> [Server -> Seq(Nat)]]
      <3>1. t.job.server \in Server
        BY JobFacts
      <3>2. pendingQueue' =
              [pendingQueue EXCEPT ![t.at][t.job.server] = Append(@, stamp[t])]
        BY <1>10 DEF AddRequest
      <3>3. Append(pendingQueue[t.at][t.job.server], stamp[t]) \in Seq(Nat)
        BY <3>1 DEF TypeOK
      <3> QED
        BY <3>1, <3>2, <3>3 DEF TypeOK
    <2> QED
      BY <1>10, <2>1, <2>2, LocalType DEF AddRequest, TypeOK
  <1>11. CASE ApplyUpdate(t)
    <2>1. LocalStep(t)
      BY <1>11 DEF ApplyUpdate, LocalStep
    <2>2. clock' \in [Server -> Nat]
      BY <1>11 DEF ApplyUpdate, TypeOK, Receive
    <2>3. log' \in [Server -> Seq(Job)]
      BY <1>11 DEF ApplyUpdate, TypeOK
    <2> QED
      BY <1>11, <2>1, <2>2, <2>3, LocalType DEF ApplyUpdate, TypeOK
  <1>12. CASE HandleRelease(t)
    <2>1. LocalStep(t)
      BY <1>12 DEF HandleRelease, LocalStep, PCs
    <2>2. clock' \in [Server -> Nat]
      BY <1>12 DEF HandleRelease, TypeOK, Receive
    <2> QED
      BY <1>12, <2>1, <2>2, LocalType DEF HandleRelease, TypeOK
  <1>18. CASE SearchSender(t)
    <2>1. LocalStep(t)
      BY <1>18 DEF SearchSender, LocalStep, PCs
    <2>2. found' \in [Thread -> BOOLEAN]
      BY <1>18 DEF SearchSender, TypeOK
    <2> QED
      BY <1>18, <2>1, <2>2, LocalType DEF SearchSender, TypeOK
  <1>19. CASE RemoveRequest(t)
    <2>1. LocalStep(t)
      BY <1>19 DEF RemoveRequest, LocalStep, PCs
    <2>2. RemoveOldest(t.at, t.job.server) \/ UNCHANGED <<pendingQueue, found>>
      BY <1>19 DEF RemoveRequest
    <2>3. /\ pendingQueue' \in [Server -> [Server -> Seq(Nat)]]
          /\ found' \in [Thread -> BOOLEAN]
      BY <2>2, JobFacts, RemovalType DEF TypeOK
    <2> QED
      BY <1>19, <2>1, <2>3, LocalType DEF RemoveRequest, TypeOK
  <1>13. CASE CheckSmallest(t)
    <2>1. LocalStep(t)
      BY <1>13 DEF CheckSmallest, LocalStep, PCs
    <2> QED
      BY <1>13, <2>1, LocalType DEF CheckSmallest, TypeOK
  <1>14. CASE ExecuteNext(t)
    <2>1. LocalStep(t)
      BY <1>14 DEF ExecuteNext, LocalStep
    <2>2. clientCommands' \in [Server -> [head : Job \cup {NoJob}, size : Nat]]
      BY <1>14 DEF ExecuteNext, TypeOK, AfterPoll
    <2>3. /\ phase' \in [Thread -> Phases]
          /\ running' \in [Thread -> Job \cup {NoJob}]
          /\ \A u \in Thread : phase'[u] # "none" => running'[u] \in Job
      BY <1>14 DEF ExecuteNext, TypeOK, Phases
    <2>4. log' \in [Server -> Seq(Job)]
      <3>1. log' = log \/ \E j \in Job : log' = [log EXCEPT ![t.at] = Append(@, j)]
        BY <1>14 DEF ExecuteNext, TypeOK
      <3>2. CASE log' = log
        BY <3>2 DEF TypeOK
      <3>3. ASSUME NEW j \in Job, log' = [log EXCEPT ![t.at] = Append(@, j)]
            PROVE  log' \in [Server -> Seq(Job)]
        BY <3>3 DEF TypeOK
      <3> QED
        BY <3>1, <3>2, <3>3
    <2> QED
      BY <1>14, <2>1, <2>2, <2>3, <2>4, LocalType DEF ExecuteNext, TypeOK
  <1>15. CASE BeginRelease(t)
    <2>1. LocalStep(t)
      BY <1>15 DEF BeginRelease, LocalStep
    <2>2. /\ phase' \in [Thread -> Phases]
          /\ \A u \in Thread : phase'[u] # "none" => running'[u] \in Job
      BY <1>15 DEF BeginRelease, SendReturns, TypeOK, Phases
    <2> QED
      BY <1>15, <2>1, <2>2, LocalType DEF BeginRelease, TypeOK
  <1>16. CASE Respond(t)
    <2>1. LocalStep(t)
      BY <1>16 DEF Respond, LocalStep
    <2>2. answered' \subseteq Job
      BY <1>16 DEF Respond, SendReturns, TypeOK
    <2> QED
      BY <1>16, <2>1, <2>2, LocalType DEF Respond, TypeOK
  <1> QED
    BY <1>1, <1>2, <1>3, <1>4, <1>6, <1>7, <1>8, <1>9, <1>10, <1>11, <1>12, <1>13,
       <1>14, <1>15, <1>16, <1>18, <1>19 DEF ServerTask

LEMMA TypeClientStep ==
  ASSUME TypeInv, NEW c \in Client, ClientStep(c)
  PROVE  TypeInv'
  <1> USE DEF TypeInv, WaitingHasServer, SendersServe, serverVars, threadVars
  <1>1. CASE ClientConnect(c)
    <2>1. pc' = [pc EXCEPT ![ClientThread(CurrentJob(c))] = "sent"]
      BY <1>1 DEF ClientConnect
    <2>2. /\ pc' \in [Thread -> PCs]
          /\ \A u \in Thread : pc'[u] \in {"await", "drop"} => peer[u] \in Server
      BY <2>1 DEF TypeOK, PCs
    <2>3. /\ cpc' \in [Client -> {"ready", "waiting", "failed"}]
          /\ \A d \in Client : cpc'[d] = "waiting" => servers[d] # <<>>
      BY <1>1 DEF ClientConnect, TypeOK
    <2> QED
      BY <1>1, <2>2, <2>3 DEF ClientConnect, TypeOK, envVars
  <1>2. ASSUME Deprecate(c), servers[c] # <<>>, crashed' = crashed, timeouts' \in Nat
        PROVE  TypeInv'
    <2>1. /\ cpc' \in [Client -> {"ready", "waiting", "failed"}]
          /\ cpc'[c] = "ready" /\ \A d \in Client \ {c} : cpc'[d] = cpc[d]
      BY <1>2 DEF Deprecate, TypeOK
    <2>2. Tail(servers[c]) \in Seq(Server)
      BY <1>2, HeadTailProperties DEF TypeOK
    <2>3. /\ servers' \in [Client -> Seq(Server)]
          /\ \A d \in Client \ {c} : servers'[d] = servers[d]
      BY <1>2, <2>2 DEF Deprecate, TypeOK
    <2> QED
      BY <1>2, <2>1, <2>3 DEF Deprecate, TypeOK
  <1>3. CASE ClientRefused(c)
    BY <1>2, <1>3 DEF ClientRefused, envVars, TypeOK
  <1>4. CASE ClientReceive(c)
    <2>1. index' \in [Client -> Nat \ {0}]
      BY <1>4 DEF ClientReceive, TypeOK
    <2>2. /\ cpc' \in [Client -> {"ready", "waiting", "failed"}]
          /\ \A d \in Client : cpc'[d] = "waiting" => servers[d] # <<>>
      BY <1>4 DEF ClientReceive, TypeOK
    <2> QED
      BY <1>4, <2>1, <2>2 DEF ClientReceive, TypeOK, envVars
  <1>5. CASE ClientEndOfStream(c)
    <2>1. crashed' = crashed /\ timeouts' \in Nat
      BY <1>5 DEF ClientEndOfStream, envVars, TypeOK
    <2> QED
      BY <1>2, <1>5, <2>1 DEF ClientEndOfStream
  <1>6. CASE ClientFails(c)
    BY <1>6 DEF ClientFails, TypeOK, envVars
  <1> QED
    BY <1>1, <1>3, <1>4, <1>5, <1>6 DEF ClientStep

LEMMA TypeStep == TypeInv /\ [Next]_vars => TypeInv'
  <1> SUFFICES ASSUME TypeInv, [Next]_vars PROVE TypeInv'
    OBVIOUS
  <1>1. ASSUME NEW s \in Server, Crash(s) PROVE TypeInv'
    BY <1>1 DEF Crash, TypeInv, TypeOK, WaitingHasServer, SendersServe,
                serverVars, threadVars, clientVars
  <1>2. CASE UNCHANGED vars
    BY <1>2 DEF vars, TypeInv, TypeOK, WaitingHasServer, SendersServe,
                serverVars, threadVars, clientVars, envVars
  <1> QED
    BY <1>1, <1>2, TypeServerTask, TypeClientStep DEF Next

THEOREM TypeInvariant == Spec => []TypeInv
  BY InitType, TypeStep, PTL DEF Spec

\* All variables keep their types: no clock, counter or queue leaves its range,
\* and every list, set and log holds what the code puts into it.
THEOREM TypeCorrectness == Spec => []TypeOK
  <1>1. TypeInv => TypeOK
    BY DEF TypeInv
  <1> QED
    BY <1>1, TypeInvariant, PTL

-----------------------------------------------------------------------------
(* Clocks *)

\* The server that has acknowledged a Request has moved its clock past it.
AckedIsPast ==
  \A t \in Thread : t.kind = "Request" /\ pc[t] = "acked" => stamp[t] < clock[t.at]

ClockInv == ClockPastEntries /\ AckedIsPast

LEMMA ClockServerTask ==
  ASSUME TypeInv, TypeInv', ClockInv, NEW t \in Thread, ServerTask(t)
  PROVE  ClockInv'
  <1>t. t.at \in Server /\ t.job.server \in Server
    BY ThreadFacts, JobFacts
  <1>u. \A u \in Thread : u.at \in Server
    BY ThreadFacts
  <1>0. /\ clock \in [Server -> Nat] /\ clock' \in [Server -> Nat]
        /\ pendingQueue \in [Server -> [Server -> Seq(Nat)]]
        /\ stamp \in [Thread -> Nat] /\ stamp' \in [Thread -> Nat]
        /\ pc \in [Thread -> PCs]
    BY DEF TypeInv, TypeOK
  <1>n. \A s, p \in Server : \A i \in DOMAIN pendingQueue[s][p] : pendingQueue[s][p][i] \in Nat
    BY <1>0, ElementOfSeq, LenProperties
  \* Most steps move clocks forward, and neither queue nor acknowledge anything.
  <1>1. ASSUME \A s \in Server : clock[s] <= clock'[s],
               \A u \in Thread : u.kind = "Request" /\ pc'[u] = "acked" =>
                                   pc[u] = "acked" /\ stamp'[u] = stamp[u]
        PROVE  AckedIsPast'
    <2> SUFFICES ASSUME NEW u \in Thread, u.kind = "Request", pc'[u] = "acked"
                 PROVE  stamp'[u] < clock'[u.at]
      BY DEF AckedIsPast
    <2>1. stamp[u] < clock[u.at] /\ stamp'[u] = stamp[u]
      BY <1>1 DEF ClockInv, AckedIsPast
    <2>2. clock[u.at] <= clock'[u.at]
      BY <1>1, <1>u
    <2>3. u.at \in Server
      BY <1>u
    <2> QED
      BY <1>0, <2>1, <2>2, <2>3
  <1>2. ASSUME \A s \in Server : clock[s] <= clock'[s], UNCHANGED pendingQueue
        PROVE  ClockPastEntries'
    <2> SUFFICES ASSUME NEW s \in Server, NEW p \in Server,
                        NEW i \in DOMAIN pendingQueue[s][p]
                 PROVE  /\ pendingQueue[s][p][i] <= clock'[s]
                        /\ p # s => pendingQueue[s][p][i] < clock'[s]
      BY <1>2 DEF ClockPastEntries
    <2>1. /\ pendingQueue[s][p][i] <= clock[s]
          /\ p # s => pendingQueue[s][p][i] < clock[s]
      BY DEF ClockInv, ClockPastEntries
    <2>2. clock[s] <= clock'[s]
      BY <1>2
    <2> QED
      BY <1>0, <1>n, <2>1, <2>2
  <1>3. ASSUME \A s \in Server : clock[s] <= clock'[s],
               NEW a \in Server, NEW b \in Server, NEW q \in Seq(Nat),
               pendingQueue' = [pendingQueue EXCEPT ![a][b] = q],
               \A i \in DOMAIN q : q[i] <= clock'[a] /\ (b # a => q[i] < clock'[a])
        PROVE  ClockPastEntries'
    <2> SUFFICES ASSUME NEW s \in Server, NEW p \in Server,
                        NEW i \in DOMAIN pendingQueue'[s][p]
                 PROVE  /\ pendingQueue'[s][p][i] <= clock'[s]
                        /\ p # s => pendingQueue'[s][p][i] < clock'[s]
      BY DEF ClockPastEntries
    <2>1. CASE s = a /\ p = b
      BY <1>0, <1>3, <2>1
    <2>2. CASE ~(s = a /\ p = b)
      <3>1. pendingQueue'[s][p] = pendingQueue[s][p]
        BY <1>0, <1>3, <2>2
      <3>2. /\ pendingQueue[s][p][i] <= clock[s]
            /\ p # s => pendingQueue[s][p][i] < clock[s]
        BY <3>1 DEF ClockInv, ClockPastEntries
      <3>3. clock[s] <= clock'[s] /\ clock[s] \in Nat /\ clock'[s] \in Nat
        BY <1>0, <1>3
      <3>4. i \in DOMAIN pendingQueue[s][p] /\ pendingQueue[s][p][i] \in Nat
        BY <1>n, <3>1
      <3> QED
        BY <3>1, <3>2, <3>3, <3>4
    <2> QED
      BY <2>1, <2>2
  <1>4. ASSUME UNCHANGED clock PROVE \A s \in Server : clock[s] <= clock'[s]
    BY <1>0, <1>4
  <1>5. ASSUME clock' = [clock EXCEPT ![t.at] = Tick(@)]
        PROVE  \A s \in Server : clock[s] <= clock'[s]
    BY <1>0, <1>5 DEF Tick
  <1>6. ASSUME NEW r \in Nat, clock' = [clock EXCEPT ![t.at] = Receive(@, r)]
        PROVE  \A s \in Server : clock[s] <= clock'[s]
    BY <1>0, <1>6 DEF Receive
  \* Only HandleRequest takes a thread to "acked".
  <1>7. ASSUME NEW l, l # "acked", Goto(t, l), stamp' = stamp
        PROVE  \A u \in Thread : u.kind = "Request" /\ pc'[u] = "acked" =>
                                   pc[u] = "acked" /\ stamp'[u] = stamp[u]
    BY <1>0, <1>7 DEF Goto
  <1>8. ASSUME EndTask(t) \/ Throw(t) \/ StartSend(t)
        PROVE  \A u \in Thread : u.kind = "Request" /\ pc'[u] = "acked" =>
                                   pc[u] = "acked" /\ stamp'[u] = stamp[u]
    <2>1. \E l \in {"closed", "dead", "send"}, v \in Nat :
            Goto(t, l) /\ stamp' = [stamp EXCEPT ![t] = v]
      BY <1>8, <1>0, <1>t DEF EndTask, Throw, Finish, StartSend
    <2> QED
      BY <1>0, <2>1 DEF Goto
  <1>11. CASE AcceptCommand(t)
    BY <1>1, <1>2, <1>5, <1>7, <1>11 DEF AcceptCommand, ClockInv
  <1>12. CASE EnterOwnRequest(t)
    <2>1. /\ pendingQueue' = [pendingQueue EXCEPT ![t.at][t.at] = Append(@, clock[t.at])]
          /\ Goto(t, "text") /\ UNCHANGED <<clock, stamp>>
      BY <1>12 DEF EnterOwnRequest
    <2> DEFINE old == pendingQueue[t.at][t.at]
    <2>2. old \in Seq(Nat) /\ clock[t.at] \in Nat
      BY <1>0, <1>t
    <2>3. \A i \in DOMAIN old : old[i] <= clock[t.at]
      BY <1>t DEF ClockInv, ClockPastEntries
    <2>4. /\ Append(old, clock[t.at]) \in Seq(Nat)
          /\ \A i \in DOMAIN Append(old, clock[t.at]) :
               Append(old, clock[t.at])[i] <= clock[t.at]
      <3> HIDE DEF old
      <3> QED
        BY <2>2, <2>3, AppendProperties, LenProperties
    <2>5. pendingQueue' = [pendingQueue EXCEPT ![t.at][t.at] = Append(old, clock[t.at])]
      BY <2>1
    <2>6. ClockPastEntries'
      BY <1>3, <1>4, <1>t, <2>1, <2>4, <2>5
    <2> QED
      BY <1>1, <1>4, <1>7, <2>1, <2>6 DEF ClockInv
  <1>13. CASE WriteRequest(t)
    BY <1>1, <1>2, <1>4, <1>8, <1>13 DEF WriteRequest, ClockInv, serverVars
  <1>14. CASE SendMessage(t)
    <2>1. PICK m : /\ pc' = [pc EXCEPT ![t] = "await", ![m] = "sent"]
                   /\ stamp' = [stamp EXCEPT ![m] = stamp[t]]
      BY <1>14 DEF SendMessage
    <2>2. \A u \in Thread : pc'[u] = "acked" => pc[u] = "acked" /\ stamp'[u] = stamp[u]
      BY <1>0, <2>1
    <2> QED
      BY <1>1, <1>2, <1>5, <1>14, <2>2 DEF SendMessage, ClockInv
  <1>15. CASE ConnectRefused(t)
    BY <1>1, <1>2, <1>4, <1>7, <1>15 DEF ConnectRefused, Suspect, ClockInv
  <1>16. CASE ReplyFails(t)
    BY <1>1, <1>2, <1>4, <1>7, <1>16 DEF ReplyFails, Suspect, ClockInv
  \* An entry that leaves the queue does no harm.
  <1>9. ASSUME NEW p \in Server, RemoveOldest(t.at, p), UNCHANGED clock
        PROVE  ClockPastEntries'
    <2> DEFINE old == pendingQueue[t.at][p]
               new == SubSeq(old, 2, Len(old))
    <2>1. old \in Seq(Nat)
      BY <1>0, <1>t
    <2>2. \A i \in DOMAIN old :
            old[i] <= clock[t.at] /\ (p # t.at => old[i] < clock[t.at])
      BY <1>t, <2>1 DEF ClockInv, ClockPastEntries
    <2>3. /\ new \in Seq(Nat)
          /\ \A i \in DOMAIN new :
               new[i] <= clock[t.at] /\ (p # t.at => new[i] < clock[t.at])
      <3> HIDE DEF old
      <3> QED
        BY <2>1, <2>2, SubSeqFromTwo
    <2>4. pendingQueue' = [pendingQueue EXCEPT ![t.at][p] = new]
      BY <1>9 DEF RemoveOldest
    <2> HIDE DEF new
    <2> QED
      BY <1>3, <1>4, <1>9, <1>t, <2>1, <2>3, <2>4
  <1>17. CASE DropSuspect(t)
    <2>1. /\ clock' = clock /\ peer[t] \in Server
          /\ RemoveOldest(t.at, peer[t]) \/ UNCHANGED pendingQueue
      BY <1>17 DEF DropSuspect, At, TypeInv, SendersServe
    <2>2. ClockPastEntries'
      BY <1>2, <1>4, <1>9, <2>1 DEF ClockInv
    <2> QED
      BY <1>1, <1>4, <1>7, <1>8, <1>17, <2>2 DEF DropSuspect, ClockInv
  <1>18. CASE HandleRequest(t)
    <2>1. /\ clock' = [clock EXCEPT ![t.at] = Tick(Receive(@, stamp[t]))]
          /\ Goto(t, "acked") /\ UNCHANGED <<pendingQueue, stamp>>
      BY <1>18 DEF HandleRequest
    <2>2. stamp[t] < clock'[t.at] /\ \A s \in Server : clock[s] <= clock'[s]
      BY <1>0, <1>t, <2>1 DEF Tick, Receive
    <2>3. AckedIsPast'
      <3> SUFFICES ASSUME NEW u \in Thread, u.kind = "Request", pc'[u] = "acked"
                   PROVE  stamp'[u] < clock'[u.at]
        BY DEF AckedIsPast
      <3>1. CASE u = t
        BY <2>1, <2>2, <3>1
      <3>2. CASE u # t
        <4>1. pc[u] = "acked"
          BY <1>0, <2>1, <3>2 DEF Goto
        <4>2. stamp[u] < clock[u.at] /\ clock[u.at] <= clock'[u.at]
          BY <1>u, <2>2, <4>1 DEF ClockInv, AckedIsPast
        <4>3. stamp[u] \in Nat /\ clock[u.at] \in Nat /\ clock'[u.at] \in Nat
          BY <1>0, <1>u
        <4> QED
          BY <2>1, <4>2, <4>3
      <3> QED
        BY <3>1, <3>2
    <2> QED
      BY <1>2, <2>1, <2>2, <2>3 DEF ClockInv
  <1>19. CASE AddRequest(t)
    <2>1. /\ pendingQueue' =
               [pendingQueue EXCEPT ![t.at][t.job.server] = Append(@, stamp[t])]
          /\ EndTask(t) /\ UNCHANGED clock /\ stamp[t] < clock[t.at]
      BY <1>19 DEF AddRequest, At, ClockInv, AckedIsPast
    <2> DEFINE old == pendingQueue[t.at][t.job.server]
               c == clock[t.at]
    <2>2. old \in Seq(Nat) /\ stamp[t] \in Nat /\ c \in Nat
      BY <1>0, <1>t
    <2>3. \A i \in DOMAIN old : old[i] <= c /\ (t.job.server # t.at => old[i] < c)
      BY <1>t DEF ClockInv, ClockPastEntries
    <2>4. /\ Append(old, stamp[t]) \in Seq(Nat)
          /\ \A i \in DOMAIN Append(old, stamp[t]) :
               /\ Append(old, stamp[t])[i] <= c
               /\ t.job.server # t.at => Append(old, stamp[t])[i] < c
      <3>1. stamp[t] < c
        BY <2>1
      <3> HIDE DEF old, c
      <3> QED
        BY <2>2, <2>3, <3>1, AppendProperties, LenProperties
    <2>5. pendingQueue' = [pendingQueue EXCEPT ![t.at][t.job.server] = Append(old, stamp[t])]
      BY <2>1
    <2>6. ClockPastEntries'
      BY <1>3, <1>4, <1>t, <2>1, <2>4, <2>5
    <2> QED
      BY <1>1, <1>4, <1>8, <2>1, <2>6 DEF ClockInv
  <1>20. CASE ApplyUpdate(t)
    <2>1. /\ clock' = [clock EXCEPT ![t.at] = Receive(@, stamp[t])]
          /\ EndTask(t) /\ UNCHANGED pendingQueue
      BY <1>20 DEF ApplyUpdate
    <2>2. stamp[t] \in Nat
      BY <1>0
    <2> QED
      BY <1>1, <1>2, <1>6, <1>8, <2>1, <2>2 DEF ClockInv
  <1>21. CASE HandleRelease(t)
    <2>1. /\ clock' = [clock EXCEPT ![t.at] = Receive(@, stamp[t])]
          /\ Goto(t, "search") /\ UNCHANGED <<pendingQueue, stamp>>
      BY <1>21 DEF HandleRelease
    <2>2. stamp[t] \in Nat
      BY <1>0
    <2> QED
      BY <1>1, <1>2, <1>6, <1>7, <2>1, <2>2 DEF ClockInv
  <1>27. CASE SearchSender(t)
    BY <1>1, <1>2, <1>4, <1>7, <1>8, <1>27 DEF SearchSender, ClockInv, serverVars
  <1>28. CASE RemoveRequest(t)
    <2>1. /\ clock' = clock
          /\ RemoveOldest(t.at, t.job.server) \/ UNCHANGED pendingQueue
      BY <1>28 DEF RemoveRequest
    <2>2. ClockPastEntries'
      BY <1>2, <1>4, <1>9, <1>t, <2>1, JobFacts DEF ClockInv
    <2> QED
      BY <1>1, <1>4, <1>7, <1>28, <2>2 DEF RemoveRequest, ClockInv
  <1>22. CASE CheckSmallest(t)
    BY <1>1, <1>2, <1>4, <1>7, <1>8, <1>22 DEF CheckSmallest, ClockInv, serverVars
  <1>23. CASE ExecuteNext(t)
    BY <1>1, <1>2, <1>4, <1>8, <1>23 DEF ExecuteNext, ClockInv
  <1>24. CASE BeginRelease(t)
    BY <1>1, <1>2, <1>4, <1>8, <1>24 DEF BeginRelease, ClockInv, serverVars
  <1>25. CASE Respond(t)
    BY <1>1, <1>2, <1>4, <1>8, <1>25 DEF Respond, ClockInv, serverVars
  <1> QED
    BY <1>11, <1>12, <1>13, <1>14, <1>15, <1>16, <1>17, <1>18, <1>19, <1>20, <1>21,
       <1>22, <1>23, <1>24, <1>25, <1>27, <1>28 DEF ServerTask

LEMMA ClockInvariant == Spec => []ClockInv
  <1>1. Init => ClockInv
    BY DEF Init, ClockInv, ClockPastEntries, AckedIsPast
  <1>2. TypeInv /\ TypeInv' /\ ClockInv /\ [Next]_vars => ClockInv'
    <2> SUFFICES ASSUME TypeInv, TypeInv', ClockInv, [Next]_vars PROVE ClockInv'
      OBVIOUS
    <2>1. ASSUME UNCHANGED <<clock, pendingQueue, stamp>>,
                 \A t \in Thread : pc'[t] = "acked" => pc[t] = "acked"
          PROVE  ClockInv'
      BY <2>1 DEF ClockInv, ClockPastEntries, AckedIsPast
    <2>2. ASSUME NEW c \in Client, ClientStep(c) PROVE ClockInv'
      <3>1. UNCHANGED <<clock, pendingQueue, stamp>>
        BY <2>2 DEF ClientStep, ClientConnect, ClientRefused, ClientReceive,
                    ClientEndOfStream, ClientFails, Deprecate, serverVars, threadVars
      <3>2. pc' = pc \/ \E m : pc' = [pc EXCEPT ![m] = "sent"]
        BY <2>2 DEF ClientStep, ClientConnect, ClientRefused, ClientReceive,
                    ClientEndOfStream, ClientFails, Deprecate, threadVars
      <3>3. pc \in [Thread -> PCs]
        BY DEF TypeInv, TypeOK
      <3> QED
        BY <2>1, <3>1, <3>2, <3>3
    <2>3. ASSUME NEW s \in Server, Crash(s) PROVE ClockInv'
      BY <2>1, <2>3 DEF Crash, serverVars, threadVars
    <2>4. CASE UNCHANGED vars
      BY <2>1, <2>4 DEF vars, serverVars, threadVars
    <2> QED
      BY <2>2, <2>3, <2>4, ClockServerTask DEF Next
  <1> QED
    BY <1>1, <1>2, TypeInvariant, PTL DEF Spec

\* The clock condition: whatever is lost, delayed or suspected, a request made
\* now carries a later stamp than every request its server has queued.
THEOREM ClockCondition == Spec => []ClockPastEntries
  <1>1. ClockInv => ClockPastEntries
    BY DEF ClockInv
  <1> QED
    BY <1>1, ClockInvariant, PTL

-----------------------------------------------------------------------------
(* What the servers execute and when they respond: a command is executed at   *)
(* most once per replica and connection, no accepted command is lost in the   *)
(* queue, and no response overtakes the Updates.                              *)
(*                                                                            *)
(* The argument is an invariant about who serves a command (ServeInv): one    *)
(* thread polls it, and that thread alone sends its Updates and Releases.     *)

Active(t)     == pc[t] \in {"send", "await", "drop"}
Serving(t)    == phase[t] \in {"Update", "Release"}
Fresh(t)      == pc[t] = "none"
Accepted(t)   == pc[t] \notin {"none", "sent"}

\* Where a thread has not polled a command yet.
IdlePCs == {"none", "sent", "acked", "enter", "text", "search", "remove", "check", "poll"}
USE DEF IdlePCs

\* Threads for a Request or an Update only handle it; the others poll at most
\* once, for a client of their own server.
RoleInv ==
  \A t \in Thread :
    /\ t.kind \in {"Request", "Update"} =>
         phase[t] = "none" /\ pc[t] \in {"none", "sent", "acked", "closed"}
    /\ pc[t] \in IdlePCs => ~Serving(t)
    /\ pc[t] \in {"enter", "text"} => t.kind = "Client"
    /\ phase[t] # "none" => running[t].server = t.at

\* A command is in the queue, or one thread serves it, but not before it is
\* accepted.
PollInv ==
  /\ \A t, u \in Thread : Serving(t) /\ Polled(u, running[t]) => t = u
  /\ \A t \in Thread : Serving(t) => Accepted(ClientThread(running[t]))
  /\ \A s \in Server : clientCommands[s].head # NoJob =>
       /\ clientCommands[s].head.server = s
       /\ Accepted(ClientThread(clientCommands[s].head))
       /\ \A t \in Thread : ~Polled(t, clientCommands[s].head)

\* Updates and Releases are sent by the thread that serves the command, to the
\* peers its loop has visited.
FreshInv ==
  \A j \in Job : \A p \in Server \ {j.server} :
    /\ ~Fresh(PeerThread("Update", j, p)) =>
         \E t \in Thread :
           Polled(t, j) /\ (Active(t) /\ phase[t] = "Update" => p <= peer[t])
    /\ ~Fresh(PeerThread("Release", j, p)) =>
         \E t \in Thread :
           Polled(t, j) /\ phase[t] = "Release" /\ (Active(t) => p <= peer[t])

\* Where the executions in a log come from.
LogInv ==
  \A s \in Server : \A i \in DOMAIN log[s] :
    IF log[s][i].server = s
    THEN \E t \in Thread : Polled(t, log[s][i])
    ELSE Accepted(PeerThread("Update", log[s][i], s))

\* The peers that send(update) has visited.
Visited(t, p) ==
  \/ phase[t] = "Release"
  \/ phase[t] = "Update" /\ Active(t) /\ p <= peer[t]
Informed(t, p) ==
  \/ p \in timedOutServers[t.at]
  \/ ~Fresh(PeerThread("Update", running[t], p))
SentInv ==
  \A t \in Thread : \A p \in Server \ {t.at} : Visited(t, p) => Informed(t, p)

\* A client makes each connection once, to a server of its list.
ConnInv ==
  \A c \in Client :
    /\ \A i \in DOMAIN servers[c] : \E k \in DOMAIN ServerList[c] : servers[c][i] = ServerList[c][k]
    /\ \A i, k \in DOMAIN servers[c] : servers[c][i] = servers[c][k] => i = k
    /\ \A j \in Job : j.client = c /\ ~Fresh(ClientThread(j)) =>
         /\ j.index <= index[c]
         /\ j.index = index[c] =>
              \/ cpc[c] = "waiting" /\ j.server = Head(servers[c])
              \/ \A i \in DOMAIN servers[c] : servers[c][i] # j.server

\* The queue's size field is 0 only when slot 0 is empty.
QueueInv == \A s \in Server : clientCommands[s].size = 0 => clientCommands[s].head = NoJob

ServeInv == RoleInv /\ PollInv /\ FreshInv /\ LogInv /\ SentInv /\ ConnInv /\ QueueInv

-----------------------------------------------------------------------------
(* Threads *)

LEMMA PeerThreadFacts ==
  ASSUME NEW k \in {"Request", "Update", "Release"}, NEW j \in Job,
         NEW p \in Server \ {j.server}
  PROVE  /\ PeerThread(k, j, p) \in Thread
         /\ PeerThread(k, j, p).kind = k
         /\ PeerThread(k, j, p).job = j
         /\ PeerThread(k, j, p).at = p
  BY DEF PeerThread, Thread, Kind

LEMMA ClientThreadFacts ==
  ASSUME NEW j \in Job
  PROVE  /\ ClientThread(j) \in Thread
         /\ ClientThread(j).kind = "Client"
         /\ ClientThread(j).job = j
         /\ ClientThread(j).at = j.server
  BY JobFacts DEF ClientThread, Thread, Kind

\* A thread is what its three fields say.
LEMMA ThreadIdentity ==
  ASSUME NEW t \in Thread
  PROVE  /\ t.kind = "Client" => t = ClientThread(t.job)
         /\ t.kind # "Client" =>
              t = PeerThread(t.kind, t.job, t.at) /\ t.at # t.job.server
  BY DEF Thread, ClientThread, PeerThread

-----------------------------------------------------------------------------
(* What no step undoes *)

Forward ==
  /\ \A u \in Thread : ~Fresh(u) => ~Fresh(u)'
  /\ \A u \in Thread : u.kind # "Request" /\ Accepted(u) => Accepted(u)'
  /\ \A u \in Thread : Serving(u) => Serving(u)' /\ running'[u] = running[u]
  /\ \A u \in Thread : phase[u] = "Release" => phase'[u] = "Release"
  /\ \A u \in Thread : Serving(u) /\ Active(u)' /\ phase'[u] = phase[u] =>
                         Active(u) /\ peer[u] <= peer'[u]
  /\ \A s \in Server : timedOutServers[s] \subseteq timedOutServers'[s]

\* No queue's slot 0 changes.
SameHeads == \A s \in Server : clientCommands'[s].head = clientCommands[s].head

LEMMA PollKept ==
  ASSUME TypeInv, PollInv, Forward, SameHeads,
         \A u \in Thread : Serving(u)' => Serving(u)
  PROVE  PollInv'
  <1>1. \A t \in Thread : Serving(t) => running[t] \in Job
    BY DEF TypeInv, SendersServe, Serving
  <1>2. \A s \in Server : clientCommands[s].head # NoJob => clientCommands[s].head \in Job
    BY DEF TypeInv, TypeOK
  <1> QED
    BY <1>1, <1>2, ClientThreadFacts DEF SameHeads, PollInv, Forward, Polled, Serving, Accepted

\* Thread t has just delivered u's message.
Sent(t, u) == phase'[t] = u.kind /\ running'[t] = u.job /\ u.at <= peer'[t]

LEMMA FreshKept ==
  ASSUME TypeInv, TypeInv', FreshInv, Forward,
         \A u \in Thread : u.kind \in {"Update", "Release"} /\ ~Fresh(u)' =>
                             ~Fresh(u) \/ \E t \in Thread : Sent(t, u)
  PROVE  FreshInv'
  <1> SUFFICES ASSUME NEW j \in Job, NEW p \in Server \ {j.server}
               PROVE  /\ ~Fresh(PeerThread("Update", j, p))' =>
                           \E t \in Thread : /\ Polled(t, j)'
                                             /\ Active(t)' /\ phase'[t] = "Update" => p <= peer'[t]
                      /\ ~Fresh(PeerThread("Release", j, p))' =>
                           \E t \in Thread : /\ Polled(t, j)' /\ phase'[t] = "Release"
                                             /\ Active(t)' => p <= peer'[t]
    BY DEF FreshInv
  <1>p. p \in Nat
    BY DEF Server
  <1>n. \A t \in Thread : peer[t] \in Nat /\ peer'[t] \in Nat
    BY DEF TypeInv, TypeOK
  <1>1. ASSUME ~Fresh(PeerThread("Update", j, p))
        PROVE  \E t \in Thread : /\ Polled(t, j)'
                                 /\ Active(t)' /\ phase'[t] = "Update" => p <= peer'[t]
    <2>2. PICK t \in Thread :
            Polled(t, j) /\ (Active(t) /\ phase[t] = "Update" => p <= peer[t])
      BY <1>1 DEF FreshInv
    <2>3. Polled(t, j)'
      BY <2>2 DEF Forward, Polled, Serving
    <2>4. ASSUME Active(t)', phase'[t] = "Update" PROVE p <= peer'[t]
      <3>1. phase[t] = "Update"
        BY <2>2, <2>4 DEF Forward, Polled
      <3>2. Active(t) /\ peer[t] <= peer'[t]
        BY <2>4, <3>1 DEF Forward, Serving
      <3> QED
        BY <1>p, <1>n, <2>2, <3>1, <3>2
    <2> QED
      BY <2>3, <2>4
  <1>2. ASSUME ~Fresh(PeerThread("Release", j, p))
        PROVE  \E t \in Thread : /\ Polled(t, j)' /\ phase'[t] = "Release"
                                 /\ Active(t)' => p <= peer'[t]
    <2>2. PICK t \in Thread :
            Polled(t, j) /\ phase[t] = "Release" /\ (Active(t) => p <= peer[t])
      BY <1>2 DEF FreshInv
    <2>3. Polled(t, j)' /\ phase'[t] = "Release"
      BY <2>2 DEF Forward, Polled, Serving
    <2>4. ASSUME Active(t)' PROVE p <= peer'[t]
      <3>1. Active(t) /\ peer[t] <= peer'[t]
        BY <2>2, <2>3, <2>4 DEF Forward, Serving
      <3> QED
        BY <1>p, <1>n, <2>2, <3>1
    <2> QED
      BY <2>3, <2>4
  <1>3. ASSUME NEW k \in {"Update", "Release"}, ~Fresh(PeerThread(k, j, p))'
        PROVE  \/ ~Fresh(PeerThread(k, j, p))
               \/ \E t \in Thread : Polled(t, j)' /\ phase'[t] = k /\ p <= peer'[t]
    <2>1. /\ PeerThread(k, j, p) \in Thread /\ PeerThread(k, j, p).kind = k
          /\ PeerThread(k, j, p).job = j /\ PeerThread(k, j, p).at = p
      BY PeerThreadFacts
    <2>2. \/ ~Fresh(PeerThread(k, j, p))
          \/ \E t \in Thread : Sent(t, PeerThread(k, j, p))
      BY <1>3, <2>1
    <2> QED
      BY <2>1, <2>2 DEF Sent, Polled
  <1> QED
    BY <1>1, <1>2, <1>3

LEMMA LogKept ==
  ASSUME TypeInv, LogInv, AtMostOnce, Forward, UNCHANGED log
  PROVE  LogInv' /\ AtMostOnce'
  <1>1. AtMostOnce'
    BY DEF AtMostOnce
  <1>2. ASSUME NEW s \in Server, NEW i \in DOMAIN log[s]
        PROVE  log[s][i] \in Job
    BY <1>2, ElementOfSeq, LenProperties DEF TypeInv, TypeOK
  <1>3. LogInv'
    BY <1>2, PeerThreadFacts DEF LogInv, Forward, Polled, Serving
  <1> QED
    BY <1>1, <1>3

LEMMA SentKept ==
  ASSUME TypeInv, RoleInv, SentInv, Forward,
         \A u \in Thread : \A p \in Server \ {u.at} :
           Visited(u, p)' => Visited(u, p) \/ Informed(u, p)'
  PROVE  SentInv'
  <1> SUFFICES ASSUME NEW u \in Thread, NEW p \in Server \ {u.at}, Visited(u, p)
               PROVE  Informed(u, p)'
    BY DEF SentInv
  <1>1. Informed(u, p)
    BY DEF SentInv
  <1>2. running'[u] = running[u] /\ running[u] \in Job /\ running[u].server = u.at
    BY DEF Visited, Forward, Serving, TypeInv, SendersServe, RoleInv
  <1>3. PeerThread("Update", running[u], p) \in Thread
    BY <1>2, PeerThreadFacts
  <1>4. CASE p \in timedOutServers[u.at]
    BY <1>4, ThreadFacts DEF Forward, Informed
  <1>5. CASE ~Fresh(PeerThread("Update", running[u], p))
    <2>1. ~Fresh(PeerThread("Update", running[u], p))'
      <3>1. \A w \in Thread : ~Fresh(w) => ~Fresh(w)'
        BY DEF Forward
      <3>2. pc'[PeerThread("Update", running[u], p)] # "none"
        BY <1>3, <1>5, <3>1 DEF Fresh
      <3> QED
        BY <1>2, <3>2 DEF Fresh
    <2> QED
      BY <1>2, <2>1 DEF Informed, Fresh
  <1> QED
    BY <1>1, <1>4, <1>5 DEF Informed

LEMMA AnswerKept ==
  ASSUME TypeInv, ReplicatedBeforeAnswer, Forward, UNCHANGED answered
  PROVE  ReplicatedBeforeAnswer'
  <1>1. answered \subseteq Job
    BY DEF TypeInv, TypeOK
  <1> QED
    BY <1>1, JobFacts, PeerThreadFacts DEF ReplicatedBeforeAnswer, Forward, Fresh

LEMMA ConnKept ==
  ASSUME ConnInv, UNCHANGED clientVars,
         \A u \in Thread : u.kind = "Client" /\ ~Fresh(u)' => ~Fresh(u)
  PROVE  ConnInv'
  BY ClientThreadFacts DEF ConnInv, clientVars

LEMMA HeldKept ==
  ASSUME AcceptedIsHeld, Forward, SameHeads,
         \A u \in Thread : u.kind = "Client" /\ pc'[u] \notin {"none", "sent", "dead"} =>
                             pc[u] \notin {"none", "sent", "dead"}
  PROVE  AcceptedIsHeld'
  BY JobFacts, ClientThreadFacts DEF AcceptedIsHeld, SameHeads, Forward, Polled, Serving

-----------------------------------------------------------------------------
(* Steps of one thread that neither polls nor sends *)

IInv == ServeInv /\ AtMostOnce /\ ReplicatedBeforeAnswer /\ AcceptedIsHeld

\* Thread t goes on to l, still on the same message to the same peers.
MovesOn(t, l) ==
  /\ Goto(t, l) /\ l \in PCs \ {"none", "sent"} /\ pc[t] # "none"
  /\ UNCHANGED <<phase, running>>
  /\ \A u \in Thread \ {t} : peer'[u] = peer[u]
  /\ \A s \in Server : timedOutServers[s] \subseteq timedOutServers'[s]
  /\ l \in {"send", "await", "drop"} => Active(t) /\ peer[t] <= peer'[t]

LEMMA MovesForward ==
  ASSUME TypeInv, NEW t \in Thread, NEW l, MovesOn(t, l)
  PROVE  Forward /\ \A u \in Thread : ~Fresh(u)' => ~Fresh(u)
  <1>1. \A u \in Thread : peer[u] \in Nat
    BY DEF TypeInv, TypeOK
  <1>2. pc' = [pc EXCEPT ![t] = l] /\ pc \in [Thread -> PCs]
    BY DEF MovesOn, Goto, TypeInv, TypeOK
  <1>3. \A u \in Thread : Active(u)' => Active(u) /\ peer[u] <= peer'[u]
    BY <1>1, <1>2 DEF MovesOn, Active
  <1> QED
    BY <1>2, <1>3 DEF Forward, MovesOn, Fresh, Accepted, Serving

LEMMA MovesKeep ==
  ASSUME TypeInv, TypeInv', IInv, NEW t \in Thread, NEW l, MovesOn(t, l), UNCHANGED clientVars,
         l \in IdlePCs => ~Serving(t),
         l \in {"enter", "text"} => t.kind = "Client",
         t.kind \in {"Request", "Update"} => l \in {"acked", "closed"},
         \A p \in Server \ {t.at} :
           Visited(t, p)' => Visited(t, p) \/ p \in timedOutServers'[t.at]
  PROVE  /\ RoleInv' /\ FreshInv' /\ SentInv' /\ ConnInv' /\ Forward
         /\ UNCHANGED clientCommands => QueueInv'
         /\ SameHeads => PollInv'
         /\ SameHeads /\ (t.kind = "Client" => pc[t] \notin {"sent", "dead"})
              => AcceptedIsHeld'
         /\ UNCHANGED log => LogInv' /\ AtMostOnce'
         /\ UNCHANGED answered => ReplicatedBeforeAnswer'
  <1>0. Forward /\ \A u \in Thread : ~Fresh(u)' => ~Fresh(u)
    BY MovesForward
  <1>i. /\ RoleInv /\ PollInv /\ FreshInv /\ LogInv /\ SentInv /\ ConnInv /\ QueueInv
        /\ AtMostOnce /\ ReplicatedBeforeAnswer /\ AcceptedIsHeld
    BY DEF IInv, ServeInv
  <1>p. /\ pc' = [pc EXCEPT ![t] = l] /\ pc \in [Thread -> PCs] /\ pc[t] # "none"
        /\ l \notin {"none", "sent"} /\ phase' = phase /\ running' = running
    BY DEF MovesOn, Goto, TypeInv, TypeOK
  <1>1. RoleInv'
    <2> SUFFICES ASSUME NEW u \in Thread
                 PROVE  /\ u.kind \in {"Request", "Update"} =>
                             /\ phase'[u] = "none"
                             /\ pc'[u] \in {"none", "sent", "acked", "closed"}
                        /\ pc'[u] \in IdlePCs
                             => ~Serving(u)'
                        /\ pc'[u] \in {"enter", "text"} => u.kind = "Client"
                        /\ phase'[u] # "none" => running'[u].server = u.at
      BY DEF RoleInv
    <2>1. Serving(u)' <=> Serving(u)
      BY <1>p DEF Serving
    <2>2. CASE u = t
      BY <1>i, <1>p, <2>1, <2>2 DEF RoleInv
    <2>3. CASE u # t
      BY <1>i, <1>p, <2>1, <2>3 DEF RoleInv
    <2> QED
      BY <2>2, <2>3
  <1>2. FreshInv'
    BY <1>0, <1>i, FreshKept
  <1>3. SentInv'
    <2>1. ASSUME NEW u \in Thread, NEW p \in Server \ {u.at}, Visited(u, p)'
          PROVE  Visited(u, p) \/ Informed(u, p)'
      <3>1. CASE u = t
        BY <2>1, <3>1 DEF Informed
      <3>2. CASE u # t
        <4>1. pc'[u] = pc[u] /\ peer'[u] = peer[u] /\ phase'[u] = phase[u]
          BY <1>p, <3>2 DEF MovesOn
        <4> QED
          BY <2>1, <4>1 DEF Visited, Active
      <3> QED
        BY <3>1, <3>2
    <2> QED
      BY <1>0, <1>i, <2>1, SentKept
  <1>4. ConnInv'
    BY <1>0, <1>i, ConnKept
  <1>q. UNCHANGED clientCommands => QueueInv'
    BY <1>i DEF QueueInv
  <1>5. ASSUME SameHeads PROVE PollInv'
    <2>1. \A u \in Thread : Serving(u)' => Serving(u)
      BY <1>p DEF Serving
    <2> QED
      BY <1>0, <1>5, <1>i, <2>1, PollKept
  <1>6. ASSUME SameHeads, t.kind = "Client" => pc[t] \notin {"sent", "dead"}
        PROVE  AcceptedIsHeld'
    <2>1. \A u \in Thread : u.kind = "Client" /\ pc'[u] \notin {"none", "sent", "dead"} =>
                             pc[u] \notin {"none", "sent", "dead"}
      BY <1>6, <1>p
    <2> QED
      BY <1>0, <1>6, <1>i, <2>1, HeldKept
  <1>7. ASSUME UNCHANGED log PROVE LogInv' /\ AtMostOnce'
    BY <1>0, <1>7, <1>i, LogKept
  <1>8. ASSUME UNCHANGED answered PROVE ReplicatedBeforeAnswer'
    BY <1>0, <1>8, <1>i, AnswerKept
  <1> QED
    BY <1>0, <1>1, <1>2, <1>3, <1>4, <1>q, <1>5, <1>6, <1>7, <1>8

\* The steps that only move on, and leave queue, log and responses alone.
LEMMA QuietSteps ==
  ASSUME TypeInv, TypeInv', IInv, NEW t \in Thread,
         \/ EnterOwnRequest(t) \/ ConnectRefused(t) \/ ReplyFails(t)
         \/ DropSuspect(t) \/ HandleRequest(t) \/ AddRequest(t)
         \/ HandleRelease(t) \/ SearchSender(t) \/ RemoveRequest(t) \/ CheckSmallest(t)
  PROVE  IInv'
  <1>r. /\ t.kind \in {"Request", "Update"} =>
             phase[t] = "none" /\ pc[t] \in {"none", "sent", "acked", "closed"}
        /\ pc[t] \in IdlePCs => ~Serving(t)
        /\ pc[t] \in {"enter", "text"} => t.kind = "Client"
    BY DEF IInv, ServeInv, RoleInv
  <1>t. t.kind \in Kind /\ t.at \in Server
    BY ThreadFacts
  <1>n. peer[t] \in Nat /\ Server \subseteq Nat
    BY DEF TypeInv, TypeOK, Server
  <1>0. ASSUME NEW l, MovesOn(t, l), UNCHANGED <<clientVars, clientCommands, log, answered>>,
               l \in IdlePCs => ~Serving(t),
               l \in {"enter", "text"} => t.kind = "Client",
               t.kind \in {"Request", "Update"} => l \in {"acked", "closed"},
               \A p \in Server \ {t.at} :
                 Visited(t, p)' => Visited(t, p) \/ p \in timedOutServers'[t.at],
               t.kind = "Client" => pc[t] \notin {"sent", "dead"}
        PROVE  IInv'
    BY <1>0, MovesKeep DEF SameHeads, IInv, ServeInv
  \* The loop of send() does not go on, so nothing more counts as visited.
  <1>v. ASSUME NEW l, MovesOn(t, l), peer'[t] = peer[t] \/ l \in {"closed", "dead"}
        PROVE  \A p \in Server \ {t.at} : Visited(t, p)' => Visited(t, p)
    <2>1. pc'[t] = l /\ phase'[t] = phase[t]
      BY <1>v DEF MovesOn, Goto, TypeInv, TypeOK
    <2> QED
      BY <1>v, <2>1 DEF Visited, Active, MovesOn
  <1>e. ASSUME NEW l \in {"closed", "dead"}, Finish(t, l), pc[t] # "none",
               UNCHANGED <<phase, running, timedOutServers>>
        PROVE  MovesOn(t, l)
    BY <1>e DEF Finish, MovesOn, PCs, TypeInv, TypeOK
  <1>g. ASSUME NEW l \in PCs \ {"none", "sent"}, Goto(t, l), pc[t] # "none",
               UNCHANGED <<phase, running, timedOutServers, peer>>,
               l \in {"send", "await", "drop"} => Active(t)
        PROVE  MovesOn(t, l)
    BY <1>g, <1>n DEF MovesOn
  <1>1. CASE EnterOwnRequest(t)
    <2>1. MovesOn(t, "text")
      BY <1>1, <1>g DEF EnterOwnRequest, At, PCs
    <2> QED
      BY <1>0, <1>1, <1>r, <1>v, <2>1 DEF EnterOwnRequest, At
  <1>2. ASSUME NEW p \in Server, Suspect(t, p), pc[t] \in {"send", "await"}, p >= peer[t],
               \A q \in Server : q > peer[t] /\ q <= p =>
                                   q = p \/ q = t.at \/ q \in timedOutServers[t.at]
        PROVE  IInv'
    <2>1. MovesOn(t, "drop")
      BY <1>2, <1>t, <1>n DEF Suspect, MovesOn, Active, PCs, TypeInv, TypeOK
    <2>2. /\ timedOutServers'[t.at] = timedOutServers[t.at] \cup {p}
          /\ peer'[t] = p
      BY <1>2, <1>t DEF Suspect, TypeInv, TypeOK
    <2>3. \A q \in Server \ {t.at} :
            Visited(t, q)' => Visited(t, q) \/ q \in timedOutServers'[t.at]
      <3>1. phase' = phase
        BY <1>2 DEF Suspect
      <3>2. ASSUME NEW q \in Server \ {t.at}, Visited(t, q)'
            PROVE  Visited(t, q) \/ q \in timedOutServers'[t.at]
        <4>1. CASE phase[t] = "Release"
          BY <4>1 DEF Visited
        <4>2. CASE phase[t] = "Update" /\ q <= p
          <5>1. q \in Nat /\ p \in Nat
            BY <1>n
          <5>2. CASE q <= peer[t]
            BY <1>2, <4>2, <5>2 DEF Visited, Active
          <5>3. CASE q > peer[t]
            BY <1>2, <2>2, <4>2, <5>3
          <5> QED
            BY <1>n, <5>1, <5>2, <5>3
        <4> QED
          BY <2>2, <3>1, <3>2, <4>1, <4>2 DEF Visited
      <3> QED
        BY <3>2
    <2> QED
      BY <1>0, <1>2, <1>r, <2>1, <2>3 DEF Suspect, clientVars
  <1>3. CASE ConnectRefused(t)
    <2>1. PICK p \in crashed : IsNextPeer(t, p) /\ Suspect(t, p)
      BY <1>3 DEF ConnectRefused
    <2>2. p \in Server /\ p >= peer[t] /\ \A q \in Server : q > peer[t] /\ q <= p =>
                                   q = p \/ q = t.at \/ q \in timedOutServers[t.at]
      <3>1. p \in Server /\ p > peer[t] /\ p \in Nat
        BY <1>n, <2>1 DEF IsNextPeer, Unvisited
      <3>2. ASSUME NEW q \in Server, q > peer[t], q <= p, q # t.at,
                   q \notin timedOutServers[t.at]
            PROVE  q = p
        <4>1. p <= q /\ q \in Nat
          BY <1>n, <2>1, <3>2 DEF IsNextPeer, Unvisited
        <4> QED
          BY <3>1, <3>2, <4>1
      <3> QED
        BY <1>n, <3>1, <3>2
    <2> QED
      BY <1>2, <1>3, <2>1, <2>2 DEF ConnectRefused, Sending, At
  <1>4. CASE ReplyFails(t)
    <2>1. peer[t] \in Server /\ Suspect(t, peer[t]) /\ pc[t] = "await"
      BY <1>4 DEF ReplyFails, At, TypeInv, SendersServe
    <2>2. peer[t] >= peer[t] /\ \A q \in Server : ~(q > peer[t] /\ q <= peer[t])
      BY <1>n
    <2>3. pc[t] \in {"send", "await"}
      BY <2>1
    <2> QED
      BY <1>2, <2>1, <2>2, <2>3
  <1>5. CASE DropSuspect(t)
    <2>1. /\ pc[t] = "drop" /\ UNCHANGED <<phase, running, timedOutServers>>
          /\ UNCHANGED <<clientVars, clientCommands, log, answered>>
      BY <1>5 DEF DropSuspect, At
    <2>2. CASE (Goto(t, "send") \/ Goto(t, "drop")) /\ UNCHANGED peer
      BY <1>0, <1>g, <1>r, <1>v, <2>1, <2>2 DEF PCs, Active
    <2>3. CASE Throw(t)
      BY <1>0, <1>e, <1>r, <1>v, <2>1, <2>3 DEF Throw
    <2> QED
      BY <1>5, <2>2, <2>3 DEF DropSuspect
  <1>6. CASE HandleRequest(t)
    <2>1. MovesOn(t, "acked")
      BY <1>6, <1>g DEF HandleRequest, At, PCs
    <2> QED
      BY <1>0, <1>6, <1>r, <1>v, <2>1 DEF HandleRequest, At
  <1>7. CASE AddRequest(t)
    <2>1. MovesOn(t, "closed")
      BY <1>7, <1>e DEF AddRequest, At, EndTask
    <2> QED
      BY <1>0, <1>7, <1>r, <1>v, <2>1 DEF AddRequest, At
  <1>8. CASE HandleRelease(t)
    <2>1. MovesOn(t, "search")
      BY <1>8, <1>g DEF HandleRelease, At, PCs
    <2> QED
      BY <1>0, <1>8, <1>r, <1>v, <2>1 DEF HandleRelease, At
  <1>11. CASE SearchSender(t)
    <2>1. /\ pc[t] = "search" /\ UNCHANGED <<phase, running, timedOutServers>>
          /\ UNCHANGED <<clientVars, clientCommands, log, answered>>
      BY <1>11 DEF SearchSender, At, serverVars
    <2>2. CASE Goto(t, "remove") /\ UNCHANGED peer
      BY <1>0, <1>g, <1>r, <1>v, <2>1, <2>2 DEF PCs
    <2>3. CASE Throw(t)
      BY <1>0, <1>e, <1>r, <1>v, <2>1, <2>3 DEF Throw
    <2> QED
      BY <1>11, <2>2, <2>3 DEF SearchSender
  <1>12. CASE RemoveRequest(t)
    <2>1. MovesOn(t, "check")
      BY <1>12, <1>g DEF RemoveRequest, At, PCs
    <2> QED
      BY <1>0, <1>12, <1>r, <1>v, <2>1 DEF RemoveRequest, At
  <1>9. CASE CheckSmallest(t)
    <2>1. /\ pc[t] \in {"check", "send", "await"} /\ ~Serving(t)
          /\ UNCHANGED <<phase, running, timedOutServers>>
          /\ UNCHANGED <<clientVars, clientCommands, log, answered>>
      BY <1>9, <1>r DEF CheckSmallest, At, SendReturns, Sending, Serving, serverVars
    <2>2. CASE Goto(t, "poll") /\ UNCHANGED peer
      BY <1>0, <1>g, <1>r, <1>v, <2>1, <2>2 DEF PCs
    <2>3. CASE EndTask(t)
      BY <1>0, <1>e, <1>r, <1>v, <2>1, <2>3 DEF EndTask
    <2>4. CASE Throw(t)
      BY <1>0, <1>e, <1>r, <1>v, <2>1, <2>4 DEF Throw
    <2> QED
      BY <1>9, <2>2, <2>3, <2>4 DEF CheckSmallest
  <1> QED
    BY <1>1, <1>3, <1>4, <1>5, <1>6, <1>7, <1>8, <1>9, <1>11, <1>12

-----------------------------------------------------------------------------
(* The steps on the queue, the log and the responses *)

LEMMA AcceptStep ==
  ASSUME TypeInv, TypeInv', IInv, NEW t \in Thread, AcceptCommand(t)
  PROVE  IInv'
  <1> DEFINE s == t.at
             q == clientCommands[s]
             l == IF OfferThrows(q) THEN "dead" ELSE "enter"
  <1>1. /\ t.kind = "Client" /\ pc[t] = "sent" /\ Goto(t, l)
        /\ clientCommands' = [clientCommands EXCEPT ![s] = Offer(q, t.job)]
        /\ UNCHANGED <<phase, running, peer, timedOutServers, log, answered, clientVars>>
    BY DEF AcceptCommand, At
  <1>2. s \in Server /\ t.job \in Job /\ t.job.server = s /\ t = ClientThread(t.job)
    BY <1>1, ThreadFacts, ThreadIdentity, ClientThreadFacts
  <1>3. /\ RoleInv /\ PollInv /\ QueueInv /\ AcceptedIsHeld
    BY DEF IInv, ServeInv
  <1>4. ~Serving(t)
    BY <1>1, <1>3 DEF RoleInv
  <1>5. MovesOn(t, l)
    <2>1. l \in PCs \ {"none", "sent", "send", "await", "drop"}
      BY DEF PCs
    <2> HIDE DEF l
    <2> QED
      BY <1>1, <2>1 DEF MovesOn
  <1>6. \A p \in Server \ {t.at} : Visited(t, p)' => Visited(t, p)
    BY <1>1, <1>4 DEF Visited, Serving
  <1>7. /\ RoleInv' /\ FreshInv' /\ SentInv' /\ ConnInv' /\ Forward
        /\ LogInv' /\ AtMostOnce' /\ ReplicatedBeforeAnswer'
    <2>1. /\ l \in {"dead", "enter"} /\ l \notin {"acked", "closed"}
      OBVIOUS
    <2> HIDE DEF l
    <2> QED
      BY <1>1, <1>4, <1>5, <1>6, <2>1, MovesKeep
  <1>8. q.size \in Nat /\ (q.size = 0 => q.head = NoJob)
    BY <1>2, <1>3 DEF QueueInv, TypeInv, TypeOK
  <1>9. /\ clientCommands'[s] = Offer(q, t.job)
        /\ \A r \in Server \ {s} : clientCommands'[r] = clientCommands[r]
    BY <1>1, <1>2 DEF TypeInv, TypeOK
  <1>10. QueueInv'
    <2>1. Offer(q, t.job).size # 0
      BY <1>8 DEF Offer
    <2> QED
      BY <1>3, <1>9, <2>1 DEF QueueInv
  <1>11. \A u \in Thread : (Serving(u)' <=> Serving(u)) /\ running'[u] = running[u]
    BY <1>1 DEF Serving
  <1>12. PollInv'
    <2>1. \A u \in Thread : Serving(u) => running[u] \in Job /\ running[u] # t.job
      BY <1>1, <1>2, <1>3 DEF PollInv, Accepted, TypeInv, SendersServe, Serving
    <2>2. Accepted(t)'
      BY <1>1 DEF Accepted, Goto, TypeInv, TypeOK
    <2>3. ASSUME NEW r \in Server, NEW j \in Job, clientCommands'[r].head = j
          PROVE  /\ j.server = r /\ Accepted(ClientThread(j))'
                 /\ \A u \in Thread : ~(Serving(u) /\ running[u] = j)
      <3>1. CASE r = s /\ q.size = 0
        <4>1. j = t.job
          BY <1>9, <2>3, <3>1 DEF Offer
        <4> QED
          BY <1>2, <2>1, <2>2, <3>1, <4>1
      <3>2. CASE ~(r = s /\ q.size = 0)
        <4>1. clientCommands[r].head = j /\ j # NoJob
          BY <1>9, <2>3, <3>2, NoJobAssumption DEF Offer
        <4>2. j.server = r /\ Accepted(ClientThread(j)) /\ \A u \in Thread : ~Polled(u, j)
          BY <1>3, <4>1 DEF PollInv
        <4>3. Accepted(ClientThread(j))'
          BY <1>7, <4>2, ClientThreadFacts DEF Forward
        <4> QED
          BY <4>2, <4>3 DEF Polled, Serving
      <3> QED
        BY <3>1, <3>2
    <2>4. \A u \in Thread : Serving(u) => Accepted(ClientThread(running[u]))'
      BY <1>3, <1>7, <2>1, ClientThreadFacts DEF PollInv, Forward
    <2>5. \A u, v \in Thread : Serving(u) /\ Serving(v) /\ running[u] = running[v] => u = v
      BY <1>3 DEF PollInv, Polled, Serving
    <2>6. \A r \in Server : clientCommands'[r].head # NoJob => clientCommands'[r].head \in Job
      BY DEF TypeInv, TypeOK
    <2>7. phase' = phase /\ running' = running
      BY <1>1
    <2> QED
      BY <2>3, <2>4, <2>5, <2>6, <2>7 DEF PollInv, Polled, Serving, Accepted
  <1>13. AcceptedIsHeld'
    <2> SUFFICES ASSUME NEW j \in Job, pc'[ClientThread(j)] \notin {"none", "sent", "dead"},
                        \A u \in Thread : ~Polled(u, j)'
                 PROVE  clientCommands'[j.server].head = j
      BY DEF AcceptedIsHeld
    <2>1. CASE ClientThread(j) = t
      <3>1. j = t.job
        BY <2>1, ClientThreadFacts
      <3>2. q.size = 0
        BY <1>1, <2>1 DEF Goto, OfferThrows, TypeInv, TypeOK
      <3> QED
        BY <1>2, <1>9, <3>1, <3>2 DEF Offer
    <2>2. CASE ClientThread(j) # t
      <3>1. pc'[ClientThread(j)] = pc[ClientThread(j)]
        BY <1>1, <2>2, ClientThreadFacts DEF Goto, TypeInv, TypeOK
      <3>2. clientCommands[j.server].head = j
        BY <1>3, <1>11, <3>1 DEF AcceptedIsHeld, Polled, Serving
      <3>3. j.server = s => q.size # 0
        BY <1>8, <3>2, NoJobAssumption
      <3> QED
        BY <1>9, <3>2, <3>3, JobFacts DEF Offer
    <2> QED
      BY <2>1, <2>2
  <1> QED
    BY <1>7, <1>10, <1>12, <1>13 DEF IInv, ServeInv

\* LogInv for one entry, after the step.
LogEntry(r, j) ==
  IF j.server = r
  THEN \E u \in Thread : running'[u] = j /\ phase'[u] \in {"Update", "Release"}
  ELSE pc'[PeerThread("Update", j, r)] \notin {"none", "sent"}

LEMMA LogEntryStays ==
  ASSUME TypeInv, LogInv, Forward, NEW r \in Server, NEW i \in DOMAIN log[r]
  PROVE  LogEntry(r, log[r][i])
  <1> DEFINE j == log[r][i]
  <1>1. j \in Job
    BY ElementOfSeq, LenProperties DEF TypeInv, TypeOK
  <1>2. IF j.server = r THEN \E u \in Thread : Polled(u, j)
                        ELSE Accepted(PeerThread("Update", j, r))
    BY DEF LogInv
  <1> HIDE DEF j
  <1>3. CASE j.server = r
    <2>1. PICK u \in Thread : Polled(u, j)
      BY <1>2, <1>3
    <2>2. running'[u] = j /\ phase'[u] \in {"Update", "Release"}
      BY <2>1 DEF Forward, Polled, Serving
    <2>3. LogEntry(r, j)
      BY <1>3, <2>2 DEF LogEntry
    <2> QED
      BY <2>3 DEF j
  <1>4. CASE j.server # r
    <2>1. PeerThread("Update", j, r) \in Thread /\ PeerThread("Update", j, r).kind = "Update"
      BY <1>1, <1>4, PeerThreadFacts
    <2>2. pc'[PeerThread("Update", j, r)] \notin {"none", "sent"}
      BY <1>2, <1>4, <2>1 DEF Forward, Accepted
    <2>3. LogEntry(r, j)
      BY <1>4, <2>2 DEF LogEntry
    <2> QED
      BY <2>3 DEF j
  <1> QED
    BY <1>3, <1>4

\* The log of s is extended by a job that it does not hold.
AppendsNew(s, j) ==
  /\ log' = [log EXCEPT ![s] = Append(@, j)]
  /\ \A i \in DOMAIN log[s] : log[s][i] # j

\* An entry of a log is an old one, or the new entry of s.
OnlyNew(s, j) ==
  \A r \in Server : \A i \in DOMAIN log'[r] :
    \/ i \in DOMAIN log[r] /\ log'[r][i] = log[r][i]
    \/ r = s /\ log'[r][i] = j

LEMMA AppendOnce ==
  ASSUME TypeInv, AtMostOnce, NEW s \in Server, NEW j \in Job, AppendsNew(s, j)
  PROVE  AtMostOnce' /\ OnlyNew(s, j)
  <1>1. log \in [Server -> Seq(Job)] /\ log[s] \in Seq(Job)
    BY DEF TypeInv, TypeOK
  <1>2. log'[s] = Append(log[s], j) /\ \A r \in Server \ {s} : log'[r] = log[r]
    BY <1>1 DEF AppendsNew
  <1>3. /\ DOMAIN Append(log[s], j) = 1 .. Len(log[s]) + 1
        /\ DOMAIN log[s] = 1 .. Len(log[s]) /\ Len(log[s]) \in Nat
        /\ \A i \in 1 .. Len(log[s]) : Append(log[s], j)[i] = log[s][i]
        /\ Append(log[s], j)[Len(log[s]) + 1] = j
    BY <1>1, AppendProperties, LenProperties
  <1>4. \A i \in DOMAIN log'[s] :
          \/ i \in DOMAIN log[s] /\ log'[s][i] = log[s][i]
          \/ i = Len(log[s]) + 1 /\ log'[s][i] = j
    BY <1>2, <1>3
  <1>5. AtMostOnce'
    BY <1>2, <1>4 DEF AtMostOnce, AppendsNew
  <1> QED
    BY <1>2, <1>4, <1>5 DEF OnlyNew

LEMMA ApplyStep ==
  ASSUME TypeInv, TypeInv', IInv, NEW t \in Thread, ApplyUpdate(t)
  PROVE  IInv'
  <1>1. /\ t.kind = "Update" /\ pc[t] = "sent" /\ EndTask(t)
        /\ log' = [log EXCEPT ![t.at] = Append(@, t.job)]
        /\ UNCHANGED <<phase, running, timedOutServers, clientCommands, answered, clientVars>>
    BY DEF ApplyUpdate, At
  <1>2. t.at \in Server /\ t.job \in Job /\ t = PeerThread("Update", t.job, t.at)
        /\ t.at # t.job.server
    BY <1>1, ThreadFacts, ThreadIdentity
  <1>3. RoleInv /\ LogInv /\ AtMostOnce
    BY DEF IInv, ServeInv
  <1>4. MovesOn(t, "closed")
    BY <1>1 DEF EndTask, Finish, MovesOn, PCs, TypeInv, TypeOK
  <1>5. phase[t] = "none"
    BY <1>1, <1>3 DEF RoleInv
  <1>6. \A p \in Server \ {t.at} : Visited(t, p)' => Visited(t, p)
    BY <1>1, <1>5 DEF Visited
  <1>7. /\ RoleInv' /\ PollInv' /\ QueueInv' /\ FreshInv' /\ SentInv' /\ ConnInv'
        /\ AcceptedIsHeld' /\ ReplicatedBeforeAnswer' /\ Forward
    BY <1>1, <1>4, <1>6, MovesKeep DEF SameHeads
  <1>8. \A i \in DOMAIN log[t.at] : log[t.at][i] # t.job
    BY <1>1, <1>2, <1>3 DEF LogInv, Accepted
  <1>9. AtMostOnce' /\ OnlyNew(t.at, t.job)
    <2>1. AppendsNew(t.at, t.job)
      BY <1>1, <1>8 DEF AppendsNew
    <2> QED
      BY <1>2, <1>3, <2>1, AppendOnce
  <1>10. LogInv'
    <2> SUFFICES ASSUME NEW r \in Server, NEW i \in DOMAIN log'[r]
                 PROVE  LogEntry(r, log'[r][i])
      BY DEF LogInv, LogEntry, Polled, Accepted
    <2>1. CASE r = t.at /\ log'[r][i] = t.job
      <3>1. pc'[t] = "closed"
        BY <1>1 DEF EndTask, Finish, Goto, TypeInv, TypeOK
      <3> QED
        BY <1>2, <2>1, <3>1 DEF LogEntry
    <2>2. CASE i \in DOMAIN log[r] /\ log'[r][i] = log[r][i]
      BY <1>3, <1>7, <2>2, LogEntryStays
    <2> QED
      BY <1>9, <2>1, <2>2 DEF OnlyNew
  <1> QED
    BY <1>7, <1>9, <1>10 DEF IInv, ServeInv

LEMMA RespondStep ==
  ASSUME TypeInv, TypeInv', IInv, NEW t \in Thread, Respond(t)
  PROVE  IInv'
  <1>1. /\ phase[t] = "Release" /\ pc[t] \in {"send", "await"} /\ EndTask(t)
        /\ answered' \subseteq answered \cup {running[t]}
        /\ UNCHANGED <<phase, running, timedOutServers, clientCommands, log, clientVars>>
    BY DEF Respond, SendReturns, Sending, At, serverVars
  <1>2. RoleInv /\ SentInv /\ ReplicatedBeforeAnswer
    BY DEF IInv, ServeInv
  <1>3. MovesOn(t, "closed")
    BY <1>1 DEF EndTask, Finish, MovesOn, PCs, TypeInv, TypeOK
  <1>4. \A p \in Server \ {t.at} : Visited(t, p)' => Visited(t, p)
    BY <1>1 DEF Visited
  <1>5. t.kind \notin {"Request", "Update"}
    BY <1>1, <1>2 DEF RoleInv
  <1>6. /\ RoleInv' /\ PollInv' /\ QueueInv' /\ FreshInv' /\ SentInv' /\ ConnInv'
        /\ AcceptedIsHeld' /\ LogInv' /\ AtMostOnce' /\ Forward
    BY <1>1, <1>3, <1>4, <1>5, MovesKeep DEF SameHeads
  <1>7. running[t] \in Job /\ running[t].server = t.at
    BY <1>1, <1>2 DEF RoleInv, TypeInv, SendersServe
  <1>8. ReplicatedBeforeAnswer'
    <2> SUFFICES ASSUME NEW j \in answered', NEW p \in Server \ {j.server}
                 PROVE  \/ p \in timedOutServers'[j.server]
                        \/ pc'[PeerThread("Update", j, p)] # "none"
      BY DEF ReplicatedBeforeAnswer
    <2>1. j \in Job
      BY DEF TypeInv, TypeOK
    <2>2. \/ p \in timedOutServers[j.server]
          \/ ~Fresh(PeerThread("Update", j, p))
      <3>1. CASE j \in answered
        BY <1>2, <3>1 DEF ReplicatedBeforeAnswer, Fresh
      <3>2. CASE j = running[t]
        BY <1>1, <1>2, <1>7, <3>2 DEF SentInv, Visited, Informed
      <3> QED
        BY <1>1, <3>1, <3>2
    <2> QED
      BY <1>6, <2>1, <2>2, JobFacts, PeerThreadFacts DEF Forward, Fresh
  <1> QED
    BY <1>6, <1>8 DEF IInv, ServeInv

\* Thread t starts to send the next of its messages.
LEMMA StartsSending ==
  ASSUME TypeInv, NEW t \in Thread, StartSend(t), pc[t] \notin {"none", "sent"},
         \A u \in Thread \ {t} : phase'[u] = phase[u] /\ running'[u] = running[u],
         phase'[t] # phase[t] \/ ~Serving(t),
         Serving(t) => phase'[t] = "Release" /\ running'[t] = running[t],
         phase[t] = "Release" => phase'[t] = "Release",
         UNCHANGED timedOutServers
  PROVE  /\ Forward /\ (\A u \in Thread : ~Fresh(u)' => ~Fresh(u))
         /\ pc'[t] = "send" /\ peer'[t] = 0
         /\ \A u \in Thread \ {t} : pc'[u] = pc[u] /\ peer'[u] = peer[u]
  <1>1. /\ pc'[t] = "send" /\ peer'[t] = 0
        /\ \A u \in Thread \ {t} : pc'[u] = pc[u] /\ peer'[u] = peer[u]
    BY DEF StartSend, Goto, TypeInv, TypeOK
  <1>2. \A u \in Thread : peer[u] \in Nat
    BY DEF TypeInv, TypeOK
  <1>3. ASSUME NEW u \in Thread
        PROVE  /\ ~Fresh(u) => ~Fresh(u)'
               /\ ~Fresh(u)' => ~Fresh(u)
               /\ Accepted(u) => Accepted(u)'
               /\ Serving(u) => Serving(u)' /\ running'[u] = running[u]
               /\ phase[u] = "Release" => phase'[u] = "Release"
               /\ Serving(u) /\ Active(u)' /\ phase'[u] = phase[u] =>
                    Active(u) /\ peer[u] <= peer'[u]
    <2>1. CASE u = t
      BY <1>1, <2>1 DEF Fresh, Accepted, Serving
    <2>2. CASE u # t
      BY <1>1, <1>2, <2>2 DEF Fresh, Accepted, Serving, Active
    <2> QED
      BY <2>1, <2>2
  <1> QED
    BY <1>1, <1>3 DEF Forward

LEMMA WriteStep ==
  ASSUME TypeInv, TypeInv', IInv, NEW t \in Thread, WriteRequest(t)
  PROVE  IInv'
  <1>1. /\ pc[t] = "text" /\ StartSend(t) /\ phase' = [phase EXCEPT ![t] = "Request"]
        /\ running' = [running EXCEPT ![t] = t.job]
        /\ UNCHANGED <<timedOutServers, clientCommands, log, answered, clientVars>>
    BY DEF WriteRequest, At, serverVars
  <1>i. /\ RoleInv /\ PollInv /\ FreshInv /\ LogInv /\ SentInv /\ ConnInv /\ QueueInv
        /\ AtMostOnce /\ ReplicatedBeforeAnswer /\ AcceptedIsHeld
    BY DEF IInv, ServeInv
  <1>2. t.kind = "Client" /\ ~Serving(t) /\ t.job.server = t.at
    BY <1>1, <1>i, ThreadIdentity, ClientThreadFacts, ThreadFacts DEF RoleInv
  <1>3. /\ phase'[t] = "Request" /\ running'[t] = t.job
        /\ \A u \in Thread \ {t} : phase'[u] = phase[u] /\ running'[u] = running[u]
    BY <1>1 DEF TypeInv, TypeOK
  <1>4. /\ Forward /\ (\A u \in Thread : ~Fresh(u)' => ~Fresh(u))
        /\ pc'[t] = "send" /\ peer'[t] = 0
        /\ \A u \in Thread \ {t} : pc'[u] = pc[u] /\ peer'[u] = peer[u]
    BY <1>1, <1>2, <1>3, StartsSending DEF Serving
  <1>5. RoleInv'
    <2> SUFFICES ASSUME NEW u \in Thread
                 PROVE  /\ u.kind \in {"Request", "Update"} =>
                             /\ phase'[u] = "none"
                             /\ pc'[u] \in {"none", "sent", "acked", "closed"}
                        /\ pc'[u] \in IdlePCs
                             => ~(phase'[u] \in {"Update", "Release"})
                        /\ pc'[u] \in {"enter", "text"} => u.kind = "Client"
                        /\ phase'[u] # "none" => running'[u].server = u.at
      BY DEF RoleInv, Serving
    <2>1. CASE u = t
      BY <1>2, <1>3, <1>4, <2>1
    <2>2. CASE u # t
      BY <1>i, <1>3, <1>4, <2>2 DEF RoleInv, Serving
    <2> QED
      BY <2>1, <2>2
  <1>6. PollInv'
    <2>1. \A u \in Thread : Serving(u)' => Serving(u)
      BY <1>3 DEF Serving
    <2> QED
      BY <1>1, <1>i, <1>4, <2>1, PollKept DEF SameHeads
  <1>7. FreshInv'
    BY <1>i, <1>4, FreshKept
  <1>8. SentInv'
    <2>1. \A u \in Thread : \A p \in Server \ {u.at} : Visited(u, p)' => Visited(u, p)
      BY <1>3, <1>4 DEF Visited, Active
    <2> QED
      BY <1>i, <1>4, <2>1, SentKept
  <1>9. ConnInv' /\ ReplicatedBeforeAnswer' /\ LogInv' /\ AtMostOnce' /\ QueueInv'
    BY <1>1, <1>i, <1>4, ConnKept, AnswerKept, LogKept DEF QueueInv
  <1>10. AcceptedIsHeld'
    <2>1. \A u \in Thread : u.kind = "Client" /\ pc'[u] \notin {"none", "sent", "dead"} =>
                              pc[u] \notin {"none", "sent", "dead"}
      BY <1>1, <1>4
    <2> QED
      BY <1>1, <1>i, <1>4, <2>1, HeldKept DEF SameHeads
  <1> QED
    BY <1>5, <1>6, <1>7, <1>8, <1>9, <1>10 DEF IInv, ServeInv

LEMMA ReleaseStep ==
  ASSUME TypeInv, TypeInv', IInv, NEW t \in Thread, BeginRelease(t)
  PROVE  IInv'
  <1>1. /\ pc[t] \in {"send", "await"} /\ phase[t] = "Update" /\ Unvisited(t) = {}
        /\ StartSend(t) /\ phase' = [phase EXCEPT ![t] = "Release"]
        /\ UNCHANGED <<timedOutServers, clientCommands, log, answered, clientVars, running>>
    BY DEF BeginRelease, SendReturns, Sending, At, serverVars
  <1>i. /\ RoleInv /\ PollInv /\ FreshInv /\ LogInv /\ SentInv /\ ConnInv /\ QueueInv
        /\ AtMostOnce /\ ReplicatedBeforeAnswer /\ AcceptedIsHeld
    BY DEF IInv, ServeInv
  <1>2. t.kind \notin {"Request", "Update"}
    BY <1>1, <1>i DEF RoleInv
  <1>3. /\ phase'[t] = "Release" /\ \A u \in Thread \ {t} : phase'[u] = phase[u]
    BY <1>1 DEF TypeInv, TypeOK
  <1>4. /\ Forward /\ (\A u \in Thread : ~Fresh(u)' => ~Fresh(u))
        /\ pc'[t] = "send" /\ peer'[t] = 0
        /\ \A u \in Thread \ {t} : pc'[u] = pc[u] /\ peer'[u] = peer[u]
    BY <1>1, <1>3, StartsSending DEF Serving
  <1>5. RoleInv'
    <2> SUFFICES ASSUME NEW u \in Thread
                 PROVE  /\ u.kind \in {"Request", "Update"} =>
                             /\ phase'[u] = "none"
                             /\ pc'[u] \in {"none", "sent", "acked", "closed"}
                        /\ pc'[u] \in IdlePCs
                             => ~(phase'[u] \in {"Update", "Release"})
                        /\ pc'[u] \in {"enter", "text"} => u.kind = "Client"
                        /\ phase'[u] # "none" => running'[u].server = u.at
      BY DEF RoleInv, Serving
    <2>1. CASE u = t
      BY <1>1, <1>2, <1>3, <1>4, <1>i, <2>1 DEF RoleInv
    <2>2. CASE u # t
      BY <1>1, <1>i, <1>3, <1>4, <2>2 DEF RoleInv, Serving
    <2> QED
      BY <2>1, <2>2
  <1>6. PollInv'
    <2>1. \A u \in Thread : Serving(u)' => Serving(u)
      BY <1>1, <1>3 DEF Serving
    <2> QED
      BY <1>1, <1>i, <1>4, <2>1, PollKept DEF SameHeads
  <1>7. FreshInv'
    BY <1>i, <1>4, FreshKept
  <1>8. SentInv'
    <2>1. \A u \in Thread \ {t} : \A p \in Server : Visited(u, p)' => Visited(u, p)
      BY <1>3, <1>4 DEF Visited, Active
    <2>2. ASSUME NEW p \in Server \ {t.at}
          PROVE  Visited(t, p) \/ p \in timedOutServers[t.at]
      <3>1. p \in Nat /\ peer[t] \in Nat
        BY DEF Server, TypeInv, TypeOK
      <3>2. p > peer[t] => p \in timedOutServers[t.at]
        BY <1>1 DEF Unvisited
      <3> QED
        BY <1>1, <3>1, <3>2 DEF Visited, Active
    <2>3. \A p \in Server \ {t.at} : Visited(t, p) \/ Informed(t, p)'
      BY <1>1, <2>2 DEF Informed
    <2> QED
      BY <1>i, <1>4, <2>1, <2>3, SentKept
  <1>9. ConnInv' /\ ReplicatedBeforeAnswer' /\ LogInv' /\ AtMostOnce' /\ QueueInv'
    BY <1>1, <1>i, <1>4, ConnKept, AnswerKept, LogKept DEF QueueInv
  <1>10. AcceptedIsHeld'
    <2>1. \A u \in Thread : u.kind = "Client" /\ pc'[u] \notin {"none", "sent", "dead"} =>
                              pc[u] \notin {"none", "sent", "dead"}
      BY <1>1, <1>4
    <2> QED
      BY <1>1, <1>i, <1>4, <2>1, HeldKept DEF SameHeads
  <1> QED
    BY <1>5, <1>6, <1>7, <1>8, <1>9, <1>10 DEF IInv, ServeInv

\* An empty or broken queue: nothing is polled, and slot 0 stays as it is.
LEMMA PollThrowsStep ==
  ASSUME TypeInv, TypeInv', IInv, NEW t \in Thread, pc[t] = "poll", Throw(t),
         LET q == clientCommands[t.at]
         IN  /\ ~(q.size # 0 /\ ~PollThrows(q) /\ q.head # NoJob)
             /\ clientCommands' = [clientCommands EXCEPT ![t.at] = AfterPoll(q)],
         UNCHANGED <<phase, running, timedOutServers, log, answered, clientVars>>
  PROVE  IInv'
  <1> DEFINE q == clientCommands[t.at]
  <1>1. /\ t.at \in Server /\ q.size \in Nat
        /\ clientCommands' = [clientCommands EXCEPT ![t.at] = AfterPoll(q)]
        /\ ~(q.size # 0 /\ ~PollThrows(q) /\ q.head # NoJob)
    BY ThreadFacts DEF TypeInv, TypeOK
  <1>2. RoleInv /\ QueueInv
    BY DEF IInv, ServeInv
  <1>3. ~Serving(t) /\ t.kind \notin {"Request", "Update"}
    BY <1>2 DEF RoleInv
  <1>4. MovesOn(t, "dead")
    BY DEF Throw, Finish, MovesOn, PCs, TypeInv, TypeOK
  <1>5. \A p \in Server \ {t.at} : Visited(t, p)' => Visited(t, p)
    BY <1>3 DEF Visited, Serving
  <1>6. /\ clientCommands'[t.at] = AfterPoll(q)
        /\ \A s \in Server \ {t.at} : clientCommands'[s] = clientCommands[s]
    BY <1>1 DEF TypeInv, TypeOK
  <1>7. SameHeads
    <2>1. q.size = 0 => q.head = NoJob
      BY <1>1, <1>2 DEF QueueInv
    <2>2. AfterPoll(q).head = q.head
      BY <1>1, <2>1 DEF AfterPoll
    <2> QED
      BY <1>6, <2>2 DEF SameHeads
  <1>8. QueueInv'
    <2>1. AfterPoll(q).size = 0 => AfterPoll(q).head = NoJob
      BY <1>1 DEF AfterPoll, PollThrows
    <2> QED
      BY <1>2, <1>6, <2>1 DEF QueueInv
  <1> QED
    BY <1>3, <1>4, <1>5, <1>7, <1>8, MovesKeep DEF IInv, ServeInv

\* Thread t takes j out of the queue; a malformed command ends t, a valid one is
\* executed and its Update sent.
TakesJob(t, j) ==
  /\ pc[t] = "poll" /\ clientCommands[t.at].head = j /\ j # NoJob
  /\ \E n \in Nat :
       clientCommands' = [clientCommands EXCEPT ![t.at] = [head |-> NoJob, size |-> n]]
  /\ running' = [running EXCEPT ![t] = j]
  /\ phase' = [phase EXCEPT ![t] = "Update"]
  /\ \/ Throw(t) /\ UNCHANGED log
     \/ StartSend(t) /\ log' = [log EXCEPT ![t.at] = Append(@, j)]
  /\ UNCHANGED <<timedOutServers, answered, clientVars>>

LEMMA TakeStep ==
  ASSUME TypeInv, TypeInv', IInv, NEW t \in Thread, NEW j, TakesJob(t, j)
  PROVE  IInv'
  <1>1. /\ pc[t] = "poll" /\ clientCommands[t.at].head = j /\ j # NoJob
        /\ UNCHANGED <<timedOutServers, answered, clientVars>>
    BY DEF TakesJob
  <1>i. /\ RoleInv /\ PollInv /\ FreshInv /\ LogInv /\ SentInv /\ ConnInv /\ QueueInv
        /\ AtMostOnce /\ ReplicatedBeforeAnswer /\ AcceptedIsHeld
    BY DEF IInv, ServeInv
  <1>2. t.at \in Server /\ ~Serving(t) /\ t.kind \notin {"Request", "Update"}
    BY <1>1, <1>i, ThreadFacts DEF RoleInv
  <1>3. /\ j \in Job /\ j.server = t.at /\ Accepted(ClientThread(j))
        /\ \A u \in Thread : ~Polled(u, j)
    BY <1>1, <1>2, <1>i DEF PollInv, TypeInv, TypeOK
  <1>4. /\ phase'[t] = "Update" /\ running'[t] = j
        /\ \A u \in Thread \ {t} : phase'[u] = phase[u] /\ running'[u] = running[u]
    BY DEF TakesJob, TypeInv, TypeOK
  <1>5. /\ pc'[t] \in {"dead", "send"} /\ peer'[t] = 0
        /\ \A u \in Thread \ {t} : pc'[u] = pc[u] /\ peer'[u] = peer[u]
    BY DEF TakesJob, Throw, Finish, StartSend, Goto, TypeInv, TypeOK
  <1>6. \A u \in Thread : peer[u] \in Nat
    BY DEF TypeInv, TypeOK
  <1>7. Forward /\ \A u \in Thread : ~Fresh(u)' => ~Fresh(u)
    <2>1. ASSUME NEW u \in Thread
          PROVE  /\ ~Fresh(u) => ~Fresh(u)'
                 /\ ~Fresh(u)' => ~Fresh(u)
                 /\ Accepted(u) => Accepted(u)'
                 /\ Serving(u) => Serving(u)' /\ running'[u] = running[u]
                 /\ phase[u] = "Release" => phase'[u] = "Release"
                 /\ Serving(u) /\ Active(u)' /\ phase'[u] = phase[u] =>
                      Active(u) /\ peer[u] <= peer'[u]
      <3>1. CASE u = t
        BY <1>1, <1>2, <1>5, <3>1 DEF Fresh, Accepted, Serving
      <3>2. CASE u # t
        BY <1>4, <1>5, <1>6, <3>2 DEF Fresh, Accepted, Serving, Active
      <3> QED
        BY <3>1, <3>2
    <2> QED
      BY <1>1, <2>1 DEF Forward
  <1>8. RoleInv'
    <2> SUFFICES ASSUME NEW u \in Thread
                 PROVE  /\ u.kind \in {"Request", "Update"} =>
                             /\ phase'[u] = "none"
                             /\ pc'[u] \in {"none", "sent", "acked", "closed"}
                        /\ pc'[u] \in IdlePCs
                             => ~(phase'[u] \in {"Update", "Release"})
                        /\ pc'[u] \in {"enter", "text"} => u.kind = "Client"
                        /\ phase'[u] # "none" => running'[u].server = u.at
      BY DEF RoleInv, Serving
    <2>1. CASE u = t
      BY <1>2, <1>3, <1>4, <1>5, <2>1
    <2>2. CASE u # t
      BY <1>i, <1>4, <1>5, <2>2 DEF RoleInv, Serving
    <2> QED
      BY <2>1, <2>2
  <1>9. /\ clientCommands'[t.at].head = NoJob
        /\ \A s \in Server \ {t.at} : clientCommands'[s] = clientCommands[s]
    BY <1>2 DEF TakesJob, TypeInv, TypeOK
  <1>10. PollInv'
    <2>1. \A u \in Thread : Serving(u) => running[u] \in Job /\ running[u] # j
      BY <1>3 DEF Polled, Serving, TypeInv, SendersServe
    <2>2. ASSUME NEW u \in Thread, NEW v \in Thread, phase'[u] \in {"Update", "Release"},
                 phase'[v] \in {"Update", "Release"}, running'[u] = running'[v]
          PROVE  u = v
      BY <1>4, <1>i, <2>1, <2>2 DEF PollInv, Polled, Serving
    <2>3. ASSUME NEW u \in Thread, phase'[u] \in {"Update", "Release"}
          PROVE  running'[u] \in Job /\ pc'[ClientThread(running'[u])] \notin {"none", "sent"}
      <3>1. running'[u] \in Job /\ Accepted(ClientThread(running'[u]))
        BY <1>3, <1>4, <1>i, <2>1, <2>3 DEF PollInv, Serving
      <3>2. ClientThread(running'[u]) \in Thread /\ ClientThread(running'[u]).kind = "Client"
        BY <3>1, ClientThreadFacts
      <3>3. \A w \in Thread : w.kind = "Client" /\ Accepted(w) => pc'[w] \notin {"none", "sent"}
        BY <1>7 DEF Forward, Accepted
      <3> QED
        BY <3>1, <3>2, <3>3
    <2>4. ASSUME NEW s \in Server, clientCommands'[s].head # NoJob
          PROVE  /\ clientCommands'[s].head.server = s
                 /\ pc'[ClientThread(clientCommands'[s].head)] \notin {"none", "sent"}
                 /\ \A u \in Thread : ~(running'[u] = clientCommands'[s].head
                                        /\ phase'[u] \in {"Update", "Release"})
      <3> DEFINE h == clientCommands[s].head
      <3>1. s # t.at /\ clientCommands'[s].head = h /\ h # NoJob /\ h \in Job
        BY <1>9, <2>4 DEF TypeInv, TypeOK
      <3>2. h.server = s /\ Accepted(ClientThread(h)) /\ \A u \in Thread : ~Polled(u, h)
        BY <1>i, <3>1 DEF PollInv
      <3>3. ClientThread(h) \in Thread /\ ClientThread(h).kind = "Client"
        BY <3>1, ClientThreadFacts
      <3>4. pc'[ClientThread(h)] \notin {"none", "sent"}
        BY <1>7, <3>2, <3>3 DEF Forward, Accepted
      <3>5. h # j
        BY <1>3, <3>1, <3>2
      <3>6. \A u \in Thread : ~(running'[u] = h /\ phase'[u] \in {"Update", "Release"})
        BY <1>4, <3>2, <3>5 DEF Polled
      <3> QED
        BY <3>1, <3>2, <3>4, <3>6
    <2> QED
      BY <2>2, <2>3, <2>4 DEF PollInv, Polled, Serving, Accepted
  <1>11. FreshInv'
    BY <1>i, <1>7, FreshKept
  <1>12. SentInv'
    <2>1. \A u \in Thread : \A p \in Server : Visited(u, p)' => Visited(u, p)
      <3>1. \A p \in Server : ~(p <= 0)
        BY DEF Server
      <3> QED
        BY <1>4, <1>5, <3>1 DEF Visited, Active
    <2> QED
      BY <1>i, <1>7, <2>1, SentKept
  <1>13. ConnInv' /\ ReplicatedBeforeAnswer' /\ QueueInv'
    BY <1>1, <1>i, <1>7, <1>9, ConnKept, AnswerKept DEF QueueInv
  <1>14. LogInv' /\ AtMostOnce'
    <2>1. CASE UNCHANGED log
      BY <1>i, <1>7, <2>1, LogKept
    <2>2. CASE log' = [log EXCEPT ![t.at] = Append(@, j)]
      <3>1. AppendsNew(t.at, j)
        BY <1>2, <1>3, <1>i, <2>2 DEF AppendsNew, LogInv
      <3>2. AtMostOnce' /\ OnlyNew(t.at, j)
        BY <1>2, <1>3, <1>i, <3>1, AppendOnce
      <3>3. LogInv'
        <4> SUFFICES ASSUME NEW r \in Server, NEW i \in DOMAIN log'[r]
                     PROVE  LogEntry(r, log'[r][i])
          BY DEF LogInv, LogEntry, Polled, Accepted
        <4>1. CASE r = t.at /\ log'[r][i] = j
          BY <1>3, <1>4, <4>1 DEF LogEntry
        <4>2. CASE i \in DOMAIN log[r] /\ log'[r][i] = log[r][i]
          BY <1>i, <1>7, <4>2, LogEntryStays
        <4> QED
          BY <3>2, <4>1, <4>2 DEF OnlyNew
      <3> QED
        BY <3>2, <3>3
    <2> QED
      BY <2>1, <2>2 DEF TakesJob
  <1>15. AcceptedIsHeld'
    <2> SUFFICES ASSUME NEW k \in Job, pc'[ClientThread(k)] \notin {"none", "sent", "dead"},
                        \A u \in Thread : ~(running'[u] = k /\ phase'[u] \in {"Update", "Release"})
                 PROVE  clientCommands'[k.server].head = k
      BY DEF AcceptedIsHeld, Polled
    <2>1. k # j
      BY <1>4
    <2>2. pc[ClientThread(k)] \notin {"none", "sent", "dead"}
      BY <1>1, <1>5, ClientThreadFacts
    <2>3. \A u \in Thread : ~Polled(u, k)
      BY <1>2, <1>4 DEF Polled, Serving
    <2>4. clientCommands[k.server].head = k
      BY <1>i, <2>2, <2>3 DEF AcceptedIsHeld
    <2> QED
      BY <1>1, <1>9, <2>1, <2>4, JobFacts
  <1> QED
    BY <1>8, <1>10, <1>11, <1>12, <1>13, <1>14, <1>15 DEF IInv, ServeInv

LEMMA ExecuteStep ==
  ASSUME TypeInv, TypeInv', IInv, NEW t \in Thread, ExecuteNext(t)
  PROVE  IInv'
  <1> DEFINE q == clientCommands[t.at]
             j == q.head
             polled == q.size # 0 /\ ~PollThrows(q) /\ j # NoJob
  <1>1. /\ pc[t] = "poll" /\ clientCommands' = [clientCommands EXCEPT ![t.at] = AfterPoll(q)]
        /\ UNCHANGED <<timedOutServers, answered, clientVars>>
    BY DEF ExecuteNext, At
  <1>2. CASE ~polled
    BY <1>1, <1>2, PollThrowsStep DEF ExecuteNext
  <1>3. CASE polled
    <2>1. q.size \in Nat
      BY ThreadFacts DEF TypeInv, TypeOK
    <2>2. \E n \in Nat : AfterPoll(q) = [head |-> NoJob, size |-> n]
      <3>1. q.size # 0 /\ ~PollThrows(q)
        BY <1>3
      <3>2. AfterPoll(q) = [head |-> NoJob, size |-> q.size - 1] /\ q.size - 1 \in Nat
        BY <2>1, <3>1 DEF AfterPoll
      <3> QED
        BY <3>2
    <2>3. TakesJob(t, j)
      BY <1>1, <1>3, <2>2 DEF ExecuteNext, TakesJob
    <2> QED
      BY <2>3, TakeStep
  <1> QED
    BY <1>2, <1>3

\* A message is delivered to a thread that has not been started before, unless
\* it is a Request.
LEMMA SendStep ==
  ASSUME TypeInv, TypeInv', IInv, NEW t \in Thread, SendMessage(t)
  PROVE  IInv'
  <1> DEFINE m(p) == PeerThread(phase[t], running[t], p)
  <1>1. PICK p \in Server :
          /\ IsNextPeer(t, p) /\ peer' = [peer EXCEPT ![t] = p]
          /\ pc' = [pc EXCEPT ![t] = "await", ![m(p)] = "sent"]
    BY DEF SendMessage
  <1>2. /\ pc[t] \in {"send", "await"}
        /\ UNCHANGED <<phase, running, timedOutServers, clientCommands, log, answered, clientVars>>
    BY DEF SendMessage, Sending, At
  <1>i. /\ RoleInv /\ PollInv /\ FreshInv /\ LogInv /\ SentInv /\ ConnInv /\ QueueInv
        /\ AtMostOnce /\ ReplicatedBeforeAnswer /\ AcceptedIsHeld
    BY DEF IInv, ServeInv
  <1>n. p \in Nat /\ Server \subseteq Nat /\ \A u \in Thread : peer[u] \in Nat
    BY DEF TypeInv, TypeOK, Server
  <1>3. /\ p > peer[t] /\ p # t.at
        /\ \A q \in Server : q > peer[t] /\ q # t.at /\ q \notin timedOutServers[t.at] => p <= q
    BY <1>1 DEF IsNextPeer, Unvisited
  <1>4. /\ pc'[t] = "await" /\ peer'[t] = p
        /\ \A u \in Thread \ {t} : /\ pc'[u] = IF u = m(p) THEN "sent" ELSE pc[u]
                                   /\ peer'[u] = peer[u]
    <2>1. t # m(p)
      BY <1>3 DEF PeerThread
    <2> HIDE DEF m
    <2> QED
      BY <1>1, <2>1 DEF TypeInv, TypeOK
  \* The receiving thread.
  <1>5. ASSUME NEW u \in Thread, u = m(p)
        PROVE  /\ u.kind = phase[t] /\ u.job = running[t] /\ u.at = p
               /\ u.kind \in {"Request", "Update", "Release"} /\ u # t
               /\ u.kind # "Request" => Fresh(u)
               /\ ~Serving(u)
    <2>1. u.kind = phase[t] /\ u.job = running[t] /\ u.at = p
      BY <1>5 DEF PeerThread
    <2>2. u.kind \in {"Request", "Update", "Release"} /\ u.job \in Job /\ u # t
      BY <1>3, <2>1, ThreadFacts DEF Kind, TypeInv, TypeOK, Phases
    <2>3. p # running[t].server /\ running[t] \in Job
      BY <1>3, <1>i, <2>1, <2>2 DEF RoleInv
    <2>4. ASSUME Serving(t), NEW v \in Thread, Polled(v, running[t]) PROVE v = t
      BY <1>i, <2>4 DEF PollInv
    <2>5. Serving(t) => Fresh(u)
      BY <1>2, <1>3, <1>5, <1>i, <1>n, <2>3, <2>4 DEF FreshInv, Serving, Active
    <2>6. ~Serving(u)
      BY <1>i, <2>1, <2>2, <2>5 DEF RoleInv, Serving, Fresh
    <2> QED
      BY <2>1, <2>2, <2>5, <2>6 DEF Serving
  <1>6. Forward
    <2>1. ASSUME NEW u \in Thread
          PROVE  /\ ~Fresh(u) => ~Fresh(u)'
                 /\ u.kind # "Request" /\ Accepted(u) => Accepted(u)'
                 /\ Serving(u) /\ Active(u)' => Active(u) /\ peer[u] <= peer'[u]
      <3>1. CASE u = t
        BY <1>2, <1>3, <1>4, <1>n, <3>1 DEF Fresh, Accepted, Active
      <3>2. CASE u = m(p)
        BY <1>4, <1>5, <3>2 DEF Fresh, Accepted, Active
      <3>3. CASE u # t /\ u # m(p)
        BY <1>4, <1>n, <3>3 DEF Fresh, Accepted, Active
      <3> QED
        BY <3>1, <3>2, <3>3
    <2> QED
      BY <1>2, <2>1 DEF Forward, Serving
  <1>7. RoleInv'
    <2> SUFFICES ASSUME NEW u \in Thread
                 PROVE  /\ u.kind \in {"Request", "Update"} =>
                             phase[u] = "none" /\ pc'[u] \in {"none", "sent", "acked", "closed"}
                        /\ pc'[u] \in IdlePCs
                             => ~Serving(u)
                        /\ pc'[u] \in {"enter", "text"} => u.kind = "Client"
                        /\ phase[u] # "none" => running[u].server = u.at
      BY <1>2 DEF RoleInv, Serving
    <2>1. CASE u = t
      BY <1>2, <1>4, <1>i, <2>1 DEF RoleInv
    <2>2. CASE u = m(p)
      BY <1>4, <1>5, <1>i, <2>2 DEF RoleInv
    <2>3. CASE u # t /\ u # m(p)
      BY <1>4, <1>i, <2>3 DEF RoleInv
    <2> QED
      BY <2>1, <2>2, <2>3
  <1>8. PollInv'
    <2>1. \A u \in Thread : Serving(u)' => Serving(u)
      BY <1>2 DEF Serving
    <2> QED
      BY <1>2, <1>i, <1>6, <2>1, PollKept DEF SameHeads
  <1>9. FreshInv'
    <2>1. ASSUME NEW u \in Thread, ~Fresh(u)', Fresh(u) PROVE Sent(t, u)
      <3>1. u = m(p)
        BY <1>2, <1>4, <2>1 DEF Fresh
      <3>2. u.kind = phase[t] /\ u.job = running[t] /\ u.at = p
        BY <1>5, <3>1
      <3> QED
        BY <1>2, <1>4, <1>n, <3>2 DEF Sent
    <2> QED
      BY <1>i, <1>6, <2>1, FreshKept
  <1>10. SentInv'
    <2>1. ASSUME NEW u \in Thread, NEW q \in Server \ {u.at}, Visited(u, q)', ~Visited(u, q)
          PROVE  Informed(u, q)'
      <3>1. u = t /\ phase[t] = "Update" /\ q <= p /\ ~(q <= peer[t])
        <4>1. CASE u = t
          BY <1>2, <1>4, <2>1, <4>1 DEF Visited, Active
        <4>2. CASE u # t
          BY <1>2, <1>4, <2>1, <4>2 DEF Visited, Active
        <4> QED
          BY <4>1, <4>2
      <3>2. CASE q \in timedOutServers[t.at]
        BY <1>2, <3>1, <3>2 DEF Informed
      <3>3. CASE q \notin timedOutServers[t.at]
        <4>1. q \in Nat /\ q > peer[t]
          BY <1>n, <3>1
        <4>2. q = p
          BY <1>3, <1>n, <2>1, <3>1, <3>3, <4>1
        <4>3. running[t] \in Job /\ running[t].server = t.at
          BY <1>i, <3>1 DEF RoleInv, TypeInv, SendersServe
        <4>4. m(p) \in Thread /\ m(p) # t
          BY <1>3, <3>1, <4>3, PeerThreadFacts
        <4>5. pc'[m(p)] = "sent"
          BY <1>4, <4>4
        <4> QED
          BY <1>2, <3>1, <4>2, <4>5 DEF Informed, Fresh
      <3> QED
        BY <3>2, <3>3
    <2> QED
      BY <1>i, <1>6, <2>1, SentKept
  <1>11. ConnInv'
    <2>1. \A u \in Thread : u.kind = "Client" /\ ~Fresh(u)' => ~Fresh(u)
      BY <1>2, <1>4, <1>5 DEF Fresh
    <2> QED
      BY <1>2, <1>i, <2>1, ConnKept
  <1>12. AcceptedIsHeld'
    <2>1. \A u \in Thread : u.kind = "Client" /\ pc'[u] \notin {"none", "sent", "dead"} =>
                              pc[u] \notin {"none", "sent", "dead"}
      BY <1>2, <1>4
    <2> QED
      BY <1>2, <1>i, <1>6, <2>1, HeldKept DEF SameHeads
  <1>13. ReplicatedBeforeAnswer' /\ LogInv' /\ AtMostOnce' /\ QueueInv'
    BY <1>2, <1>i, <1>6, AnswerKept, LogKept DEF QueueInv
  <1> QED
    BY <1>7, <1>8, <1>9, <1>10, <1>11, <1>12, <1>13 DEF IInv, ServeInv

-----------------------------------------------------------------------------
(* The steps of clients and the environment *)

\* What the client steps leave alone.
ServersIdle == UNCHANGED <<phase, running, peer, timedOutServers, clientCommands, log, answered>>

LEMMA IdleKeeps ==
  ASSUME TypeInv, TypeInv', IInv, ServersIdle, UNCHANGED pc, ConnInv'
  PROVE  IInv'
  <1>i. /\ RoleInv /\ PollInv /\ FreshInv /\ LogInv /\ SentInv /\ QueueInv
        /\ AtMostOnce /\ ReplicatedBeforeAnswer /\ AcceptedIsHeld
    BY DEF IInv, ServeInv
  <1>1. Forward
    <2>1. \A u \in Thread : peer[u] \in Nat
      BY DEF TypeInv, TypeOK
    <2> QED
      BY <2>1 DEF Forward, ServersIdle, Fresh, Accepted, Serving, Active
  <1>2. RoleInv' /\ QueueInv'
    BY <1>i DEF RoleInv, QueueInv, ServersIdle, Serving
  <1>3. PollInv'
    BY <1>i, <1>1, PollKept DEF ServersIdle, SameHeads, Serving
  <1>4. FreshInv'
    BY <1>i, <1>1, FreshKept DEF Fresh
  <1>5. SentInv'
    BY <1>i, <1>1, SentKept DEF ServersIdle, Visited, Active
  <1>6. LogInv' /\ AtMostOnce' /\ ReplicatedBeforeAnswer'
    BY <1>i, <1>1, LogKept, AnswerKept DEF ServersIdle
  <1>7. AcceptedIsHeld'
    BY <1>i, <1>1, HeldKept DEF ServersIdle, SameHeads
  <1> QED
    BY <1>2, <1>3, <1>4, <1>5, <1>6, <1>7 DEF IInv, ServeInv

LEMMA ConnectStep ==
  ASSUME TypeInv, TypeInv', IInv, NEW c \in Client, ClientConnect(c)
  PROVE  IInv'
  <1> DEFINE j == CurrentJob(c)
             m == ClientThread(j)
  <1>1. /\ cpc[c] = "ready" /\ index[c] \in DOMAIN Script[c] /\ servers[c] # <<>>
        /\ pc' = [pc EXCEPT ![m] = "sent"] /\ cpc' = [cpc EXCEPT ![c] = "waiting"]
        /\ UNCHANGED <<index, servers>> /\ ServersIdle
    BY DEF ClientConnect, HasCommand, ServersIdle, serverVars
  <1>i. /\ RoleInv /\ PollInv /\ FreshInv /\ LogInv /\ SentInv /\ ConnInv /\ QueueInv
        /\ AtMostOnce /\ ReplicatedBeforeAnswer /\ AcceptedIsHeld
    BY DEF IInv, ServeInv
  <1>2. 1 \in DOMAIN servers[c] /\ Head(servers[c]) = servers[c][1]
    <2>1. servers[c] \in Seq(Server) /\ servers[c] # <<>>
      BY <1>1 DEF TypeInv, TypeOK
    <2> QED
      BY <2>1, EmptySeq, LenProperties
  <1>3. j.client = c /\ j.index = index[c] /\ j.server = servers[c][1]
    BY <1>2 DEF CurrentJob
  <1>4. j \in Job
    <2>1. PICK k \in DOMAIN ServerList[c] : servers[c][1] = ServerList[c][k]
      BY <1>2, <1>i DEF ConnInv
    <2>2. j \in [client : {c}, index : DOMAIN Script[c],
                 server : {ServerList[c][i] : i \in DOMAIN ServerList[c]}]
      BY <1>1, <1>2, <2>1 DEF CurrentJob
    <2> QED
      BY <2>2 DEF Job
  <1> HIDE DEF j
  <1>5. m \in Thread /\ m.kind = "Client" /\ \A k \in Job : ClientThread(k) = m => k = j
    BY <1>4, ClientThreadFacts
  <1>6. Fresh(m)
    BY <1>1, <1>2, <1>3, <1>4, <1>i DEF ConnInv
  <1> HIDE DEF m
  <1>7. pc'[m] = "sent" /\ \A u \in Thread \ {m} : pc'[u] = pc[u]
    BY <1>1, <1>5 DEF TypeInv, TypeOK
  <1>8. ~Serving(m)
    BY <1>5, <1>6, <1>i DEF RoleInv, Fresh
  <1>9. Forward
    <2>1. \A u \in Thread : peer[u] \in Nat
      BY DEF TypeInv, TypeOK
    <2>2. ASSUME NEW u \in Thread
          PROVE  /\ ~Fresh(u) => ~Fresh(u)'
                 /\ Accepted(u) => Accepted(u)'
                 /\ Active(u)' => Active(u)
      <3>1. CASE u = m
        BY <1>6, <1>7, <3>1 DEF Fresh, Accepted, Active
      <3>2. CASE u # m
        BY <1>7, <3>2 DEF Fresh, Accepted, Active
      <3> QED
        BY <3>1, <3>2
    <2> QED
      BY <1>1, <2>1, <2>2 DEF Forward, ServersIdle, Serving
  <1>10. RoleInv'
    <2> SUFFICES ASSUME NEW u \in Thread
                 PROVE  /\ u.kind \in {"Request", "Update"} =>
                             phase[u] = "none" /\ pc'[u] \in {"none", "sent", "acked", "closed"}
                        /\ pc'[u] \in IdlePCs
                             => ~Serving(u)
                        /\ pc'[u] \in {"enter", "text"} => u.kind = "Client"
                        /\ phase[u] # "none" => running[u].server = u.at
      BY <1>1 DEF RoleInv, Serving, ServersIdle
    <2>1. CASE u = m
      BY <1>5, <1>7, <1>8, <1>i, <2>1 DEF RoleInv
    <2>2. CASE u # m
      BY <1>7, <1>i, <2>2 DEF RoleInv
    <2> QED
      BY <2>1, <2>2
  <1>11. PollInv'
    BY <1>1, <1>i, <1>9, PollKept DEF ServersIdle, SameHeads, Serving
  <1>12. FreshInv'
    <2>1. \A u \in Thread : u.kind \in {"Update", "Release"} /\ ~Fresh(u)' => ~Fresh(u)
      BY <1>5, <1>7 DEF Fresh
    <2> QED
      BY <1>i, <1>9, <2>1, FreshKept
  <1>13. SentInv'
    <2>1. \A u \in Thread : Active(u)' => Active(u)
      BY <1>7 DEF Active
    <2>2. \A u \in Thread : \A p \in Server : Visited(u, p)' => Visited(u, p)
      BY <1>1, <2>1 DEF Visited, ServersIdle
    <2> QED
      BY <1>i, <1>9, <2>2, SentKept
  <1>14. LogInv' /\ AtMostOnce' /\ ReplicatedBeforeAnswer' /\ QueueInv'
    BY <1>1, <1>i, <1>9, LogKept, AnswerKept DEF ServersIdle, QueueInv
  <1>15. AcceptedIsHeld'
    <2>1. \A u \in Thread : pc'[u] \notin {"none", "sent", "dead"} =>
                              pc[u] \notin {"none", "sent", "dead"}
      BY <1>7
    <2> QED
      BY <1>1, <1>i, <1>9, <2>1, HeldKept DEF ServersIdle, SameHeads
  <1>16. ConnInv'
    <2>1. cpc'[c] = "waiting" /\ \A d \in Client \ {c} : cpc'[d] = cpc[d]
      BY <1>1 DEF TypeInv, TypeOK
    <2>2. ASSUME NEW d \in Client, NEW k \in Job, k.client = d, pc'[ClientThread(k)] # "none"
          PROVE  /\ k.index <= index[d]
                 /\ k.index = index[d] =>
                      \/ cpc'[d] = "waiting" /\ k.server = Head(servers[d])
                      \/ \A i \in DOMAIN servers[d] : servers[d][i] # k.server
      <3>1. CASE k = j
        <4>1. index[c] \in Nat
          BY DEF TypeInv, TypeOK
        <4> QED
          BY <1>2, <1>3, <2>1, <2>2, <3>1, <4>1
      <3>2. CASE k # j
        <4>1. ~Fresh(ClientThread(k))
          BY <1>5, <1>7, <2>2, <3>2, ClientThreadFacts DEF Fresh
        <4> QED
          BY <1>1, <1>i, <2>1, <2>2, <4>1 DEF ConnInv
      <3> QED
        BY <3>1, <3>2
    <2> QED
      BY <1>1, <1>i, <2>2 DEF ConnInv, Fresh
  <1> QED
    BY <1>10, <1>11, <1>12, <1>13, <1>14, <1>15, <1>16 DEF IInv, ServeInv

LEMMA DeprecateStep ==
  ASSUME TypeInv, TypeInv', IInv, NEW c \in Client, servers[c] # <<>>, Deprecate(c)
  PROVE  IInv'
  <1>1. /\ servers' = [servers EXCEPT ![c] = Tail(@)] /\ UNCHANGED <<index, pc>>
        /\ ServersIdle
    BY DEF Deprecate, serverVars, threadVars, ServersIdle
  <1>2. \A d \in Client \ {c} : servers'[d] = servers[d] /\ cpc'[d] = cpc[d]
    BY <1>1 DEF Deprecate, TypeInv, TypeOK
  <1>3. servers'[c] = Tail(servers[c]) /\ servers[c] \in Seq(Server)
    BY <1>1 DEF TypeInv, TypeOK
  <1>4. /\ 1 \in DOMAIN servers[c] /\ Head(servers[c]) = servers[c][1]
        /\ \A i \in DOMAIN servers'[c] :
             /\ i \in Nat /\ i + 1 \in DOMAIN servers[c] /\ i + 1 # 1
             /\ servers'[c][i] = servers[c][i + 1]
    <2> DEFINE q == servers[c]
    <2>1. q \in Seq(Server) /\ q # <<>>
      BY <1>3
    <2>2. servers'[c] = Tail(q)
      BY <1>3
    <2> HIDE DEF q
    <2>3. /\ DOMAIN q = 1 .. Len(q) /\ Len(q) \in Nat /\ Len(q) # 0 /\ Head(q) = q[1]
      BY <2>1, EmptySeq, LenProperties
    <2>4. /\ Tail(q) \in Seq(Server) /\ Len(Tail(q)) = Len(q) - 1
          /\ \A i \in 1 .. Len(Tail(q)) : Tail(q)[i] = q[i + 1]
      BY <2>1, HeadTailProperties
    <2>5. DOMAIN Tail(q) = 1 .. Len(q) - 1
      BY <2>4, LenProperties
    <2>6. \A i \in DOMAIN Tail(q) : i \in Nat /\ i + 1 \in DOMAIN q /\ i + 1 # 1 /\ Tail(q)[i] = q[i + 1]
      BY <2>3, <2>4, <2>5
    <2>7. 1 \in DOMAIN q /\ Head(q) = q[1]
      BY <2>3
    <2> QED
      BY <2>2, <2>6, <2>7 DEF q
  <1>5. ConnInv
    BY DEF IInv, ServeInv
  <1>6. ConnInv'
    <2>1. \A i \in DOMAIN servers'[c] : \E k \in DOMAIN ServerList[c] : servers'[c][i] = ServerList[c][k]
      BY <1>4, <1>5 DEF ConnInv
    <2>2. ASSUME NEW i \in DOMAIN servers'[c], NEW k \in DOMAIN servers'[c],
                 servers'[c][i] = servers'[c][k]
          PROVE  i = k
      <3>1. i + 1 = k + 1
        BY <1>4, <1>5, <2>2 DEF ConnInv
      <3> QED
        BY <1>4, <3>1
    <2>3. ASSUME NEW k \in Job, k.client = c, ~Fresh(ClientThread(k))
          PROVE  /\ k.index <= index[c]
                 /\ k.index = index[c] =>
                      \A i \in DOMAIN servers'[c] : servers'[c][i] # k.server
      <3>1. /\ k.index <= index[c]
            /\ k.index = index[c] =>
                 \/ k.server = servers[c][1]
                 \/ \A i \in DOMAIN servers[c] : servers[c][i] # k.server
        BY <1>4, <1>5, <2>3 DEF ConnInv
      <3>2. \A i \in DOMAIN servers'[c] : servers'[c][i] # servers[c][1]
        BY <1>4, <1>5 DEF ConnInv
      <3> QED
        BY <1>4, <3>1, <3>2
    <2>4. UNCHANGED <<index, pc>>
      BY <1>1
    <2> QED
      BY <1>2, <1>5, <2>1, <2>2, <2>3, <2>4 DEF ConnInv, Fresh
  <1> QED
    BY <1>1, <1>6, IdleKeeps

LEMMA ClientSteps ==
  ASSUME TypeInv, TypeInv', IInv, NEW c \in Client, ClientStep(c)
  PROVE  IInv'
  <1>5. ConnInv
    BY DEF IInv, ServeInv
  <1>1. CASE ClientRefused(c) \/ ClientEndOfStream(c)
    <2>1. Deprecate(c) /\ servers[c] # <<>>
      BY <1>1 DEF ClientRefused, ClientEndOfStream, TypeInv, WaitingHasServer
    <2> QED
      BY <2>1, DeprecateStep
  <1>2. CASE ClientReceive(c)
    <2>1. /\ index' = [index EXCEPT ![c] = @ + 1] /\ cpc' = [cpc EXCEPT ![c] = "ready"]
          /\ UNCHANGED <<servers, pc>> /\ ServersIdle
      BY <1>2 DEF ClientReceive, serverVars, threadVars, ServersIdle
    <2>2. /\ index'[c] = index[c] + 1 /\ index[c] \in Nat
          /\ \A d \in Client \ {c} : index'[d] = index[d] /\ cpc'[d] = cpc[d]
      BY <2>1 DEF TypeInv, TypeOK
    <2>3. \A j \in Job : j.index \in Nat
      <3>1. \A d \in Client : DOMAIN Script[d] \subseteq Nat
        BY ScriptAssumption, LenProperties
      <3> QED
        BY <3>1, JobFacts
    <2>4. \A j \in Job : j.client = c /\ ~Fresh(ClientThread(j)) =>
                           j.index <= index'[c] /\ j.index # index'[c]
      BY <1>5, <2>2, <2>3 DEF ConnInv
    <2>5. ConnInv'
      BY <1>5, <2>1, <2>2, <2>4 DEF ConnInv, Fresh
    <2> QED
      BY <2>1, <2>5, IdleKeeps
  <1>3. CASE ClientFails(c)
    <2>1. /\ cpc[c] = "ready" /\ cpc' = [cpc EXCEPT ![c] = "failed"]
          /\ UNCHANGED <<index, servers, pc>> /\ ServersIdle
      BY <1>3 DEF ClientFails, serverVars, threadVars, ServersIdle
    <2>2. \A d \in Client \ {c} : cpc'[d] = cpc[d]
      BY <2>1 DEF TypeInv, TypeOK
    <2>3. ConnInv'
      BY <1>5, <2>1, <2>2 DEF ConnInv, Fresh
    <2> QED
      BY <2>1, <2>3, IdleKeeps
  <1> QED
    BY <1>1, <1>2, <1>3, ConnectStep DEF ClientStep

-----------------------------------------------------------------------------
(* The theorems *)

LEMMA ReplicationInit == Init => IInv
  <1> SUFFICES ASSUME Init PROVE IInv
    OBVIOUS
  <1> USE DEF Init
  <1>1. /\ \A t \in Thread : pc[t] = "none" /\ phase[t] = "none"
        /\ \A s \in Server : clientCommands[s].head = NoJob /\ log[s] = <<>>
        /\ answered = {} /\ servers = ServerList
    OBVIOUS
  <1>2. RoleInv /\ PollInv /\ QueueInv
    BY <1>1 DEF RoleInv, PollInv, QueueInv, Serving
  <1>3. FreshInv
    BY <1>1, PeerThreadFacts DEF FreshInv, Fresh
  <1>4. LogInv /\ AtMostOnce /\ ReplicatedBeforeAnswer
    BY <1>1, EmptySeq, LenProperties DEF LogInv, AtMostOnce, ReplicatedBeforeAnswer
  <1>5. SentInv
    BY <1>1 DEF SentInv, Visited
  <1>6. ConnInv
    BY <1>1, ListAssumption, ClientThreadFacts DEF ConnInv, Fresh
  <1>7. AcceptedIsHeld
    BY <1>1, ClientThreadFacts DEF AcceptedIsHeld
  <1> QED
    BY <1>2, <1>3, <1>4, <1>5, <1>6, <1>7 DEF IInv, ServeInv

LEMMA ReplicationStep == TypeInv /\ TypeInv' /\ IInv /\ [Next]_vars => IInv'
  <1> SUFFICES ASSUME TypeInv, TypeInv', IInv, [Next]_vars PROVE IInv'
    OBVIOUS
  <1>1. ASSUME NEW t \in Thread, ServerTask(t) PROVE IInv'
    BY <1>1, QuietSteps, AcceptStep, WriteStep, SendStep, ApplyStep, ExecuteStep,
       ReleaseStep, RespondStep DEF ServerTask
  <1>2. ASSUME UNCHANGED <<serverVars, threadVars, clientVars, answered>> PROVE IInv'
    <2>1. ServersIdle /\ UNCHANGED <<pc, clientVars>>
      BY <1>2 DEF ServersIdle, serverVars, threadVars
    <2>2. ConnInv'
      BY <2>1, ConnKept DEF IInv, ServeInv, Fresh
    <2> QED
      BY <2>1, <2>2, IdleKeeps
  <1>3. ASSUME NEW s \in Server, Crash(s) PROVE IInv'
    BY <1>2, <1>3 DEF Crash
  <1>4. CASE UNCHANGED vars
    BY <1>2, <1>4 DEF vars
  <1> QED
    BY <1>1, <1>3, <1>4, ClientSteps DEF Next

LEMMA ReplicationInvariant == Spec => []IInv
  BY ReplicationInit, ReplicationStep, TypeInvariant, PTL DEF Spec

\* No replica executes the command of one connection twice, whatever crashes, is
\* suspected or times out, and however the threads of the servers interleave.
THEOREM ExecutedAtMostOnce == Spec => []AtMostOnce
  <1>1. IInv => AtMostOnce
    BY DEF IInv
  <1> QED
    BY <1>1, ReplicationInvariant, PTL

\* When a client has its response, every server that the responding one does not
\* suspect has been sent the Update.
THEOREM AnswerAfterUpdates == Spec => []ReplicatedBeforeAnswer
  <1>1. IInv => ReplicatedBeforeAnswer
    BY DEF IInv
  <1> QED
    BY <1>1, ReplicationInvariant, PTL

\* No two threads have polled the same command, whatever breaks the queue and
\* however many threads find their server the smallest before one polls.
THEOREM CommandsPolledOnce == Spec => []PolledOnce
  <1>1. IInv => PolledOnce
    BY DEF IInv, ServeInv, PollInv, PolledOnce, Polled, Serving
  <1> QED
    BY <1>1, ReplicationInvariant, PTL

\* An accepted command is polled, or is what the next poll returns, or its thread
\* was ended by an exception: the queue loses nothing else.
THEOREM NothingLostInQueue == Spec => []AcceptedIsHeld
  <1>1. IInv => AcceptedIsHeld
    BY DEF IInv
  <1> QED
    BY <1>1, ReplicationInvariant, PTL

-----------------------------------------------------------------------------
(* Who waits for whom.  A server's first own entry never changes, and is read  *)
(* from the clock before any Request of that server is written: whatever stamp *)
(* the others keep, it is not an earlier one.                                  *)

\* The first own entry of s is there, with a clock up to c.
Since(s, c) == pendingQueue[s][s] # <<>> /\ pendingQueue[s][s][1] <= c

TextSince    == \A t \in Thread : pc[t] = "text" => Since(t.at, clock[t.at])
AskingSince  ==
  \A t \in Thread : phase[t] = "Request" /\ Active(t) => Since(t.at, stamp[t])
RequestSince ==
  \A t \in Thread :
    t.kind = "Request" /\ pc[t] \in {"sent", "acked"} => Since(t.job.server, stamp[t])
QueuedSince  ==
  \A s, p \in Server : \A i \in DOMAIN pendingQueue[s][p] : Since(p, pendingQueue[s][p][i])
\* Nobody searches for its own server, but to compare.
PeersOthers  ==
  \A t \in Thread : /\ pc[t] \in {"await", "drop"} => peer[t] # t.at
                    /\ pc[t] \in {"search", "remove"} => t.kind = "Release"

WaitInv == TextSince /\ AskingSince /\ RequestSince /\ QueuedSince /\ PeersOthers

\* The shapes of what is compared.
LEMMA WaitTypes ==
  ASSUME TypeInv
  PROVE  /\ clock \in [Server -> Nat] /\ stamp \in [Thread -> Nat]
         /\ pendingQueue \in [Server -> [Server -> Seq(Nat)]]
         /\ pc \in [Thread -> PCs]
         /\ \A s, p \in Server : \A i \in DOMAIN pendingQueue[s][p] :
              pendingQueue[s][p][i] \in Nat
         /\ \A s, p \in Server : pendingQueue[s][p] # <<>> =>
              1 \in DOMAIN pendingQueue[s][p]
  <1>1. pendingQueue \in [Server -> [Server -> Seq(Nat)]]
    BY DEF TypeInv, TypeOK
  <1>2. ASSUME NEW q \in Seq(Nat)
        PROVE  /\ \A i \in DOMAIN q : q[i] \in Nat
               /\ q # <<>> => 1 \in DOMAIN q
    BY <1>2, ElementOfSeq, LenProperties, EmptySeq
  <1> QED
    BY <1>1, <1>2 DEF TypeInv, TypeOK

\* The own list of every server is as it was, or has a new last entry.
OwnKept ==
  \A s \in Server : pendingQueue[s][s] # <<>> =>
    pendingQueue'[s][s] # <<>> /\ pendingQueue'[s][s][1] = pendingQueue[s][s][1]

\* A list that is changed is the own list of its server, with the clock at its
\* end, or has only entries that it had or that an asking thread brings.
LEMMA SinceKept ==
  ASSUME OwnKept, NEW s \in Server, NEW c, Since(s, c)
  PROVE  Since(s, c)'
  <1>1. /\ pendingQueue'[s][s] # <<>>
        /\ pendingQueue'[s][s][1] = pendingQueue[s][s][1]
    BY DEF OwnKept, Since
  <1> QED
    BY <1>1 DEF Since

\* The parts that do not look at entries are kept by a step of t that leaves the
\* stamps that matter as they are.
LEMMA WaitsKept ==
  ASSUME TypeInv, TypeInv', WaitInv, OwnKept, NEW t \in Thread,
         \A s \in Server : clock[s] <= clock'[s],
         \A u \in Thread \ {t} : pc'[u] = "text" => pc[u] = "text",
         pc'[t] = "text" => Since(t.at, clock[t.at])',
         \A u \in Thread : phase'[u] = "Request" /\ Active(u)' =>
           \/ phase[u] = "Request" /\ Active(u) /\ stamp'[u] = stamp[u]
           \/ Since(u.at, stamp[u])',
         \A u \in Thread : u.kind = "Request" /\ pc'[u] \in {"sent", "acked"} =>
           \/ pc[u] \in {"sent", "acked"} /\ stamp'[u] = stamp[u]
           \/ Since(u.job.server, stamp[u])',
         \A u \in Thread : pc'[u] \in {"await", "drop"} =>
           \/ pc[u] \in {"await", "drop"} /\ peer'[u] = peer[u]
           \/ peer'[u] # u.at,
         \A u \in Thread : pc'[u] \in {"search", "remove"} =>
           pc[u] \in {"search", "remove"} \/ u.kind = "Release"
  PROVE  TextSince' /\ AskingSince' /\ RequestSince' /\ PeersOthers'
  <1>0. \A u \in Thread : u.at \in Server /\ u.job.server \in Server
    BY ThreadFacts, JobFacts
  <1>1. TextSince'
    <2> SUFFICES ASSUME NEW u \in Thread, pc'[u] = "text", u # t
                 PROVE  Since(u.at, clock[u.at])'
      BY DEF TextSince
    <2>1. Since(u.at, clock[u.at])
      BY DEF WaitInv, TextSince
    <2>2. Since(u.at, clock'[u.at])
      <3>1. clock' \in [Server -> Nat]
        BY DEF TypeInv, TypeOK
      <3>2. /\ pendingQueue[u.at][u.at][1] \in Nat
            /\ clock[u.at] \in Nat /\ clock'[u.at] \in Nat
        BY <1>0, <2>1, <3>1, WaitTypes DEF Since
      <3>3. pendingQueue[u.at][u.at][1] <= clock[u.at] /\ clock[u.at] <= clock'[u.at]
        BY <1>0, <2>1 DEF Since
      <3>4. pendingQueue[u.at][u.at][1] <= clock'[u.at]
        BY <3>2, <3>3
      <3> QED
        BY <2>1, <3>4 DEF Since
    <2> QED
      BY <1>0, <2>2, SinceKept DEF Since
  <1>2. AskingSince'
    <2> SUFFICES ASSUME NEW u \in Thread, phase'[u] = "Request", Active(u)'
                 PROVE  Since(u.at, stamp[u])'
      BY DEF AskingSince
    <2>1. CASE phase[u] = "Request" /\ Active(u) /\ stamp'[u] = stamp[u]
      <3>1. Since(u.at, stamp[u])
        BY <2>1 DEF WaitInv, AskingSince
      <3> QED
        BY <1>0, <2>1, <3>1, SinceKept DEF Since
    <2> QED
      BY <2>1
  <1>3. RequestSince'
    <2> SUFFICES ASSUME NEW u \in Thread, u.kind = "Request", pc'[u] \in {"sent", "acked"}
                 PROVE  Since(u.job.server, stamp[u])'
      BY DEF RequestSince
    <2>1. CASE pc[u] \in {"sent", "acked"} /\ stamp'[u] = stamp[u]
      <3>1. Since(u.job.server, stamp[u])
        BY <2>1 DEF WaitInv, RequestSince
      <3> QED
        BY <1>0, <2>1, <3>1, SinceKept DEF Since
    <2> QED
      BY <2>1
  <1>4. PeersOthers'
    BY DEF WaitInv, PeersOthers
  <1> QED
    BY <1>1, <1>2, <1>3, <1>4

\* Lists are kept: every entry was there, or is one that p made its first own
\* entry for.
LEMMA QueuedKept ==
  ASSUME TypeInv, WaitInv, OwnKept,
         \A s, p \in Server : \A i \in DOMAIN pendingQueue'[s][p] :
           \/ \E k \in DOMAIN pendingQueue[s][p] : pendingQueue'[s][p][i] = pendingQueue[s][p][k]
           \/ Since(p, pendingQueue[s][p][i])'
  PROVE  QueuedSince'
  <1> SUFFICES ASSUME NEW s \in Server, NEW p \in Server, NEW i \in DOMAIN pendingQueue'[s][p]
               PROVE  Since(p, pendingQueue[s][p][i])'
    BY DEF QueuedSince
  <1>1. ASSUME NEW k \in DOMAIN pendingQueue[s][p],
               pendingQueue'[s][p][i] = pendingQueue[s][p][k]
        PROVE  Since(p, pendingQueue[s][p][i])'
    <2>1. Since(p, pendingQueue[s][p][k])
      BY DEF WaitInv, QueuedSince
    <2> QED
      BY <1>1, <2>1, SinceKept DEF Since
  <1> QED
    BY <1>1

\* Another server's entry leaves a queue.
LEMMA RemovalKeeps ==
  ASSUME TypeInv, WaitInv, NEW a \in Server, NEW b \in Server, RemoveOldest(a, b), a # b
  PROVE  OwnKept /\ QueuedSince'
  <1> DEFINE old == pendingQueue[a][b]
             new == SubSeq(old, 2, Len(old))
  <1>2. pendingQueue' = [pendingQueue EXCEPT ![a][b] = new]
    BY DEF RemoveOldest
  <1>3. \A i \in DOMAIN new : \E k \in DOMAIN old : new[i] = old[k]
    <2>1. old \in Seq(Nat)
      BY WaitTypes
    <2> HIDE DEF old
    <2> QED
      BY <2>1, SubSeqFromTwo
  <1> HIDE DEF new
  <1>4. \A s, p \in Server :
          pendingQueue'[s][p] = IF s = a /\ p = b THEN new ELSE pendingQueue[s][p]
    BY <1>2, WaitTypes
  <1>5. OwnKept
    BY <1>4 DEF OwnKept
  <1>6. ASSUME NEW s \in Server, NEW p \in Server, NEW i \in DOMAIN pendingQueue'[s][p]
        PROVE  \E k \in DOMAIN pendingQueue[s][p] :
                 pendingQueue'[s][p][i] = pendingQueue[s][p][k]
    <2>1. CASE s = a /\ p = b
      BY <1>3, <1>4, <2>1
    <2>2. CASE ~(s = a /\ p = b)
      BY <1>4, <2>2
    <2> QED
      BY <2>1, <2>2
  <1> QED
    BY <1>5, <1>6, QueuedKept

\* A new last entry of a list.
LEMMA AppendKeeps ==
  ASSUME TypeInv, WaitInv, NEW a \in Server, NEW b \in Server, NEW v \in Nat,
         \A s, p \in Server :
           pendingQueue'[s][p] = IF s = a /\ p = b THEN Append(pendingQueue[a][b], v)
                                                 ELSE pendingQueue[s][p],
         IF b = a THEN v = clock[a] ELSE Since(b, v), ClockInv
  PROVE  OwnKept /\ QueuedSince'
  <1> DEFINE old == pendingQueue[a][b]
             new == Append(old, v)
  <1>1. old \in Seq(Nat)
    BY WaitTypes
  <1>2. /\ new # <<>> /\ (old # <<>> => new[1] = old[1])
        /\ \A i \in DOMAIN new : new[i] = v \/ \E k \in DOMAIN old : new[i] = old[k]
        /\ old = <<>> => new[1] = v
    <2> HIDE DEF old
    <2>1. /\ Len(new) = Len(old) + 1 /\ Len(old) \in Nat /\ new \in Seq(Nat)
          /\ \A i \in 1 .. Len(old) : new[i] = old[i]
          /\ new[Len(old) + 1] = v
      BY <1>1, AppendProperties, LenProperties
    <2>2. /\ DOMAIN new = 1 .. Len(old) + 1 /\ DOMAIN old = 1 .. Len(old)
          /\ old = <<>> <=> Len(old) = 0
      BY <1>1, <2>1, LenProperties, EmptySeq
    <2> HIDE DEF new
    <2> QED
      BY <2>1, <2>2, EmptySeq
  <1>4. \A s, p \in Server :
          pendingQueue'[s][p] = IF s = a /\ p = b THEN new ELSE pendingQueue[s][p]
    OBVIOUS
  <1> HIDE DEF new, old
  <1>5. OwnKept
    BY <1>2, <1>4 DEF OwnKept, old
  <1>6. Since(b, v)'
    <2>1. CASE b # a
      BY <1>5, <2>1, SinceKept DEF Since
    <2>2. CASE b = a /\ old = <<>>
      BY <1>2, <1>4, <2>2 DEF Since
    <2>3. CASE b = a /\ old # <<>>
      <3>1. old[1] <= v
        BY <2>3, WaitTypes DEF ClockInv, ClockPastEntries, old
      <3> QED
        BY <1>2, <1>4, <2>3, <3>1 DEF Since
    <2> QED
      BY <2>1, <2>2, <2>3
  <1>7. ASSUME NEW s \in Server, NEW p \in Server, NEW i \in DOMAIN pendingQueue'[s][p]
        PROVE  \/ \E k \in DOMAIN pendingQueue[s][p] :
                    pendingQueue'[s][p][i] = pendingQueue[s][p][k]
               \/ Since(p, pendingQueue[s][p][i])'
    <2>1. CASE s = a /\ p = b
      <3>1. i \in DOMAIN new /\ pendingQueue'[s][p][i] = new[i]
        BY <1>4, <2>1
      <3> QED
        BY <1>2, <1>6, <2>1, <3>1 DEF Since, old
    <2>2. CASE ~(s = a /\ p = b)
      BY <1>4, <2>2
    <2> QED
      BY <2>1, <2>2
  <1> QED
    BY <1>5, <1>7, QueuedKept

\* What a step of t does to t's own locals, where it sends nothing.
QuietGoto(t) ==
  \E l \in PCs \ {"text", "sent"} :
    /\ Goto(t, l) /\ UNCHANGED <<stamp, phase>>
    /\ \A u \in Thread \ {t} : peer'[u] = peer[u]
    /\ l = "acked" => pc[t] = "sent"
    /\ l \in {"search", "remove"} => t.kind = "Release"
    /\ l \in {"send", "await", "drop"} => Active(t)
    /\ l \in {"await", "drop"} => peer'[t] # t.at

QuietEnd(t) ==
  /\ EndTask(t) \/ Throw(t)
  /\ \A u \in Thread \ {t} : phase'[u] = phase[u]

QuietStart(t) ==
  /\ StartSend(t)
  /\ \A u \in Thread \ {t} : phase'[u] = phase[u]
  /\ phase'[t] = "Request" => pc[t] = "text"

LEMMA QuietWaits ==
  ASSUME TypeInv, TypeInv', WaitInv, OwnKept, NEW t \in Thread,
         \A s \in Server : clock[s] <= clock'[s],
         QuietGoto(t) \/ QuietEnd(t) \/ QuietStart(t)
  PROVE  TextSince' /\ AskingSince' /\ RequestSince' /\ PeersOthers'
  <1>0. /\ pc \in [Thread -> PCs] /\ stamp \in [Thread -> Nat] /\ peer \in [Thread -> Nat]
        /\ t.at \in Server
    BY ThreadFacts DEF TypeInv, TypeOK
  <1>1. CASE QuietGoto(t)
    <2>1. PICK l \in PCs \ {"text", "sent"} :
            /\ pc' = [pc EXCEPT ![t] = l] /\ stamp' = stamp /\ phase' = phase
            /\ \A u \in Thread \ {t} : peer'[u] = peer[u]
            /\ l = "acked" => pc[t] = "sent"
            /\ l \in {"search", "remove"} => t.kind = "Release"
            /\ l \in {"send", "await", "drop"} => Active(t)
            /\ l \in {"await", "drop"} => peer'[t] # t.at
      BY <1>1 DEF QuietGoto, Goto
    <2>2. \A u \in Thread : pc'[u] = IF u = t THEN l ELSE pc[u]
      BY <1>0, <2>1
    <2>3. \A u \in Thread : Active(u)' => Active(u)
      BY <2>1, <2>2 DEF Active
    <2> QED
      BY <2>1, <2>2, <2>3, WaitsKept
  <1>2. CASE QuietEnd(t)
    <2>1. PICK l \in {"closed", "dead"} :
            /\ pc' = [pc EXCEPT ![t] = l]
            /\ stamp' = [stamp EXCEPT ![t] = 0] /\ peer' = [peer EXCEPT ![t] = 0]
            /\ \A u \in Thread \ {t} : phase'[u] = phase[u]
      BY <1>2 DEF QuietEnd, EndTask, Throw, Finish, Goto
    <2>2. \A u \in Thread : pc'[u] = IF u = t THEN l ELSE pc[u]
      BY <1>0, <2>1
    <2>3. \A u \in Thread : Active(u)' => u # t /\ Active(u)
      BY <2>2 DEF Active
    <2>4. \A u \in Thread \ {t} : stamp'[u] = stamp[u] /\ peer'[u] = peer[u]
      BY <1>0, <2>1
    <2> QED
      BY <2>1, <2>2, <2>3, <2>4, WaitsKept
  <1>3. CASE QuietStart(t)
    <2>1. /\ pc' = [pc EXCEPT ![t] = "send"]
          /\ stamp' = [stamp EXCEPT ![t] = clock[t.at]] /\ peer' = [peer EXCEPT ![t] = 0]
          /\ \A u \in Thread \ {t} : phase'[u] = phase[u]
          /\ phase'[t] = "Request" => pc[t] = "text"
      BY <1>3 DEF QuietStart, StartSend, Goto
    <2>2. \A u \in Thread : pc'[u] = IF u = t THEN "send" ELSE pc[u]
      BY <1>0, <2>1
    <2>3. \A u \in Thread \ {t} : /\ stamp'[u] = stamp[u] /\ peer'[u] = peer[u]
                                  /\ Active(u)' => Active(u)
      BY <1>0, <2>1, <2>2 DEF Active
    <2>4. stamp'[t] = clock[t.at]
      BY <1>0, <2>1
    <2>5. ASSUME phase'[t] = "Request" PROVE Since(t.at, stamp[t])'
      <3>1. Since(t.at, clock[t.at])
        BY <2>1, <2>5 DEF WaitInv, TextSince
      <3> QED
        BY <1>0, <2>4, <3>1, SinceKept DEF Since
    <2> QED
      BY <2>1, <2>2, <2>3, <2>5, WaitsKept
  <1> QED
    BY <1>1, <1>2, <1>3

\* No step of a server turns its clock back.
LEMMA ClockForward ==
  ASSUME TypeInv, NEW t \in Thread, ServerTask(t)
  PROVE  \A s \in Server : clock[s] <= clock'[s]
  <1>0. clock \in [Server -> Nat] /\ stamp[t] \in Nat
    BY DEF TypeInv, TypeOK
  <1>1. \/ UNCHANGED clock
        \/ clock' = [clock EXCEPT ![t.at] = Tick(@)]
        \/ clock' = [clock EXCEPT ![t.at] = Receive(@, stamp[t])]
        \/ clock' = [clock EXCEPT ![t.at] = Tick(Receive(@, stamp[t]))]
    BY DEF ServerTask, serverVars, AcceptCommand, EnterOwnRequest, WriteRequest,
           SendMessage, ConnectRefused, ReplyFails, Suspect, DropSuspect,
           HandleRequest, AddRequest, ApplyUpdate, HandleRelease, SearchSender,
           RemoveRequest, CheckSmallest, ExecuteNext, BeginRelease, Respond
  <1> QED
    BY <1>0, <1>1 DEF Tick, Receive

LEMMA WaitServerTask ==
  ASSUME TypeInv, TypeInv', ClockInv, RoleInv, WaitInv, NEW t \in Thread, ServerTask(t)
  PROVE  WaitInv'
  <1>f. \A s \in Server : clock[s] <= clock'[s]
    BY ClockForward
  <1>t. /\ t.at \in Server /\ t.job.server \in Server /\ t.kind \in Kind
        /\ (t.kind = "Client") <=> (t.at = t.job.server)
    BY ThreadFacts, JobFacts DEF Thread
  <1>0. /\ pc \in [Thread -> PCs] /\ stamp \in [Thread -> Nat] /\ peer \in [Thread -> Nat]
        /\ clock \in [Server -> Nat] /\ pendingQueue \in [Server -> [Server -> Seq(Nat)]]
    BY DEF TypeInv, TypeOK
  \* The steps that leave all queues as they are, and are quiet.
  <1>1. ASSUME UNCHANGED pendingQueue PROVE OwnKept /\ QueuedSince'
    <2>1. OwnKept
      BY <1>1 DEF OwnKept
    <2> QED
      BY <1>1, <2>1, QueuedKept
  <1>2. ASSUME OwnKept, QueuedSince', QuietGoto(t) \/ QuietEnd(t) \/ QuietStart(t)
        PROVE  WaitInv'
    BY <1>2, <1>f, QuietWaits DEF WaitInv
  <1>11. CASE AcceptCommand(t)
    <2>1. QuietGoto(t)
      BY <1>11 DEF AcceptCommand, QuietGoto, PCs
    <2> QED
      BY <1>1, <1>2, <1>11, <2>1 DEF AcceptCommand
  <1>12. CASE EnterOwnRequest(t)
    <2>1. /\ pendingQueue' = [pendingQueue EXCEPT ![t.at][t.at] = Append(@, clock[t.at])]
          /\ pc' = [pc EXCEPT ![t] = "text"] /\ UNCHANGED <<clock, stamp, phase, peer>>
      BY <1>12 DEF EnterOwnRequest, Goto
    <2>2. \A s, p \in Server :
            pendingQueue'[s][p] = IF s = t.at /\ p = t.at
                                  THEN Append(pendingQueue[t.at][t.at], clock[t.at])
                                  ELSE pendingQueue[s][p]
      BY <1>0, <1>t, <2>1
    <2>3. OwnKept /\ QueuedSince'
      <3>1. clock[t.at] \in Nat
        BY <1>0, <1>t
      <3> QED
        BY <1>t, <2>2, <3>1, AppendKeeps
    <2>4. Since(t.at, clock[t.at])'
      <3> DEFINE old == pendingQueue[t.at][t.at]
                 new == pendingQueue'[t.at][t.at]
      <3>1. old \in Seq(Nat) /\ clock[t.at] \in Nat /\ new = Append(old, clock[t.at])
        BY <1>0, <1>t, <2>2
      <3> HIDE DEF old, new
      <3>2. Len(old) + 1 \in DOMAIN new /\ new[Len(old) + 1] = clock[t.at]
        BY <3>1, AppendProperties, LenProperties
      <3>3. \A i \in DOMAIN new : new # <<>> /\ new[1] <= new[i]
        BY <1>t, <2>3 DEF QueuedSince, Since, new
      <3>4. new # <<>> /\ new[1] <= clock[t.at]
        BY <3>2, <3>3
      <3> QED
        BY <2>1, <3>4 DEF Since, new
    <2>5. \A u \in Thread : /\ pc'[u] = IF u = t THEN "text" ELSE pc[u]
                            /\ Active(u)' => Active(u)
      BY <1>0, <2>1 DEF Active
    <2>6. TextSince' /\ AskingSince' /\ RequestSince' /\ PeersOthers'
      BY <1>f, <2>1, <2>3, <2>4, <2>5, WaitsKept
    <2> QED
      BY <2>3, <2>6 DEF WaitInv
  <1>13. CASE WriteRequest(t)
    <2>1. UNCHANGED pendingQueue /\ StartSend(t) /\ pc[t] = "text"
      BY <1>13 DEF WriteRequest, serverVars, At
    <2>2. QuietStart(t)
      BY <1>13, <2>1 DEF WriteRequest, QuietStart
    <2> QED
      BY <1>1, <1>2, <2>1, <2>2
  <1>14. CASE SendMessage(t)
    <2>1. PICK p \in Server :
            LET m == PeerThread(phase[t], running[t], p)
            IN  /\ p # t.at
                /\ pc' = [pc EXCEPT ![t] = "await", ![m] = "sent"]
                /\ stamp' = [stamp EXCEPT ![m] = stamp[t]]
                /\ peer' = [peer EXCEPT ![t] = p]
      BY <1>14 DEF SendMessage, IsNextPeer, Unvisited
    <2>m. PICK m : m = PeerThread(phase[t], running[t], p)
      OBVIOUS
    <2>2. UNCHANGED <<pendingQueue, phase>> /\ Active(t)
      BY <1>14 DEF SendMessage, Sending, At, Active
    <2>3. m # t /\ m.at = p /\ m.kind = phase[t] /\ m.job = running[t]
      BY <2>1, <2>m DEF PeerThread
    <2>4. /\ pc' = [pc EXCEPT ![t] = "await", ![m] = "sent"]
          /\ stamp' = [stamp EXCEPT ![m] = stamp[t]]
          /\ peer' = [peer EXCEPT ![t] = p]
      BY <2>1, <2>m
    <2>5. \A u \in Thread :
            /\ pc'[u] = IF u = m THEN "sent" ELSE IF u = t THEN "await" ELSE pc[u]
            /\ stamp'[u] = IF u = m THEN stamp[t] ELSE stamp[u]
            /\ peer'[u] = IF u = t THEN p ELSE peer[u]
      BY <1>0, <2>3, <2>4
    <2>6. OwnKept /\ QueuedSince'
      BY <1>1, <2>2
    <2>7. ASSUME m.kind = "Request" PROVE Since(m.job.server, stamp[t])'
      <3>1. m.job.server = t.at
        BY <2>3, <2>7 DEF RoleInv
      <3>2. Since(t.at, stamp[t])
        BY <2>2, <2>3, <2>7 DEF WaitInv, AskingSince
      <3>3. stamp'[t] = stamp[t]
        BY <2>3, <2>5
      <3> QED
        BY <1>t, <2>6, <3>1, <3>2, <3>3, SinceKept DEF Since
    <2>8. ASSUME m.kind = "Request", m \in Thread PROVE Since(m.job.server, stamp[m])'
      <3>1. stamp'[m] = stamp[t] /\ stamp'[t] = stamp[t]
        BY <2>3, <2>5, <2>8
      <3> QED
        BY <2>7, <2>8, <3>1 DEF Since
    <2>9. \A u \in Thread : Active(u)' => Active(u) /\ stamp'[u] = stamp[u]
      BY <2>2, <2>5 DEF Active
    <2>10. \A u \in Thread :
             u.kind = "Request" /\ pc'[u] \in {"sent", "acked"} =>
               \/ pc[u] \in {"sent", "acked"} /\ stamp'[u] = stamp[u]
               \/ Since(u.job.server, stamp[u])'
      <3> SUFFICES ASSUME NEW u \in Thread, u.kind = "Request", pc'[u] \in {"sent", "acked"}
                   PROVE  \/ pc[u] \in {"sent", "acked"} /\ stamp'[u] = stamp[u]
                          \/ Since(u.job.server, stamp[u])'
        OBVIOUS
      <3>1. CASE u = m
        BY <2>8, <3>1
      <3>2. CASE u # m
        BY <2>5, <3>2
      <3> QED
        BY <3>1, <3>2
    <2>11. /\ \A u \in Thread : pc'[u] \in {"text", "search", "remove"} => pc'[u] = pc[u]
           /\ \A u \in Thread : pc'[u] \in {"await", "drop"} =>
                \/ pc[u] \in {"await", "drop"} /\ peer'[u] = peer[u]
                \/ peer'[u] # u.at
           /\ pc'[t] # "text"
      <3>1. p # t.at
        BY <2>1
      <3>2. pc'[t] = "await"
        BY <2>3, <2>5
      <3> SUFFICES ASSUME NEW u \in Thread
                   PROVE  /\ pc'[u] \in {"text", "search", "remove"} => pc'[u] = pc[u]
                          /\ pc'[u] \in {"await", "drop"} =>
                               \/ pc[u] \in {"await", "drop"} /\ peer'[u] = peer[u]
                               \/ peer'[u] # u.at
        BY <3>2
      <3>3. CASE u = t
        BY <2>5, <3>1, <3>2, <3>3
      <3>4. CASE u # t
        BY <2>5, <3>4
      <3> QED
        BY <3>3, <3>4
    <2>12. TextSince' /\ AskingSince' /\ RequestSince' /\ PeersOthers'
      BY <1>f, <2>2, <2>6, <2>9, <2>10, <2>11, WaitsKept
    <2> QED
      BY <2>6, <2>12 DEF WaitInv
  \* A failed exchange.
  <1>3. ASSUME NEW p \in Server \ {t.at}, Suspect(t, p), Active(t)
        PROVE  WaitInv'
    <2>1. UNCHANGED pendingQueue /\ peer' = [peer EXCEPT ![t] = p]
      BY <1>3 DEF Suspect
    <2>2. QuietGoto(t)
      BY <1>0, <1>3, <2>1 DEF Suspect, QuietGoto, PCs
    <2> QED
      BY <1>1, <1>2, <2>1, <2>2
  <1>15. CASE ConnectRefused(t)
    <2>1. PICK p \in Server \ {t.at} : Suspect(t, p)
      BY <1>15 DEF ConnectRefused, IsNextPeer, Unvisited
    <2>2. Active(t)
      BY <1>15 DEF ConnectRefused, Sending, At, Active
    <2> QED
      BY <1>3, <2>1, <2>2
  <1>16. CASE ReplyFails(t)
    <2>1. Suspect(t, peer[t]) /\ Active(t) /\ pc[t] = "await"
      BY <1>16 DEF ReplyFails, At, Active
    <2>2. peer[t] \in Server \ {t.at}
      BY <2>1 DEF WaitInv, PeersOthers, TypeInv, SendersServe
    <2> QED
      BY <1>3, <2>1, <2>2
  <1>17. CASE DropSuspect(t)
    <2>1. /\ phase' = phase /\ pc[t] = "drop" /\ peer[t] \in Server \ {t.at}
          /\ RemoveOldest(t.at, peer[t]) \/ UNCHANGED pendingQueue
      BY <1>17 DEF DropSuspect, At, WaitInv, PeersOthers, TypeInv, SendersServe
    <2>2. QuietGoto(t) \/ QuietEnd(t)
      BY <1>17, <2>1 DEF DropSuspect, QuietGoto, QuietEnd, Active, PCs
    <2> QED
      BY <1>1, <1>2, <1>t, <2>1, <2>2, RemovalKeeps
  <1>19. CASE HandleRequest(t)
    <2>1. QuietGoto(t)
      BY <1>19 DEF HandleRequest, At, QuietGoto, PCs
    <2> QED
      BY <1>1, <1>2, <1>19, <2>1 DEF HandleRequest
  <1>20. CASE AddRequest(t)
    <2>1. /\ pendingQueue' =
               [pendingQueue EXCEPT ![t.at][t.job.server] = Append(@, stamp[t])]
          /\ QuietEnd(t) /\ t.kind = "Request" /\ pc[t] = "acked"
      BY <1>20 DEF AddRequest, At, QuietEnd
    <2>2. \A s, p \in Server :
            pendingQueue'[s][p] = IF s = t.at /\ p = t.job.server
                                  THEN Append(pendingQueue[t.at][t.job.server], stamp[t])
                                  ELSE pendingQueue[s][p]
      BY <1>0, <1>t, <2>1
    <2>3. Since(t.job.server, stamp[t]) /\ t.job.server # t.at /\ stamp[t] \in Nat
      BY <1>0, <1>t, <2>1 DEF WaitInv, RequestSince
    <2>4. OwnKept /\ QueuedSince'
      BY <1>t, <2>2, <2>3, AppendKeeps
    <2> QED
      BY <1>2, <2>1, <2>4
  <1>21. CASE ApplyUpdate(t)
    BY <1>1, <1>2, <1>21 DEF ApplyUpdate, QuietEnd
  <1>22. CASE HandleRelease(t)
    <2>1. QuietGoto(t)
      BY <1>22 DEF HandleRelease, QuietGoto, PCs
    <2> QED
      BY <1>1, <1>2, <1>22, <2>1 DEF HandleRelease
  <1>23. CASE SearchSender(t)
    <2>1. UNCHANGED <<pendingQueue, phase>> /\ t.kind = "Release"
      BY <1>23 DEF SearchSender, serverVars, At, WaitInv, PeersOthers
    <2>2. QuietGoto(t) \/ QuietEnd(t)
      BY <1>23, <2>1 DEF SearchSender, QuietGoto, QuietEnd, PCs
    <2> QED
      BY <1>1, <1>2, <2>1, <2>2
  <1>24. CASE RemoveRequest(t)
    <2>1. /\ pc[t] = "remove" /\ t.kind = "Release"
          /\ RemoveOldest(t.at, t.job.server) \/ UNCHANGED pendingQueue
      BY <1>24 DEF RemoveRequest, At, WaitInv, PeersOthers
    <2>2. QuietGoto(t)
      BY <1>24, <2>1 DEF RemoveRequest, QuietGoto, PCs
    <2> QED
      BY <1>1, <1>2, <1>t, <2>1, <2>2, RemovalKeeps
  <1>25. CASE CheckSmallest(t)
    <2>1. UNCHANGED <<pendingQueue, phase>>
      BY <1>25 DEF CheckSmallest, serverVars
    <2>2. QuietGoto(t) \/ QuietEnd(t)
      BY <1>25, <2>1 DEF CheckSmallest, QuietGoto, QuietEnd, PCs
    <2> QED
      BY <1>1, <1>2, <2>1, <2>2
  <1>26. CASE ExecuteNext(t)
    <2>1. UNCHANGED pendingQueue
      BY <1>26 DEF ExecuteNext
    <2>2. \/ StartSend(t) /\ phase' = [phase EXCEPT ![t] = "Update"]
          \/ Throw(t) /\ (phase' = phase \/ phase' = [phase EXCEPT ![t] = "Update"])
      BY <1>26 DEF ExecuteNext
    <2>3. phase \in [Thread -> Phases]
      BY DEF TypeInv, TypeOK
    <2>4. QuietStart(t) \/ QuietEnd(t)
      BY <2>2, <2>3 DEF QuietStart, QuietEnd
    <2> QED
      BY <1>1, <1>2, <2>1, <2>4
  <1>27. CASE BeginRelease(t)
    <2>1. UNCHANGED pendingQueue /\ StartSend(t) /\ phase' = [phase EXCEPT ![t] = "Release"]
      BY <1>27 DEF BeginRelease, serverVars
    <2>2. phase \in [Thread -> Phases]
      BY DEF TypeInv, TypeOK
    <2>3. QuietStart(t)
      BY <2>1, <2>2 DEF QuietStart
    <2> QED
      BY <1>1, <1>2, <2>1, <2>3
  <1>28. CASE Respond(t)
    BY <1>1, <1>2, <1>28 DEF Respond, QuietEnd, serverVars
  <1> QED
    BY <1>11, <1>12, <1>13, <1>14, <1>15, <1>16, <1>17, <1>19, <1>20, <1>21,
       <1>22, <1>23, <1>24, <1>25, <1>26, <1>27, <1>28 DEF ServerTask

\* Servers that wait for each other's requests agree on whose comes first, so
\* that they never wait in a circle, whatever stamps their Requests carry.
THEOREM NoCircularWait == Spec => []WaitsInOrder
  <1>1. Init => WaitInv
    <2> SUFFICES ASSUME Init PROVE WaitInv
      OBVIOUS
    <2>1. \A s, p \in Server : pendingQueue[s][p] = <<>>
      BY DEF Init
    <2>2. QueuedSince
      BY <2>1, EmptySeq, LenProperties DEF QueuedSince
    <2> QED
      BY <2>2 DEF Init, WaitInv, TextSince, AskingSince, RequestSince, PeersOthers, Active
  <1>2. TypeInv /\ TypeInv' /\ ClockInv /\ IInv /\ WaitInv /\ [Next]_vars => WaitInv'
    <2> SUFFICES ASSUME TypeInv, TypeInv', ClockInv, IInv, WaitInv, [Next]_vars PROVE WaitInv'
      OBVIOUS
    <2>1. ASSUME UNCHANGED <<clock, pendingQueue, stamp, phase, peer>>,
                 pc' = pc \/ \E m : m.kind = "Client" /\ pc' = [pc EXCEPT ![m] = "sent"]
          PROVE  WaitInv'
      <3>1. pc \in [Thread -> PCs]
        BY DEF TypeInv, TypeOK
      <3>2. \A u \in Thread : pc'[u] # pc[u] => u.kind = "Client" /\ pc'[u] = "sent"
        BY <2>1, <3>1
      <3>3. \A u \in Thread : Active(u)' => Active(u)
        BY <3>2 DEF Active
      <3> QED
        BY <2>1, <3>2, <3>3 DEF WaitInv, TextSince, AskingSince, RequestSince,
                                QueuedSince, PeersOthers, Since
    <2>2. ASSUME NEW c \in Client, ClientStep(c) PROVE WaitInv'
      <3>1. UNCHANGED <<clock, pendingQueue, stamp, phase, peer>>
        BY <2>2 DEF ClientStep, ClientConnect, ClientRefused, ClientReceive,
                    ClientEndOfStream, ClientFails, Deprecate, serverVars, threadVars
      <3>2. pc' = pc \/ \E m : m.kind = "Client" /\ pc' = [pc EXCEPT ![m] = "sent"]
        BY <2>2 DEF ClientStep, ClientConnect, ClientRefused, ClientReceive,
                    ClientEndOfStream, ClientFails, Deprecate, threadVars, ClientThread
      <3> QED
        BY <2>1, <3>1, <3>2
    <2>3. ASSUME NEW s \in Server, Crash(s) PROVE WaitInv'
      BY <2>1, <2>3 DEF Crash, serverVars, threadVars
    <2>4. CASE UNCHANGED vars
      BY <2>1, <2>4 DEF vars, serverVars, threadVars
    <2> QED
      BY <2>2, <2>3, <2>4, WaitServerTask DEF Next, IInv, ServeInv
  <1>3. TypeInv /\ WaitInv => WaitsInOrder
    <2> SUFFICES ASSUME TypeInv, WaitInv, NEW s \in Server, NEW p \in Server, Defers(s, p)
                 PROVE  /\ pendingQueue[p][p] # <<>>
                        /\ compare(Stamp(pendingQueue[s][s][1], s),
                                   Stamp(pendingQueue[p][p][1], p)) = -1
      BY DEF WaitsInOrder
    <2> DEFINE own == pendingQueue[s][s][1]
               first == pendingQueue[p][p][1]
    <2>1. PICK i \in DOMAIN pendingQueue[s][p] :
            compare(Stamp(own, s), Stamp(pendingQueue[s][p][i], p)) = -1
      BY DEF Defers
    <2> DEFINE entry == pendingQueue[s][p][i]
    <2>2. pendingQueue[p][p] # <<>> /\ first <= entry
      BY DEF WaitInv, QueuedSince, Since
    <2>3. own \in Nat /\ first \in Nat /\ entry \in Nat
      BY <2>2, WaitTypes DEF Defers
    <2>4. compare(Stamp(own, s), Stamp(entry, p)) = -1
      BY <2>1
    <2> HIDE DEF own, first, entry
    <2>5. compare(Stamp(own, s), Stamp(first, p)) = -1
      BY <2>2, <2>3, <2>4 DEF compare, Stamp, Server
    <2> QED
      BY <2>2, <2>5 DEF own, first
  <1> QED
    BY <1>1, <1>2, <1>3, TypeInvariant, ClockInvariant, ReplicationInvariant, PTL DEF Spec

=============================================================================
