---------------------------- MODULE MessageQueues ----------------------------
(***************************************************************************)
(* Point-to-point messages between the ranks of an MPI program, as the     *)
(* vendored MPICH passes them (src/project5/src/mpich-3.2/src/mpid/ch3).   *)
(*                                                                         *)
(* A sender hands packets to the virtual connection with the receiver,     *)
(* which keeps their order.  The receiver matches an arriving message      *)
(* against its queue of posted receives, and a receive it posts against    *)
(* its queue of unexpected messages; the first that matches is taken.  An  *)
(* eager message carries its data.  A rendezvous message announces itself  *)
(* (rts), is cleared by the receiver once it is matched (cts) and then     *)
(* sends its data.                                                         *)
(*                                                                         *)
(* Cancellation, probes, revoked communicators and failed connections,     *)
(* which nothing in the repository's program reaches, are left out, and    *)
(* so are synchronous sends, which MPI_Gatherv uses in a large program     *)
(* (StandardSendAssumption in Collectives).  A packet the connection       *)
(* cannot write at once counts as handed over.                             *)
(***************************************************************************)
EXTENDS Integers, Sequences

CONSTANTS Rank,       \* the processes
          Context,    \* context identifiers, one for each communicator
          Tag,        \* message tags
          Payload,    \* what a message carries: data, size and error bit
          Handle,     \* handles of a process's requests
          AnySource,  \* MPI_ANY_SOURCE
          AnyTag      \* MPI_ANY_TAG

(* The wildcards are no rank and no tag: both are negative numbers. *)
ASSUME WildcardAssumption == AnySource \notin Rank /\ AnyTag \notin Tag

VARIABLES channel,     \* channel[s][d]: packets from s that d has not handled
          posted,      \* posted[d]: receives that wait for a message
          unexpected,  \* unexpected[d]: messages that wait for a receive
          request      \* request[r][h]: the request of r with handle h

queueVars == <<channel, posted, unexpected, request>>

Envelope == [source : Rank, tag : Tag, context : Context]

Match == [source : Rank \union {AnySource}, tag : Tag \union {AnyTag},
          context : Context]

Packet == [type : {"eager"}, envelope : Envelope, payload : Payload]
            \union [type : {"rts"}, envelope : Envelope, sender : Handle]
            \union [type : {"cts"}, sender : Handle, receiver : Handle]
            \union [type : {"data"}, receiver : Handle, payload : Payload]

Announcement == {p \in Packet : p.type \in {"eager", "rts"}}

(* No request has the handle. *)
None == [state |-> "none"]

Request == [state : {"sending", "complete"}, payload : Payload]
             \union [state : {"posted", "cleared"}]

QueuesTypeOK ==
  /\ channel \in [Rank -> [Rank -> Seq(Packet)]]
  /\ posted \in [Rank -> Seq([match : Match, handle : Handle])]
  /\ unexpected \in [Rank -> Seq(Announcement)]
  /\ request \in [Rank -> [Handle -> Request \union {None}]]

QueuesInit ==
  /\ channel = [s \in Rank |-> [d \in Rank |-> <<>>]]
  /\ posted = [d \in Rank |-> <<>>]
  /\ unexpected = [d \in Rank |-> <<>>]
  /\ request = [r \in Rank |-> [h \in Handle |-> None]]

-----------------------------------------------------------------------------
(* MATCH_WITH_LEFT_MASK: a masked part of the receive matches anything. *)
Matches(match, envelope) ==
  /\ match.context = envelope.context
  /\ match.source \in {AnySource, envelope.source}
  /\ match.tag \in {AnyTag, envelope.tag}

\* Mutant: the element that was found stays.
KeepFound(queue, i) == queue

(* The element found at position i leaves the queue. *)
Without(queue, i) ==
  [k \in 1 .. Len(queue) - 1 |-> IF k < i THEN queue[k] ELSE queue[k + 1]]

IsFirstUnexpected(d, i, match) ==
  /\ i \in DOMAIN unexpected[d]
  /\ Matches(match, unexpected[d][i].envelope)
  /\ \A j \in 1 .. i - 1 : ~Matches(match, unexpected[d][j].envelope)

IsFirstPosted(d, i, envelope) ==
  /\ i \in DOMAIN posted[d]
  /\ Matches(posted[d][i].match, envelope)
  /\ \A j \in 1 .. i - 1 : ~Matches(posted[d][j].match, envelope)

Eager(envelope, payload) ==
  [type |-> "eager", envelope |-> envelope, payload |-> payload]

ReadyToSend(envelope, sender) ==
  [type |-> "rts", envelope |-> envelope, sender |-> sender]

ClearToSend(sender, receiver) ==
  [type |-> "cts", sender |-> sender, receiver |-> receiver]

RndvData(receiver, payload) ==
  [type |-> "data", receiver |-> receiver, payload |-> payload]

Complete(payload) == [state |-> "complete", payload |-> payload]

Cleared == [state |-> "cleared"]

(***************************************************************************)
(* MPID_Send and MPID_Isend.  The data of an eager message leaves with the *)
(* packet and no request remains; a rendezvous keeps it in the request.    *)
(***************************************************************************)
SendEager(s, d, envelope, payload) ==
  /\ channel' = [channel EXCEPT ![s][d] = Append(@, Eager(envelope, payload))]
  /\ UNCHANGED <<posted, unexpected, request>>

SendRndv(s, d, h, envelope, payload) ==
  /\ request[s][h] = None
  /\ request' = [request EXCEPT
                   ![s][h] = [state |-> "sending", payload |-> payload]]
  /\ channel' = [channel EXCEPT ![s][d] = Append(@, ReadyToSend(envelope, h))]
  /\ UNCHANGED <<posted, unexpected>>

(***************************************************************************)
(* MPID_Recv and MPID_Irecv: the first unexpected message that matches is  *)
(* taken; without one the receive is posted.                               *)
(***************************************************************************)
TakeUnexpected(d, h, match) ==
  \E i \in DOMAIN unexpected[d] :
    LET message == unexpected[d][i] IN
    /\ IsFirstUnexpected(d, i, match)
    /\ unexpected' = [unexpected EXCEPT ![d] = Without(@, i)]
    /\ \/ /\ message.type = "eager"
          /\ request' = [request EXCEPT ![d][h] = Complete(message.payload)]
          /\ UNCHANGED channel
       \/ /\ message.type = "rts"
          /\ request' = [request EXCEPT ![d][h] = Cleared]
          /\ channel' = [channel EXCEPT ![d][message.envelope.source] =
                           Append(@, ClearToSend(message.sender, h))]
    /\ UNCHANGED posted

\* Mutant: the queue of unexpected messages is not searched.
PostBlindly(d, h, match) ==
  /\ posted' = [posted EXCEPT
                  ![d] = Append(@, [match |-> match, handle |-> h])]
  /\ request' = [request EXCEPT ![d][h] = [state |-> "posted"]]
  /\ UNCHANGED <<channel, unexpected>>

PostReceive(d, h, match) ==
  /\ \A i \in DOMAIN unexpected[d] :
        ~Matches(match, unexpected[d][i].envelope)
  /\ posted' = [posted EXCEPT
                  ![d] = Append(@, [match |-> match, handle |-> h])]
  /\ request' = [request EXCEPT ![d][h] = [state |-> "posted"]]
  /\ UNCHANGED <<channel, unexpected>>

Receive(d, h, match) ==
  /\ request[d][h] = None
  /\ TakeUnexpected(d, h, match) \/ PostReceive(d, h, match)

(***************************************************************************)
(* The packet handlers, which the progress engine of d calls for the       *)
(* oldest packet of the connection from s.                                 *)
(***************************************************************************)
Arrived(s, d, type) ==
  /\ channel[s][d] # <<>>
  /\ Head(channel[s][d]).type = type

MatchPosted(s, d) ==
  LET packet == Head(channel[s][d]) IN
  \E i \in DOMAIN posted[d] :
    LET h == posted[d][i].handle IN
    /\ IsFirstPosted(d, i, packet.envelope)
    /\ posted' = [posted EXCEPT ![d] = Without(@, i)]
    /\ \/ /\ packet.type = "eager"
          /\ request' = [request EXCEPT ![d][h] = Complete(packet.payload)]
          /\ channel' = [channel EXCEPT ![s][d] = Tail(@)]
       \/ /\ packet.type = "rts"
          /\ request' = [request EXCEPT ![d][h] = Cleared]
          /\ channel' = [channel EXCEPT ![s][d] = Tail(@),
                           ![d][s] = Append(@, ClearToSend(packet.sender, h))]
    /\ UNCHANGED unexpected

QueueUnexpected(s, d) ==
  LET packet == Head(channel[s][d]) IN
  /\ \A i \in DOMAIN posted[d] :
        ~Matches(posted[d][i].match, packet.envelope)
  /\ unexpected' = [unexpected EXCEPT ![d] = Append(@, packet)]
  /\ channel' = [channel EXCEPT ![s][d] = Tail(@)]
  /\ UNCHANGED <<posted, request>>

(* PktHandler_EagerSend and PktHandler_RndvReqToSend. *)
HandleAnnouncement(s, d) ==
  /\ Arrived(s, d, "eager") \/ Arrived(s, d, "rts")
  /\ MatchPosted(s, d) \/ QueueUnexpected(s, d)

(* PktHandler_RndvClrToSend: the data leaves and the send is complete. *)
HandleClearToSend(s, d) ==
  LET packet == Head(channel[s][d]) IN
  /\ Arrived(s, d, "cts")
  /\ channel' = [channel EXCEPT ![s][d] = Tail(@),
                   ![d][s] = Append(@, RndvData(packet.receiver,
                                  request[d][packet.sender].payload))]
  /\ request' = [request EXCEPT ![d][packet.sender].state = "complete"]
  /\ UNCHANGED <<posted, unexpected>>

(* PktHandler_RndvSend: the data completes the receive it was cleared for. *)
HandleData(s, d) ==
  LET packet == Head(channel[s][d]) IN
  /\ Arrived(s, d, "data")
  /\ channel' = [channel EXCEPT ![s][d] = Tail(@)]
  /\ request' = [request EXCEPT
                   ![d][packet.receiver] = Complete(packet.payload)]
  /\ UNCHANGED <<posted, unexpected>>

Deliver(s, d) ==
  HandleAnnouncement(s, d) \/ HandleClearToSend(s, d) \/ HandleData(s, d)

(* MPID_Request_release of everything a wait of r has waited for. *)
Pending(r) == {h \in Handle : request[r][h] # None}

\* Mutant: a send counts as complete once it is announced.
AllCompleteOrSending(r) ==
  \A h \in Pending(r) : request[r][h].state \in {"sending", "complete"}

AllComplete(r) == \A h \in Pending(r) : request[r][h].state = "complete"

Release(r) ==
  /\ AllComplete(r)
  /\ request' = [request EXCEPT ![r] = [h \in Handle |-> None]]
  /\ UNCHANGED <<channel, posted, unexpected>>

-----------------------------------------------------------------------------
QueuesNext ==
  \E s \in Rank : \E d \in Rank \ {s} :
    \/ Deliver(s, d)
    \/ Release(s)
    \/ \E envelope \in Envelope, payload \in Payload :
         /\ envelope.source = s
         /\ \/ SendEager(s, d, envelope, payload)
            \/ \E h \in Handle : SendRndv(s, d, h, envelope, payload)
    \/ \E h \in Handle, match \in Match : Receive(d, h, match)

QueuesSpec == QueuesInit /\ [][QueuesNext]_queueVars

-----------------------------------------------------------------------------
(***************************************************************************)
(* A receive never waits in the posted queue while a message it matches    *)
(* waits in the unexpected queue: the two searches of ch3u_recvq.c leave   *)
(* nothing that either side would have found.                              *)
(***************************************************************************)
QueuesDisjoint ==
  \A d \in Rank : \A i \in DOMAIN posted[d], j \in DOMAIN unexpected[d] :
    ~Matches(posted[d][i].match, unexpected[d][j].envelope)

(***************************************************************************)
(* A handshake holds on to the requests of both its sides, which the       *)
(* handlers of ch3u_rndv.c find by the handles in the packets: no request  *)
(* is completed, released or given to another message while a packet or a  *)
(* queue still names it.                                                   *)
(***************************************************************************)
InState(r, h, state) == request[r][h].state = state

HeldByPacket(s, d, packet) ==
  /\ packet.type = "rts" => InState(s, packet.sender, "sending")
  /\ packet.type = "cts" => /\ InState(d, packet.sender, "sending")
                            /\ InState(s, packet.receiver, "cleared")
  /\ packet.type = "data" => InState(d, packet.receiver, "cleared")

HandshakesHeld ==
  \A d \in Rank :
    /\ \A s \in Rank : \A i \in DOMAIN channel[s][d] :
         HeldByPacket(s, d, channel[s][d][i])
    /\ \A i \in DOMAIN unexpected[d] :
         HeldByPacket(unexpected[d][i].envelope.source, d, unexpected[d][i])
    /\ \A i \in DOMAIN posted[d] : InState(d, posted[d][i].handle, "posted")

(* The queues of a rank agree with each other and with the requests. *)
QueuesAgree == QueuesDisjoint /\ HandshakesHeld
=============================================================================
