---------------------------- MODULE MuxenTransport ----------------------------
(***************************************************************************)
(* The stream channels of two connected DuplexTransports                   *)
(* (packages/muxen/src/transport.ts, channel.ts): how a channel enters and *)
(* leaves the channel map of either end, over an ordered lossless link     *)
(* that the heartbeat of A (MuxenHeartbeat) watches.                       *)
(* Sequence numbers, windows and retransmission are MuxenChannel's; here a *)
(* data packet is accepted as it arrives.                                  *)
(*                                                                         *)
(* As transport/src/channel.ts has it, streams are one-way: only the end   *)
(* that opened a channel sends on it, and either end may close it.  A      *)
(* channel that an end closed is forgotten there, so data that was under   *)
(* way makes another of the same identifier (transport.ts, handlePacket):  *)
(* the history variable crossed names the channels this can happen to.     *)
(***************************************************************************)
EXTENDS MuxenHeartbeat, FiniteSets

CONSTANTS
  Ids,     \* channel identifiers; uuid() never repeats one
  MaxData  \* bound: data packets sent on a channel

Ends == { "A", "B" }

ASSUME TransportAssumption ==
  /\ MaxData \in Nat
  /\ None \notin Ends

Peer(e) == IF e = "A" THEN "B" ELSE "A"

VARIABLES
  listening,  \* the ends that registered onIncomingStreamChannel
  open,       \* the ends whose transport is not closed
  channels,   \* each end's map: the status of a channel, or "ABSENT"
  closing,    \* channels on which close() ran and the destroy microtask did not
  wire,       \* the packets under way to each end, oldest first
  opener,     \* the end that opened a channel, or None
  dataSent,   \* data packets sent on a channel
  announced,  \* history: calls of the incoming-stream handler of each end
  closedAt,   \* history: channels whose end was destroyed by a close
  crossed     \* history: channels whose data may arrive after a close: the
              \* accepting end closed it, or the opener sent after its close()

channelVars ==
  << channels, closing, wire, opener, dataSent, announced, closedAt, crossed >>

vars == << heartbeatVars, listening, open, channelVars >>

Packet(type, id) == [ type |-> type, id |-> id ]

Init ==
  /\ HeartbeatInit
  /\ listening \in SUBSET Ends
  /\ open = Ends
  /\ channels = [ e \in Ends |-> [ id \in Ids |-> "ABSENT" ] ]
  /\ closing = [ e \in Ends |-> {} ]
  /\ wire = [ e \in Ends |-> << >> ]
  /\ opener = [ id \in Ids |-> None ]
  /\ dataSent = [ id \in Ids |-> 0 ]
  /\ announced = [ e \in Ends |-> [ id \in Ids |-> 0 ] ]
  /\ closedAt = [ e \in Ends |-> {} ]
  /\ crossed = {}

\* The ends whose process still runs.
Running == IF Alive THEN open ELSE open \ { "B" }

Live(e, id) == e \in open /\ channels[e][id] # "ABSENT"

\* A packet sent to an end whose link is gone is dropped.
Sending(e, packets, w) ==
  IF Peer(e) \in open THEN [ w EXCEPT ![Peer(e)] = @ \o packets ] ELSE w

OpenOutgoing(e, id) ==
  /\ e \in Running
  /\ opener[id] = None
  /\ opener' = [ opener EXCEPT ![id] = e ]
  /\ channels' = [ channels EXCEPT ![e][id] = "PRE_HANDSHAKE" ]
  /\ wire' = Sending(e, << Packet("open-stream", id) >>, wire)
  /\ UNCHANGED << heartbeatVars, listening, open, closing, dataSent, announced, closedAt,
                  crossed >>

\* send() is refused on a closed channel only, and close() alone closes nothing.
Send(e, id) ==
  /\ e \in Running
  /\ Live(e, id)
  /\ opener[id] = e
  /\ dataSent[id] < MaxData
  /\ dataSent' = [ dataSent EXCEPT ![id] = @ + 1 ]
  /\ wire' = Sending(e, << Packet("data", id) >>, wire)
  /\ crossed' = IF id \in closing[e] THEN crossed \cup { id } ELSE crossed
  /\ UNCHANGED << heartbeatVars, listening, open, channels, closing, opener, announced, closedAt >>

CloseWith(e, id, w) ==
  /\ e \in Running
  /\ Live(e, id)
  /\ id \notin closing[e]
  /\ closing' = [ closing EXCEPT ![e] = @ \cup { id } ]
  /\ wire' = w
  /\ crossed' = IF opener[id] = e THEN crossed ELSE crossed \cup { id }
  /\ UNCHANGED << heartbeatVars, listening, open, channels, opener, dataSent, announced, closedAt >>

\* Mutant: the close packet overtakes the data sent before it.
CloseOvertaking(e, id) ==
  CloseWith(e, id, [ wire EXCEPT ![Peer(e)] = << Packet("close-channel", id) >> \o @ ])

\* Mutant: the peer is not told.
CloseSilently(e, id) == CloseWith(e, id, wire)

\* Bound: close() is called once before its microtask runs; a second call would
\* repeat a packet that finds no channel.
Close(e, id) ==
  CloseWith(e, id, Sending(e, << Packet("close-channel", id) >>, wire))

\* The microtask close() queued; a channel destroyed meanwhile is left alone.
DestroyClosing(e, id) ==
  /\ e \in Running
  /\ id \in closing[e]
  /\ closing' = [ closing EXCEPT ![e] = @ \ { id } ]
  /\ IF Live(e, id)
     THEN /\ channels' = [ channels EXCEPT ![e][id] = "ABSENT" ]
          /\ closedAt' = [ closedAt EXCEPT ![e] = @ \cup { id } ]
     ELSE UNCHANGED << channels, closedAt >>
  /\ UNCHANGED << heartbeatVars, listening, open, wire, opener, dataSent, announced, crossed >>

-------------------------------------------------------------------------------
(* handlePacket.                                                           *)

ReceiveClose(e, id, rest) ==
  /\ wire' = rest
  /\ IF Live(e, id)
     THEN /\ channels' = [ channels EXCEPT ![e][id] = "ABSENT" ]
          /\ closedAt' = [ closedAt EXCEPT ![e] = @ \cup { id } ]
          /\ closing' = [ closing EXCEPT ![e] = @ \ { id } ]
     ELSE UNCHANGED << channels, closedAt, closing >>
  /\ UNCHANGED << announced, crossed >>

\* An existing channel: data is acknowledged, an open-stream-ack establishes it,
\* a second open-stream is ignored.
ReceiveKnown(e, p, rest) ==
  /\ wire' = IF p.type = "data" THEN Sending(e, << Packet("ack", p.id) >>, rest) ELSE rest
  /\ channels' = IF p.type = "open-stream-ack"
                 THEN [ channels EXCEPT ![e][p.id] = "ESTABLISHED" ] ELSE channels
  /\ UNCHANGED << closing, announced, closedAt, crossed >>

\* open-stream and data create the channel they name, and the handler is told of
\* it there and then.  It may close it at once, as the transport does when there
\* is no handler: before the packet that created the channel is answered.
ReceiveUnknown(e, p, rest) ==
  LET answer == Packet(IF p.type = "data" THEN "ack" ELSE "open-stream-ack", p.id)
      state == IF p.type = "data" THEN "PRE_HANDSHAKE" ELSE "ESTABLISHED"
  IN  /\ channels' = [ channels EXCEPT ![e][p.id] = state ]
      /\ announced' = IF e \in listening
                      THEN [ announced EXCEPT ![e][p.id] = @ + 1 ] ELSE announced
      /\ \/ /\ e \in listening
            /\ wire' = Sending(e, << answer >>, rest)
            /\ UNCHANGED << closing, crossed >>
         \/ /\ closing' = [ closing EXCEPT ![e] = @ \cup { p.id } ]
            /\ wire' = Sending(e, << Packet("close-channel", p.id), answer >>, rest)
            /\ crossed' = crossed \cup { p.id }
      /\ UNCHANGED closedAt

\* Any other packet for an unknown channel is ignored.
ReceiveIgnored(rest) ==
  /\ wire' = rest
  /\ UNCHANGED << channels, closing, announced, closedAt, crossed >>

Receive(e) ==
  /\ e \in Running
  /\ wire[e] # << >>
  /\ LET p == Head(wire[e])
         rest == [ wire EXCEPT ![e] = Tail(@) ]
     IN  \/ p.type = "close-channel" /\ ReceiveClose(e, p.id, rest)
         \/ /\ p.type # "close-channel"
            /\ Live(e, p.id)
            /\ ReceiveKnown(e, p, rest)
         \/ /\ p.type \in { "open-stream", "data" }
            /\ ~Live(e, p.id)
            /\ ReceiveUnknown(e, p, rest)
         \/ /\ p.type \in { "open-stream-ack", "ack" }
            /\ ~Live(e, p.id)
            /\ ReceiveIgnored(rest)
  /\ UNCHANGED << heartbeatVars, listening, open, opener, dataSent >>

\* The heartbeat runs, the link stays.
Heartbeat ==
  /\ HeartbeatStep
  /\ UNCHANGED << listening, open, channelVars >>

\* The muxer of one end closes: finalCleanup destroys every channel.
CleanUp(e) ==
  /\ open' = open \ { e }
  /\ wire' = [ wire EXCEPT ![e] = << >> ]
  /\ channels' = [ channels EXCEPT ![e] = [ id \in Ids |-> "ABSENT" ] ]
  /\ closing' = [ closing EXCEPT ![e] = {} ]
  /\ UNCHANGED << listening, opener, dataSent, announced, closedAt, crossed >>

HeartbeatFails == TimeoutFires /\ CleanUp("A")

LinkClosesAtA == LinkEnds /\ CleanUp("A")

LinkClosesAtB ==
  /\ "B" \in Running
  /\ CleanUp("B")
  /\ UNCHANGED heartbeatVars

Next ==
  \/ \E e \in Ends, id \in Ids : OpenOutgoing(e, id)
  \/ \E e \in Ends, id \in Ids : Send(e, id)
  \/ \E e \in Ends, id \in Ids : Close(e, id)
  \/ \E e \in Ends, id \in Ids : DestroyClosing(e, id)
  \/ \E e \in Ends : Receive(e)
  \/ Heartbeat
  \/ HeartbeatFails
  \/ LinkClosesAtA
  \/ LinkClosesAtB

Spec == Init /\ [][Next]_vars

-------------------------------------------------------------------------------

Statuses == { "ABSENT", "PRE_HANDSHAKE", "ESTABLISHED" }

\* Every variable keeps its type; the muxer is closed with its transport, and
\* only a channel in the map is being closed.
TypeOK ==
  /\ HeartbeatTypeOK
  /\ listening \subseteq Ends
  /\ open \subseteq Ends
  /\ closed <=> "A" \notin open
  /\ channels \in [ Ends -> [ Ids -> Statuses ] ]
  /\ \A e \in Ends : closing[e] \subseteq { id \in Ids : Live(e, id) }
  /\ \A e \in Ends : \A i \in DOMAIN wire[e] : wire[e][i].id \in Ids
  /\ opener \in [ Ids -> Ends \cup { None } ]
  /\ dataSent \in [ Ids -> 0 .. MaxData ]
  /\ announced \in [ Ends -> [ Ids -> Nat ] ]
  /\ closedAt \in [ Ends -> SUBSET Ids ]
  /\ crossed \subseteq Ids

\* An opener that believes the handshake done has a peer that made it: the
\* peer announced the channel, or closed it for want of a handler, or is gone.
EstablishedIsMutual ==
  \A e \in open, id \in Ids :
    /\ channels[e][id] = "ESTABLISHED"
    /\ opener[id] = e
    => \/ Peer(e) \notin open
       \/ announced[Peer(e)][id] >= 1
       \/ Peer(e) \notin listening

\* The incoming-stream handler is called when the remote peer initiates a new
\* channel (transport/src/transport.ts, onIncomingStreamChannel): at the end that
\* did not open it, and once, unless data may arrive after a close.
AnnouncedOnce ==
  \A e \in Ends, id \in Ids :
    /\ opener[id] # Peer(e) => announced[e][id] = 0
    /\ id \notin crossed => announced[e][id] <= 1

\* A channel that was closed at an end does not come back there: never at the end
\* that opened it, and at the other unless data may arrive after a close.
ClosedStaysClosed ==
  \A e \in Ends : \A id \in closedAt[e] :
    opener[id] = e \/ id \notin crossed => ~Live(e, id)

\* A channel lives once: both ends are in it, it is announced once, and it does
\* not come back; what data that crosses a close can undo of this, and nothing
\* else, is left to it.
LivesOnce == TypeOK /\ EstablishedIsMutual /\ AnnouncedOnce /\ ClosedStaysClosed

\* Once either end closed a channel, the end that opened it loses it, and so does
\* the other, unless data under way makes another channel of the same identifier
\* there, for which the handler is called again (transport.ts, handlePacket); or
\* the link is given up, which the heartbeat sees to when the peer is silent.
CloseReachesBoth ==
  \A id \in Ids :
    (\E e \in Ends : id \in closing[e])
      ~> \/ open # Ends
         \/ \A e \in Ends : channels[e][id] = "ABSENT"
         \/ /\ channels[opener[id]][id] = "ABSENT"
            /\ announced[Peer(opener[id])][id] > 1

===============================================================================
