------------------------- MODULE MuxenOrderedChannel -------------------------
(***************************************************************************)
(* The channel of MuxenChannel over the links the repository ships: the    *)
(* in-process MemoryLink of packages/muxen-mem/src/link.ts and Electron's  *)
(* inter-process links of packages/elep/src/transport, which neither lose  *)
(* nor reorder.  Retransmission still happens there, when an ack takes     *)
(* longer than ackTimeout, so the receiver does see duplicates.            *)
(***************************************************************************)
EXTENDS MuxenSender, MuxenReceiver

CONSTANT MaxInFlight   \* bound: no retransmission while as many packets are under way

\* A null is no packet.
ASSUME NullAssumption == NoPacket \notin [ type : { "data" }, seq : Nat, payload : Calls ]

VARIABLES
  peer,   \* B's end: "ABSENT", "PRE_HANDSHAKE" or "ESTABLISHED"
  toB,    \* packets under way from A to B, oldest first
  toA     \* packets under way from B to A

orderedVars == << senderVars, receiverVars, peer, toB, toA >>

OpenStream == [ type |-> "open-stream" ]
OpenStreamAck == [ type |-> "open-stream-ack" ]
AckPacket(seq) == [ type |-> "ack", ackSeq |-> seq ]

OrderedInit ==
  /\ SenderInit
  /\ ReceiverInit
  /\ peer = "ABSENT"
  /\ toB = << OpenStream >>
  /\ toA = << >>

CallSend(c) ==
  /\ \/ SendRejected(c) /\ UNCHANGED toB
     \/ SendNow(c) /\ toB' = Append(toB, DataPacket(nextSendSeq, c))
     \/ SendParks(c) /\ UNCHANGED toB
  /\ UNCHANGED << receiverVars, peer, toA >>

Resume ==
  /\ \/ ResumeSends /\ toB' = Append(toB, DataPacket(nextSendSeq, Head(woken)))
     \/ ResumeParks /\ UNCHANGED toB
  /\ UNCHANGED << receiverVars, peer, toA >>

AckTimeout(seq) ==
  /\ Len(toB) + Len(toA) < MaxInFlight
  /\ Retransmit(seq)
  /\ toB' = Append(toB, DataPacket(seq, sentLog[seq + 1]))
  /\ UNCHANGED << receiverVars, peer, toA >>

\* handlePacket at B.
ReceiveAtB ==
  /\ toB # << >>
  /\ toB' = Tail(toB)
  /\ LET p == Head(toB) IN
       \/ /\ p.type = "open-stream"
          /\ IF peer = "ABSENT"
             THEN peer' = "ESTABLISHED" /\ toA' = Append(toA, OpenStreamAck)
             ELSE UNCHANGED << peer, toA >>
          /\ UNCHANGED receiverVars
       \/ /\ p.type = "data"
          /\ peer' = IF peer = "ABSENT" THEN "PRE_HANDSHAKE" ELSE peer
          /\ HandleDataPacket(p)
          /\ toA' = Append(toA, AckPacket(p.seq))
  /\ UNCHANGED senderVars

\* handlePacket at A, for the channel it opened.
ReceiveAtA ==
  /\ toA # << >>
  /\ toA' = Tail(toA)
  /\ LET p == Head(toA) IN
       \/ p.type = "open-stream-ack" /\ Establish
       \/ p.type = "ack" /\ HandleAck(p.ackSeq)
  /\ UNCHANGED << receiverVars, peer, toB >>

LinkCloses ==
  /\ DestroySender
  /\ toB' = << >>
  /\ toA' = << >>
  /\ UNCHANGED << receiverVars, peer >>

OrderedNext ==
  \/ \E c \in Calls : CallSend(c)
  \/ Resume
  \/ \E seq \in unacked : AckTimeout(seq)
  \/ ReceiveAtB
  \/ ReceiveAtA
  \/ LinkCloses

OrderedSpec == OrderedInit /\ [][OrderedNext]_orderedVars

-------------------------------------------------------------------------------

\* Every variable keeps its type; packets go the right way.
OrderedTypeOK ==
  /\ status \in { "PRE_HANDSHAKE", "ESTABLISHED" }
  /\ destroyed \in BOOLEAN
  /\ isReady \in BOOLEAN
  /\ sentLog \in Seq(Calls)
  /\ parked \in Seq(Calls)
  /\ woken \in Seq(Calls)
  /\ rejected \subseteq Calls
  /\ unacked \subseteq 0 .. (nextSendSeq - 1)
  /\ nextReceiveSeq \in 0 .. nextSendSeq
  /\ DOMAIN receiveSlots = Slots
  /\ delivered \in Seq(Calls)
  /\ peer \in { "ABSENT", "PRE_HANDSHAKE", "ESTABLISHED" }
  /\ \A i \in DOMAIN toB : toB[i].type \in { "open-stream", "data" }
  /\ \A i \in DOMAIN toA : toA[i].type \in { "open-stream-ack", "ack" }

\* Over an ordered link nothing waits in the receive buffer, and so nothing is
\* discarded for lack of room in it, whatever the sizes of the two windows and
\* however many packets the timers duplicate.
NothingBuffered == \A i \in Slots : receiveSlots[i] = NoPacket

\* A packet that is no longer kept for retransmission has been delivered.
AckedIsDelivered ==
  ~destroyed =>
    \A seq \in 0 .. (nextSendSeq - 1) : seq \in unacked \/ seq < nextReceiveSeq

\* Over the ordered links the repository ships, acknowledging a packet before
\* the window test (receiver.ts, handleDataPacket) loses nothing.
AckIsSafe == OrderedTypeOK /\ NothingBuffered /\ AckedIsDelivered

\* The opener leaves the handshake unless the link closes.
HandshakeCompletes == <>(destroyed \/ status = "ESTABLISHED")

\* Whatever was sent is delivered without waiting for a timer, unless the link closes.
SentIsDelivered ==
  \A c \in Calls :
    c \in RangeOf(sentLog) ~> destroyed \/ c \in RangeOf(delivered)

\* The channel is opened and its traffic arrives.
TrafficArrives == HandshakeCompletes /\ SentIsDelivered

===============================================================================
