----------------------------- MODULE MuxenChannel -----------------------------
(***************************************************************************)
(* One stream channel of a DuplexTransport (packages/muxen/src), from its  *)
(* opener A to the peer B, over a Link that may lose, duplicate and        *)
(* reorder packets: the kind of link the retransmission and resequencing   *)
(* of sender.ts and receiver.ts are written for.  MuxenOrderedChannel      *)
(* composes the same two halves over an ordered, lossless link.            *)
(*                                                                         *)
(* The handshake is the one of transport.ts and channel.ts: A sends        *)
(* open-stream when it creates the channel; B creates its end on the first *)
(* open-stream or data packet, and answers only an open-stream that        *)
(* creates it.  The link may close at any moment.                          *)
(***************************************************************************)
EXTENDS MuxenSender, MuxenReceiver

VARIABLES
  peer,   \* B's end: "ABSENT", "PRE_HANDSHAKE" or "ESTABLISHED"
  wire    \* the packets in flight, either way

vars == << senderVars, receiverVars, peer, wire >>

OpenStream == [ type |-> "open-stream" ]
OpenStreamAck == [ type |-> "open-stream-ack" ]
AckPacket(seq) == [ type |-> "ack", ackSeq |-> seq ]

\* openOutgoingStreamChannel has put open-stream on the wire.
Init ==
  /\ SenderInit
  /\ ReceiverInit
  /\ peer = "ABSENT"
  /\ wire = { OpenStream }

\* What is left of the wire once p was received; the link may duplicate p.
AfterReceiving(p, duplicated) == IF duplicated THEN wire ELSE wire \ { p }

Send(c) ==
  /\ \/ SendRejected(c) /\ UNCHANGED wire
     \/ SendNow(c) /\ wire' = wire \cup { DataPacket(nextSendSeq, c) }
     \/ SendParks(c) /\ UNCHANGED wire
  /\ UNCHANGED << receiverVars, peer >>

\* muxer.sendPacket on a closed link only rejects, so nothing reaches the wire.
Resume ==
  /\ \/ ResumeSends /\ wire' = wire \cup { DataPacket(nextSendSeq, Head(woken)) }
     \/ ResumeParks /\ UNCHANGED wire
  /\ UNCHANGED << receiverVars, peer >>

AckTimeout(seq) ==
  /\ Retransmit(seq)
  /\ wire' = wire \cup { DataPacket(seq, sentLog[seq + 1]) }
  /\ UNCHANGED << receiverVars, peer >>

\* handlePacket at B for 'open-stream': only a new channel answers.
ReceiveOpenStream(duplicated) ==
  /\ OpenStream \in wire
  /\ IF peer = "ABSENT"
     THEN /\ peer' = "ESTABLISHED"
          /\ wire' = AfterReceiving(OpenStream, duplicated) \cup { OpenStreamAck }
     ELSE /\ wire' = AfterReceiving(OpenStream, duplicated)
          /\ UNCHANGED peer
  /\ UNCHANGED << senderVars, receiverVars >>

\* handlePacket at B for 'data': an unknown channel is created without a
\* handshake, and every packet is acknowledged before it is looked at.
ReceiveData(p, duplicated) ==
  /\ p \in wire
  /\ p.type = "data"
  /\ peer' = IF peer = "ABSENT" THEN "PRE_HANDSHAKE" ELSE peer
  /\ HandleDataPacket(p)
  /\ wire' = AfterReceiving(p, duplicated) \cup { AckPacket(p.seq) }
  /\ UNCHANGED senderVars

ReceiveAck(p, duplicated) ==
  /\ p \in wire
  /\ p.type = "ack"
  /\ HandleAck(p.ackSeq)
  /\ wire' = AfterReceiving(p, duplicated)
  /\ UNCHANGED << receiverVars, peer >>

ReceiveOpenStreamAck(duplicated) ==
  /\ OpenStreamAck \in wire
  /\ Establish
  /\ wire' = AfterReceiving(OpenStreamAck, duplicated)
  /\ UNCHANGED << receiverVars, peer >>

Lose(p) ==
  /\ p \in wire
  /\ wire' = wire \ { p }
  /\ UNCHANGED << senderVars, receiverVars, peer >>

\* The link closes: finalCleanup destroys the channel at both ends.
LinkCloses ==
  /\ DestroySender
  /\ wire' = {}
  /\ UNCHANGED << receiverVars, peer >>

Receive(p, duplicated) ==
  \/ ReceiveData(p, duplicated)
  \/ ReceiveAck(p, duplicated)

ReceiveHandshake(duplicated) ==
  \/ ReceiveOpenStream(duplicated)
  \/ ReceiveOpenStreamAck(duplicated)

Next ==
  \/ \E c \in Calls : Send(c)
  \/ Resume
  \/ \E seq \in unacked : AckTimeout(seq)
  \/ \E p \in wire, duplicated \in BOOLEAN : Receive(p, duplicated)
  \/ \E duplicated \in BOOLEAN : ReceiveHandshake(duplicated)
  \/ \E p \in wire : Lose(p)
  \/ LinkCloses

Spec == Init /\ [][Next]_vars

(***************************************************************************)
(* Fairness.  Microtasks run and timers fire; a link that keeps being sent *)
(* a packet does not lose every copy of it (SF: Lose may disable the       *)
(* reception over and over).  Nothing is assumed of the callers or of      *)
(* LinkCloses.                                                             *)
(***************************************************************************)
Sequences0 == 0 .. (Cardinality(Calls) - 1)

ReceiveDataNumbered(seq) ==
  \E p \in wire : p.type = "data" /\ p.seq = seq /\ ReceiveData(p, FALSE)

Fairness ==
  /\ WF_vars(Resume)
  /\ \A seq \in Sequences0 :
       /\ WF_vars(AckTimeout(seq))
       /\ SF_vars(ReceiveDataNumbered(seq))
       /\ SF_vars(ReceiveAck(AckPacket(seq), FALSE))

FairSpec == Spec /\ Fairness

-------------------------------------------------------------------------------

Packets ==
  { OpenStream, OpenStreamAck }
    \cup [ type : { "data" }, seq : Nat, payload : Calls ]
    \cup [ type : { "ack" }, ackSeq : Nat ]

\* Every variable keeps its type, and sequence numbers are ones A has issued.
TypeOK ==
  /\ status \in { "PRE_HANDSHAKE", "ESTABLISHED" }
  /\ destroyed \in BOOLEAN
  /\ isReady \in BOOLEAN
  /\ sentLog \in Seq(Calls)
  /\ parked \in Seq(Calls)
  /\ woken \in Seq(Calls)
  /\ rejected \subseteq Calls
  /\ unacked \subseteq 0 .. (nextSendSeq - 1)
  /\ nextReceiveSeq \in Nat
  /\ receiveSlots \in [ Slots -> Packets \cup { NoPacket } ]
  /\ delivered \in Seq(Calls)
  /\ peer \in { "ABSENT", "PRE_HANDSHAKE", "ESTABLISHED" }
  /\ wire \subseteq Packets

\* The data packets anywhere in the system carry what send() was given.
IsSent(p) ==
  /\ p.seq \in 0 .. (nextSendSeq - 1)
  /\ p.payload = sentLog[p.seq + 1]

\* Whatever the link does to the packets, the receiving application has been
\* given the first nextReceiveSeq payloads sent, each once and in sequence
\* order (receiver.ts, _slideWindowAndProcess).
DeliveredIsPrefix ==
  /\ Len(delivered) = nextReceiveSeq
  /\ nextReceiveSeq <= nextSendSeq
  /\ \A i \in 1 .. nextReceiveSeq : delivered[i] = sentLog[i]

\* A filled slot belongs to a packet still to come within the window, and the
\* slot of nextReceiveSeq is empty between two packets.  So what receiver.ts
\* calls a slot collision is a duplicate, never a lost packet.
SlotsInWindow ==
  \A i \in Slots :
    receiveSlots[i] # NoPacket =>
      LET seq == receiveSlots[i].seq
      IN  /\ SlotOf(seq) = i
          /\ nextReceiveSeq < seq
          /\ seq < nextReceiveSeq + BufferSize

\* Backpressure: the unacknowledged packets never exceed the larger window,
\* although several sends may be resumed by one 'ready'.
WindowBound ==
  \/ Cardinality(unacked) <= SendWindow
  \/ Cardinality(unacked) <= PreWindow

\* Both windows hold: nothing is discarded for another packet's sake, and
\* nothing is sent beyond the limit.
WindowsHold == TypeOK /\ SlotsInWindow /\ WindowBound

\* A send is left waiting for 'ready' only while some packet is unacknowledged,
\* so that a timer and an ack are still due that will emit it (sender.ts,
\* the loop of send() against handleAck).
NoLostWakeup ==
  parked # << >> /\ ~destroyed => ~isReady /\ unacked # {}

\* The channel implements the FIFO channel it promises.
Fifo == INSTANCE FifoChannel WITH accepted <- sentLog, received <- delivered
ImplementsFifo == Fifo!FifoSpec

\* A packet that is no longer kept for retransmission has been delivered or
\* waits in the receive buffer.
AckedIsKept ==
  ~destroyed =>
    \A seq \in 0 .. (nextSendSeq - 1) :
      seq \in unacked \/ seq < nextReceiveSeq \/ Holds(receiveSlots, seq)

\* A payload that was sent is delivered unless the channel is destroyed, or the
\* receiver acknowledged a packet that it discarded.
SentIsDelivered ==
  \A c \in Calls :
    c \in RangeOf(sentLog) ~> destroyed \/ c \in RangeOf(delivered) \/ ~AckedIsKept

-------------------------------------------------------------------------------
(* What the documents say and the code does not do.                        *)

\* muxen/README.md: every data packet is delivered exactly once, and lost
\* packets are retransmitted.  The send window counts unacknowledged packets
\* and not their span, so that selective acks let the sender run ahead of the
\* receive window, where packets are acknowledged and discarded.
AckedPacketsAreKept == AckedIsKept

===============================================================================
