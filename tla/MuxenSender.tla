----------------------------- MODULE MuxenSender -----------------------------
(***************************************************************************)
(* The sending half of one multiplexed channel: ChannelSender of           *)
(* packages/muxen/src/sender.ts, with the part of MuxChannelBase           *)
(* (channel.ts) that guards and destroys it.                               *)
(*                                                                         *)
(* A member of Calls stands for one invocation of send() and for the       *)
(* payload it carries.  Timers are not state here: whether a packet has a  *)
(* retransmission timer is whether it is in unackedPackets, and the timer  *)
(* may fire at any moment, so Retransmit is enabled while it is there.     *)
(*                                                                         *)
(* The actions below leave the wire to the module that composes them.      *)
(***************************************************************************)
EXTENDS Naturals, Sequences, FiniteSets

CONSTANTS
  Calls,        \* the invocations of send(); each happens at most once
  SendWindow,   \* options.sendWindowSize (64 by default)
  PreWindow     \* PRE_HANDSHAKE_WINDOW_SIZE (8)

ASSUME SenderAssumption ==
  /\ SendWindow \in Nat \ {0}
  /\ PreWindow \in Nat \ {0}

VARIABLES
  status,     \* "PRE_HANDSHAKE" or "ESTABLISHED"
  destroyed,  \* the channel's isClosed
  sentLog,    \* sentLog[s + 1] is the call whose payload got sequence number s
  unacked,    \* the sequence numbers in unackedPackets
  isReady,    \* the flag send() loops on
  parked,     \* calls awaiting the 'ready' event, in registration order
  woken,      \* calls whose promise 'ready' resolved, not yet resumed
  rejected    \* calls that failed because the channel was closed

senderVars ==
  << status, destroyed, sentLog, unacked, isReady, parked, woken, rejected >>

(***************************************************************************)
(* Derived state.                                                          *)
(***************************************************************************)
nextSendSeq == Len(sentLog)

RangeOf(s) == { s[i] : i \in DOMAIN s }

Pending == RangeOf(parked) \cup RangeOf(woken)

Called == Pending \cup RangeOf(sentLog) \cup rejected

DataPacket(seq, payload) == [ type |-> "data", seq |-> seq, payload |-> payload ]

WindowSize == IF status = "PRE_HANDSHAKE" THEN PreWindow ELSE SendWindow

HasWindowSpace(u) == Cardinality(u) < WindowSize

SenderInit ==
  /\ status = "PRE_HANDSHAKE"
  /\ destroyed = FALSE
  /\ sentLog = << >>
  /\ unacked = {}
  /\ isReady = TRUE
  /\ parked = << >>
  /\ woken = << >>
  /\ rejected = {}

(***************************************************************************)
(* The tail of send(): take the next sequence number, remember the packet  *)
(* as unacknowledged, refresh isReady.  isReady holds here, so             *)
(* _updateReadyState cannot emit.                                          *)
(***************************************************************************)
Transmit(c) ==
  /\ sentLog' = Append(sentLog, c)
  /\ unacked' = unacked \cup { nextSendSeq }
  /\ isReady' = HasWindowSpace(unacked')

\* send() on a closed channel rejects without reaching the sender.
SendRejected(c) ==
  /\ destroyed
  /\ c \notin Called
  /\ rejected' = rejected \cup { c }
  /\ UNCHANGED << status, destroyed, sentLog, unacked, isReady, parked, woken >>

\* send() finds the window open and transmits before it returns.
SendNow(c) ==
  /\ ~destroyed
  /\ c \notin Called
  /\ isReady
  /\ Transmit(c)
  /\ UNCHANGED << status, destroyed, parked, woken, rejected >>

\* send() finds the window full and awaits 'ready'.
SendParks(c) ==
  /\ ~destroyed
  /\ c \notin Called
  /\ ~isReady
  /\ parked' = Append(parked, c)
  /\ UNCHANGED << status, destroyed, sentLog, unacked, isReady, woken, rejected >>

(***************************************************************************)
(* A resolved waiter runs as a microtask: the loop tests isReady again,    *)
(* and nothing tests whether the channel was destroyed meanwhile.          *)
(***************************************************************************)
ResumeSends ==
  /\ woken # << >>
  /\ isReady
  /\ Transmit(Head(woken))
  /\ woken' = Tail(woken)
  /\ UNCHANGED << status, destroyed, parked, rejected >>

ResumeParks ==
  /\ woken # << >>
  /\ ~isReady
  /\ parked' = Append(parked, Head(woken))
  /\ woken' = Tail(woken)
  /\ UNCHANGED << status, destroyed, sentLog, unacked, isReady, rejected >>

\* emit('ready') resolves every waiter registered with once(), in order.
EmitReady ==
  /\ woken' = woken \o parked
  /\ parked' = << >>

\* Mutant: handleAck refreshes the flag and wakes nobody.
HandleAckSilently(seq) ==
  /\ ~destroyed
  /\ unacked' = unacked \ { seq }
  /\ isReady' = HasWindowSpace(unacked')
  /\ UNCHANGED << status, destroyed, sentLog, parked, woken, rejected >>

HandleAck(seq) ==
  /\ ~destroyed
  /\ unacked' = unacked \ { seq }
  /\ IF seq \in unacked
     THEN /\ isReady' = HasWindowSpace(unacked')
          /\ IF isReady' /\ ~isReady THEN EmitReady ELSE UNCHANGED << parked, woken >>
     ELSE UNCHANGED << isReady, parked, woken >>
  /\ UNCHANGED << status, destroyed, sentLog, rejected >>

\* Mutant: only an established channel retransmits.
RetransmitEstablished(seq) ==
  /\ seq \in unacked
  /\ status = "ESTABLISHED"
  /\ UNCHANGED senderVars

\* _resendPacket of a packet still unacknowledged; the new timer replaces the old.
Retransmit(seq) ==
  /\ seq \in unacked
  /\ UNCHANGED senderVars

\* Mutant: the acknowledgment of the handshake is dropped.
EstablishIgnored ==
  /\ ~destroyed
  /\ UNCHANGED senderVars

\* 'open-stream-ack': the window may grow, but isReady is not refreshed.
Establish ==
  /\ ~destroyed
  /\ status' = "ESTABLISHED"
  /\ UNCHANGED << destroyed, sentLog, unacked, isReady, parked, woken, rejected >>

\* MuxChannelBase.destroy and ChannelSender.destroy.
DestroySender ==
  /\ ~destroyed
  /\ destroyed' = TRUE
  /\ unacked' = {}
  /\ isReady' = FALSE
  /\ EmitReady
  /\ UNCHANGED << status, sentLog, rejected >>

=============================================================================
