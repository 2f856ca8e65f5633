---------------------------- MODULE MuxenReceiver ----------------------------
(***************************************************************************)
(* The receiving half of one multiplexed channel: ChannelReceiver of       *)
(* packages/muxen/src/receiver.ts.  Out-of-order packets wait in a         *)
(* circular buffer; the contiguous run that starts at nextReceiveSeq is    *)
(* handed to the application inside the call that completes it.            *)
(***************************************************************************)
EXTENDS Naturals, Sequences

CONSTANTS
  BufferSize,   \* options.receiveBufferSize (128 by default)
  NoPacket      \* the null of an empty slot

ASSUME ReceiverAssumption ==
  /\ BufferSize \in Nat \ {0}

VARIABLES
  nextReceiveSeq,  \* the sequence number expected next
  receiveSlots,    \* the circular buffer
  delivered        \* history: the payloads dispatched to the application

receiverVars == << nextReceiveSeq, receiveSlots, delivered >>

Slots == 0 .. (BufferSize - 1)

SlotOf(seq) == seq % BufferSize

ReceiverInit ==
  /\ nextReceiveSeq = 0
  /\ receiveSlots = [ i \in Slots |-> NoPacket ]
  /\ delivered = << >>

\* The slot of seq is filled, and with the packet numbered seq.
Holds(slots, seq) ==
  /\ slots[SlotOf(seq)] # NoPacket
  /\ slots[SlotOf(seq)].seq = seq

\* Mutants: no test for obsolete packets; a window one packet short.
InWindowNoLowerBound(seq) == seq < nextReceiveSeq + BufferSize

InWindowShort(seq) == nextReceiveSeq <= seq /\ seq + 1 < nextReceiveSeq + BufferSize

InWindow(seq) == nextReceiveSeq <= seq /\ seq < nextReceiveSeq + BufferSize

Accepts(p) == InWindow(p.seq) /\ receiveSlots[SlotOf(p.seq)] = NoPacket

(***************************************************************************)
(* _slideWindowAndProcess on the buffer slots: stop is where its loop      *)
(* breaks, which is a full turn later at most because every slot it passes *)
(* is cleared.                                                             *)
(***************************************************************************)
SlideTo(slots, stop) ==
  /\ \A seq \in nextReceiveSeq .. (stop - 1) : Holds(slots, seq)
  /\ stop < nextReceiveSeq + BufferSize => ~Holds(slots, stop)
  /\ nextReceiveSeq' = stop
  /\ receiveSlots' =
       [ i \in Slots |->
           IF \E seq \in nextReceiveSeq .. (stop - 1) : i = SlotOf(seq)
           THEN NoPacket ELSE slots[i] ]
  /\ delivered' =
       delivered \o
         [ k \in 1 .. (stop - nextReceiveSeq) |->
             slots[SlotOf(nextReceiveSeq + k - 1)].payload ]

SlideWindowAndProcess(slots) ==
  \E stop \in nextReceiveSeq .. (nextReceiveSeq + BufferSize) : SlideTo(slots, stop)

\* Mutant: packets are dispatched as they arrive, gaps are skipped.
HandleDataPacketOnArrival(p) ==
  IF p.seq >= nextReceiveSeq
  THEN /\ nextReceiveSeq' = p.seq + 1
       /\ delivered' = Append(delivered, p.payload)
       /\ UNCHANGED receiveSlots
  ELSE UNCHANGED receiverVars

\* handleDataPacket after its unconditional ACK: obsolete packets, packets
\* beyond the window and packets whose slot is taken are discarded.
HandleDataPacket(p) ==
  IF Accepts(p)
  THEN SlideWindowAndProcess([ receiveSlots EXCEPT ![SlotOf(p.seq)] = p ])
  ELSE UNCHANGED receiverVars

=============================================================================
