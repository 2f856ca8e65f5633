-------------------------- MODULE MuxenChannelProofs --------------------------
(***************************************************************************)
(* Proofs about MuxenChannel, for every set of calls, all window and       *)
(* buffer sizes, and a link that loses, duplicates and reorders at will.   *)
(***************************************************************************)
EXTENDS MuxenChannel, FiniteSetTheorems, TLAPS

(***************************************************************************)
(* The inductive invariant, part by part.                                  *)
(***************************************************************************)

\* Data packets under way and in the buffer carry what was sent under their number.
WireIsSent == \A p \in wire : p.type = "data" => IsSent(p)

SlotsAreSent == \A i \in Slots : receiveSlots[i] # NoPacket => IsSent(receiveSlots[i])

NoRepetition(s) == \A i, j \in DOMAIN s : s[i] = s[j] => i = j

Disjoint(S, T) == \A x \in S : x \notin T

\* A call is in one place: parked, woken or transmitted, and there once.
CallsOnce ==
  /\ NoRepetition(parked)
  /\ NoRepetition(woken)
  /\ NoRepetition(sentLog)
  /\ Disjoint(RangeOf(parked), RangeOf(woken))
  /\ Disjoint(RangeOf(parked), RangeOf(sentLog))
  /\ Disjoint(RangeOf(woken), RangeOf(sentLog))

\* isReady is up only below the window, and down only above an empty one.
ReadyIsRoom ==
  /\ isReady =>
       \/ Cardinality(unacked) < SendWindow
       \/ Cardinality(unacked) < PreWindow
  /\ ~isReady /\ ~destroyed => unacked # {}
  /\ parked # << >> => ~isReady

ReceiverInv == SlotsAreSent /\ SlotsInWindow /\ DeliveredIsPrefix

SenderInv == CallsOnce /\ ReadyIsRoom /\ WindowBound

IInv == TypeOK /\ WireIsSent /\ ReceiverInv /\ SenderInv

-------------------------------------------------------------------------------
(* Sequences and their ranges.                                             *)

\* Appending adds one element to the range and repeats nothing new to it.
LEMMA AppendRange ==
  ASSUME NEW S, NEW s \in Seq(S), NEW x \in S
  PROVE  /\ Append(s, x) \in Seq(S)
         /\ Len(Append(s, x)) = Len(s) + 1
         /\ RangeOf(Append(s, x)) = RangeOf(s) \cup { x }
         /\ NoRepetition(s) /\ x \notin RangeOf(s) => NoRepetition(Append(s, x))
<1> DEFINE t == Append(s, x)
<1>1. /\ t \in Seq(S)
      /\ Len(t) = Len(s) + 1
      /\ DOMAIN t = 1 .. (Len(s) + 1)
      /\ \A i \in 1 .. Len(s) : t[i] = s[i]
      /\ t[Len(s) + 1] = x
  OBVIOUS
<1>2. DOMAIN s = 1 .. Len(s) /\ Len(s) \in Nat  OBVIOUS
<1> HIDE DEF t
<1>3. RangeOf(t) = RangeOf(s) \cup { x }
  <2>1. ASSUME NEW y \in RangeOf(t)  PROVE y \in RangeOf(s) \cup { x }
    <3>1. PICK i \in 1 .. (Len(s) + 1) : y = t[i]  BY <1>1 DEF RangeOf
    <3>2. CASE i = Len(s) + 1  BY <1>1, <3>1, <3>2
    <3>3. CASE i \in 1 .. Len(s)  BY <1>1, <1>2, <3>1, <3>3 DEF RangeOf
    <3> QED BY <3>1, <3>2, <3>3, <1>2
  <2>2. ASSUME NEW y \in RangeOf(s)  PROVE y \in RangeOf(t)
    <3>1. PICK i \in 1 .. Len(s) : y = s[i]  BY <1>2 DEF RangeOf
    <3>2. i \in 1 .. (Len(s) + 1) /\ t[i] = y  BY <1>1, <1>2, <3>1
    <3> QED BY <1>1, <3>2 DEF RangeOf
  <2>3. x \in RangeOf(t)
    <3>1. Len(s) + 1 \in 1 .. (Len(s) + 1)  BY <1>2
    <3> QED BY <1>1, <3>1 DEF RangeOf
  <2> QED BY <2>1, <2>2, <2>3
<1>4. ASSUME NoRepetition(s), x \notin RangeOf(s)  PROVE NoRepetition(t)
  <2>1. ASSUME NEW i \in 1 .. (Len(s) + 1), NEW j \in 1 .. (Len(s) + 1), t[i] = t[j]
        PROVE  i = j
    <3>1. \A k \in 1 .. Len(s) : s[k] # x  BY <1>2, <1>4 DEF RangeOf
    <3>2. CASE i \in 1 .. Len(s) /\ j \in 1 .. Len(s)  BY <1>1, <1>2, <1>4, <2>1, <3>2 DEF NoRepetition
    <3>3. CASE i = Len(s) + 1 \/ j = Len(s) + 1  BY <1>1, <1>2, <2>1, <3>1, <3>3
    <3> QED BY <1>2, <3>2, <3>3
  <2> QED BY <1>1, <2>1 DEF NoRepetition
<1> QED BY <1>1, <1>3, <1>4 DEF t

\* The head leaves the range of what it heads, if nothing repeats.
LEMMA TailRange ==
  ASSUME NEW S, NEW s \in Seq(S), s # << >>
  PROVE  /\ Head(s) \in S
         /\ Tail(s) \in Seq(S)
         /\ RangeOf(s) = RangeOf(Tail(s)) \cup { Head(s) }
         /\ NoRepetition(s) =>
              NoRepetition(Tail(s)) /\ Head(s) \notin RangeOf(Tail(s))
<1> DEFINE t == Tail(s)
<1>1. /\ t \in Seq(S)
      /\ Head(s) \in S
      /\ Head(s) = s[1]
      /\ DOMAIN t = 1 .. (Len(s) - 1)
      /\ \A i \in 1 .. (Len(s) - 1) : t[i] = s[i + 1]
  OBVIOUS
<1>2. DOMAIN s = 1 .. Len(s) /\ Len(s) \in Nat /\ Len(s) >= 1  OBVIOUS
<1> HIDE DEF t
<1>3. RangeOf(s) = RangeOf(t) \cup { Head(s) }
  <2>1. ASSUME NEW y \in RangeOf(s)  PROVE y \in RangeOf(t) \cup { Head(s) }
    <3>1. PICK i \in 1 .. Len(s) : y = s[i]  BY <1>2 DEF RangeOf
    <3>2. CASE i = 1  BY <1>1, <3>1, <3>2
    <3>3. CASE i # 1
      <4>1. i - 1 \in 1 .. (Len(s) - 1) /\ t[i - 1] = y  BY <1>1, <1>2, <3>1, <3>3
      <4> QED BY <1>1, <4>1 DEF RangeOf
    <3> QED BY <3>2, <3>3
  <2>2. ASSUME NEW y \in RangeOf(t)  PROVE y \in RangeOf(s)
    <3>1. PICK i \in 1 .. (Len(s) - 1) : y = t[i]  BY <1>1 DEF RangeOf
    <3>2. i + 1 \in 1 .. Len(s) /\ s[i + 1] = y  BY <1>1, <1>2, <3>1
    <3> QED BY <1>2, <3>2 DEF RangeOf
  <2>3. Head(s) \in RangeOf(s)  BY <1>1, <1>2 DEF RangeOf
  <2> QED BY <2>1, <2>2, <2>3
<1>4. ASSUME NoRepetition(s)  PROVE NoRepetition(t) /\ Head(s) \notin RangeOf(t)
  <2>1. ASSUME NEW i \in 1 .. (Len(s) - 1), NEW j \in 1 .. (Len(s) - 1), t[i] = t[j]
        PROVE  i = j
    <3>1. s[i + 1] = s[j + 1] /\ i + 1 \in 1 .. Len(s) /\ j + 1 \in 1 .. Len(s)  BY <1>1, <1>2, <2>1
    <3>2. i + 1 = j + 1  BY <1>2, <1>4, <3>1 DEF NoRepetition
    <3> QED BY <3>2, <1>2
  <2>2. ASSUME NEW i \in 1 .. (Len(s) - 1)  PROVE t[i] # Head(s)
    <3>1. i + 1 \in 1 .. Len(s) /\ i + 1 # 1 /\ 1 \in 1 .. Len(s)  BY <1>2
    <3> QED BY <1>1, <1>2, <1>4, <3>1 DEF NoRepetition
  <2> QED BY <1>1, <2>1, <2>2 DEF NoRepetition, RangeOf
<1> QED BY <1>1, <1>3, <1>4 DEF t

\* Concatenation unites the ranges, and repeats nothing when they are disjoint.
LEMMA ConcatRange ==
  ASSUME NEW S, NEW s \in Seq(S), NEW t \in Seq(S)
  PROVE  /\ s \o t \in Seq(S)
         /\ Len(s \o t) = Len(s) + Len(t)
         /\ RangeOf(s \o t) = RangeOf(s) \cup RangeOf(t)
         /\ NoRepetition(s) /\ NoRepetition(t) /\ Disjoint(RangeOf(t), RangeOf(s))
              => NoRepetition(s \o t)
<1> DEFINE u == s \o t
<1>1. /\ u \in Seq(S)
      /\ Len(u) = Len(s) + Len(t)
      /\ DOMAIN u = 1 .. (Len(s) + Len(t))
      /\ \A i \in 1 .. (Len(s) + Len(t)) :
           u[i] = IF i <= Len(s) THEN s[i] ELSE t[i - Len(s)]
  OBVIOUS
<1>2. /\ DOMAIN s = 1 .. Len(s) /\ Len(s) \in Nat
      /\ DOMAIN t = 1 .. Len(t) /\ Len(t) \in Nat
  OBVIOUS
<1> HIDE DEF u
<1>3. ASSUME NEW i \in 1 .. (Len(s) + Len(t))
      PROVE  \/ i \in 1 .. Len(s) /\ u[i] = s[i] /\ u[i] \in RangeOf(s)
             \/ i - Len(s) \in 1 .. Len(t) /\ u[i] = t[i - Len(s)] /\ u[i] \in RangeOf(t)
  <2>1. CASE i <= Len(s)
    <3>1. i \in 1 .. Len(s) /\ u[i] = s[i]  BY <1>1, <1>2, <2>1
    <3> QED BY <1>2, <3>1 DEF RangeOf
  <2>2. CASE ~(i <= Len(s))
    <3>1. i - Len(s) \in 1 .. Len(t) /\ u[i] = t[i - Len(s)]  BY <1>1, <1>2, <2>2
    <3> QED BY <1>2, <3>1 DEF RangeOf
  <2> QED BY <2>1, <2>2
<1>4. RangeOf(u) = RangeOf(s) \cup RangeOf(t)
  <2>1. ASSUME NEW y \in RangeOf(u)  PROVE y \in RangeOf(s) \cup RangeOf(t)  BY <1>1, <1>3, <2>1 DEF RangeOf
  <2>2. ASSUME NEW y \in RangeOf(s)  PROVE y \in RangeOf(u)
    <3>1. PICK i \in 1 .. Len(s) : y = s[i]  BY <1>2 DEF RangeOf
    <3>2. i \in 1 .. (Len(s) + Len(t)) /\ u[i] = y  BY <1>1, <1>2, <3>1
    <3> QED BY <1>1, <3>2 DEF RangeOf
  <2>3. ASSUME NEW y \in RangeOf(t)  PROVE y \in RangeOf(u)
    <3>1. PICK i \in 1 .. Len(t) : y = t[i]  BY <1>2 DEF RangeOf
    <3> DEFINE k == i + Len(s)
    <3>2. k \in 1 .. (Len(s) + Len(t)) /\ ~(k <= Len(s)) /\ k - Len(s) = i  BY <1>2, <3>1
    <3> HIDE DEF k
    <3>3. u[k] = t[k - Len(s)]  BY <1>1, <3>2
    <3>4. u[k] = y  BY <3>1, <3>2, <3>3
    <3> QED BY <1>1, <3>2, <3>4 DEF RangeOf
  <2> QED BY <2>1, <2>2, <2>3
<1>5. ASSUME NoRepetition(s), NoRepetition(t), Disjoint(RangeOf(t), RangeOf(s))
      PROVE  NoRepetition(u)
  <2>1. ASSUME NEW i \in 1 .. (Len(s) + Len(t)), NEW j \in 1 .. (Len(s) + Len(t)),
               u[i] = u[j]
        PROVE  i = j
    <3>1. CASE i \in 1 .. Len(s) /\ j \in 1 .. Len(s) /\ u[i] = s[i] /\ u[j] = s[j]
      BY <1>2, <1>5, <2>1, <3>1 DEF NoRepetition
    <3>2. CASE /\ i - Len(s) \in 1 .. Len(t) /\ u[i] = t[i - Len(s)]
               /\ j - Len(s) \in 1 .. Len(t) /\ u[j] = t[j - Len(s)]
      <4>1. i - Len(s) = j - Len(s)  BY <1>2, <1>5, <2>1, <3>2 DEF NoRepetition
      <4> QED BY <4>1, <1>2
    <3>3. CASE u[i] \in RangeOf(s) /\ u[j] \in RangeOf(t)  BY <1>5, <2>1, <3>3 DEF Disjoint
    <3>4. CASE u[j] \in RangeOf(s) /\ u[i] \in RangeOf(t)  BY <1>5, <2>1, <3>4 DEF Disjoint
    <3> QED BY <1>3, <3>1, <3>2, <3>3, <3>4
  <2> QED BY <1>1, <2>1 DEF NoRepetition
<1> QED BY <1>1, <1>4, <1>5 DEF u


\* The first n elements of a sequence, as a sequence.
LEMMA PrefixOf ==
  ASSUME NEW S, NEW s \in Seq(S), NEW n \in 1 .. Len(s)
  PROVE  /\ SubSeq(s, 1, n) \in Seq(S)
         /\ Len(SubSeq(s, 1, n)) = n
         /\ \A i \in 1 .. n : SubSeq(s, 1, n)[i] = s[i]
OBVIOUS

-------------------------------------------------------------------------------
(* The initial state.                                                      *)

\* A channel just opened satisfies the invariant.
LEMMA InitInv == Init => IInv
<1> SUFFICES ASSUME Init  PROVE IInv  OBVIOUS
<1> USE DEF Init, SenderInit, ReceiverInit
<1>1. TypeOK  BY ReceiverAssumption DEF TypeOK, Packets, OpenStream, nextSendSeq, Slots
<1>2. WireIsSent  BY DEF WireIsSent, OpenStream
<1>3. ReceiverInv  BY DEF ReceiverInv, SlotsAreSent, SlotsInWindow, DeliveredIsPrefix, nextSendSeq, Slots
<1>4. CallsOnce  BY DEF CallsOnce, NoRepetition, Disjoint, RangeOf
<1>5. ReadyIsRoom /\ WindowBound  BY FS_EmptySet, SenderAssumption DEF ReadyIsRoom, WindowBound
<1> QED BY <1>1, <1>2, <1>3, <1>4, <1>5 DEF IInv, SenderInv

-------------------------------------------------------------------------------
(* The sender's steps.                                                     *)

\* unackedPackets is finite: it holds numbers below nextSendSeq.
LEMMA UnackedFinite ==
  ASSUME TypeOK
  PROVE  IsFiniteSet(unacked) /\ Cardinality(unacked) \in Nat
<1>1. nextSendSeq \in Nat  BY DEF TypeOK, nextSendSeq
<1>2. IsFiniteSet(0 .. (nextSendSeq - 1))  BY <1>1, FS_Interval
<1>3. IsFiniteSet(unacked)  BY <1>2, FS_Subset DEF TypeOK
<1> QED BY <1>3, FS_CardinalityType

\* The receiver's invariant and the wire's survive a growing log.
LEMMA LogGrows ==
  ASSUME IInv, NEW c \in Calls,
         sentLog' = Append(sentLog, c), UNCHANGED << receiverVars >>
  PROVE  /\ nextSendSeq \in Nat
         /\ nextSendSeq' = nextSendSeq + 1
         /\ \A p : IsSent(p) => IsSent(p)'
         /\ \A n : n = nextSendSeq => IsSent(DataPacket(n, c))'
         /\ ReceiverInv'
<1>1. /\ sentLog \in Seq(Calls)
      /\ nextSendSeq \in Nat
      /\ nextReceiveSeq \in Nat
  BY DEF IInv, TypeOK, nextSendSeq
<1>2. /\ nextSendSeq' = nextSendSeq + 1
      /\ \A i \in 1 .. nextSendSeq : sentLog'[i] = sentLog[i]
      /\ sentLog'[nextSendSeq + 1] = c
  BY <1>1 DEF nextSendSeq
<1>3. ASSUME NEW p, IsSent(p)  PROVE IsSent(p)'
  <2>1. p.seq \in 0 .. (nextSendSeq - 1) /\ p.payload = sentLog[p.seq + 1]  BY <1>3 DEF IsSent
  <2>2. p.seq \in 0 .. (nextSendSeq' - 1) /\ p.seq + 1 \in 1 .. nextSendSeq  BY <1>1, <1>2, <2>1
  <2> QED BY <1>2, <2>1, <2>2 DEF IsSent
<1>4. ASSUME NEW n, n = nextSendSeq  PROVE IsSent(DataPacket(n, c))'
  <2>1. DataPacket(n, c).seq = n /\ DataPacket(n, c).payload = c  BY DEF DataPacket
  <2>2. n \in 0 .. (nextSendSeq' - 1)  BY <1>1, <1>2, <1>4
  <2>3. sentLog'[n + 1] = c  BY <1>2, <1>4
  <2> QED BY <2>1, <2>2, <2>3 DEF IsSent
<1>5. SlotsAreSent'  BY <1>3 DEF IInv, ReceiverInv, SlotsAreSent, receiverVars
<1>6. SlotsInWindow'  BY DEF IInv, ReceiverInv, SlotsInWindow, receiverVars
<1>7. DeliveredIsPrefix'
  <2>1. /\ Len(delivered) = nextReceiveSeq
        /\ nextReceiveSeq <= nextSendSeq
        /\ \A i \in 1 .. nextReceiveSeq : delivered[i] = sentLog[i]
    BY DEF IInv, ReceiverInv, DeliveredIsPrefix
  <2>2. nextReceiveSeq <= nextSendSeq'  BY <1>1, <1>2, <2>1
  <2>3. ASSUME NEW i \in 1 .. nextReceiveSeq  PROVE delivered[i] = sentLog'[i]
    <3>1. i \in 1 .. nextSendSeq  BY <1>1, <2>1
    <3> QED BY <1>2, <2>1, <3>1
  <2> QED BY <2>1, <2>2, <2>3 DEF DeliveredIsPrefix, receiverVars
<1> QED BY <1>1, <1>2, <1>3, <1>4, <1>5, <1>6, <1>7 DEF ReceiverInv

\* What Transmit keeps of the window and of the log.
LEMMA TransmitKeeps ==
  ASSUME IInv, NEW c \in Calls, c \notin RangeOf(sentLog), isReady, Transmit(c),
         UNCHANGED << receiverVars, destroyed >>
  PROVE  /\ sentLog' \in Seq(Calls)
         /\ RangeOf(sentLog') = RangeOf(sentLog) \cup { c }
         /\ NoRepetition(sentLog')
         /\ unacked' \subseteq 0 .. (nextSendSeq' - 1)
         /\ isReady' \in BOOLEAN
         /\ isReady' =>
              \/ Cardinality(unacked') < SendWindow
              \/ Cardinality(unacked') < PreWindow
         /\ unacked' # {}
         /\ WindowBound'
<1> USE DEF IInv
<1>1. nextSendSeq \in Nat /\ nextSendSeq' = nextSendSeq + 1  BY LogGrows DEF Transmit
<1>2. /\ sentLog' \in Seq(Calls)
      /\ RangeOf(sentLog') = RangeOf(sentLog) \cup { c }
      /\ NoRepetition(sentLog')
  BY AppendRange DEF Transmit, TypeOK, SenderInv, CallsOnce
<1>3. unacked' \subseteq 0 .. (nextSendSeq' - 1)  BY <1>1 DEF Transmit, TypeOK
<1>4. isReady' = (Cardinality(unacked') < WindowSize)  BY DEF Transmit, HasWindowSpace
<1>5. WindowSize \in { SendWindow, PreWindow }  BY DEF WindowSize
<1>6. IsFiniteSet(unacked) /\ Cardinality(unacked) \in Nat  BY UnackedFinite
<1>7. /\ IsFiniteSet(unacked')
      /\ Cardinality(unacked') = IF nextSendSeq \in unacked
                                 THEN Cardinality(unacked)
                                 ELSE Cardinality(unacked) + 1
  BY <1>6, FS_AddElement DEF Transmit
<1>8. /\ Cardinality(unacked') \in Nat
      /\ Cardinality(unacked') <= Cardinality(unacked) + 1
  BY <1>6, <1>7
<1>9. WindowBound'
  <2>1. Cardinality(unacked) < SendWindow \/ Cardinality(unacked) < PreWindow  BY DEF SenderInv, ReadyIsRoom
  <2>2. Cardinality(unacked') <= SendWindow \/ Cardinality(unacked') <= PreWindow
    BY <1>6, <1>7, <1>8, <2>1, SenderAssumption
  <2> QED BY <2>2 DEF WindowBound
<1>10. unacked' # {}  BY DEF Transmit
<1>11. isReady' \in BOOLEAN  BY <1>4
<1>12. isReady' =>
         Cardinality(unacked') < SendWindow \/ Cardinality(unacked') < PreWindow
  BY <1>4, <1>5
<1> QED BY <1>2, <1>3, <1>9, <1>10, <1>11, <1>12

\* A step that leaves the log and the receiver alone keeps the receiver's invariant.
LEMMA ReceiverFrame ==
  ASSUME ReceiverInv, UNCHANGED << sentLog, receiverVars >>
  PROVE  ReceiverInv' /\ nextSendSeq' = nextSendSeq /\ \A p : IsSent(p)' <=> IsSent(p)
BY DEF ReceiverInv, SlotsAreSent, SlotsInWindow, DeliveredIsPrefix, IsSent, nextSendSeq,
       receiverVars

\* A step that leaves the sender alone keeps the sender's invariant.
LEMMA SenderFrame ==
  ASSUME SenderInv, UNCHANGED senderVars
  PROVE  SenderInv'
BY DEF SenderInv, CallsOnce, ReadyIsRoom, WindowBound, NoRepetition, senderVars, RangeOf

\* A call of send() is rejected, transmitted or parked; each keeps the invariant.
LEMMA SendInv ==
  ASSUME IInv, NEW c \in Calls, Send(c)
  PROVE  IInv'
<1> USE DEF IInv
<1>1. CASE SendRejected(c) /\ UNCHANGED wire
  <2>1. ReceiverInv' /\ \A p : IsSent(p)' <=> IsSent(p)  BY <1>1, ReceiverFrame DEF Send, SendRejected
  <2>2. TypeOK'  BY <1>1 DEF Send, SendRejected, TypeOK, nextSendSeq, receiverVars
  <2>3. WireIsSent'  BY <1>1, <2>1 DEF WireIsSent
  <2>4. SenderInv'
    BY <1>1 DEF SendRejected, SenderInv, CallsOnce, ReadyIsRoom, WindowBound, NoRepetition, RangeOf
  <2> QED BY <2>1, <2>2, <2>3, <2>4
<1>2. CASE SendNow(c) /\ wire' = wire \cup { DataPacket(nextSendSeq, c) }
  <2>1. /\ Transmit(c) /\ isReady /\ ~destroyed
        /\ UNCHANGED << receiverVars, status, destroyed, parked, woken, rejected, peer >>
        /\ c \notin RangeOf(sentLog) /\ c \notin RangeOf(parked) /\ c \notin RangeOf(woken)
    BY <1>2 DEF Send, SendNow, Called, Pending
  <2>2. /\ nextSendSeq \in Nat
        /\ \A p : IsSent(p) => IsSent(p)'
        /\ \A n : n = nextSendSeq => IsSent(DataPacket(n, c))'
        /\ ReceiverInv'
    BY <2>1, LogGrows DEF Transmit
  <2>3. /\ sentLog' \in Seq(Calls)
        /\ RangeOf(sentLog') = RangeOf(sentLog) \cup { c }
        /\ NoRepetition(sentLog')
        /\ unacked' \subseteq 0 .. (nextSendSeq' - 1)
        /\ isReady' \in BOOLEAN
        /\ isReady' =>
              \/ Cardinality(unacked') < SendWindow
              \/ Cardinality(unacked') < PreWindow
        /\ unacked' # {}
        /\ WindowBound'
    BY <2>1, TransmitKeeps
  <2>4. wire' \subseteq Packets  BY <1>2, <2>2 DEF TypeOK, DataPacket, Packets
  <2>5. TypeOK'  BY <2>1, <2>3, <2>4 DEF TypeOK, receiverVars
  <2>6. WireIsSent'  BY <1>2, <2>2 DEF WireIsSent
  <2>7. parked = << >>  BY <2>1 DEF SenderInv, ReadyIsRoom
  <2>8. CallsOnce'
    <3>1. /\ RangeOf(parked') = RangeOf(parked) /\ NoRepetition(parked')
          /\ RangeOf(woken') = RangeOf(woken) /\ NoRepetition(woken')
      BY <2>1 DEF SenderInv, CallsOnce, NoRepetition, RangeOf
    <3> QED BY <2>1, <2>3, <3>1 DEF SenderInv, CallsOnce, Disjoint
  <2>9. ReadyIsRoom'  BY <2>1, <2>3, <2>7 DEF ReadyIsRoom
  <2> QED BY <2>2, <2>3, <2>5, <2>6, <2>8, <2>9 DEF SenderInv
<1>3. CASE SendParks(c) /\ UNCHANGED wire
  <2>1. ReceiverInv' /\ \A p : IsSent(p)' <=> IsSent(p)  BY <1>3, ReceiverFrame DEF Send, SendParks
  <2>2. /\ parked' \in Seq(Calls)
        /\ RangeOf(parked') = RangeOf(parked) \cup { c }
        /\ c \notin RangeOf(parked) => NoRepetition(parked')
    BY <1>3, AppendRange DEF SendParks, TypeOK, SenderInv, CallsOnce
  <2>3. TypeOK'  BY <1>3, <2>2 DEF Send, SendParks, TypeOK, nextSendSeq, receiverVars
  <2>4. WireIsSent'  BY <1>3, <2>1 DEF WireIsSent
  <2>5. c \notin RangeOf(sentLog) /\ c \notin RangeOf(parked) /\ c \notin RangeOf(woken)
    BY <1>3 DEF SendParks, Called, Pending
  <2>6. CallsOnce'
    <3>1. woken' = woken /\ sentLog' = sentLog  BY <1>3 DEF SendParks
    <3>2. CallsOnce  BY DEF SenderInv
    <3>3. NoRepetition(parked') /\ NoRepetition(woken') /\ NoRepetition(sentLog')
      BY <2>2, <2>5, <3>1, <3>2 DEF CallsOnce
    <3>4. /\ Disjoint(RangeOf(parked'), RangeOf(woken'))
          /\ Disjoint(RangeOf(parked'), RangeOf(sentLog'))
          /\ Disjoint(RangeOf(woken'), RangeOf(sentLog'))
      BY <2>2, <2>5, <3>1, <3>2 DEF CallsOnce, Disjoint
    <3> QED  BY <3>3, <3>4 DEF CallsOnce, NoRepetition, Disjoint, RangeOf
  <2>7. ReadyIsRoom' /\ WindowBound'  BY <1>3 DEF SendParks, SenderInv, ReadyIsRoom, WindowBound
  <2> QED BY <2>1, <2>3, <2>4, <2>6, <2>7 DEF SenderInv
<1> QED BY <1>1, <1>2, <1>3 DEF Send

\* A resumed waiter transmits, or parks again because others filled the window.
LEMMA ResumeInv ==
  ASSUME IInv, Resume
  PROVE  IInv'
<1> USE DEF IInv
<1>0. /\ woken # << >>
      /\ woken \in Seq(Calls)
      /\ NoRepetition(woken)
      /\ woken' = Tail(woken)
  BY DEF Resume, ResumeSends, ResumeParks, TypeOK, SenderInv, CallsOnce
<1>a. PICK c \in Calls : c = Head(woken)  BY <1>0, TailRange
<1>1. /\ woken' \in Seq(Calls)
      /\ RangeOf(woken) = RangeOf(woken') \cup { c }
      /\ NoRepetition(woken')
      /\ c \notin RangeOf(woken')
  BY <1>0, <1>a, TailRange
<1>2. c \notin RangeOf(sentLog) /\ c \notin RangeOf(parked)  BY <1>1 DEF SenderInv, CallsOnce, Disjoint
<1>3. CASE ResumeSends /\ wire' = wire \cup { DataPacket(nextSendSeq, c) }
  <2>1. /\ Transmit(c) /\ isReady
        /\ UNCHANGED << receiverVars, status, destroyed, parked, rejected, peer >>
    BY <1>3, <1>a DEF Resume, ResumeSends
  <2>2. /\ nextSendSeq \in Nat
        /\ \A p : IsSent(p) => IsSent(p)'
        /\ \A n : n = nextSendSeq => IsSent(DataPacket(n, c))'
        /\ ReceiverInv'
    BY <1>1, <2>1, LogGrows DEF Transmit
  <2>3. /\ sentLog' \in Seq(Calls)
        /\ RangeOf(sentLog') = RangeOf(sentLog) \cup { c }
        /\ NoRepetition(sentLog')
        /\ unacked' \subseteq 0 .. (nextSendSeq' - 1)
        /\ isReady' \in BOOLEAN
        /\ isReady' =>
              \/ Cardinality(unacked') < SendWindow
              \/ Cardinality(unacked') < PreWindow
        /\ unacked' # {}
        /\ WindowBound'
    BY <1>1, <1>2, <2>1, TransmitKeeps
  <2>4. wire' \subseteq Packets  BY <1>1, <1>3, <2>2 DEF TypeOK, DataPacket, Packets
  <2>5. TypeOK'  BY <1>1, <2>1, <2>3, <2>4 DEF TypeOK, receiverVars
  <2>6. WireIsSent'
    <3> SUFFICES ASSUME NEW p \in wire', p.type = "data"  PROVE IsSent(p)'  BY DEF WireIsSent
    <3>1. CASE p \in wire  BY <2>2, <3>1 DEF WireIsSent
    <3>2. CASE p = DataPacket(nextSendSeq, c)  BY <2>2, <3>2
    <3> QED BY <1>3, <3>1, <3>2
  <2>7. parked = << >>  BY <2>1 DEF SenderInv, ReadyIsRoom
  <2>8. CallsOnce'
    <3>1. RangeOf(parked') = RangeOf(parked) /\ NoRepetition(parked')
      BY <2>1 DEF SenderInv, CallsOnce, NoRepetition, RangeOf
    <3> QED BY <1>1, <1>2, <2>3, <3>1 DEF SenderInv, CallsOnce, Disjoint
  <2>9. ReadyIsRoom'  BY <2>1, <2>3, <2>7 DEF ReadyIsRoom
  <2> QED BY <2>2, <2>3, <2>5, <2>6, <2>8, <2>9 DEF SenderInv
<1>4. CASE ResumeParks /\ UNCHANGED wire
  <2>1. ReceiverInv' /\ \A p : IsSent(p)' <=> IsSent(p)  BY <1>4, ReceiverFrame DEF Resume, ResumeParks
  <2>2. /\ parked' \in Seq(Calls)
        /\ RangeOf(parked') = RangeOf(parked) \cup { c }
        /\ NoRepetition(parked')
    BY <1>a, <1>1, <1>2, <1>4, AppendRange DEF ResumeParks, TypeOK, SenderInv, CallsOnce
  <2>3. TypeOK'  BY <1>1, <1>4, <2>2 DEF Resume, ResumeParks, TypeOK, nextSendSeq, receiverVars
  <2>4. WireIsSent'  BY <1>4, <2>1 DEF WireIsSent
  <2>5. CallsOnce'
    <3>1. RangeOf(sentLog') = RangeOf(sentLog) /\ NoRepetition(sentLog')
      BY <1>4 DEF ResumeParks, SenderInv, CallsOnce, NoRepetition, RangeOf
    <3> QED BY <1>1, <1>2, <2>2, <3>1 DEF SenderInv, CallsOnce, Disjoint
  <2>6. ReadyIsRoom' /\ WindowBound'  BY <1>4 DEF ResumeParks, SenderInv, ReadyIsRoom, WindowBound
  <2> QED BY <2>1, <2>3, <2>4, <2>5, <2>6 DEF SenderInv
<1> QED BY <1>a, <1>3, <1>4 DEF Resume

\* A retransmitted packet carries what was sent under its number.
LEMMA AckTimeoutInv ==
  ASSUME IInv, NEW seq \in unacked, AckTimeout(seq)
  PROVE  IInv'
<1> USE DEF IInv
<1>1. UNCHANGED << senderVars, receiverVars, peer >>  BY DEF AckTimeout, Retransmit
<1>2. ReceiverInv' /\ \A p : IsSent(p)' <=> IsSent(p)  BY <1>1, ReceiverFrame DEF senderVars
<1>3. SenderInv'  BY <1>1, SenderFrame
<1>4. /\ seq \in 0 .. (nextSendSeq - 1) /\ nextSendSeq \in Nat
      /\ sentLog \in Seq(Calls) /\ nextSendSeq = Len(sentLog)
  BY DEF TypeOK, nextSendSeq
<1>5. sentLog[seq + 1] \in Calls
  <2>1. seq + 1 \in 1 .. Len(sentLog)  BY <1>4
  <2> QED BY <1>4, <2>1
<1>6. PICK c \in Calls : c = sentLog[seq + 1]  BY <1>5
<1>7. DataPacket(seq, c) \in Packets /\ IsSent(DataPacket(seq, c))
  BY <1>4, <1>6 DEF DataPacket, Packets, IsSent
<1>8. wire' = wire \cup { DataPacket(seq, c) }  BY <1>6 DEF AckTimeout
<1>9. TypeOK'  BY <1>1, <1>7, <1>8 DEF TypeOK, nextSendSeq, senderVars, receiverVars
<1>10. WireIsSent'  BY <1>2, <1>7, <1>8 DEF WireIsSent
<1> QED BY <1>2, <1>3, <1>9, <1>10

\* Steps that only move handshake packets, or lose a packet.
LEMMA HandshakeInv ==
  ASSUME IInv, NEW duplicated \in BOOLEAN, ReceiveHandshake(duplicated)
  PROVE  IInv'
<1> USE DEF IInv
<1>1. /\ UNCHANGED << receiverVars, destroyed, sentLog, unacked, isReady, parked, woken, rejected >>
      /\ status' \in { "PRE_HANDSHAKE", "ESTABLISHED" }
      /\ peer' \in { "ABSENT", "PRE_HANDSHAKE", "ESTABLISHED" }
  BY DEF ReceiveHandshake, ReceiveOpenStream, ReceiveOpenStreamAck, Establish, senderVars, TypeOK
<1>2. wire' \subseteq wire \cup { OpenStreamAck }
  BY DEF ReceiveHandshake, ReceiveOpenStream, ReceiveOpenStreamAck, AfterReceiving
<1>3. ReceiverInv' /\ \A p : IsSent(p)' <=> IsSent(p)  BY <1>1, ReceiverFrame
<1>4. wire' \subseteq Packets  BY <1>2 DEF TypeOK, Packets
<1>5. TypeOK'  BY <1>1, <1>4 DEF TypeOK, nextSendSeq, receiverVars
<1>6. WireIsSent'  BY <1>2, <1>3 DEF WireIsSent, OpenStreamAck
<1>7. SenderInv'  BY <1>1 DEF SenderInv, CallsOnce, ReadyIsRoom, WindowBound, NoRepetition, RangeOf
<1> QED BY <1>3, <1>5, <1>6, <1>7

\* Losing a packet leaves only packets that carry what was sent.
LEMMA LoseInv ==
  ASSUME IInv, NEW q \in wire, Lose(q)
  PROVE  IInv'
<1> USE DEF IInv
<1>1. UNCHANGED << senderVars, receiverVars, peer >> /\ wire' \subseteq wire  BY DEF Lose
<1>2. ReceiverInv' /\ \A p : IsSent(p)' <=> IsSent(p)  BY <1>1, ReceiverFrame DEF senderVars
<1>3. SenderInv'  BY <1>1, SenderFrame
<1>4. TypeOK'  BY <1>1 DEF TypeOK, nextSendSeq, senderVars, receiverVars
<1>5. WireIsSent'  BY <1>1, <1>2 DEF WireIsSent
<1> QED BY <1>2, <1>3, <1>4, <1>5

\* emit('ready') moves every parked call behind the woken ones.
LEMMA EmitReadyKeeps ==
  ASSUME TypeOK, CallsOnce, EmitReady, UNCHANGED sentLog
  PROVE  /\ parked' = << >>
         /\ parked' \in Seq(Calls)
         /\ woken' \in Seq(Calls)
         /\ CallsOnce'
<1>1. /\ woken' \in Seq(Calls)
      /\ RangeOf(woken') = RangeOf(woken) \cup RangeOf(parked)
      /\ NoRepetition(woken')
  BY ConcatRange DEF EmitReady, TypeOK, CallsOnce
<1>2. parked' = << >> /\ parked' \in Seq(Calls)  BY DEF EmitReady
<1>3. RangeOf(parked') = {} /\ NoRepetition(parked')  BY <1>2 DEF RangeOf, NoRepetition
<1>4. RangeOf(sentLog') = RangeOf(sentLog) /\ NoRepetition(sentLog')  BY DEF CallsOnce, NoRepetition, RangeOf
<1> QED BY <1>1, <1>2, <1>3, <1>4 DEF CallsOnce, Disjoint

\* Destroying the channel empties the window and wakes every waiter.
LEMMA LinkClosesInv ==
  ASSUME IInv, LinkCloses
  PROVE  IInv'
<1> USE DEF IInv
<1>1. /\ UNCHANGED << receiverVars, peer, status, sentLog, rejected >>
      /\ destroyed' = TRUE /\ unacked' = {} /\ isReady' = FALSE /\ EmitReady /\ wire' = {}
  BY DEF LinkCloses, DestroySender
<1>2. ReceiverInv' /\ nextSendSeq' = nextSendSeq  BY <1>1, ReceiverFrame
<1>3. /\ parked' = << >> /\ parked' \in Seq(Calls) /\ woken' \in Seq(Calls)
      /\ CallsOnce'
  BY <1>1, EmitReadyKeeps DEF SenderInv
<1>4. TypeOK'  BY <1>1, <1>2, <1>3 DEF TypeOK, receiverVars
<1>5. WireIsSent'  BY <1>1 DEF WireIsSent
<1>6. ReadyIsRoom'  BY <1>1 DEF ReadyIsRoom
<1>7. WindowBound'  BY <1>1, FS_EmptySet, SenderAssumption DEF WindowBound
<1> QED BY <1>2, <1>3, <1>4, <1>5, <1>6, <1>7 DEF SenderInv

\* An ack frees its place, and wakes the waiters when the window was full.
LEMMA ReceiveAckInv ==
  ASSUME IInv, NEW q \in wire, NEW duplicated \in BOOLEAN, ReceiveAck(q, duplicated)
  PROVE  IInv'
<1> USE DEF IInv
<1>1. /\ UNCHANGED << receiverVars, peer, status, destroyed, sentLog, rejected >>
      /\ wire' \subseteq wire
      /\ HandleAck(q.ackSeq)
      /\ ~destroyed
      /\ unacked' = unacked \ { q.ackSeq }
  BY DEF ReceiveAck, HandleAck, AfterReceiving
<1>2. ReceiverInv' /\ nextSendSeq' = nextSendSeq /\ \A p : IsSent(p)' <=> IsSent(p)  BY <1>1, ReceiverFrame
<1>3. WireIsSent'  BY <1>1, <1>2 DEF WireIsSent
<1>4. /\ parked' \in Seq(Calls) /\ woken' \in Seq(Calls) /\ CallsOnce'
      /\ parked' # << >> => parked # << >>
  <2>1. CASE EmitReady  BY <1>1, <2>1, EmitReadyKeeps DEF SenderInv
  <2>2. CASE UNCHANGED << parked, woken >>
    BY <1>1, <2>2 DEF TypeOK, SenderInv, CallsOnce, NoRepetition, RangeOf
  <2> QED BY <1>1, <2>1, <2>2 DEF HandleAck
<1>5. /\ isReady' \in BOOLEAN
      /\ isReady' => \/ Cardinality(unacked') < SendWindow
                     \/ Cardinality(unacked') < PreWindow
      /\ ~isReady' => unacked' # {}
      /\ parked' # << >> => ~isReady'
  <2>1. CASE q.ackSeq \in unacked
    <3>1. isReady' = (Cardinality(unacked') < WindowSize)  BY <1>1, <2>1 DEF HandleAck, HasWindowSpace
    <3>2. WindowSize \in { SendWindow, PreWindow }  BY DEF WindowSize
    <3>3. isReady' \in BOOLEAN  BY <3>1
    <3>4. isReady' => \/ Cardinality(unacked') < SendWindow
                     \/ Cardinality(unacked') < PreWindow
      BY <3>1, <3>2
    <3>5. ASSUME ~isReady', unacked' = {}  PROVE FALSE
      <4>1. Cardinality(unacked') = 0  BY <3>5, FS_EmptySet
      <4>2. 0 < WindowSize  BY <3>2, SenderAssumption
      <4> QED BY <3>1, <3>5, <4>1, <4>2
    <3>6. ASSUME isReady', ~isReady  PROVE parked' = << >>  BY <1>1, <2>1, <3>6 DEF HandleAck, EmitReady
    <3>7. ASSUME isReady', isReady  PROVE parked' = << >>  BY <1>4, <3>7 DEF SenderInv, ReadyIsRoom
    <3> QED BY <3>3, <3>4, <3>5, <3>6, <3>7 DEF TypeOK
  <2>2. CASE q.ackSeq \notin unacked
    <3>1. UNCHANGED << isReady, parked, woken >> /\ unacked' = unacked  BY <1>1, <2>2 DEF HandleAck
    <3> QED BY <1>1, <3>1 DEF TypeOK, SenderInv, ReadyIsRoom
  <2> QED BY <2>1, <2>2
<1>6. WindowBound'
  <2>1. IsFiniteSet(unacked) /\ Cardinality(unacked) \in Nat  BY UnackedFinite
  <2>2. Cardinality(unacked') \in Nat /\ Cardinality(unacked') <= Cardinality(unacked)
    BY <1>1, <2>1, FS_Subset, FS_CardinalityType
  <2> QED BY <2>1, <2>2, SenderAssumption DEF SenderInv, WindowBound
<1>7. TypeOK'  BY <1>1, <1>2, <1>4, <1>5 DEF TypeOK, receiverVars
<1>8. ReadyIsRoom'  BY <1>5 DEF ReadyIsRoom
<1> QED BY <1>2, <1>3, <1>4, <1>6, <1>7, <1>8 DEF SenderInv

-------------------------------------------------------------------------------
(* The receiver's step.                                                    *)

\* A sequence number has a slot.
LEMMA SlotOfType ==
  ASSUME NEW seq \in Nat
  PROVE  SlotOf(seq) \in Slots
BY ReceiverAssumption DEF SlotOf, Slots

\* What the buffer holds once an accepted packet was put in it.
Placed(p) == [ receiveSlots EXCEPT ![SlotOf(p.seq)] = p ]

\* An accepted packet goes into an empty slot, and its number is its own.
LEMMA PlacedInv ==
  ASSUME IInv, NEW p \in wire, p.type = "data", Accepts(p)
  PROVE  /\ Placed(p) \in [ Slots -> Packets \cup { NoPacket } ]
         /\ \A i \in Slots :
              Placed(p)[i] # NoPacket =>
                /\ IsSent(Placed(p)[i])
                /\ SlotOf(Placed(p)[i].seq) = i
                /\ nextReceiveSeq <= Placed(p)[i].seq
                /\ Placed(p)[i].seq < nextReceiveSeq + BufferSize
<1> USE DEF IInv
<1>1. /\ IsSent(p) /\ p \in Packets
      /\ receiveSlots \in [ Slots -> Packets \cup { NoPacket } ]
      /\ nextSendSeq \in Nat /\ nextReceiveSeq \in Nat
  BY DEF WireIsSent, TypeOK, nextSendSeq
<1>2. p.seq \in Nat  BY <1>1 DEF IsSent
<1>3. SlotOf(p.seq) \in Slots  BY <1>2, SlotOfType
<1>4. Placed(p) \in [ Slots -> Packets \cup { NoPacket } ]  BY <1>1, <1>3 DEF Placed
<1>5. ASSUME NEW i \in Slots, Placed(p)[i] # NoPacket
      PROVE  /\ IsSent(Placed(p)[i])
             /\ SlotOf(Placed(p)[i].seq) = i
             /\ nextReceiveSeq <= Placed(p)[i].seq
             /\ Placed(p)[i].seq < nextReceiveSeq + BufferSize
  <2>1. CASE i = SlotOf(p.seq)
    <3>1. Placed(p)[i] = p  BY <1>1, <2>1 DEF Placed
    <3> QED BY <1>1, <2>1, <3>1 DEF Accepts, InWindow
  <2>2. CASE i # SlotOf(p.seq)
    <3>1. Placed(p)[i] = receiveSlots[i]  BY <1>1, <2>2 DEF Placed
    <3>2. receiveSlots[i] # NoPacket  BY <1>5, <3>1
    <3>3. IsSent(receiveSlots[i])  BY <3>2 DEF ReceiverInv, SlotsAreSent
    <3>4. /\ SlotOf(receiveSlots[i].seq) = i
          /\ nextReceiveSeq < receiveSlots[i].seq
          /\ receiveSlots[i].seq < nextReceiveSeq + BufferSize
      BY <3>2 DEF ReceiverInv, SlotsInWindow
    <3>5. receiveSlots[i].seq \in Int  BY <3>3, <1>1 DEF IsSent
    <3> QED BY <1>1, <3>1, <3>3, <3>4, <3>5
  <2> QED BY <2>1, <2>2
<1> QED BY <1>4, <1>5

\* Sliding the window over such a buffer delivers what was sent, in order.
LEMMA SlideInv ==
  ASSUME IInv,
         NEW slots \in [ Slots -> Packets \cup { NoPacket } ],
         \A i \in Slots :
           slots[i] # NoPacket =>
             /\ IsSent(slots[i])
             /\ SlotOf(slots[i].seq) = i
             /\ nextReceiveSeq <= slots[i].seq
             /\ slots[i].seq < nextReceiveSeq + BufferSize,
         NEW stop \in nextReceiveSeq .. (nextReceiveSeq + BufferSize),
         SlideTo(slots, stop), UNCHANGED sentLog
  PROVE  /\ nextReceiveSeq' \in Nat
         /\ receiveSlots' \in [ Slots -> Packets \cup { NoPacket } ]
         /\ delivered' \in Seq(Calls)
         /\ ReceiverInv'
<1> USE DEF IInv
<1>1. /\ sentLog \in Seq(Calls)
      /\ nextSendSeq = Len(sentLog) /\ nextSendSeq \in Nat
      /\ nextReceiveSeq \in Nat
      /\ delivered \in Seq(Calls)
      /\ Len(delivered) = nextReceiveSeq
      /\ nextReceiveSeq <= nextSendSeq
      /\ \A i \in 1 .. nextReceiveSeq : delivered[i] = sentLog[i]
  BY DEF TypeOK, ReceiverInv, DeliveredIsPrefix, nextSendSeq
<1>2. stop \in Nat /\ nextReceiveSeq <= stop /\ BufferSize \in Nat  BY <1>1, ReceiverAssumption
<1>3. /\ nextReceiveSeq' = stop
      /\ nextSendSeq' = nextSendSeq
      /\ \A p : IsSent(p)' <=> IsSent(p)
  BY DEF SlideTo, nextSendSeq, IsSent
<1>4. ASSUME NEW seq \in nextReceiveSeq .. (stop - 1)
      PROVE  /\ slots[SlotOf(seq)].payload = sentLog[seq + 1]
             /\ seq + 1 \in 1 .. nextSendSeq
  <2>1. seq \in Nat  BY <1>1
  <2>2. SlotOf(seq) \in Slots  BY <2>1, SlotOfType
  <2>3. slots[SlotOf(seq)] # NoPacket /\ slots[SlotOf(seq)].seq = seq  BY DEF SlideTo, Holds
  <2>4. IsSent(slots[SlotOf(seq)])  BY <2>2, <2>3
  <2>5. seq \in 0 .. (nextSendSeq - 1) /\ slots[SlotOf(seq)].payload = sentLog[seq + 1]
    BY <2>3, <2>4 DEF IsSent
  <2> QED BY <1>1, <2>5
<1>5. stop <= nextSendSeq
  <2>1. CASE stop = nextReceiveSeq  BY <1>1, <2>1
  <2>2. CASE stop # nextReceiveSeq
    <3>1. stop - 1 \in nextReceiveSeq .. (stop - 1)  BY <1>1, <1>2, <2>2
    <3>2. (stop - 1) + 1 \in 1 .. nextSendSeq  BY <1>4, <3>1
    <3> QED BY <1>1, <1>2, <3>2
  <2> QED BY <2>1, <2>2
<1> DEFINE run == [ k \in 1 .. (stop - nextReceiveSeq) |->
                      slots[SlotOf(nextReceiveSeq + k - 1)].payload ]
<1>6. ASSUME NEW k \in 1 .. (stop - nextReceiveSeq)
      PROVE  /\ run[k] = sentLog[nextReceiveSeq + k]
             /\ nextReceiveSeq + k \in 1 .. nextSendSeq
  <2>1. /\ nextReceiveSeq + k - 1 \in nextReceiveSeq .. (stop - 1)
        /\ (nextReceiveSeq + k - 1) + 1 = nextReceiveSeq + k
    BY <1>1, <1>2
  <2>2. run[k] = slots[SlotOf(nextReceiveSeq + k - 1)].payload  OBVIOUS
  <2> HIDE DEF run
  <2> QED BY <1>4, <2>1, <2>2
<1>7. run \in Seq(Calls) /\ Len(run) = stop - nextReceiveSeq
  <2>1. stop - nextReceiveSeq \in Nat  BY <1>1, <1>2
  <2>2. \A k \in 1 .. (stop - nextReceiveSeq) : run[k] \in Calls
    <3> HIDE DEF run
    <3> QED BY <1>1, <1>6
  <2>3. run \in [ 1 .. (stop - nextReceiveSeq) -> Calls ]  BY <2>2
  <2>4. DOMAIN run = 1 .. (stop - nextReceiveSeq)  OBVIOUS
  <2> HIDE DEF run
  <2> QED BY <2>1, <2>3, <2>4
<1>8. delivered' = delivered \o run  BY DEF SlideTo
<1> HIDE DEF run
<1>9. /\ delivered' \in Seq(Calls)
      /\ Len(delivered') = stop
      /\ \A i \in 1 .. stop :
           delivered'[i] = IF i <= nextReceiveSeq THEN delivered[i] ELSE run[i - nextReceiveSeq]
  <2>1. delivered' \in Seq(Calls)  BY <1>1, <1>7, <1>8
  <2>2. Len(delivered') = stop
    <3>1. Len(delivered \o run) = Len(delivered) + Len(run)  BY <1>1, <1>7, ConcatRange
    <3> QED BY <1>1, <1>2, <1>7, <1>8, <3>1
  <2>3. ASSUME NEW i \in 1 .. stop
        PROVE  delivered'[i] = IF i <= nextReceiveSeq THEN delivered[i]
                                                      ELSE run[i - nextReceiveSeq]
    <3>1. i \in 1 .. (Len(delivered) + Len(run))  BY <1>1, <1>2, <1>7
    <3> QED BY <1>1, <1>7, <1>8, <3>1
  <2> QED BY <2>1, <2>2, <2>3
<1>10. DeliveredIsPrefix'
  <2>1. ASSUME NEW i \in 1 .. stop  PROVE delivered'[i] = sentLog[i]
    <3>1. CASE i <= nextReceiveSeq  BY <1>1, <1>9, <3>1
    <3>2. CASE ~(i <= nextReceiveSeq)
      <4> DEFINE k == i - nextReceiveSeq
      <4>1. k \in 1 .. (stop - nextReceiveSeq) /\ nextReceiveSeq + k = i  BY <1>1, <1>2, <3>2
      <4>2. delivered'[i] = run[k]  BY <1>9, <3>2
      <4> HIDE DEF k
      <4> QED BY <1>6, <4>1, <4>2
    <3> QED BY <3>1, <3>2
  <2> QED BY <1>3, <1>5, <1>9, <2>1 DEF DeliveredIsPrefix
<1>11. receiveSlots' =
         [ i \in Slots |->
             IF \E seq \in nextReceiveSeq .. (stop - 1) : i = SlotOf(seq)
             THEN NoPacket ELSE slots[i] ]
  BY DEF SlideTo
<1>12. receiveSlots' \in [ Slots -> Packets \cup { NoPacket } ]  BY <1>11
<1>13. ASSUME NEW i \in Slots, receiveSlots'[i] # NoPacket
       PROVE  /\ receiveSlots'[i] = slots[i]
              /\ IsSent(slots[i])
              /\ SlotOf(slots[i].seq) = i
              /\ stop < slots[i].seq
              /\ slots[i].seq < stop + BufferSize
  <2>1. /\ receiveSlots'[i] = slots[i] /\ slots[i] # NoPacket
        /\ ~\E seq \in nextReceiveSeq .. (stop - 1) : i = SlotOf(seq)
    BY <1>11, <1>13
  <2>2. /\ IsSent(slots[i]) /\ SlotOf(slots[i].seq) = i
        /\ nextReceiveSeq <= slots[i].seq /\ slots[i].seq < nextReceiveSeq + BufferSize
    BY <2>1
  <2>3. slots[i].seq \in Int  BY <1>1, <2>2 DEF IsSent
  <2>4. stop <= slots[i].seq
    <3>1. slots[i].seq \notin nextReceiveSeq .. (stop - 1)  BY <2>1, <2>2
    <3> QED BY <1>1, <1>2, <2>2, <2>3, <3>1
  <2>5. slots[i].seq # stop
    <3> SUFFICES ASSUME slots[i].seq = stop  PROVE FALSE  OBVIOUS
    <3>1. Holds(slots, stop)  BY <2>1, <2>2 DEF Holds
    <3>2. stop < nextReceiveSeq + BufferSize  BY <2>2
    <3> QED BY <3>1, <3>2 DEF SlideTo
  <2>6. stop < slots[i].seq /\ slots[i].seq < stop + BufferSize  BY <1>1, <1>2, <2>2, <2>3, <2>4, <2>5
  <2> QED BY <2>1, <2>2, <2>6
<1>14. SlotsAreSent'  BY <1>3, <1>13 DEF SlotsAreSent
<1>15. SlotsInWindow'  BY <1>3, <1>13 DEF SlotsInWindow
<1> QED BY <1>1, <1>2, <1>3, <1>9, <1>10, <1>12, <1>14, <1>15 DEF ReceiverInv

\* A data packet is discarded, buffered, or delivered with the run it completes.
LEMMA ReceiveDataInv ==
  ASSUME IInv, NEW p \in wire, NEW duplicated \in BOOLEAN, ReceiveData(p, duplicated)
  PROVE  IInv'
<1> USE DEF IInv
<1>1. /\ p.type = "data" /\ HandleDataPacket(p)
      /\ UNCHANGED senderVars
      /\ wire' \subseteq wire \cup { AckPacket(p.seq) }
      /\ peer' \in { "ABSENT", "PRE_HANDSHAKE", "ESTABLISHED" }
  BY DEF ReceiveData, AfterReceiving, TypeOK
<1>2. SenderInv' /\ UNCHANGED sentLog /\ nextSendSeq' = nextSendSeq
  BY <1>1, SenderFrame DEF senderVars, nextSendSeq
<1>3. IsSent(p) /\ nextSendSeq \in Nat  BY <1>1 DEF WireIsSent, TypeOK, nextSendSeq
<1>4. AckPacket(p.seq) \in Packets /\ AckPacket(p.seq).type = "ack"  BY <1>3 DEF AckPacket, Packets, IsSent
<1>5. wire' \subseteq Packets  BY <1>1, <1>4 DEF TypeOK
<1>6. WireIsSent'  BY <1>1, <1>2, <1>4 DEF WireIsSent, IsSent
<1>7. /\ nextReceiveSeq' \in Nat
      /\ receiveSlots' \in [ Slots -> Packets \cup { NoPacket } ]
      /\ delivered' \in Seq(Calls)
      /\ ReceiverInv'
  <2>1. CASE Accepts(p)
    <3>1. PICK stop \in nextReceiveSeq .. (nextReceiveSeq + BufferSize) :
            SlideTo(Placed(p), stop)
      BY <1>1, <2>1 DEF HandleDataPacket, SlideWindowAndProcess, Placed
    <3> QED BY <1>1, <1>2, <2>1, <3>1, PlacedInv, SlideInv
  <2>2. CASE ~Accepts(p)  BY <1>1, <1>2, <2>2, ReceiverFrame DEF HandleDataPacket, receiverVars, TypeOK
  <2> QED BY <2>1, <2>2
<1>8. TypeOK'  BY <1>1, <1>2, <1>5, <1>7 DEF TypeOK, senderVars
<1> QED BY <1>2, <1>6, <1>7, <1>8

-------------------------------------------------------------------------------
(* The theorems.                                                           *)

\* Every step keeps the invariant.
LEMMA NextInv == IInv /\ [Next]_vars => IInv'
<1> SUFFICES ASSUME IInv, [Next]_vars  PROVE IInv'  OBVIOUS
<1>1. ASSUME NEW c \in Calls, Send(c)  PROVE IInv'  BY <1>1, SendInv
<1>2. CASE Resume  BY <1>2, ResumeInv
<1>3. ASSUME NEW seq \in unacked, AckTimeout(seq)  PROVE IInv'  BY <1>3, AckTimeoutInv
<1>4. ASSUME NEW p \in wire, NEW duplicated \in BOOLEAN, Receive(p, duplicated)  PROVE IInv'
  BY <1>4, ReceiveDataInv, ReceiveAckInv DEF Receive
<1>5. ASSUME NEW duplicated \in BOOLEAN, ReceiveHandshake(duplicated)  PROVE IInv'  BY <1>5, HandshakeInv
<1>6. ASSUME NEW p \in wire, Lose(p)  PROVE IInv'  BY <1>6, LoseInv
<1>7. CASE LinkCloses  BY <1>7, LinkClosesInv
<1>8. CASE UNCHANGED vars
  <2>1. UNCHANGED << senderVars, receiverVars, peer, wire >>  BY <1>8 DEF vars
  <2>2. SenderInv' /\ ReceiverInv' /\ \A p : IsSent(p)' <=> IsSent(p)
    BY <2>1, SenderFrame, ReceiverFrame DEF IInv, senderVars
  <2>3. TypeOK'  BY <2>1 DEF IInv, TypeOK, nextSendSeq, senderVars, receiverVars
  <2>4. WireIsSent'  BY <2>1, <2>2 DEF IInv, WireIsSent
  <2> QED BY <2>2, <2>3, <2>4 DEF IInv
<1> QED BY <1>1, <1>2, <1>3, <1>4, <1>5, <1>6, <1>7, <1>8 DEF Next

\* The invariant holds in every reachable state of the channel.
THEOREM Invariance == Spec => []IInv
<1> QED BY InitInv, NextInv, PTL DEF Spec

\* Every variable keeps its type, and only issued numbers are unacknowledged.
THEOREM TypeCorrect == Spec => []TypeOK
<1>1. IInv => TypeOK  BY DEF IInv
<1> QED BY <1>1, Invariance, PTL

\* receiver.ts delivers exactly once and in order, over any link.
THEOREM DeliveryInOrder == Spec => []DeliveredIsPrefix
<1>1. IInv => DeliveredIsPrefix  BY DEF IInv, ReceiverInv
<1> QED BY <1>1, Invariance, PTL

\* receiver.ts never discards a packet of the window for another one's sake,
\* and sender.ts keeps the unacknowledged packets within the window.
THEOREM WindowsRespected == Spec => []WindowsHold
<1>1. IInv => WindowsHold  BY DEF IInv, ReceiverInv, SenderInv, WindowsHold
<1> QED BY <1>1, Invariance, PTL

\* sender.ts never leaves a send waiting with no ack to come.
THEOREM WakeupNotLost == Spec => []NoLostWakeup
<1>1. IInv => NoLostWakeup  BY DEF IInv, SenderInv, ReadyIsRoom, NoLostWakeup
<1> QED BY <1>1, Invariance, PTL

-------------------------------------------------------------------------------
(* Refinement.                                                             *)

\* A sender's step accepts one payload that was not accepted before, or none.
LEMMA SenderStepAccepts ==
  ASSUME IInv, [Next]_vars, UNCHANGED delivered
  PROVE  [Fifo!FifoNext]_<< sentLog, delivered >>
<1>1. ASSUME NEW c \in Calls, c \notin RangeOf(sentLog), sentLog' = Append(sentLog, c)
      PROVE  Fifo!Accept
  <2>1. \A i \in DOMAIN sentLog : sentLog[i] # c  BY <1>1 DEF RangeOf
  <2> QED BY <1>1, <2>1 DEF Fifo!Accept
<1>2. ASSUME NEW c \in Calls, Send(c)  PROVE Fifo!Accept \/ UNCHANGED sentLog
  <2>1. CASE SendNow(c)
    <3>1. c \notin RangeOf(sentLog) /\ sentLog' = Append(sentLog, c)  BY <2>1 DEF SendNow, Called, Transmit
    <3> QED BY <1>1, <3>1
  <2>2. CASE SendRejected(c) \/ SendParks(c)  BY <2>2 DEF SendRejected, SendParks
  <2> QED BY <1>2, <2>1, <2>2 DEF Send
<1>3. ASSUME Resume  PROVE Fifo!Accept \/ UNCHANGED sentLog
  <2>1. CASE ResumeSends
    <3>1. /\ woken \in Seq(Calls) /\ woken # << >> /\ sentLog' = Append(sentLog, Head(woken))
          /\ Disjoint(RangeOf(woken), RangeOf(sentLog))
      BY <2>1 DEF ResumeSends, Transmit, IInv, TypeOK, SenderInv, CallsOnce
    <3>2. Head(woken) \in Calls /\ Head(woken) \in RangeOf(woken)  BY <3>1, TailRange
    <3>3. Head(woken) \notin RangeOf(sentLog)  BY <3>1, <3>2 DEF Disjoint
    <3> QED BY <1>1, <3>1, <3>2, <3>3
  <2>2. CASE ResumeParks  BY <2>2 DEF ResumeParks
  <2> QED BY <1>3, <2>1, <2>2 DEF Resume
<1>4. CASE \/ \E seq \in unacked : AckTimeout(seq)
           \/ \E p \in wire, duplicated \in BOOLEAN : Receive(p, duplicated)
           \/ \E duplicated \in BOOLEAN : ReceiveHandshake(duplicated)
           \/ \E p \in wire : Lose(p)
           \/ LinkCloses
           \/ UNCHANGED vars
  BY <1>4 DEF AckTimeout, Retransmit, Receive, ReceiveData, ReceiveAck, HandleAck,
       ReceiveHandshake, ReceiveOpenStream, ReceiveOpenStreamAck, Establish, Lose,
       LinkCloses, DestroySender, senderVars, vars
<1> QED BY <1>2, <1>3, <1>4 DEF Next, Fifo!FifoNext

\* A step that delivers hands over the next payloads of the log.
LEMMA DeliveryHandsOver ==
  ASSUME IInv, IInv', [Next]_vars, delivered' # delivered
  PROVE  Fifo!HandOver
<1>1. /\ UNCHANGED sentLog
      /\ nextReceiveSeq' \in Nat /\ nextReceiveSeq' >= nextReceiveSeq
      /\ nextReceiveSeq' # nextReceiveSeq
  <2>1. PICK p \in wire, duplicated \in BOOLEAN : ReceiveData(p, duplicated)
    BY DEF Next, Send, SendRejected, SendNow, SendParks, Resume, ResumeSends, ResumeParks,
       AckTimeout, Retransmit, Receive, ReceiveAck, ReceiveHandshake,
       ReceiveOpenStream, ReceiveOpenStreamAck, Lose, LinkCloses, receiverVars, vars
  <2>2. PICK stop \in nextReceiveSeq .. (nextReceiveSeq + BufferSize) : SlideTo(Placed(p), stop)
    BY <2>1 DEF ReceiveData, HandleDataPacket, SlideWindowAndProcess, Placed, receiverVars
  <2>3. nextReceiveSeq' = stop /\ nextReceiveSeq \in Nat  BY <2>2 DEF SlideTo, IInv, TypeOK
  <2>4. UNCHANGED sentLog  BY <2>1 DEF ReceiveData, senderVars
  <2>5. stop # nextReceiveSeq
    <3> SUFFICES ASSUME stop = nextReceiveSeq  PROVE FALSE  OBVIOUS
    <3>1. delivered \in Seq(Calls) /\ delivered' \in Seq(Calls)  BY DEF IInv, TypeOK
    <3>2. /\ Len(delivered') = Len(delivered)
          /\ \A i \in 1 .. Len(delivered) : delivered'[i] = delivered[i]
      BY <2>3, <2>4 DEF IInv, ReceiverInv, DeliveredIsPrefix
    <3> QED BY <3>1, <3>2
  <2> QED BY <2>2, <2>3, <2>4, <2>5
<1>2. /\ sentLog \in Seq(Calls) /\ nextSendSeq = Len(sentLog)
      /\ delivered' \in Seq(Calls)
      /\ Len(delivered) = nextReceiveSeq /\ nextReceiveSeq \in Nat
      /\ Len(delivered') = nextReceiveSeq'
      /\ nextReceiveSeq' <= nextSendSeq
      /\ \A i \in 1 .. nextReceiveSeq' : delivered'[i] = sentLog[i]
  BY <1>1 DEF IInv, TypeOK, ReceiverInv, DeliveredIsPrefix, nextSendSeq
<1> DEFINE n == nextReceiveSeq'
<1>3. n \in (Len(delivered) + 1) .. Len(sentLog)  BY <1>1, <1>2
<1>4. delivered' = SubSeq(sentLog, 1, n)
  <2>1. /\ SubSeq(sentLog, 1, n) \in Seq(Calls)
        /\ Len(SubSeq(sentLog, 1, n)) = n
        /\ \A i \in 1 .. n : SubSeq(sentLog, 1, n)[i] = sentLog[i]
    <3>1. n \in 1 .. Len(sentLog)  BY <1>2, <1>3
    <3> HIDE DEF n
    <3> QED BY <1>2, <3>1, PrefixOf
  <2> QED BY <1>2, <2>1
<1> QED BY <1>1, <1>3, <1>4 DEF Fifo!HandOver

\* The channel over any link implements the FIFO channel it promises.
THEOREM Refinement == Spec => ImplementsFifo
<1>1. Init => Fifo!FifoInit  BY DEF Init, SenderInit, ReceiverInit, Fifo!FifoInit
<1>2. IInv /\ IInv' /\ [Next]_vars => [Fifo!FifoNext]_<< sentLog, delivered >>
  BY SenderStepAccepts, DeliveryHandsOver DEF Fifo!FifoNext
<1> QED BY <1>1, <1>2, Invariance, PTL DEF Spec, ImplementsFifo, Fifo!FifoSpec, Fifo!fifoVars

===============================================================================
