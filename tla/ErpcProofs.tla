---------------------------- MODULE ErpcProofs ----------------------------
(***************************************************************************)
(* The chunks of an erpc stream are kept, in order, whatever the capacity  *)
(* of the buffer, the number of chunks and what goes wrong; and calls are  *)
(* where they should be and pinned objects stay, for any number of calls   *)
(* over any number of connections that share a resource manager, break and *)
(* are closed.                                                             *)
(*                                                                         *)
(* ChunksAreKept is not inductive.  What is: the chunks that are not on    *)
(* the wire any more are, in order, read, held by the reader, in its       *)
(* buffer and in line for it (Flow), that buffer being either the one the  *)
(* channel feeds or the one that waits for the first chunk; and, while the *)
(* transport is open, what the writer's state says of what else is on the  *)
(* wire (Writer) and of the end the reader is told of (Reader).            *)
(***************************************************************************)
EXTENDS ErpcStream, ErpcCalls, ErpcApi, DataProofs

-----------------------------------------------------------------------------
(* Streams. *)

StreamSpec == StreamInit /\ [][StreamNext]_streamVars

\* s holds the chunks after the first n.
From(s, n) == \A i \in DOMAIN s : s[i] = n + i

BufferOK(b) ==
  /\ b.popping => b.items = << >> /\ b.parked = << >> /\ ~b.finished
  /\ b.parked # << >> => IsFull(b) /\ b.error = "none"
  /\ b.draining => b.finished /\ b.error = "none" /\ b.items # << >>
  /\ b.error # "none" => b.finished

\* Only the reader waits in a buffer, and it then has nothing to read; a
\* buffer is closed for a reason.
Buffers ==
  /\ \A i \in DOMAIN buffers :
       /\ BufferOK(buffers[i])
       /\ buffers[i].popping => i = readerBuffer /\ readable = "open" /\ queue = << >>
  /\ \A t \in tasks : t.task = "close" => t.why # "none"

ReaderKnown ==
  /\ readerBuffer = None <=> readable = "absent"
  /\ readable = "absent" => queue = << >> /\ read = << >>
  /\ handshake.reader => handshake.buffer = readerBuffer /\ readerBuffer # None
  /\ readable = "cancelled" => buffers[readerBuffer].error # "none"
  /\ channelBuffer # None => listening
  /\ From(read, 0) /\ From(queue, Len(read)) /\ Len(queue) <= 1

\* n chunks have come, or the rest was lost with the transport.
Met(lo, n) == lo = n \/ (transport = "closed" /\ lo = written)

Taken == Len(read) + Len(queue)

Flow(lo) ==
  /\ StreamBuffer = None => channelBuffer = None /\ Met(lo, 0)
  /\ StreamBuffer # None /\ buffers[StreamBuffer].error = "none" =>
       LET b == buffers[StreamBuffer] IN
       /\ From(b.items, Taken)
       /\ From(b.parked, Taken + Len(b.items))
       /\ b.finished => lo = written
       /\ \/ /\ channelBuffer = StreamBuffer
             /\ Met(lo, Taken + Len(b.items) + Len(b.parked))
          \/ /\ channelBuffer = None
             /\ handshake = [ buffer |-> StreamBuffer, reader |-> TRUE ]
             /\ Met(lo, 0)
             /\ Taken = 0 /\ b.items = << >> /\ b.parked = << >>

\* What else than data is on the wire.
Trailer(i) ==
  /\ wire[i].type = "end" => i = Len(wire) /\ writable = "closing"
  /\ wire[i].type = "abort" => writable = "errored" /\ outgoing = "closed"
  /\ wire[i].type = "closed" =>
       /\ wire[i].why = "closed" /\ outgoing = "closed"
       /\ writable \in { "errored", "closed" }
       /\ writable = "errored" =>
            IF i = 1 THEN channelBuffer = None ELSE wire[i - 1] = StreamAbort
  /\ writable = "closed" => wire[i].type = "closed"

Writer ==
  transport = "open" =>
    /\ outgoing = "none" <=> written = 0
    /\ writable = "open" => outgoing # "closed"
    /\ writable = "closing" => outgoing = "open"
    /\ writable = "closed" => outgoing # "open"
    /\ \A i \in DOMAIN wire : Trailer(i)
    /\ ackOnWire \/ AckTask \in tasks =>
         writable = "closing" /\ wire = << >> /\ ~ (ackOnWire /\ AckTask \in tasks)
    /\ StreamBuffer # None /\ buffers[StreamBuffer].draining =>
         writable = "closing" /\ wire = << >> /\ ~ackOnWire /\ AckTask \notin tasks

\* The end was acknowledged, or is about to be.
Acknowledged ==
  AckTask \in tasks \/ ackOnWire \/ (writable = "closed" /\ outgoing = "closed")

Aborted == writable = "errored" /\ outgoing = "closed"

Reader(lo) ==
  transport = "open" /\ readable # "cancelled" =>
    /\ Acknowledged =>
         /\ StreamBuffer # None
         /\ buffers[StreamBuffer].finished
         /\ buffers[StreamBuffer].items = << >>
         /\ buffers[StreamBuffer].parked = << >>
         /\ Taken = written
    /\ StreamBuffer # None /\ buffers[StreamBuffer].finished
         /\ buffers[StreamBuffer].error = "none" =>
         /\ writable \in { "closing", "closed" }
         /\ lo = written
         /\ \A i \in DOMAIN wire : wire[i].type = "closed"
    /\ StreamBuffer # None /\ buffers[StreamBuffer].error # "none" =>
         /\ channelBuffer = None /\ lo = written /\ outgoing = "closed"
         /\ buffers[StreamBuffer].error = "error" => writable = "errored"
         /\ buffers[StreamBuffer].error = "closed" => writable = "closed"
    /\ \A t \in tasks : t.task = "close" =>
         Aborted /\ t.why = "error" /\ channelBuffer = None /\ lo = written
    /\ readable = "errored" => Aborted
    /\ readable = "closed" =>
         Len(read) = written /\ queue = << >> /\ writable \in { "closing", "closed" }

StreamInv(lo) ==
  /\ lo \in 0 .. written
  /\ StreamTypeOK /\ Buffers /\ ReaderKnown
  /\ WireCarriesAfter(lo) /\ Flow(lo) /\ Writer /\ Reader(lo)

-----------------------------------------------------------------------------
(* Sequences of chunks.                                                    *)

LEMMA Appended ==
  ASSUME NEW S, NEW s \in Seq(S), NEW x \in S
  PROVE  /\ Append(s, x) \in Seq(S)
         /\ Len(Append(s, x)) = Len(s) + 1
         /\ DOMAIN Append(s, x) = 1 .. (Len(s) + 1)
         /\ \A i \in 1 .. Len(s) : Append(s, x)[i] = s[i]
         /\ Append(s, x)[Len(s) + 1] = x
         /\ Append(s, x) # << >>
OBVIOUS

LEMMA Measured ==
  ASSUME NEW S, NEW s \in Seq(S)
  PROVE  /\ Len(s) \in Nat
         /\ DOMAIN s = 1 .. Len(s)
         /\ s = << >> <=> Len(s) = 0
         /\ \A i \in DOMAIN s : s[i] \in S
OBVIOUS

LEMMA TakenOff ==
  ASSUME NEW S, NEW s \in Seq(S), s # << >>
  PROVE  /\ Head(s) = s[1] /\ Head(s) \in S /\ 1 \in DOMAIN s
         /\ Tail(s) \in Seq(S)
         /\ Len(s) \in Nat /\ Len(s) >= 1
         /\ Len(Tail(s)) = Len(s) - 1
         /\ DOMAIN s = 1 .. Len(s)
         /\ DOMAIN Tail(s) = 1 .. (Len(s) - 1)
         /\ \A i \in 1 .. (Len(s) - 1) : Tail(s)[i] = s[i + 1]
OBVIOUS

LEMMA NoneFrom == \A n : From(<< >>, n)
BY DEF From

LEMMA FromAppended ==
  ASSUME NEW n \in Nat, NEW s \in Seq(Nat), From(s, n)
  PROVE  From(Append(s, n + Len(s) + 1), n)
<1> DEFINE x == n + Len(s) + 1
<1>1. x \in Nat /\ Len(s) \in Nat /\ DOMAIN s = 1 .. Len(s)  BY Measured
<1>2. /\ DOMAIN Append(s, x) = 1 .. (Len(s) + 1)
      /\ \A i \in 1 .. Len(s) : Append(s, x)[i] = s[i]
      /\ Append(s, x)[Len(s) + 1] = x
  BY <1>1, Appended
<1> DEFINE t == Append(s, x)
<1> HIDE DEF t, x
<1>3. \A i \in 1 .. Len(s) : s[i] = n + i  BY <1>1 DEF From
<1>4. ASSUME NEW i \in 1 .. (Len(s) + 1)
      PROVE  t[i] = n + i
  BY <1>1, <1>2, <1>3 DEF t, x
<1>5. From(t, n)  BY <1>2, <1>4 DEF From, t
<1> QED  BY <1>5 DEF t, x

LEMMA FromTakenOff ==
  ASSUME NEW n \in Nat, NEW s \in Seq(Nat), From(s, n), s # << >>
  PROVE  Head(s) = n + 1 /\ From(Tail(s), n + 1)
<1>1. /\ Head(s) = s[1] /\ 1 \in DOMAIN s
      /\ Len(s) \in Nat /\ Len(s) >= 1
      /\ DOMAIN s = 1 .. Len(s)
      /\ DOMAIN Tail(s) = 1 .. (Len(s) - 1)
      /\ \A i \in 1 .. (Len(s) - 1) : Tail(s)[i] = s[i + 1]
  BY TakenOff
<1> DEFINE t == Tail(s)
<1> HIDE DEF t
<1>2. \A i \in 1 .. Len(s) : s[i] = n + i  BY <1>1 DEF From
<1>3. ASSUME NEW i \in 1 .. (Len(s) - 1)
      PROVE  t[i] = (n + 1) + i
  BY <1>1, <1>2 DEF t
<1>4. From(t, n + 1)  BY <1>1, <1>3 DEF From, t
<1> QED  BY <1>1, <1>2, <1>4 DEF t

LEMMA FromJoined ==
  ASSUME NEW n \in Nat, NEW s \in Seq(Nat), NEW t \in Seq(Nat),
         From(s, n), From(t, n + Len(s))
  PROVE  /\ From(s \o t, n) /\ s \o t \in Seq(Nat)
         /\ Len(s \o t) = Len(s) + Len(t)
<1>1. /\ s \o t \in Seq(Nat)
      /\ Len(s \o t) = Len(s) + Len(t)
      /\ \A i \in 1 .. Len(s) + Len(t) :
           (s \o t)[i] = IF i <= Len(s) THEN s[i] ELSE t[i - Len(s)]
  BY ConcatProperties
<1>2. /\ Len(s) \in Nat /\ Len(t) \in Nat
      /\ DOMAIN s = 1 .. Len(s) /\ DOMAIN t = 1 .. Len(t)
      /\ DOMAIN (s \o t) = 1 .. (Len(s) + Len(t))
  BY <1>1, Measured
<1>3. ASSUME NEW i \in 1 .. (Len(s) + Len(t))
      PROVE  (s \o t)[i] = n + i
  <2>1. CASE i <= Len(s)
    <3>1. i \in DOMAIN s /\ (s \o t)[i] = s[i]  BY <1>1, <1>2, <2>1
    <3>2. s[i] = n + i  BY <3>1 DEF From
    <3> QED  BY <3>1, <3>2, Zenon
  <2>2. CASE i > Len(s)
    <3>1. i - Len(s) \in DOMAIN t  BY <1>2, <2>2
    <3>2. t[i - Len(s)] = n + Len(s) + (i - Len(s))  BY <3>1 DEF From
    <3> DEFINE v == s \o t
    <3>3. v[i] = t[i - Len(s)] /\ i \in Int /\ Len(s) \in Int  BY <1>1, <1>2, <2>2
    <3>4. n + Len(s) + (i - Len(s)) = n + i  BY <3>3
    <3> HIDE DEF v
    <3>5. v[i] = n + i  BY <3>2, <3>3, <3>4, Zenon
    <3> QED  BY <3>5 DEF v
  <2> QED  BY <1>2, <2>1, <2>2
<1> QED  BY <1>1, <1>2, <1>3 DEF From

LEMMA FromFirst ==
  ASSUME NEW s \in Seq(Nat), From(s, 0)
  PROVE  s = [ n \in 1 .. Len(s) |-> n ]
BY Measured DEF From

-----------------------------------------------------------------------------
(* What the methods of a buffer make of it.                                *)

LEMMA NewIsOK ==
  /\ NewBuffer \in BufferRecords /\ BufferOK(NewBuffer)
  /\ ~NewBuffer.popping /\ ~NewBuffer.draining /\ ~NewBuffer.finished
  /\ NewBuffer.error = "none" /\ NewBuffer.items = << >> /\ NewBuffer.parked = << >>
BY BufferAssumption DEF NewBuffer, BufferRecords, BufferOK, Kinds, IsFull

LEMMA PushedIsOK ==
  ASSUME NEW b \in BufferRecords, BufferOK(b), ~b.finished, NEW x \in Numbers
  PROVE  /\ Pushed(b, x) \in BufferRecords /\ BufferOK(Pushed(b, x))
         /\ ~Pushed(b, x).popping /\ ~Pushed(b, x).draining
         /\ ~Pushed(b, x).finished /\ Pushed(b, x).error = "none"
         /\ b.popping => Pushed(b, x).items = << >> /\ Pushed(b, x).parked = << >>
         /\ ~b.popping =>
              \/ b.parked = << >> /\ Pushed(b, x).items = Append(b.items, x)
                   /\ Pushed(b, x).parked = << >>
              \/ Pushed(b, x).items = b.items
                   /\ Pushed(b, x).parked = Append(b.parked, x)
<1>1. /\ b.items \in Seq(Numbers) /\ b.parked \in Seq(Numbers)
      /\ b.popping \in BOOLEAN /\ b.draining \in BOOLEAN /\ b.error \in Kinds
      /\ b.error = "none" /\ ~b.draining
  BY DEF BufferRecords, BufferOK, Kinds
<1>2. /\ Append(b.items, x) \in Seq(Numbers) /\ Append(b.parked, x) \in Seq(Numbers)
      /\ Append(b.parked, x) # << >>
      /\ Len(b.items) \in Nat
  BY <1>1, Appended, Measured
<1>3. CASE b.popping  BY <1>1, <1>3 DEF Pushed, BufferRecords, BufferOK, IsFull
<1>4. CASE ~b.popping /\ IsFull(b)  BY <1>4, <1>1, <1>2 DEF Pushed, BufferRecords, BufferOK, IsFull
<1>5. CASE ~b.popping /\ ~IsFull(b)  BY <1>5, <1>1, <1>2 DEF Pushed, BufferOK, BufferRecords, IsFull
<1> QED  BY <1>3, <1>4, <1>5

LEMMA PoppedIsOK ==
  ASSUME NEW b \in BufferRecords, BufferOK(b), b.items # << >>, b.error = "none",
         NEW n \in Nat, From(b.items, n), From(b.parked, n + Len(b.items))
  PROVE  /\ Popped(b) \in BufferRecords /\ BufferOK(Popped(b))
         /\ ~Popped(b).popping
         /\ Popped(b).finished = b.finished /\ Popped(b).error = "none"
         /\ Popped(b).draining => b.draining
         /\ b.draining /\ ~Popped(b).draining =>
              Popped(b).items = << >> /\ Popped(b).parked = << >>
         /\ From(Popped(b).items, n + 1)
         /\ From(Popped(b).parked, n + 1 + Len(Popped(b).items))
         /\ Len(Popped(b).items) + Len(Popped(b).parked) + 1
              = Len(b.items) + Len(b.parked)
<1>1. /\ b.items \in Seq(Numbers) /\ b.parked \in Seq(Numbers)
      /\ b.items \in Seq(Nat) /\ b.parked \in Seq(Nat)
      /\ b.popping \in BOOLEAN /\ b.draining \in BOOLEAN /\ b.finished \in BOOLEAN
      /\ ~b.popping
  BY StreamAssumption, SeqMonotonic DEF Numbers, BufferRecords, BufferOK
<1> DEFINE rest == [ b EXCEPT !.items = Tail(b.items) ]
<1> DEFINE un == Unparked(rest)
<1>2. /\ Tail(b.items) \in Seq(Numbers) /\ Tail(b.items) \in Seq(Nat)
      /\ Len(Tail(b.items)) = Len(b.items) - 1
      /\ Len(b.items) \in Nat /\ Len(b.items) >= 1 /\ Len(b.parked) \in Nat
      /\ From(Tail(b.items), n + 1)
  BY <1>1, TakenOff, FromTakenOff, Measured
<1>3. Popped(b) = [ un EXCEPT !.draining = un.draining /\ ~IsDrained(un) ]  BY DEF Popped
<1>4. /\ rest \in BufferRecords /\ rest.items = Tail(b.items) /\ rest.parked = b.parked
      /\ rest.popping = b.popping /\ rest.draining = b.draining
      /\ rest.finished = b.finished /\ rest.error = b.error
  BY <1>1, <1>2 DEF BufferRecords
<1>5. CASE b.parked = << >>
  <2>1. un = rest  BY <1>4, <1>5 DEF Unparked
  <2>2. /\ Popped(b) \in BufferRecords
        /\ Popped(b).items = Tail(b.items) /\ Popped(b).parked = << >>
        /\ Popped(b).popping = FALSE
        /\ Popped(b).draining = (b.draining /\ ~IsDrained(rest))
        /\ Popped(b).finished = b.finished /\ Popped(b).error = "none"
    BY <1>1, <1>3, <1>4, <1>5, <2>1 DEF BufferRecords
  <2>3. From(Popped(b).parked, n + 1 + Len(Popped(b).items))  BY <2>2, NoneFrom
  <2>4. BufferOK(Popped(b))  BY <1>4, <2>2 DEF BufferOK, IsDrained
  <2>5. b.draining /\ ~Popped(b).draining => Popped(b).items = << >>  BY <1>4, <2>2 DEF BufferOK, IsDrained
  <2>6. From(Popped(b).items, n + 1)  BY <1>2, <2>2
  <2>7. Len(Popped(b).items) = Len(b.items) - 1 /\ Len(Popped(b).parked) = 0
        /\ Len(b.parked) = 0
    BY <1>2, <1>5, <2>2
  <2>8. Len(Popped(b).items) + Len(Popped(b).parked) + 1 = Len(b.items) + Len(b.parked)  BY <1>2, <2>7
  <2> QED  BY <2>2, <2>3, <2>4, <2>5, <2>6, <2>8
<1>6. CASE b.parked # << >>
  <2> DEFINE is == Append(Tail(b.items), Head(b.parked))
  <2>1. /\ Head(b.parked) = n + Len(b.items) + 1
        /\ From(Tail(b.parked), n + Len(b.items) + 1)
        /\ Tail(b.parked) \in Seq(Numbers)
        /\ Len(Tail(b.parked)) = Len(b.parked) - 1
        /\ Head(b.parked) \in Numbers
    BY <1>2, <1>1, <1>6, FromTakenOff, TakenOff
  <2>2. is \in Seq(Numbers) /\ Len(is) = Len(b.items) /\ is # << >>  BY <1>2, <2>1, Appended
  <2>3. From(is, n + 1)
    <3> DEFINE l == Len(Tail(b.items))
               m == Len(b.items)
               h == Head(b.parked)
    <3>0. l = m - 1 /\ h = n + m + 1 /\ m \in Nat  BY <1>2, <2>1
    <3> HIDE DEF l, h, m
    <3>1. h = (n + 1) + l + 1 /\ n + 1 \in Nat  BY <3>0
    <3> QED  BY <1>2, <3>1, FromAppended DEF l, h
  <2> HIDE DEF is
  <2>4. un = [ rest EXCEPT !.items = is, !.parked = Tail(b.parked) ]  BY <1>4, <1>6 DEF Unparked, is
  <2>5. /\ un \in BufferRecords
        /\ un.items = is /\ un.parked = Tail(b.parked)
        /\ un.popping = b.popping /\ un.draining = b.draining
        /\ un.finished = b.finished /\ un.error = b.error
    BY <1>4, <2>1, <2>2, <2>4 DEF BufferRecords
  <2> HIDE DEF un
  <2>6. /\ Popped(b) \in BufferRecords
        /\ Popped(b).items = is /\ Popped(b).parked = Tail(b.parked)
        /\ Popped(b).popping = FALSE
        /\ Popped(b).draining = (b.draining /\ ~IsDrained(un))
        /\ Popped(b).finished = b.finished /\ Popped(b).error = "none"
    BY <1>1, <1>3, <2>5 DEF BufferRecords
  <2>7. ~IsDrained(un)  BY <2>2, <2>5 DEF IsDrained
  <2>8. BufferOK(Popped(b))  BY <1>6, <2>2, <2>6, <2>7 DEF BufferOK, IsFull
  <2>9. n + 1 + Len(Popped(b).items) = n + Len(b.items) + 1  BY <1>2, <2>2, <2>6
  <2>10. From(Popped(b).items, n + 1)  BY <2>3, <2>6
  <2>11. From(Popped(b).parked, n + 1 + Len(Popped(b).items))  BY <2>1, <2>6, <2>9
  <2>12. Len(Popped(b).items) + Len(Popped(b).parked) + 1 = Len(b.items) + Len(b.parked)
    <3>1. Len(Popped(b).items) = Len(b.items) /\ Len(Popped(b).parked) = Len(b.parked) - 1
      BY <2>1, <2>2, <2>6
    <3> QED  BY <1>2, <3>1
  <2> QED  BY <2>6, <2>7, <2>8, <2>10, <2>11, <2>12
<1> QED  BY <1>5, <1>6

LEMMA FinishedIsOK ==
  ASSUME NEW b \in BufferRecords, BufferOK(b)
  PROVE  LET f == Finished(b)
             d == [ f EXCEPT !.draining = ~IsDrained(f) /\ f.error = "none" ]
         IN  /\ f.items = b.items /\ f.parked = b.parked /\ f.error = b.error
             /\ f.finished /\ (IsDrained(f) <=> b.items = << >>)
             /\ d \in BufferRecords /\ BufferOK(d) /\ ~d.popping /\ d.finished
             /\ d.items = b.items /\ d.parked = b.parked /\ d.error = b.error
             /\ d.draining = (b.items # << >> /\ b.error = "none")
BY DEF Finished, BufferRecords, BufferOK, IsDrained, IsFull

LEMMA DestroyedIsOK ==
  ASSUME NEW b \in BufferRecords, BufferOK(b), NEW kind \in { "closed", "error" }
  PROVE  LET d == Destroyed(b, kind)
         IN  /\ d \in BufferRecords /\ BufferOK(d)
             /\ ~d.popping /\ ~d.draining /\ d.finished
             /\ d.items = b.items
             /\ b.error = "none" => d.parked = << >> /\ d.error = kind
             /\ b.error # "none" => d.parked = b.parked /\ d.error = b.error
             /\ d.parked = << >>
<1>1. CASE b.error # "none"  BY <1>1 DEF Destroyed, BufferOK, BufferRecords
<1>2. CASE b.error = "none"
  <2> DEFINE d == Destroyed(b, kind)
  <2>0. /\ b = [ items |-> b.items, parked |-> b.parked, popping |-> b.popping,
                 draining |-> b.draining, finished |-> b.finished, error |-> b.error ]
        /\ b.items \in Seq(Numbers) /\ << >> \in Seq(Numbers) /\ kind \in Kinds
    BY DEF BufferRecords, Kinds
  <2> DEFINE r == [ items |-> b.items, parked |-> << >>, popping |-> FALSE,
                    draining |-> FALSE, finished |-> TRUE, error |-> kind ]
  <2>3. d = r  BY <1>2, <2>0 DEF Destroyed
  <2>4. r \in BufferRecords  BY <2>0 DEF BufferRecords
  <2>1. /\ d.items = b.items /\ d.parked = << >> /\ d.popping = FALSE
        /\ d.draining = FALSE /\ d.finished = TRUE /\ d.error = kind
        /\ d \in BufferRecords
    BY <2>3, <2>4
  <2> HIDE DEF d
  <2>2. BufferOK(d)  BY <2>1 DEF BufferOK
  <2> QED  BY <1>2, <2>1, <2>2 DEF d
<1> QED  BY <1>1, <1>2

-----------------------------------------------------------------------------
(* The writer's steps.                                                     *)

LEMMA MessageTypes ==
  /\ \A m \in Messages : m.type \in { "data", "end", "abort", "closed" }
  /\ \A n \in Numbers : Data(n) \in Messages /\ Data(n).type = "data"
       /\ Data(n).chunk = n /\ (Data(n).first <=> n = 1)
  /\ StreamEnd \in Messages /\ StreamEnd.type = "end"
  /\ StreamAbort \in Messages /\ StreamAbort.type = "abort"
  /\ \A why \in { "closed", "error" } :
       Closed(why) \in Messages /\ Closed(why).type = "closed" /\ Closed(why).why = why
  /\ \A m \in Messages : m.type = "abort" => m = StreamAbort
  /\ \A m \in Messages : m.type = "closed" => m.why \in { "closed", "error" }
  /\ \A m \in Messages : m.type = "data" => m = Data(m.chunk) /\ m.chunk \in Numbers
<1>1. \A n \in Numbers : Data(n) \in Messages /\ Data(n).type = "data"
        /\ Data(n).chunk = n /\ (Data(n).first <=> n = 1)
  BY DEF Messages, Data
<1>2. /\ StreamEnd \in Messages /\ StreamEnd.type = "end"
      /\ StreamAbort \in Messages /\ StreamAbort.type = "abort"
  BY DEF Messages, StreamEnd, StreamAbort
<1>3. \A why \in { "closed", "error" } :
        Closed(why) \in Messages /\ Closed(why).type = "closed" /\ Closed(why).why = why
  BY DEF Messages, Closed
<1>4. ASSUME NEW m \in Messages
      PROVE  /\ m.type \in { "data", "end", "abort", "closed" }
             /\ m.type = "abort" => m = StreamAbort
             /\ m.type = "closed" => m.why \in { "closed", "error" }
             /\ m.type = "data" => m = Data(m.chunk) /\ m.chunk \in Numbers
  <2>1. \/ \E n \in Numbers : m = Data(n)
        \/ m = StreamEnd \/ m = StreamAbort
        \/ \E why \in { "closed", "error" } : m = Closed(why)
    BY DEF Messages
  <2>2. CASE \E n \in Numbers : m = Data(n)  BY <1>1, <2>2
  <2>3. CASE m = StreamEnd \/ m = StreamAbort  BY <1>2, <2>3
  <2>4. CASE \E why \in { "closed", "error" } : m = Closed(why)  BY <1>3, <2>4
  <2> QED  BY <2>1, <2>2, <2>3, <2>4
<1> QED  BY <1>1, <1>2, <1>3, <1>4

LEMMA Typed ==
  ASSUME StreamTypeOK
  PROVE  /\ written \in Nat /\ Chunks \in Nat /\ written <= Chunks
         /\ wire \in Seq(Messages) /\ Len(wire) \in Nat /\ DOMAIN wire = 1 .. Len(wire)
         /\ \A i \in DOMAIN wire : wire[i] \in Messages
         /\ Len(buffers) \in Nat /\ DOMAIN buffers = 1 .. Len(buffers)
         /\ \A i \in DOMAIN buffers : buffers[i] \in BufferRecords
         /\ StreamBuffer \in 0 .. Len(buffers)
         /\ StreamBuffer # None => StreamBuffer \in DOMAIN buffers
         /\ read \in Seq(Nat) /\ queue \in Seq(Nat)
         /\ Len(read) \in Nat /\ Len(queue) \in Nat /\ Taken \in Nat
<1>1. /\ written \in Nat /\ Chunks \in Nat /\ written <= Chunks
      /\ wire \in Seq(Messages) /\ buffers \in Seq(BufferRecords)
      /\ handshake.buffer \in 0 .. Len(buffers)
      /\ readerBuffer \in 0 .. Len(buffers)
      /\ read \in Seq(Numbers) /\ queue \in Seq(Numbers)
  BY StreamAssumption DEF StreamTypeOK
<1>2. Numbers \subseteq Nat  BY DEF Numbers
<1>3. read \in Seq(Nat) /\ queue \in Seq(Nat)  BY <1>1, <1>2, SeqMonotonic
<1>4. Len(wire) \in Nat /\ DOMAIN wire = 1 .. Len(wire) /\ \A i \in DOMAIN wire : wire[i] \in Messages
  BY <1>1, Measured
<1>5. /\ Len(buffers) \in Nat /\ DOMAIN buffers = 1 .. Len(buffers)
      /\ \A i \in DOMAIN buffers : buffers[i] \in BufferRecords
  BY <1>1, Measured
<1>6. Len(read) \in Nat /\ Len(queue) \in Nat  BY <1>1, Measured
<1>7. StreamBuffer \in 0 .. Len(buffers) /\ (StreamBuffer # None => StreamBuffer \in DOMAIN buffers)
  BY <1>1, <1>5 DEF StreamBuffer, None
<1> QED  BY <1>1, <1>3, <1>4, <1>5, <1>6, <1>7 DEF Taken

LEMMA Parts ==
  ASSUME NEW lo, StreamInv(lo)
  PROVE  /\ lo \in 0 .. written
         /\ StreamTypeOK /\ Buffers /\ ReaderKnown
         /\ WireCarriesAfter(lo) /\ Flow(lo) /\ Writer /\ Reader(lo)
BY DEF StreamInv

\* While the writer may write, there is nothing but data on the wire.
LEMMA OnlyData ==
  ASSUME NEW lo \in Nat, StreamInv(lo), transport = "open", writable = "open"
  PROVE  /\ Len(wire) = written - lo
         /\ \A i \in 1 .. Len(wire) : wire[i] = Data(lo + i) /\ wire[i].type = "data"
<1>1. \A i \in DOMAIN wire : wire[i].type = "data"  BY Typed, MessageTypes DEF StreamInv, Writer, Trailer
<1>2. ~ Len(wire) > written - lo
  <2> SUFFICES ASSUME Len(wire) > written - lo
               PROVE  FALSE
    OBVIOUS
  <2>1. Len(wire) \in DOMAIN wire /\ ~ (Len(wire) <= written - lo)  BY Typed DEF StreamInv, WireCarriesAfter
  <2> QED  BY <1>1, <2>1 DEF StreamInv, WireCarriesAfter
<1>3. Len(wire) = written - lo  BY <1>2, Typed DEF StreamInv, WireCarriesAfter
<1>4. ASSUME NEW i \in 1 .. Len(wire)  PROVE wire[i] = Data(lo + i)
  BY Parts, <1>3, Typed DEF WireCarriesAfter
<1> QED  BY <1>1, <1>3, <1>4, Typed DEF StreamInv

LEMMA WriteKeeps ==
  ASSUME NEW lo \in Nat, StreamInv(lo), Write
  PROVE  StreamInv(lo)'
<1>1. /\ writable = "open" /\ transport = "open" /\ written < Chunks
      /\ written' = written + 1 /\ outgoing' = "open"
      /\ wire' = Append(wire, Data(written + 1))
      /\ UNCHANGED << writable, ackOnWire, transport, nodes, managerVars, readerVars, tasks >>
  BY DEF Write
<1>2. Len(wire) = written - lo /\ lo \in 0 .. written /\ outgoing # "closed"
  BY <1>1, OnlyData DEF StreamInv, Writer
<1>3. written + 1 \in Numbers /\ Data(written + 1) \in Messages
      /\ Data(written + 1).type = "data"
  BY <1>1, Typed, MessageTypes DEF StreamInv, Numbers
<1>4. /\ wire' \in Seq(Messages) /\ Len(wire') = Len(wire) + 1
      /\ DOMAIN wire' = 1 .. (Len(wire) + 1)
      /\ \A i \in 1 .. Len(wire) : wire'[i] = wire[i]
      /\ wire'[Len(wire) + 1] = Data(written + 1)
      /\ wire' # << >>
  BY <1>1, <1>3, Typed, Appended DEF StreamInv
<1>0. /\ StreamTypeOK /\ written \in Nat /\ Chunks \in Nat /\ Len(wire) \in Nat  BY Parts, Typed
<1>5. StreamTypeOK' /\ lo \in 0 .. written'
  BY <1>0, <1>1, <1>2, <1>4 DEF StreamTypeOK, managerVars, readerVars
<1>6. Buffers' /\ ReaderKnown'  BY <1>1 DEF StreamInv, Buffers, ReaderKnown, managerVars, readerVars
<1>7. WireCarriesAfter(lo)'
  <2>1. /\ written \in Nat /\ Len(wire) \in Nat /\ written' - lo \in 0 .. Len(wire')
        /\ written' - lo = Len(wire) + 1
        /\ lo + (Len(wire) + 1) = written + 1
    BY <1>0, <1>1, <1>2, <1>4
  <2>2. ASSUME NEW i \in 1 .. Len(wire)
        PROVE  wire[i] = Data(lo + i)
    BY <1>1, OnlyData
  <2>3. ASSUME NEW i \in 1 .. (Len(wire) + 1)
        PROVE  wire'[i] = Data(lo + i)
    <3>1. CASE i \in 1 .. Len(wire)  BY <1>4, <2>2, <3>1
    <3>2. CASE i = Len(wire) + 1  BY <1>4, <2>1, <3>2
    <3> QED  BY <2>1, <3>1, <3>2
  <2> QED  BY <1>4, <2>1, <2>3 DEF WireCarriesAfter
<1>8. StreamBuffer' = StreamBuffer /\ Taken' = Taken  BY <1>1 DEF StreamBuffer, Taken, managerVars, readerVars
<1>9. Flow(lo)'
  <2>1. StreamBuffer # None /\ buffers[StreamBuffer].error = "none" =>
          ~buffers[StreamBuffer].finished
    BY <1>1 DEF StreamInv, ReaderKnown, Reader, StreamBuffer
  <2> QED  BY <1>1, <1>8, <2>1 DEF StreamInv, Flow, Met, managerVars, readerVars
<1>10. Writer'
  <2>1. \A i \in DOMAIN wire' : wire'[i].type = "data"
    <3>1. \A i \in 1 .. Len(wire) : wire[i].type = "data"  BY <1>1, OnlyData
    <3>2. ASSUME NEW i \in 1 .. (Len(wire) + 1), i \notin 1 .. Len(wire)  PROVE i = Len(wire) + 1
      BY <1>0, <3>2
    <3> QED  BY <1>3, <1>4, <3>1, <3>2
  <2>2. \A i \in DOMAIN wire' : Trailer(i)'  BY <1>1, <2>1 DEF Trailer
  <2>3. ~ackOnWire /\ AckTask \notin tasks  BY <1>1, Parts DEF Writer
  <2>4. ~(StreamBuffer # None /\ buffers[StreamBuffer].draining)  BY <1>1, Parts DEF Writer
  <2>5. written' # 0  BY <1>0, <1>1
  <2> QED  BY <1>1, <1>8, <2>2, <2>3, <2>4, <2>5 DEF Writer, managerVars, readerVars
<1>11. Reader(lo)'
  BY <1>1, <1>2, <1>8 DEF StreamInv, Writer, Reader, Acknowledged, Aborted, managerVars, readerVars
<1> QED  BY <1>5, <1>6, <1>7, <1>9, <1>10, <1>11 DEF StreamInv

LEMMA WriteFailsKeeps ==
  ASSUME NEW lo \in Nat, StreamInv(lo), WriteFails
  PROVE  StreamInv(lo)'
<1>1. /\ writable = "open" /\ writable' = "errored"
      /\ UNCHANGED << written, outgoing, linkVars, managerVars, readerVars, tasks >>
  BY DEF WriteFails
<1>2. StreamTypeOK' /\ Buffers' /\ ReaderKnown' /\ WireCarriesAfter(lo)' /\ lo \in 0 .. written'
  BY <1>1 DEF StreamInv, StreamTypeOK, Buffers, ReaderKnown, WireCarriesAfter, managerVars,
              readerVars, linkVars
<1>3. StreamBuffer' = StreamBuffer /\ Taken' = Taken  BY <1>1 DEF StreamBuffer, Taken, managerVars, readerVars
<1>4. Flow(lo)'  BY <1>1, <1>3 DEF StreamInv, Flow, Met, managerVars, readerVars, linkVars
<1>5. Writer'  BY <1>1, <1>3 DEF StreamInv, Writer, Trailer, managerVars, readerVars, linkVars
<1>6. Reader(lo)'
  BY <1>1, <1>3 DEF StreamInv, Writer, Reader, Acknowledged, Aborted, managerVars, readerVars, linkVars
<1> QED  BY <1>2, <1>4, <1>5, <1>6 DEF StreamInv

\* Something else than data is sent after everything else.
LEMMA CarriesTrailer ==
  ASSUME NEW lo \in Nat, StreamInv(lo), NEW m \in Messages, m.type # "data",
         wire' = Append(wire, m), written' = written
  PROVE  WireCarriesAfter(lo)'
<1>1. /\ Len(wire') = Len(wire) + 1 /\ DOMAIN wire' = 1 .. (Len(wire) + 1)
      /\ \A i \in 1 .. Len(wire) : wire'[i] = wire[i]
      /\ wire'[Len(wire) + 1] = m
      /\ Len(wire) \in Nat /\ DOMAIN wire = 1 .. Len(wire) /\ written \in Nat
  BY Typed, Appended DEF StreamInv
<1>2. ASSUME NEW i \in 1 .. (Len(wire) + 1)
      PROVE  IF i <= written - lo THEN wire'[i] = Data(lo + i) ELSE wire'[i].type # "data"
  <2>1. CASE i \in 1 .. Len(wire)  BY <1>1, <2>1 DEF StreamInv, WireCarriesAfter
  <2>2. CASE i = Len(wire) + 1  BY <1>1, <2>2 DEF StreamInv, WireCarriesAfter
  <2> QED  BY <1>1, <2>1, <2>2
<1> QED  BY <1>1, <1>2 DEF StreamInv, WireCarriesAfter

LEMMA CloseKeeps ==
  ASSUME NEW lo \in Nat, StreamInv(lo), Close
  PROVE  StreamInv(lo)'
<1>1. /\ writable = "open"
      /\ UNCHANGED << written, outgoing, ackOnWire, transport, nodes, managerVars,
                      readerVars, tasks >>
      /\ \/ outgoing # "open" /\ writable' = "closed" /\ wire' = wire
         \/ outgoing = "open" /\ writable' = "closing" /\ wire' = Append(wire, StreamEnd)
  BY DEF Close
<1>2. Buffers' /\ ReaderKnown' /\ lo \in 0 .. written'
  BY <1>1 DEF StreamInv, Buffers, ReaderKnown, managerVars, readerVars
<1>3. StreamBuffer' = StreamBuffer /\ Taken' = Taken  BY <1>1 DEF StreamBuffer, Taken, managerVars, readerVars
<1>4. Flow(lo)'  BY <1>1, <1>3 DEF StreamInv, Flow, Met, managerVars, readerVars
<1>5. CASE outgoing # "open"
  <2>1. writable' = "closed" /\ wire' = wire  BY <1>1, <1>5
  <2>2. StreamTypeOK' /\ WireCarriesAfter(lo)'
    BY <1>1, <2>1 DEF StreamInv, StreamTypeOK, WireCarriesAfter, managerVars, readerVars
  <2>3. transport = "open" => outgoing = "none" /\ written = 0 /\ wire = << >>
    <3> SUFFICES ASSUME transport = "open"
                 PROVE  outgoing = "none" /\ written = 0 /\ wire = << >>
      OBVIOUS
    <3>1. outgoing = "none" /\ written = 0  BY <1>1, <1>5 DEF StreamInv, Writer, StreamTypeOK
    <3>2. Len(wire) = 0  BY <1>1, <3>1, OnlyData DEF StreamInv
    <3> QED  BY <3>1, <3>2, Typed DEF StreamInv
  <2>4. Writer'  BY <1>1, <1>3, <2>1, <2>3 DEF StreamInv, Writer, Trailer, managerVars, readerVars
  <2>5. Reader(lo)'
    BY <1>1, <1>3, <2>1, <2>3
       DEF StreamInv, Writer, Reader, Acknowledged, Aborted, managerVars, readerVars
  <2> QED  BY <1>2, <1>4, <2>2, <2>4, <2>5 DEF StreamInv
<1>6. CASE outgoing = "open"
  <2>1. /\ writable' = "closing" /\ wire' = Append(wire, StreamEnd)
        /\ StreamEnd \in Messages /\ StreamEnd.type = "end"
    BY <1>1, <1>6, MessageTypes
  <2>2. /\ wire' \in Seq(Messages) /\ Len(wire') = Len(wire) + 1
        /\ DOMAIN wire' = 1 .. (Len(wire) + 1) /\ DOMAIN wire = 1 .. Len(wire)
        /\ \A i \in 1 .. Len(wire) : wire'[i] = wire[i]
        /\ wire'[Len(wire) + 1] = StreamEnd
        /\ wire' # << >> /\ Len(wire) \in Nat
    <3>1. wire \in Seq(Messages)  BY Typed DEF StreamInv
    <3> QED  BY <2>1, <3>1, Appended
  <2>3. StreamTypeOK'
    <3>1. StreamTypeOK  BY DEF StreamInv
    <3> QED  BY <1>1, <2>1, <2>2, <3>1 DEF StreamTypeOK, managerVars, readerVars
  <2>4. WireCarriesAfter(lo)'  BY <1>1, <2>1, CarriesTrailer
  <2>5. Writer'
    <3> SUFFICES ASSUME transport = "open"
                 PROVE  Writer'
      BY <1>1 DEF Writer
    <3>1. \A i \in 1 .. Len(wire) : wire[i].type = "data"  BY <1>1, OnlyData
    <3>2. \A i \in DOMAIN wire' : Trailer(i)'  BY <2>1, <2>2, <3>1 DEF Trailer
    <3> QED
      BY <1>1, <1>3, <1>6, <2>1, <2>2, <3>2
         DEF StreamInv, Writer, managerVars, readerVars
  <2>6. Reader(lo)'
    BY <1>1, <1>3, <1>6, <2>1
       DEF StreamInv, Writer, Reader, Acknowledged, Aborted, managerVars, readerVars
  <2> QED  BY <1>2, <1>4, <2>3, <2>4, <2>5, <2>6 DEF StreamInv
<1> QED  BY <1>5, <1>6

LEMMA ReceiveAckKeeps ==
  ASSUME NEW lo \in Nat, StreamInv(lo), ReceiveAck
  PROVE  StreamInv(lo)'
<1>1. /\ ackOnWire /\ ackOnWire' = FALSE
      /\ writable = "closing" /\ writable' = "closed" /\ outgoing' = "closed"
      /\ wire' = wire \o << >> \o << Closed("closed") >>
      /\ UNCHANGED << written, transport, nodes, managerVars, readerVars, tasks >>
  BY DEF ReceiveAck, SendAndClose
<1>2. /\ wire' = Append(wire, Closed("closed"))
      /\ Closed("closed") \in Messages
      /\ Closed("closed").type = "closed" /\ Closed("closed").why = "closed"
  BY <1>1, MessageTypes, Typed DEF StreamInv
<1>3. /\ wire' \in Seq(Messages) /\ Len(wire') = Len(wire) + 1
      /\ DOMAIN wire' = 1 .. (Len(wire) + 1) /\ DOMAIN wire = 1 .. Len(wire)
      /\ \A i \in 1 .. Len(wire) : wire'[i] = wire[i]
      /\ wire'[Len(wire) + 1] = Closed("closed")
      /\ wire' # << >> /\ Len(wire) \in Nat /\ (wire = << >> => Len(wire) = 0)
  <2>1. wire \in Seq(Messages) /\ Len(wire) \in Nat /\ DOMAIN wire = 1 .. Len(wire)  BY Parts, Typed
  <2>2. wire = << >> => Len(wire) = 0  OBVIOUS
  <2> QED  BY <1>2, <2>1, <2>2, Appended
<1>4. StreamTypeOK' /\ Buffers' /\ ReaderKnown' /\ lo \in 0 .. written'
  BY <1>1, <1>3 DEF StreamInv, StreamTypeOK, Buffers, ReaderKnown, managerVars, readerVars
<1>5. WireCarriesAfter(lo)'  BY <1>1, <1>2, CarriesTrailer
<1>6. StreamBuffer' = StreamBuffer /\ Taken' = Taken  BY <1>1 DEF StreamBuffer, Taken, managerVars, readerVars
<1>7. Flow(lo)'  BY <1>1, <1>6 DEF StreamInv, Flow, Met, managerVars, readerVars
<1>8. transport = "open" =>
        /\ wire = << >> /\ AckTask \notin tasks /\ written # 0
        /\ ~ (StreamBuffer # None /\ buffers[StreamBuffer].draining)
  BY <1>1 DEF StreamInv, Writer
<1>9. Writer'
  <2> SUFFICES ASSUME transport = "open"
               PROVE  Writer'
    BY <1>1 DEF Writer
  <2>1. \A i \in DOMAIN wire' : Trailer(i)'  BY <1>1, <1>2, <1>3, <1>8 DEF Trailer
  <2> QED  BY <1>1, <1>6, <1>8, <2>1 DEF StreamInv, Writer, managerVars, readerVars
<1>10. Reader(lo)'
  <2> SUFFICES ASSUME transport = "open", readable # "cancelled"
               PROVE  Reader(lo)'
    BY <1>1 DEF Reader, readerVars
  <2>1. \A i \in DOMAIN wire' : wire'[i].type = "closed"  BY <1>2, <1>3, <1>8
  <2> QED
    BY <1>1, <1>6, <1>8, <2>1
       DEF StreamInv, Writer, Reader, Acknowledged, Aborted, managerVars, readerVars
<1> QED  BY <1>4, <1>5, <1>7, <1>9, <1>10 DEF StreamInv

LEMMA AbortKeeps ==
  ASSUME NEW lo \in Nat, StreamInv(lo), Abort
  PROVE  StreamInv(lo)'
<1>1. /\ writable = "open" /\ writable' = "errored"
      /\ UNCHANGED << written, ackOnWire, transport, nodes, managerVars, readerVars, tasks >>
      /\ \/ outgoing = "open" /\ outgoing' = "closed"
              /\ wire' = wire \o << StreamAbort >> \o << Closed("closed") >>
         \/ outgoing # "open" /\ outgoing' = outgoing /\ wire' = wire
  BY DEF Abort, SendAndClose
<1>2. Buffers' /\ ReaderKnown' /\ lo \in 0 .. written'
  BY <1>1 DEF StreamInv, Buffers, ReaderKnown, managerVars, readerVars
<1>3. StreamBuffer' = StreamBuffer /\ Taken' = Taken  BY <1>1 DEF StreamBuffer, Taken, managerVars, readerVars
<1>4. Flow(lo)'  BY <1>1, <1>3 DEF StreamInv, Flow, Met, managerVars, readerVars
<1>5. CASE outgoing # "open"
  <2>1. outgoing' = outgoing /\ wire' = wire  BY <1>1, <1>5
  <2>2. StreamTypeOK' /\ WireCarriesAfter(lo)'
    BY <1>1, <2>1 DEF StreamInv, StreamTypeOK, WireCarriesAfter, managerVars, readerVars
  <2>3. Writer'  BY <1>1, <1>3, <2>1 DEF StreamInv, Writer, Trailer, managerVars, readerVars
  <2>4. Reader(lo)'
    BY <1>1, <1>3, <2>1
       DEF StreamInv, Writer, Reader, Acknowledged, Aborted, managerVars, readerVars
  <2> QED  BY <1>2, <1>4, <2>2, <2>3, <2>4 DEF StreamInv
<1>6. CASE outgoing = "open"
  <2>1. /\ outgoing' = "closed"
        /\ wire' = Append(Append(wire, StreamAbort), Closed("closed"))
        /\ Closed("closed") \in Messages /\ StreamAbort \in Messages
        /\ Closed("closed").type = "closed" /\ Closed("closed").why = "closed"
        /\ StreamAbort.type = "abort"
    BY <1>1, <1>6, MessageTypes, Typed DEF StreamInv
  <2> DEFINE l == Len(wire)
  <2>2. /\ wire' \in Seq(Messages) /\ Len(wire') = l + 2
        /\ DOMAIN wire' = 1 .. (l + 2) /\ DOMAIN wire = 1 .. l
        /\ \A i \in 1 .. l : wire'[i] = wire[i]
        /\ wire'[l + 1] = StreamAbort
        /\ wire'[l + 2] = Closed("closed")
        /\ l \in Nat
    <3> DEFINE w == Append(wire, StreamAbort)
    <3>1. /\ w \in Seq(Messages) /\ Len(w) = l + 1 /\ l \in Nat /\ DOMAIN wire = 1 .. l
          /\ \A i \in 1 .. l : w[i] = wire[i]
          /\ w[l + 1] = StreamAbort
      BY <2>1, Typed, Appended DEF StreamInv
    <3>2. wire' = Append(w, Closed("closed"))  BY <2>1
    <3>4. Len(w) \in Nat  BY <3>1
    <3> HIDE DEF w
    <3>3. /\ wire' \in Seq(Messages) /\ Len(wire') = Len(w) + 1
          /\ DOMAIN wire' = 1 .. (Len(w) + 1)
          /\ \A i \in 1 .. Len(w) : wire'[i] = w[i]
          /\ wire'[Len(w) + 1] = Closed("closed")
      <4>1. w \in Seq(Messages) /\ Closed("closed") \in Messages  BY <2>1, <3>1
      <4> QED  BY <3>2, <4>1, Appended
    <3> HIDE DEF l
    <3> QED  BY <3>1, <3>3
  <2>3. StreamTypeOK'  BY <1>1, <2>1, <2>2 DEF StreamInv, StreamTypeOK, managerVars, readerVars
  <2>4. WireCarriesAfter(lo)'
    <3> HIDE DEF l
    <3>1. ASSUME NEW i \in 1 .. (l + 2)
          PROVE  IF i <= written - lo THEN wire'[i] = Data(lo + i) ELSE wire'[i].type # "data"
      <4>0. written - lo \in Int /\ written - lo <= l  BY Typed DEF StreamInv, WireCarriesAfter, l
      <4>1. CASE i \in 1 .. l  BY <2>2, <4>1 DEF StreamInv, WireCarriesAfter
      <4>2. CASE i = l + 1  BY <2>1, <2>2, <4>0, <4>2
      <4>3. CASE i = l + 2  BY <2>1, <2>2, <4>0, <4>3
      <4> QED  BY <2>2, <4>1, <4>2, <4>3
    <3>2. written - lo \in 0 .. (l + 2)  BY <2>2, Typed DEF StreamInv, WireCarriesAfter, l
    <3> QED  BY <1>1, <2>2, <3>1, <3>2 DEF WireCarriesAfter
  <2>5. Writer'
    <3> SUFFICES ASSUME transport = "open"
                 PROVE  Writer'
      BY <1>1 DEF Writer
    <3>1. \A i \in 1 .. l : wire[i].type = "data"  BY <1>1, OnlyData
    <3>3. \A i \in DOMAIN wire' : Trailer(i)'
      <4> HIDE DEF l
      <4> SUFFICES ASSUME NEW i \in 1 .. (l + 2)
                   PROVE  Trailer(i)'
        BY <2>2
      <4>1. CASE i \in 1 .. l  BY <1>1, <2>2, <3>1, <4>1 DEF Trailer
      <4>2. CASE i = l + 1  BY <1>1, <2>1, <2>2, <4>2 DEF Trailer
      <4>3. CASE i = l + 2  BY <2>2, <4>3, <1>1, <2>1 DEF Trailer
      <4> QED  BY <2>2, <4>1, <4>2, <4>3
    <3> QED
      BY <1>1, <1>3, <1>6, <2>1, <2>2, <3>3
         DEF StreamInv, Writer, managerVars, readerVars
  <2>6. Reader(lo)'
    BY <1>1, <1>3, <1>6, <2>1
       DEF StreamInv, Writer, Reader, Acknowledged, Aborted, managerVars, readerVars
  <2> QED  BY <1>2, <1>4, <2>3, <2>4, <2>5, <2>6 DEF StreamInv
<1> QED  BY <1>5, <1>6

-----------------------------------------------------------------------------
(* A message leaves the wire.                                              *)

LEMMA NextData ==
  ASSUME NEW lo \in Nat, StreamInv(lo), wire # << >>, Head(wire).type = "data",
         wire' = Tail(wire), written' = written
  PROVE  /\ lo < written /\ lo + 1 \in Numbers /\ Head(wire) = Data(lo + 1)
         /\ WireCarriesAfter(lo + 1)' /\ wire' \in Seq(Messages)
<1>1. /\ Head(wire) = wire[1] /\ 1 \in DOMAIN wire
      /\ wire' \in Seq(Messages)
      /\ Len(wire) \in Nat /\ Len(wire) >= 1
      /\ Len(wire') = Len(wire) - 1
      /\ DOMAIN wire = 1 .. Len(wire) /\ DOMAIN wire' = 1 .. (Len(wire) - 1)
      /\ \A i \in 1 .. (Len(wire) - 1) : wire'[i] = wire[i + 1]
  BY Typed, TakenOff DEF StreamInv
<1>2. written \in Nat /\ lo \in 0 .. written /\ written <= Chunks /\ Chunks \in Nat  BY Typed DEF StreamInv
<1>3. /\ written - lo \in 0 .. Len(wire)
      /\ \A i \in 1 .. Len(wire) :
           IF i <= written - lo THEN wire[i] = Data(lo + i) ELSE wire[i].type # "data"
  BY <1>1 DEF StreamInv, WireCarriesAfter
<1>4. 1 <= written - lo  BY <1>1, <1>2, <1>3
<1>5. lo < written /\ lo + 1 \in Numbers /\ Head(wire) = Data(lo + 1)  BY <1>1, <1>2, <1>3, <1>4 DEF Numbers
<1>6. ASSUME NEW i \in 1 .. (Len(wire) - 1)
      PROVE  IF i <= written - (lo + 1) THEN wire'[i] = Data((lo + 1) + i)
             ELSE wire'[i].type # "data"
  BY <1>1, <1>2, <1>3
<1>7. written - (lo + 1) \in 0 .. (Len(wire) - 1)  BY <1>1, <1>2, <1>3, <1>4
<1> QED  BY <1>1, <1>5, <1>6, <1>7 DEF WireCarriesAfter

LEMMA NextOther ==
  ASSUME NEW lo \in Nat, StreamInv(lo), wire # << >>, Head(wire).type # "data",
         wire' = Tail(wire), written' = written
  PROVE  lo = written /\ WireCarriesAfter(lo)' /\ wire' \in Seq(Messages)
<1>1. /\ Head(wire) = wire[1] /\ 1 \in DOMAIN wire
      /\ wire' \in Seq(Messages)
      /\ Len(wire) \in Nat /\ Len(wire) >= 1
      /\ Len(wire') = Len(wire) - 1
      /\ DOMAIN wire = 1 .. Len(wire) /\ DOMAIN wire' = 1 .. (Len(wire) - 1)
      /\ \A i \in 1 .. (Len(wire) - 1) : wire'[i] = wire[i + 1]
  BY Typed, TakenOff DEF StreamInv
<1>2. written \in Nat /\ lo \in 0 .. written  BY Typed DEF StreamInv
<1>3. /\ written - lo \in 0 .. Len(wire)
      /\ \A i \in 1 .. Len(wire) :
           IF i <= written - lo THEN wire[i] = Data(lo + i) ELSE wire[i].type # "data"
  BY <1>1 DEF StreamInv, WireCarriesAfter
<1>4. ~ (1 <= written - lo)
  <2> SUFFICES ASSUME 1 <= written - lo
               PROVE  FALSE
    OBVIOUS
  <2>1. wire[1] = Data(lo + 1)  BY <1>1, <1>3
  <2>2. Data(lo + 1).type = "data"  BY DEF Data
  <2> QED  BY <1>1, <2>1, <2>2
<1>5. lo = written  BY <1>2, <1>4
<1>6. ASSUME NEW i \in 1 .. (Len(wire) - 1)
      PROVE  wire'[i].type # "data" /\ ~ (i <= written - lo)
  BY <1>1, <1>2, <1>5, <1>3
<1>7. written - lo \in 0 .. (Len(wire) - 1)  BY <1>1, <1>2, <1>5
<1> QED  BY <1>1, <1>5, <1>6, <1>7 DEF WireCarriesAfter

\* What is left on the wire trails as before, if the buffer is gone once the
\* stream-abort has been received.
LEMMA TailTrails ==
  ASSUME NEW lo \in Nat, StreamInv(lo), transport = "open", wire # << >>,
         wire' = Tail(wire), writable' = writable, outgoing' = outgoing,
         Head(wire) = StreamAbort => channelBuffer' = None
  PROVE  /\ Trailer(1) /\ Head(wire) = wire[1]
         /\ \A i \in DOMAIN wire' : Trailer(i)'
         /\ Len(wire) = 1 => wire' = << >>
         /\ (\A i \in DOMAIN wire : wire[i].type = "closed") =>
              \A i \in DOMAIN wire' : wire'[i].type = "closed"
<1>1. /\ Head(wire) = wire[1] /\ 1 \in DOMAIN wire
      /\ wire' \in Seq(Messages)
      /\ Len(wire) \in Nat /\ Len(wire) >= 1
      /\ Len(wire') = Len(wire) - 1
      /\ DOMAIN wire = 1 .. Len(wire) /\ DOMAIN wire' = 1 .. (Len(wire) - 1)
      /\ \A i \in 1 .. (Len(wire) - 1) : wire'[i] = wire[i + 1]
  BY Typed, TakenOff DEF StreamInv
<1>2. \A i \in 1 .. Len(wire) : Trailer(i)  BY <1>1 DEF StreamInv, Writer
<1>3. ASSUME NEW i \in 1 .. (Len(wire) - 1)
      PROVE  Trailer(i)'
  <2>1. /\ i + 1 \in 1 .. Len(wire) /\ i + 1 # 1 /\ (i + 1) - 1 = i
        /\ (i + 1 = Len(wire) => i = Len(wire'))
    <3> DEFINE l == Len(wire)
               m == Len(wire')
    <3>1. i \in 1 .. (l - 1) /\ l \in Nat /\ m = l - 1  BY <1>1
    <3> HIDE DEF l, m
    <3>2. i + 1 \in 1 .. l /\ i + 1 # 1 /\ (i + 1) - 1 = i /\ (i + 1 = l => i = m)  BY <3>1
    <3> QED  BY <3>2 DEF l, m
  <2>2. Trailer(i + 1) /\ wire'[i] = wire[i + 1]  BY <1>1, <1>2, <2>1
  <2>3. CASE i = 1  BY <1>1, <2>1, <2>2, <2>3 DEF Trailer
  <2>4. CASE i # 1  BY <1>1, <2>4, <2>1, <2>2 DEF Trailer
  <2> QED  BY <2>3, <2>4
<1>4. ASSUME \A i \in DOMAIN wire : wire[i].type = "closed",
             NEW i \in 1 .. (Len(wire) - 1)
      PROVE  wire'[i].type = "closed"
  BY <1>1, <1>4
<1> QED  BY <1>1, <1>2, <1>3, <1>4, Measured

-----------------------------------------------------------------------------
(* The channel's buffer is closed.                                         *)

LEMMA EndOfTypes ==
  \A kind \in { "closed", "error" } :
    /\ EndOf(kind) \in { "closed", "errored" }
    /\ EndOf(kind) = "closed" <=> kind = "closed"
BY DEF EndOf

\* Buffer i is replaced by one of the same shape.
LEMMA OneReplaced ==
  ASSUME NEW bs \in Seq(BufferRecords), NEW i \in DOMAIN bs, NEW b \in BufferRecords,
         NEW cs, cs = [ bs EXCEPT ![i] = b ]
  PROVE  /\ cs \in Seq(BufferRecords) /\ Len(cs) = Len(bs) /\ DOMAIN cs = DOMAIN bs
         /\ cs[i] = b
         /\ \A j \in DOMAIN bs : j # i => cs[j] = bs[j]
BY Measured, ExceptSeq

LEMMA CloseIncomingMakes ==
  ASSUME NEW lo \in Nat, StreamInv(lo),
         NEW kind \in { "closed", "error" }, NEW running, AckTask \notin running,
         CloseIncoming(kind, running),
         UNCHANGED << readerBuffer, handshake, queue, read, listening, linked, written,
                      transport, nodes, writable, outgoing, ackOnWire >>,
         wire' \in Seq(Messages)
  PROVE  /\ StreamTypeOK' /\ Buffers' /\ ReaderKnown' /\ Flow(lo)'
         /\ channelBuffer' = None /\ StreamBuffer' = StreamBuffer /\ Taken' = Taken
         /\ AckTask \in tasks' <=> AckTask \in tasks
         /\ readable' = "cancelled" <=> readable = "cancelled"
         /\ StreamBuffer # None /\ buffers'[StreamBuffer].draining =>
              buffers[StreamBuffer].draining
         /\ channelBuffer = None =>
              buffers' = buffers /\ readable' = readable /\ tasks' = tasks \ running
         /\ channelBuffer # None =>
              /\ channelBuffer \in DOMAIN buffers
              /\ buffers'[channelBuffer] = Destroyed(buffers[channelBuffer], kind)
              /\ readable' = ReadableAfter(channelBuffer, kind)
              /\ \A t \in tasks' :
                   \/ t \in tasks
                   \/ t = CloseTask(kind) /\ buffers[channelBuffer].parked # << >>
<1>1. StreamBuffer' = StreamBuffer /\ Taken' = Taken /\ channelBuffer' = None
  BY DEF StreamBuffer, Taken, CloseIncoming
<1>2. CASE channelBuffer = None
  <2>1. buffers' = buffers /\ readable' = readable /\ tasks' = tasks \ running  BY <1>2 DEF CloseIncoming
  <2>2. StreamTypeOK'  BY <1>1, <2>1 DEF StreamInv, StreamTypeOK, None
  <2>3. Buffers' /\ ReaderKnown'  BY <1>1, <1>2, <2>1 DEF StreamInv, Buffers, ReaderKnown
  <2>4. Flow(lo)'  BY <1>1, <1>2, <2>1 DEF StreamInv, Flow, Met
  <2> QED  BY <1>1, <1>2, <2>1, <2>2, <2>3, <2>4
<1>3. CASE channelBuffer # None
  <2> DEFINE b == buffers[channelBuffer]
  <2>1. /\ channelBuffer \in DOMAIN buffers /\ buffers \in Seq(BufferRecords)
        /\ b \in BufferRecords /\ BufferOK(b)
    BY <1>3, Typed DEF StreamInv, Buffers, StreamTypeOK, None
  <2>2. LET d == Destroyed(b, kind)
        IN  /\ d \in BufferRecords /\ BufferOK(d)
            /\ ~d.popping /\ ~d.draining /\ d.finished
            /\ d.items = b.items
            /\ b.error = "none" => d.parked = << >> /\ d.error = kind
            /\ b.error # "none" => d.parked = b.parked /\ d.error = b.error
            /\ d.parked = << >>
    BY <2>1, DestroyedIsOK
  <2>3. /\ buffers' = [ buffers EXCEPT ![channelBuffer] = Destroyed(b, kind) ]
        /\ readable' = ReadableAfter(channelBuffer, kind)
        /\ tasks' = TasksAfter(channelBuffer, kind) \ running
    BY <1>3 DEF CloseIncoming
  <2>4. /\ buffers' \in Seq(BufferRecords) /\ Len(buffers') = Len(buffers)
        /\ DOMAIN buffers' = DOMAIN buffers
        /\ buffers'[channelBuffer] = Destroyed(b, kind)
        /\ \A j \in DOMAIN buffers : j # channelBuffer => buffers'[j] = buffers[j]
    BY <2>1, <2>2, <2>3, OneReplaced
  <2>5. \A t \in tasks' : t \in tasks \/ (t = CloseTask(kind) /\ b.parked # << >>)  BY <2>3 DEF TasksAfter
  <2>6. AckTask \in tasks' <=> AckTask \in tasks  BY <2>3 DEF TasksAfter, AckTask, CloseTask
  <2>7. \/ /\ readable' \in { "closed", "errored" } /\ b.popping /\ readable = "open"
           /\ channelBuffer = readerBuffer /\ queue = << >>
        \/ readable' = readable /\ ~b.popping
    BY <2>1, <2>3, EndOfTypes DEF ReadableAfter, StreamInv, Buffers
  <2>8. StreamTypeOK'
    <3>1. tasks' \subseteq [ task : { "close", "ack" }, why : Kinds ]
      BY <2>5 DEF StreamInv, StreamTypeOK, CloseTask, Kinds
    <3> QED  BY <1>1, <2>4, <2>7, <3>1 DEF StreamInv, StreamTypeOK, None
  <2>9. Buffers'
    <3> SUFFICES ASSUME NEW i \in DOMAIN buffers'
                 PROVE  /\ BufferOK(buffers'[i])
                        /\ buffers'[i].popping => i = readerBuffer /\ readable' = "open" /\ queue = << >>
      BY <2>5 DEF StreamInv, Buffers, CloseTask
    <3>1. CASE i = channelBuffer  BY <2>2, <2>4, <3>1
    <3>2. CASE i # channelBuffer  BY <2>4, <2>7, <3>2 DEF StreamInv, Buffers
    <3> QED  BY <3>1, <3>2
  <2>10. ReaderKnown'
    <3>1. readable' = "cancelled" => buffers'[readerBuffer].error # "none"
      <4> SUFFICES ASSUME readable' = "cancelled"
                   PROVE  buffers'[readerBuffer].error # "none"
        OBVIOUS
      <4>1. readable = "cancelled" /\ buffers[readerBuffer].error # "none"
            /\ readerBuffer \in DOMAIN buffers
        BY <2>7, Typed DEF StreamInv, ReaderKnown, StreamTypeOK, None
      <4> QED  BY <2>2, <2>4, <4>1
    <3> QED  BY <1>1, <2>7, <3>1 DEF StreamInv, ReaderKnown
  <2>11. StreamBuffer # None => StreamBuffer \in DOMAIN buffers /\ buffers'[StreamBuffer].error # "none"
    <3> SUFFICES ASSUME StreamBuffer # None
                 PROVE  StreamBuffer \in DOMAIN buffers /\ buffers'[StreamBuffer].error # "none"
      OBVIOUS
    <3>1. StreamBuffer \in DOMAIN buffers  BY Typed DEF StreamInv
    <3>2. CASE buffers[StreamBuffer].error = "none"  BY <1>3, <3>2, <2>2, <2>4, <3>1 DEF StreamInv, Flow
    <3>3. CASE buffers[StreamBuffer].error # "none"  BY <2>2, <2>4, <3>1, <3>3
    <3> QED  BY <3>1, <3>2, <3>3
  <2>12. Flow(lo)'  BY <1>1, <1>3, <2>11 DEF StreamInv, Flow
  <2>13. StreamBuffer # None /\ buffers'[StreamBuffer].draining => buffers[StreamBuffer].draining
    BY <2>2, <2>4, <2>11
  <2> QED  BY <1>1, <1>3, <2>1, <2>3, <2>4, <2>5, <2>6, <2>7, <2>8, <2>9, <2>10, <2>12, <2>13
<1> QED  BY <1>2, <1>3

LEMMA RunAckKeeps ==
  ASSUME NEW lo \in Nat, StreamInv(lo), RunAck
  PROVE  StreamInv(lo)'
<1>1. /\ AckTask \in tasks /\ tasks' = tasks \ { AckTask }
      /\ ackOnWire' = (transport = "open")
      /\ UNCHANGED << writerVars, wire, transport, nodes, managerVars, readerVars >>
  BY DEF RunAck
<1>2. StreamTypeOK' /\ Buffers' /\ ReaderKnown' /\ WireCarriesAfter(lo)' /\ lo \in 0 .. written'
  BY <1>1 DEF StreamInv, StreamTypeOK, Buffers, ReaderKnown, WireCarriesAfter, managerVars,
              readerVars, writerVars
<1>3. StreamBuffer' = StreamBuffer /\ Taken' = Taken  BY <1>1 DEF StreamBuffer, Taken, managerVars, readerVars
<1>4. Flow(lo)'  BY <1>1, <1>3 DEF StreamInv, Flow, Met, managerVars, readerVars, writerVars
<1>5. Writer'  BY <1>1, <1>3 DEF StreamInv, Writer, Trailer, managerVars, readerVars, writerVars
<1>6. Reader(lo)'
  BY <1>1, <1>3 DEF StreamInv, Writer, Reader, Acknowledged, Aborted, managerVars, readerVars,
                    writerVars
<1> QED  BY <1>2, <1>4, <1>5, <1>6 DEF StreamInv

LEMMA RunCloseKeeps ==
  ASSUME NEW lo \in Nat, StreamInv(lo), NEW t \in tasks, RunClose(t)
  PROVE  StreamInv(lo)'
<1>1. /\ t.task = "close" /\ CloseIncoming(t.why, { t })
      /\ UNCHANGED << writerVars, linkVars, handshake, listening, readerBuffer, linked,
                      queue, read >>
  BY DEF RunClose
<1>2. AckTask \notin { t } /\ t.why \in { "closed", "error" }
  BY <1>1 DEF AckTask, StreamInv, StreamTypeOK, Buffers, Kinds
<1>3. /\ StreamTypeOK' /\ Buffers' /\ ReaderKnown' /\ Flow(lo)'
      /\ channelBuffer' = None /\ StreamBuffer' = StreamBuffer /\ Taken' = Taken
      /\ AckTask \in tasks' <=> AckTask \in tasks
      /\ readable' = "cancelled" <=> readable = "cancelled"
      /\ StreamBuffer # None /\ buffers'[StreamBuffer].draining =>
           buffers[StreamBuffer].draining
      /\ channelBuffer = None =>
           buffers' = buffers /\ readable' = readable /\ tasks' = tasks \ { t }
  BY <1>1, <1>2, CloseIncomingMakes DEF linkVars, StreamInv, StreamTypeOK, writerVars
<1>4. WireCarriesAfter(lo)' /\ lo \in 0 .. written'
  BY <1>1 DEF StreamInv, WireCarriesAfter, writerVars, linkVars
<1>5. Writer'  BY <1>1, <1>3 DEF StreamInv, Writer, Trailer, writerVars, linkVars
<1>6. Reader(lo)'
  <2> SUFFICES ASSUME transport = "open", readable # "cancelled"
               PROVE  Reader(lo)'
    BY <1>1, <1>3 DEF Reader, linkVars
  <2>1. channelBuffer = None  BY <1>1 DEF StreamInv, Reader
  <2> QED  BY <1>1, <1>3, <2>1 DEF StreamInv, Reader, Acknowledged, Aborted, writerVars, linkVars
<1> QED  BY <1>3, <1>4, <1>5, <1>6 DEF StreamInv

\* A stream-abort, or the close event of the channel.
LEMMA ClosureKeeps ==
  ASSUME NEW lo \in Nat, StreamInv(lo), wire # << >>, wire' = Tail(wire),
         HandleClosure(Head(wire)),
         UNCHANGED << writerVars, ackOnWire, transport, nodes, readerBuffer, read >>
  PROVE  StreamInv(lo)'
<1> DEFINE m == Head(wire)
<1>1. /\ m.type \in { "abort", "closed" } /\ m \in Messages
      /\ m.type = "closed" => m.why \in { "closed", "error" }
      /\ m.type = "abort" => m = StreamAbort
  BY Typed, TakenOff, MessageTypes DEF HandleClosure, StreamInv
<1>2. UNCHANGED << handshake, listening, linked, queue >>  BY DEF HandleClosure
<1>3. /\ lo = written /\ wire' \in Seq(Messages)
      /\ WireCarriesAfter(lo)' /\ lo \in 0 .. written'
  BY <1>1, NextOther DEF writerVars, StreamInv
<1>4. UNCHANGED << readerBuffer, handshake, queue, read, listening, linked, written,
                   transport, nodes, writable, outgoing, ackOnWire >>
  BY <1>2 DEF writerVars
<1>5. ASSUME transport = "open", Head(wire) = StreamAbort => channelBuffer' = None
      PROVE  /\ Trailer(1) /\ Head(wire) = wire[1]
             /\ \A i \in DOMAIN wire' : Trailer(i)'
             /\ (\A i \in DOMAIN wire : wire[i].type = "closed") =>
                  \A i \in DOMAIN wire' : wire'[i].type = "closed"
  BY <1>4, <1>5, TailTrails
<1>6. CASE channelBuffer = None
  <2>1. UNCHANGED << channelBuffer, buffers, readable, tasks >>  BY <1>6 DEF HandleClosure, CloseIncoming
  <2>2. StreamTypeOK' /\ Buffers' /\ ReaderKnown'
    BY <1>3, <1>4, <2>1 DEF StreamInv, StreamTypeOK, Buffers, ReaderKnown
  <2>3. StreamBuffer' = StreamBuffer /\ Taken' = Taken  BY <1>4, <2>1 DEF StreamBuffer, Taken
  <2>4. Flow(lo)'  BY <1>4, <2>1, <2>3 DEF StreamInv, Flow, Met
  <2>5. Writer'  BY <1>4, <1>5, <1>6, <2>1, <2>3 DEF StreamInv, Writer
  <2>6. Reader(lo)'  BY <1>4, <1>5, <1>6, <2>1, <2>3 DEF StreamInv, Reader, Acknowledged, Aborted
  <2> QED  BY <1>3, <2>2, <2>4, <2>5, <2>6 DEF StreamInv
<1>7. CASE channelBuffer # None
  <2>1. PICK kind \in { "closed", "error" } :
          /\ CloseIncoming(kind, {})
          /\ m.type = "abort" => kind = "error"
          /\ m.type = "closed" => kind = m.why
    BY <1>1, <1>7 DEF HandleClosure, StreamInv, ReaderKnown
  <2> DEFINE b == buffers[channelBuffer]
  <2>2. /\ StreamTypeOK' /\ Buffers' /\ ReaderKnown' /\ Flow(lo)'
        /\ channelBuffer' = None /\ StreamBuffer' = StreamBuffer /\ Taken' = Taken
        /\ AckTask \in tasks' <=> AckTask \in tasks
        /\ readable' = "cancelled" <=> readable = "cancelled"
        /\ StreamBuffer # None /\ buffers'[StreamBuffer].draining =>
             buffers[StreamBuffer].draining
        /\ channelBuffer \in DOMAIN buffers
        /\ buffers'[channelBuffer] = Destroyed(b, kind)
        /\ readable' = ReadableAfter(channelBuffer, kind)
        /\ \A t \in tasks' : t \in tasks \/ (t = CloseTask(kind) /\ b.parked # << >>)
    BY <1>3, <1>4, <1>7, <2>1, CloseIncomingMakes
  <2>3. Writer'  BY <1>4, <1>5, <2>2 DEF StreamInv, Writer
  <2>4. Reader(lo)'
    <3> SUFFICES ASSUME transport = "open", readable # "cancelled"
                 PROVE  Reader(lo)'
      BY <1>4, <2>2 DEF Reader
    <3>1. /\ StreamBuffer # None /\ b.error = "none" /\ channelBuffer = StreamBuffer
          /\ b \in BufferRecords /\ BufferOK(b)
      BY <1>7, <2>2, Typed DEF StreamInv, Reader, Flow, Buffers
    <3>2. LET d == Destroyed(b, kind)
          IN  ~d.popping /\ ~d.draining /\ d.finished /\ d.items = b.items
                /\ d.parked = << >> /\ d.error = kind
      BY <3>1, DestroyedIsOK
    <3>3. Trailer(1) /\ m = wire[1]  BY <1>5, <2>2
    <3>4. CASE m.type = "abort"
      <4>1. Aborted /\ kind = "error" /\ wire # << >>  BY <2>1, <3>3, <3>4 DEF Trailer, Aborted
      <4>2. ~Acknowledged  BY <4>1 DEF Acknowledged, Aborted, StreamInv, Writer
      <4>3. readable' = readable \/ readable' = "errored"  BY <2>2, <4>1 DEF ReadableAfter, EndOf
      <4>4. readable # "closed"  BY <4>1 DEF StreamInv, Reader, Aborted
      <4>5. \A t \in tasks' : t.task = "close" => t.why = "error"
        BY <2>2, <4>1 DEF StreamInv, Reader, CloseTask
      <4>6. ~Acknowledged' /\ Aborted'  BY <1>4, <2>2, <4>1, <4>2 DEF Acknowledged, Aborted
      <4> QED  BY <1>3, <1>4, <2>2, <3>1, <3>2, <4>1, <4>3, <4>4, <4>5, <4>6 DEF Reader, Aborted
    <3>5. CASE m.type = "closed"
      <4>1. kind = "closed" /\ outgoing = "closed" /\ writable = "closed" /\ wire # << >>
        BY <1>7, <2>1, <3>3, <3>5 DEF Trailer
      <4>2. /\ b.finished /\ b.items = << >> /\ b.parked = << >> /\ Taken = written
            /\ ~b.popping
        BY <3>1, <4>1 DEF StreamInv, Reader, Acknowledged, BufferOK
      <4>3. readable' = readable  BY <2>2, <4>2 DEF ReadableAfter
      <4>4. \A t \in tasks' : t \in tasks  BY <2>2, <4>2
      <4> QED
        BY <1>3, <1>4, <2>2, <3>1, <3>2, <4>1, <4>2, <4>3, <4>4
           DEF StreamInv, Reader, Aborted
    <3> QED  BY <1>1, <3>4, <3>5
  <2> QED  BY <1>3, <2>2, <2>3, <2>4 DEF StreamInv
<1> QED  BY <1>6, <1>7

\* A stream-end: the buffer is finished, and drained or not.
LEMMA EndKeeps ==
  ASSUME NEW lo \in Nat, StreamInv(lo), wire # << >>, wire' = Tail(wire),
         HandleEnd(Head(wire)),
         UNCHANGED << writerVars, ackOnWire, transport, nodes, readerBuffer, read >>
  PROVE  StreamInv(lo)'
<1> DEFINE m == Head(wire)
<1>1. m.type = "end" /\ m # StreamAbort  BY MessageTypes DEF HandleEnd
<1>2. UNCHANGED << channelBuffer, handshake, listening, linked, queue >>  BY DEF HandleEnd
<1>3. /\ lo = written /\ wire' \in Seq(Messages)
      /\ WireCarriesAfter(lo)' /\ lo \in 0 .. written'
  BY <1>1, NextOther DEF writerVars, StreamInv
<1>4. UNCHANGED << written, writable, outgoing, transport, nodes, ackOnWire, readerBuffer, read >>
  BY DEF writerVars
<1>5. StreamBuffer' = StreamBuffer /\ Taken' = Taken  BY <1>2, <1>4 DEF StreamBuffer, Taken
<1>6. transport = "open" =>
        /\ writable = "closing" /\ wire' = << >> /\ wire # << >>
        /\ ~ackOnWire /\ AckTask \notin tasks
        /\ ~ (StreamBuffer # None /\ buffers[StreamBuffer].draining)
  <2> SUFFICES ASSUME transport = "open"
               PROVE  /\ writable = "closing" /\ wire' = << >>
                      /\ ~ackOnWire /\ AckTask \notin tasks
                      /\ ~ (StreamBuffer # None /\ buffers[StreamBuffer].draining)
    OBVIOUS
  <2>1. Trailer(1) /\ m = wire[1] /\ (Len(wire) = 1 => wire' = << >>)  BY <1>1, <1>4, TailTrails
  <2> QED  BY <1>1, <2>1 DEF Trailer, StreamInv, Writer
<1>7. CASE channelBuffer = None
  <2>1. UNCHANGED << buffers, readable, tasks >>  BY <1>7 DEF HandleEnd
  <2>2. StreamTypeOK' /\ Buffers' /\ ReaderKnown'
    BY <1>2, <1>3, <1>4, <2>1 DEF StreamInv, StreamTypeOK, Buffers, ReaderKnown
  <2>3. Flow(lo)'  BY <1>2, <1>4, <1>5, <2>1 DEF StreamInv, Flow, Met
  <2>4. Writer'  BY <1>2, <1>4, <1>5, <1>6, <2>1 DEF StreamInv, Writer
  <2>5. Reader(lo)'  BY <1>2, <1>4, <1>5, <1>6, <2>1 DEF StreamInv, Reader, Acknowledged, Aborted
  <2> QED  BY <1>3, <2>2, <2>3, <2>4, <2>5 DEF StreamInv
<1>8. CASE channelBuffer # None
  <2> DEFINE b == buffers[channelBuffer]
             f == Finished(b)
             d == [ f EXCEPT !.draining = ~IsDrained(f) /\ f.error = "none" ]
  <2>1. /\ channelBuffer \in DOMAIN buffers /\ buffers \in Seq(BufferRecords)
        /\ b \in BufferRecords /\ BufferOK(b)
    BY <1>8, Typed DEF StreamInv, Buffers, StreamTypeOK, None
  <2>2. /\ f.items = b.items /\ f.parked = b.parked /\ f.error = b.error
        /\ f.finished /\ (IsDrained(f) <=> b.items = << >>)
        /\ d \in BufferRecords /\ BufferOK(d) /\ ~d.popping /\ d.finished
        /\ d.items = b.items /\ d.parked = b.parked /\ d.error = b.error
        /\ d.draining = (b.items # << >> /\ b.error = "none")
    BY <2>1, FinishedIsOK
  <2>3. /\ buffers' = [ buffers EXCEPT ![channelBuffer] = d ]
        /\ readable' = ReadableAfter(channelBuffer, "closed")
        /\ tasks' = tasks \cup IF IsDrained(f) THEN { AckTask } ELSE {}
    BY <1>8 DEF HandleEnd
  <2> HIDE DEF f, d
  <2>4. /\ buffers' \in Seq(BufferRecords) /\ Len(buffers') = Len(buffers)
        /\ DOMAIN buffers' = DOMAIN buffers
        /\ buffers'[channelBuffer] = d
        /\ \A j \in DOMAIN buffers : j # channelBuffer => buffers'[j] = buffers[j]
    BY <2>1, <2>2, <2>3, OneReplaced
  <2>5. tasks' = IF b.items = << >> THEN tasks \cup { AckTask } ELSE tasks  BY <2>2, <2>3
  <2>6. \/ /\ readable' = "closed" /\ b.popping /\ readable = "open" /\ queue = << >>
           /\ channelBuffer = readerBuffer
        \/ readable' = readable /\ ~b.popping
    BY <2>1, <2>3 DEF ReadableAfter, EndOf, StreamInv, Buffers
  <2>7. StreamTypeOK'
    <3>1. tasks' \subseteq [ task : { "close", "ack" }, why : Kinds ]
      BY <2>5 DEF StreamInv, StreamTypeOK, AckTask, Kinds
    <3> QED  BY <1>2, <1>3, <1>4, <2>4, <2>6, <3>1 DEF StreamInv, StreamTypeOK, None
  <2>8. Buffers'
    <3>1. \A t \in tasks' : t.task = "close" => t.why # "none"  BY <2>5 DEF StreamInv, Buffers, AckTask
    <3>2. ASSUME NEW i \in DOMAIN buffers'
          PROVE  /\ BufferOK(buffers'[i])
                 /\ buffers'[i].popping => i = readerBuffer /\ readable' = "open" /\ queue = << >>
      <4>1. CASE i = channelBuffer  BY <2>2, <2>4, <4>1
      <4>2. CASE i # channelBuffer  BY <2>4, <2>6, <4>2 DEF StreamInv, Buffers
      <4> QED  BY <4>1, <4>2
    <3> QED  BY <1>2, <1>4, <3>1, <3>2 DEF Buffers
  <2>9. ReaderKnown'
    <3>1. readable' = "cancelled" => buffers'[readerBuffer].error # "none"
      <4> SUFFICES ASSUME readable' = "cancelled"
                   PROVE  buffers'[readerBuffer].error # "none"
        OBVIOUS
      <4>1. readable = "cancelled" /\ buffers[readerBuffer].error # "none"
            /\ readerBuffer \in DOMAIN buffers
        BY <2>6, Typed DEF StreamInv, ReaderKnown, StreamTypeOK, None
      <4> QED  BY <2>2, <2>4, <4>1
    <3> QED  BY <1>2, <1>4, <2>6, <3>1 DEF StreamInv, ReaderKnown
  <2>10. /\ StreamBuffer # None => StreamBuffer \in DOMAIN buffers
         /\ StreamBuffer # None /\ buffers[StreamBuffer].error = "none" =>
              channelBuffer = StreamBuffer
         /\ StreamBuffer # None
    BY <1>8, Typed DEF StreamInv, Flow
  <2>11. Flow(lo)'
    <3>1. CASE channelBuffer = StreamBuffer
      BY <1>2, <1>3, <1>4, <1>5, <2>2, <2>4, <2>10, <3>1 DEF StreamInv, Flow, Met
    <3>2. CASE channelBuffer # StreamBuffer
      BY <1>2, <1>3, <1>4, <1>5, <2>2, <2>4, <2>10, <3>2 DEF StreamInv, Flow, Met
    <3> QED  BY <3>1, <3>2
  <2>12. Writer'
    <3> SUFFICES ASSUME transport = "open"
                 PROVE  Writer'
      BY <1>4 DEF Writer
    <3>1. buffers'[StreamBuffer].draining => b.items # << >>  BY <1>6, <2>2, <2>4, <2>10
    <3>2. b.items # << >> => AckTask \notin tasks'  BY <1>6, <2>5
    <3> QED  BY <1>2, <1>4, <1>5, <1>6, <3>1, <3>2 DEF StreamInv, Writer
  <2>13. Reader(lo)'
    <3> SUFFICES ASSUME transport = "open", readable # "cancelled"
                 PROVE  Reader(lo)'
      BY <1>4, <2>6 DEF Reader
    <3>1. /\ channelBuffer = StreamBuffer /\ b.error = "none"  BY <1>8, <2>10 DEF StreamInv, Reader
    <3>2. b.items = << >> => b.parked = << >> /\ Taken = written
      <4> SUFFICES ASSUME b.items = << >>
                   PROVE  b.parked = << >> /\ Taken = written
        OBVIOUS
      <4>1. b.parked = << >> /\ Len(b.items) = 0 /\ Len(b.parked) = 0
        BY <2>1, BufferAssumption DEF BufferOK, IsFull
      <4>2. Met(lo, Taken + Len(b.items) + Len(b.parked))  BY <1>8, <3>1 DEF StreamInv, Flow
      <4> QED  BY <1>3, <4>1, <4>2, Typed DEF Met, StreamInv
    <3>3. Acknowledged' => b.items = << >>  BY <1>4, <1>6, <2>5 DEF Acknowledged
    <3>4. readable' = "closed" => (b.items = << >> /\ queue = << >>) \/ readable = "closed"
      BY <2>1, <2>6 DEF BufferOK
    <3>5. queue = << >> => Taken = Len(read)  BY Typed DEF Taken, StreamInv
    <3>6. \A t \in tasks' : t.task = "close" => t \in tasks  BY <2>5 DEF AckTask
    <3>7. \A i \in DOMAIN wire' : wire'[i].type = "closed"  BY <1>6
    <3>8. /\ buffers'[StreamBuffer] = d /\ d.finished /\ d.items = b.items
          /\ d.parked = b.parked /\ d.error = "none"
      BY <2>2, <2>4, <3>1
    <3>9. readable' = "errored" => Aborted'  BY <1>4, <2>6 DEF StreamInv, Reader, Aborted
    <3>10. readable' = "closed" =>
             Len(read') = written' /\ queue' = << >> /\ writable' \in { "closing", "closed" }
      BY <1>2, <1>4, <1>6, <3>2, <3>4, <3>5 DEF StreamInv, Reader
    <3>11. \A t \in tasks' : t.task # "close"  BY <1>6, <1>8, <3>6 DEF StreamInv, Reader
    <3> QED  BY <1>3, <1>4, <1>5, <1>6, <2>10, <3>2, <3>3, <3>7, <3>8, <3>9, <3>10, <3>11 DEF Reader
  <2> QED  BY <1>3, <2>7, <2>8, <2>9, <2>11, <2>12, <2>13 DEF StreamInv
<1> QED  BY <1>7, <1>8

-----------------------------------------------------------------------------
(* A chunk arrives.                                                        *)

\* What a push of x to the buffer at i makes of the state.
PushedTo(bs, i, x) ==
  /\ buffers' \in Seq(BufferRecords) /\ Len(buffers') = Len(bs)
  /\ DOMAIN buffers' = DOMAIN bs
  /\ \A j \in DOMAIN bs : j # i => buffers'[j] = bs[j]
  /\ BufferOK(buffers'[i])
  /\ ~buffers'[i].popping /\ ~buffers'[i].draining /\ ~buffers'[i].finished
  /\ buffers'[i].error = "none"
  /\ tasks' = tasks /\ queue' \in Seq(Numbers)
  /\ \/ /\ bs[i].popping /\ queue' = Append(queue, x)
        /\ buffers'[i].items = << >> /\ buffers'[i].parked = << >>
     \/ /\ ~bs[i].popping /\ queue' = queue
        /\ bs[i].parked = << >> /\ buffers'[i].items = Append(bs[i].items, x)
        /\ buffers'[i].parked = << >>
     \/ /\ ~bs[i].popping /\ queue' = queue
        /\ buffers'[i].items = bs[i].items
        /\ buffers'[i].parked = Append(bs[i].parked, x)

\* push() of x to buffer i of bs, when it is not finished.
LEMMA PushMakes ==
  ASSUME NEW bs \in Seq(BufferRecords), NEW i \in DOMAIN bs, NEW x \in Numbers,
         BufferOK(bs[i]), ~bs[i].finished, PushTo(bs, i, x), queue \in Seq(Numbers),
         bs[i].popping => queue = << >>
  PROVE  PushedTo(bs, i, x)
<1> DEFINE b == bs[i]
           p == Pushed(b, x)
<1>1. b \in BufferRecords  BY Measured
<1>2. /\ p \in BufferRecords /\ BufferOK(p)
      /\ ~p.popping /\ ~p.draining /\ ~p.finished /\ p.error = "none"
      /\ b.popping => p.items = << >> /\ p.parked = << >>
      /\ ~b.popping =>
           \/ b.parked = << >> /\ p.items = Append(b.items, x) /\ p.parked = << >>
           \/ p.items = b.items /\ p.parked = Append(b.parked, x)
  BY <1>1, PushedIsOK
<1>3. /\ buffers' = [ bs EXCEPT ![i] = p ] /\ tasks' = tasks
      /\ queue' = IF b.popping THEN Append(queue, x) ELSE queue
  BY DEF PushTo
<1>4. queue' \in Seq(Numbers)  BY <1>3, Appended
<1> HIDE DEF p
<1>5. /\ buffers' \in Seq(BufferRecords) /\ Len(buffers') = Len(bs)
      /\ DOMAIN buffers' = DOMAIN bs /\ buffers'[i] = p
      /\ \A j \in DOMAIN bs : j # i => buffers'[j] = bs[j]
  BY <1>2, <1>3, OneReplaced
<1> QED  BY <1>2, <1>3, <1>4, <1>5 DEF PushedTo

LEMMA DataKeeps ==
  ASSUME NEW lo \in Nat, StreamInv(lo), wire # << >>, wire' = Tail(wire),
         HandleData(Head(wire)),
         UNCHANGED << writerVars, ackOnWire, transport, nodes, readerBuffer, read >>
  PROVE  StreamInv(lo + 1)'
<1> DEFINE m == Head(wire)
           x == lo + 1
           sb == StreamBuffer
<1>1. /\ m.type = "data" /\ listening' = TRUE /\ readable' = readable
      /\ UNCHANGED << written, writable, outgoing, ackOnWire, transport, nodes, readerBuffer, read >>
  BY DEF HandleData, writerVars
<1>2. /\ lo < written /\ x \in Numbers /\ m = Data(x)
      /\ WireCarriesAfter(x)' /\ wire' \in Seq(Messages)
      /\ x \in 0 .. written'
  BY <1>1, NextData, Typed DEF StreamInv
<1>3. m.chunk = x /\ (m.first <=> lo = 0) /\ m # StreamAbort  BY <1>1, <1>2, MessageTypes
<1>4. transport = "open" =>
        /\ wire # << >> /\ ~ackOnWire /\ AckTask \notin tasks
        /\ ~ (sb # None /\ buffers[sb].draining)
        /\ writable # "closed" /\ ~Acknowledged
        /\ \A i \in DOMAIN wire' : Trailer(i)'
  <2> SUFFICES ASSUME transport = "open"
               PROVE  /\ ~ackOnWire /\ AckTask \notin tasks
                      /\ ~ (sb # None /\ buffers[sb].draining)
                      /\ writable # "closed"
                      /\ \A i \in DOMAIN wire' : Trailer(i)'
    BY DEF Acknowledged
  <2>1. /\ Trailer(1) /\ m = wire[1] /\ \A i \in DOMAIN wire' : Trailer(i)'  BY <1>1, <1>3, TailTrails
  <2>2. m.type # "closed"  BY <1>1
  <2> QED  BY <2>1, <2>2 DEF Trailer, StreamInv, Writer
<1>5. /\ buffers \in Seq(BufferRecords) /\ queue \in Seq(Numbers) /\ queue \in Seq(Nat)
      /\ Len(read) \in Nat /\ Taken \in Nat
      /\ \A i \in DOMAIN buffers : buffers[i] \in BufferRecords /\ BufferOK(buffers[i])
      /\ \A i \in DOMAIN buffers : buffers[i].popping =>
           i = readerBuffer /\ readable = "open" /\ queue = << >>
      /\ sb # None => sb \in DOMAIN buffers
      /\ None \notin DOMAIN buffers
  <2>1. StreamTypeOK /\ Buffers  BY Parts
  <2>2. /\ buffers \in Seq(BufferRecords) /\ queue \in Seq(Numbers)  BY <2>1 DEF StreamTypeOK
  <2>3. /\ DOMAIN buffers = 1 .. Len(buffers) /\ Len(buffers) \in Nat
        /\ \A i \in DOMAIN buffers : buffers[i] \in BufferRecords
        /\ queue \in Seq(Nat) /\ Len(read) \in Nat /\ Taken \in Nat
        /\ sb # None => sb \in DOMAIN buffers
    BY <2>1, Typed
  <2>4. None \notin DOMAIN buffers  BY <2>3 DEF None
  <2> QED  BY <2>1, <2>2, <2>3, <2>4 DEF Buffers
<1>6. sb # None /\ buffers[sb].error = "none" => ~buffers[sb].finished  BY <1>2 DEF StreamInv, Flow
<1>7. ReaderKnown' <=>
        /\ handshake'.reader => handshake'.buffer = readerBuffer /\ readerBuffer # None
        /\ readable = "absent" => queue' = << >>
        /\ readable = "cancelled" => buffers'[readerBuffer].error # "none"
        /\ From(queue', Len(read)) /\ Len(queue') <= 1
  BY <1>1 DEF StreamInv, ReaderKnown
\* The stream's buffer is open: the chunk joins the others.
<1>8. ASSUME sb # None, ~buffers[sb].finished, PushTo(buffers, sb, x),
             channelBuffer' = sb, StreamBuffer' = sb,
             handshake' \in { handshake, NoHandshake }, linked' \in { linked, "resolved" }
      PROVE  StreamInv(x)'
  <2> DEFINE b == buffers[sb]
             c == buffers'[sb]
  <2>1. /\ sb \in DOMAIN buffers /\ b \in BufferRecords /\ BufferOK(b) /\ b.error = "none"
        /\ b.popping => queue = << >> /\ sb = readerBuffer /\ readable = "open"
    BY <1>5, <1>8 DEF BufferOK
  <2>2. /\ buffers' \in Seq(BufferRecords) /\ Len(buffers') = Len(buffers)
        /\ DOMAIN buffers' = DOMAIN buffers
        /\ \A j \in DOMAIN buffers : j # sb => buffers'[j] = buffers[j]
        /\ BufferOK(c) /\ ~c.popping /\ ~c.draining /\ ~c.finished /\ c.error = "none"
        /\ tasks' = tasks /\ queue' \in Seq(Numbers)
        /\ \/ /\ b.popping /\ queue' = Append(queue, x)
              /\ c.items = << >> /\ c.parked = << >>
           \/ /\ ~b.popping /\ queue' = queue
              /\ b.parked = << >> /\ c.items = Append(b.items, x)
              /\ c.parked = << >>
           \/ /\ ~b.popping /\ queue' = queue
              /\ c.items = b.items
              /\ c.parked = Append(b.parked, x)
    BY <1>2, <1>5, <1>8, <2>1, PushMakes DEF PushedTo
  <2>3. /\ From(b.items, Taken) /\ From(b.parked, Taken + Len(b.items))
        /\ lo = Taken + Len(b.items) + Len(b.parked)
        /\ From(queue, Len(read)) /\ Taken = Len(read) + Len(queue)
        /\ b.items \in Seq(Nat) /\ b.parked \in Seq(Nat)
    <3>1. b.items \in Seq(Nat) /\ b.parked \in Seq(Nat)
      <4>1. Numbers \subseteq Nat /\ b.items \in Seq(Numbers) /\ b.parked \in Seq(Numbers)
        BY <2>1 DEF BufferRecords, Numbers
      <4> QED  BY <4>1, SeqMonotonic
    <3>2. lo # written  BY <1>2, Typed DEF StreamInv
    <3>3. lo = Taken + Len(b.items) + Len(b.parked)
      <4>1. CASE channelBuffer = sb /\ Met(lo, Taken + Len(b.items) + Len(b.parked))  BY <3>2, <4>1 DEF Met
      <4>2. CASE Met(lo, 0) /\ Taken = 0 /\ b.items = << >> /\ b.parked = << >>  BY <3>2, <4>2 DEF Met
      <4> QED  BY <1>8, <2>1, <4>1, <4>2 DEF StreamInv, Flow
    <3> QED  BY <1>8, <2>1, <3>1, <3>3 DEF StreamInv, Flow, ReaderKnown, Taken
  <2>4. /\ From(queue', Len(read)) /\ From(c.items, Len(read) + Len(queue'))
        /\ From(c.parked, Len(read) + Len(queue') + Len(c.items))
        /\ lo + 1 = Len(read) + Len(queue') + Len(c.items) + Len(c.parked)
        /\ queue' = queue \/ Len(queue') = 1
    <3> DEFINE r == Len(read)
               l == Len(b.items)
               k == Len(queue)
               p == Len(b.parked)
    <3>1. /\ r \in Nat /\ k \in Nat /\ l \in Nat /\ p \in Nat
          /\ lo = r + k + l + p
          /\ From(queue, r) /\ From(b.items, r + k) /\ From(b.parked, r + k + l)
          /\ b.items \in Seq(Nat) /\ b.parked \in Seq(Nat)
          /\ r + k \in Nat /\ r + k + l \in Nat
      <4>1. r \in Nat /\ k \in Nat /\ l \in Nat /\ p \in Nat  BY <1>5, <2>3, Measured
      <4>2. Taken = r + k  BY <2>3
      <4>3. /\ lo = r + k + l + p
            /\ From(queue, r) /\ From(b.items, r + k) /\ From(b.parked, r + k + l)
            /\ b.items \in Seq(Nat) /\ b.parked \in Seq(Nat)
        BY <2>3, <4>2
      <4> HIDE DEF r, k, l, p
      <4> QED  BY <4>1, <4>3
    <3>2. Len(<< >>) = 0 /\ \A n : From(<< >>, n)  BY NoneFrom
    <3>3. CASE b.popping
      <4>1. /\ queue = << >> /\ b.items = << >> /\ b.parked = << >>
            /\ queue' = Append(<< >>, x) /\ c.items = << >> /\ c.parked = << >>
        BY <2>1, <2>2, <3>3 DEF BufferOK
      <4>2. k = 0 /\ l = 0 /\ p = 0  BY <3>2, <4>1
      <4> HIDE DEF r, k, l, p
      <4>3. lo = r /\ lo + 1 = r + 1  BY <3>1, <4>2
      <4>4. queue' = << x >> /\ Len(queue') = 1 /\ queue'[1] = x /\ DOMAIN queue' = { 1 }  BY <4>1
      <4>5. From(queue', r)  BY <4>3, <4>4 DEF From
      <4> QED  BY <3>1, <3>2, <4>1, <4>3, <4>4, <4>5 DEF r
    <3>4. CASE ~b.popping /\ b.parked = << >> /\ c.items = Append(b.items, x)
               /\ c.parked = << >> /\ queue' = queue
      <4>1. p = 0 /\ Len(c.parked) = 0  BY <3>2, <3>4
      <4>2. Len(c.items) = l + 1  BY <1>1, <1>2, <3>1, <3>4, Appended
      <4>3. From(Append(b.items, (r + k) + l + 1), r + k)  BY <3>1, FromAppended
      <4> DEFINE l2 == Len(c.items)
                 p2 == Len(c.parked)
      <4> HIDE DEF r, k, l, p, l2, p2
      <4>4. lo = (r + k) + l  BY <3>1, <4>1
      <4>5. From(c.items, r + k)  BY <3>4, <4>3, <4>4
      <4>6. l2 = l + 1 /\ p2 = 0  BY <4>1, <4>2 DEF l2, p2
      <4>7. lo + 1 = r + k + l2 + p2  BY <3>1, <4>4, <4>6
      <4> QED  BY <3>1, <3>2, <3>4, <4>5, <4>7 DEF r, k, l2, p2
    <3>5. CASE ~b.popping /\ c.items = b.items /\ c.parked = Append(b.parked, x) /\ queue' = queue
      <4>1. From(Append(b.parked, (r + k + l) + Len(b.parked) + 1), r + k + l)  BY <3>1, FromAppended
      <4>2. Len(c.parked) = p + 1  BY <3>1, <3>5, Appended
      <4> DEFINE p2 == Len(c.parked)
      <4>3. p2 = p + 1  BY <4>2
      <4>4. From(c.parked, r + k + l)  BY <3>1, <3>5, <4>1
      <4> HIDE DEF r, k, l, p, p2
      <4>5. lo + 1 = r + k + l + p2  BY <3>1, <4>3
      <4> QED  BY <3>1, <3>5, <4>4, <4>5 DEF r, k, l, p2
    <3> QED  BY <2>2, <3>3, <3>4, <3>5
  <2>5. Taken' = Len(read) + Len(queue')  BY <1>1 DEF Taken
  <2>6. StreamTypeOK'
    <3>1. handshake' \in [ buffer : 0 .. Len(buffers), reader : BOOLEAN ]
      <4>1. handshake \in [ buffer : 0 .. Len(buffers), reader : BOOLEAN ]
            /\ 0 \in 0 .. Len(buffers)
        BY Typed DEF StreamInv, StreamTypeOK
      <4>2. NoHandshake \in [ buffer : 0 .. Len(buffers), reader : BOOLEAN ]  BY <4>1 DEF NoHandshake, None
      <4> QED  BY <1>8, <4>1, <4>2
    <3> QED
      <4>1. StreamTypeOK  BY Parts
      <4>2. /\ buffers' \in Seq(BufferRecords) /\ Len(buffers') = Len(buffers)
            /\ queue' \in Seq(Numbers) /\ wire' \in Seq(Messages) /\ tasks' = tasks
        BY <1>2, <2>2
      <4>3. /\ written' = written /\ writable' = writable /\ outgoing' = outgoing
            /\ ackOnWire' = ackOnWire /\ transport' = transport /\ nodes' = nodes
            /\ listening' \in BOOLEAN /\ readerBuffer' = readerBuffer
            /\ readable' = readable /\ read' = read
        BY <1>1
      <4>4. handshake' \in [ buffer : 0 .. Len(buffers'), reader : BOOLEAN ]  BY <3>1, <4>2
      <4>5. channelBuffer' \in 0 .. Len(buffers')  BY <1>5, <1>8, <4>2, Measured
      <4>6. linked' \in { "pending", "resolved", "rejected" }  BY <1>8, <4>1 DEF StreamTypeOK
      <4> HIDE DEF sb
      <4> QED  BY <4>1, <4>2, <4>3, <4>4, <4>5, <4>6 DEF StreamTypeOK
  <2>7. Buffers'
    <3>1. ASSUME NEW i \in DOMAIN buffers'
          PROVE  /\ BufferOK(buffers'[i])
                 /\ buffers'[i].popping => i = readerBuffer /\ readable = "open" /\ queue' = << >>
      <4>1. CASE i = sb  BY <2>2, <4>1
      <4>2. CASE i # sb  BY <2>2, <4>2, <2>1, <1>5
      <4> QED  BY <4>1, <4>2
    <3> QED  BY <1>1, <2>2, <3>1 DEF Buffers, StreamInv
  <2>8. ReaderKnown'
    <3>1. readable = "cancelled" => buffers'[readerBuffer].error # "none"
      BY <2>1 DEF StreamInv, ReaderKnown, StreamBuffer
    <3>2. readable = "absent" => queue' = << >>  BY <2>1, <2>2 DEF StreamInv, ReaderKnown
    <3>3. handshake'.reader => handshake'.buffer = readerBuffer /\ readerBuffer # None
      BY <1>8 DEF StreamInv, ReaderKnown, NoHandshake
    <3>4. Len(queue') <= 1
      <4>1. Len(queue) <= 1  BY DEF StreamInv, ReaderKnown
      <4>2. CASE queue' = queue  BY <4>1, <4>2
      <4>3. CASE Len(queue') = 1  BY <4>3
      <4> QED  BY <2>4, <4>2, <4>3
    <3> QED  BY <1>7, <2>4, <3>1, <3>2, <3>3, <3>4
  <2>9. Flow(x)'  BY <1>8, <2>4, <2>5, <2>2 DEF Met, Flow
  <2>10. Writer'  BY <1>1, <1>4, <1>8, <2>2 DEF StreamInv, Writer
  <2>11. Reader(x)'
    <3> SUFFICES ASSUME transport = "open", readable # "cancelled"
                 PROVE  Reader(x)'
      BY <1>1 DEF Reader
    <3>1. ~Acknowledged'  BY <1>1, <1>4, <2>2 DEF Acknowledged
    <3>2. readable # "closed"
      <4> SUFFICES ASSUME readable = "closed"
                   PROVE  FALSE
        OBVIOUS
      <4>1. Len(read) = written /\ queue = << >>  BY DEF StreamInv, Reader
      <4>2. Len(b.items) \in Nat /\ Len(b.parked) \in Nat  BY <2>3, Measured
      <4>3. lo >= Len(read)  BY <1>5, <2>3, <4>1, <4>2
      <4> QED  BY <1>2, <4>1, <4>3, Typed DEF StreamInv
    <3>3. \A t \in tasks' : t.task # "close"
      <4> SUFFICES ASSUME NEW t \in tasks, t.task = "close"
                   PROVE  FALSE
        BY <2>2
      <4>1. lo = written  BY DEF StreamInv, Reader
      <4> QED  BY <1>2, <4>1, Typed DEF StreamInv
    <3>4. readable = "errored" => Aborted'  BY <1>1 DEF StreamInv, Reader, Aborted
    <3> QED  BY <1>1, <1>8, <2>2, <3>1, <3>2, <3>3, <3>4 DEF Reader
  <2> QED  BY <1>2, <2>6, <2>7, <2>8, <2>9, <2>10, <2>11 DEF StreamInv
\* What the reader had was torn down: the chunk is kept, or refused.
<1>9. ASSUME NEW bs \in Seq(BufferRecords), NEW i \in DOMAIN bs, PushTo(bs, i, x),
             Len(bs) >= Len(buffers),
             \A j \in DOMAIN bs :
               bs[j] = IF j \in DOMAIN buffers THEN buffers[j] ELSE NewBuffer,
             sb # None, buffers[sb].error # "none", StreamBuffer' = sb,
             channelBuffer' \in 0 .. Len(bs),
             handshake' \in [ buffer : 0 .. Len(bs), reader : BOOLEAN ],
             handshake'.reader => handshake.reader /\ handshake'.buffer = handshake.buffer,
             linked' \in { linked, "resolved" }
      PROVE  StreamInv(x)'
  <2>1. /\ sb \in DOMAIN buffers /\ sb \in DOMAIN bs /\ bs[sb] = buffers[sb]
        /\ bs[sb].finished
        /\ readerBuffer # None => readerBuffer = sb
    BY <1>5, Measured, <1>9 DEF BufferOK, StreamBuffer
  <2>2. ASSUME NEW j \in DOMAIN bs
        PROVE  /\ BufferOK(bs[j]) /\ ~ (j # sb /\ bs[j].popping)
               /\ bs[j].popping => j \in DOMAIN buffers
    BY <1>9, <1>5, NewIsOK, Parts, <2>1 DEF ReaderKnown
  <2>3. /\ buffers' \in Seq(BufferRecords) /\ Len(buffers') = Len(bs)
        /\ DOMAIN buffers' = DOMAIN bs
        /\ \A j \in DOMAIN bs : BufferOK(buffers'[j]) /\ ~buffers'[j].popping
        /\ buffers'[sb] = buffers[sb]
        /\ queue' = queue
        /\ \/ tasks' = tasks
           \/ \E k \in Kinds \ { "none" } : tasks' = tasks \cup { CloseTask(k) }
    <3>0. \A j \in DOMAIN bs : ~bs[j].popping  BY <2>1, <2>2 DEF BufferOK
    <3>1. CASE bs[i].finished
      <4>1. bs[i] \in BufferRecords  BY Measured
      <4> QED  BY <1>9, <2>1, <2>2, <3>0, <3>1, <4>1 DEF PushTo, BufferRecords, Kinds
    <3>2. CASE ~bs[i].finished
      <4>1. /\ buffers' \in Seq(BufferRecords) /\ Len(buffers') = Len(bs)
            /\ DOMAIN buffers' = DOMAIN bs
            /\ \A j \in DOMAIN bs : j # i => buffers'[j] = bs[j]
            /\ BufferOK(buffers'[i]) /\ ~buffers'[i].popping
            /\ tasks' = tasks
        BY <1>2, <1>5, <1>9, <2>2, <3>0, <3>2, PushMakes DEF PushedTo
      <4>2. queue' = queue  BY <1>9, <3>0, <3>2 DEF PushTo
      <4>3. i # sb  BY <2>1, <3>2
      <4> QED  BY <2>1, <2>2, <3>0, <4>1, <4>2, <4>3
    <3> QED  BY <3>1, <3>2
  <2>4. /\ tasks \subseteq tasks'
        /\ tasks' \subseteq [ task : { "close", "ack" }, why : Kinds ]
        /\ \A t \in tasks' : t.task = "close" => t.why # "none"
        /\ AckTask \in tasks' => AckTask \in tasks
    <3>1. ASSUME NEW k \in Kinds \ { "none" }
          PROVE  /\ CloseTask(k) \in [ task : { "close", "ack" }, why : Kinds ]
                 /\ CloseTask(k).why # "none" /\ CloseTask(k) # AckTask
      BY DEF CloseTask, AckTask
    <3>2. tasks \subseteq [ task : { "close", "ack" }, why : Kinds ]  BY Typed DEF StreamInv, StreamTypeOK
    <3> QED  BY <2>3, <3>1, <3>2 DEF StreamInv, Buffers
  <2>5. StreamTypeOK'
    <3>1. readerBuffer \in 0 .. Len(bs)  BY <1>5, Measured, <1>9, Typed DEF StreamInv, StreamTypeOK
    <3> QED  BY <1>1, <1>2, <1>9, <2>3, <2>4, <3>1, Parts DEF StreamTypeOK
  <2>6. Buffers'  BY <1>1, <2>3, <2>4 DEF Buffers
  <2>7. ReaderKnown'  BY <1>9, <2>1, <2>3, <1>7 DEF StreamInv, ReaderKnown
  <2>8. Flow(x)'  BY <1>9, <2>3 DEF Flow
  <2>9. Writer'  BY <1>1, <1>4, <1>9, <2>3, <2>4 DEF StreamInv, Writer
  <2>10. Reader(x)'
    <3>1. ~ (transport = "open" /\ readable # "cancelled")  BY <1>2, Typed, <1>9 DEF StreamInv, Reader
    <3> QED  BY <1>1, <3>1 DEF Reader
  <2> QED  BY <1>2, <2>5, <2>6, <2>7, <2>8, <2>9, <2>10 DEF StreamInv
\* The first chunk comes before the reader.
<1>10. ASSUME readerBuffer = None, lo = 0,
              PushTo(Append(buffers, NewBuffer), Len(buffers) + 1, x),
              channelBuffer' = Len(buffers) + 1, linked' = linked,
              handshake' = [ buffer |-> Len(buffers) + 1, reader |-> FALSE ]
       PROVE  StreamInv(x)'
  <2> DEFINE bs == Append(buffers, NewBuffer)
             n == Len(buffers) + 1
             c == buffers'[n]
  <2>1. /\ bs \in Seq(BufferRecords) /\ Len(bs) = n /\ DOMAIN bs = 1 .. n
        /\ bs[n] = NewBuffer /\ \A j \in 1 .. Len(buffers) : bs[j] = buffers[j]
        /\ n \in Nat /\ n # 0 /\ n \in 1 .. n /\ Len(buffers) \in Nat
        /\ DOMAIN buffers = 1 .. Len(buffers)
    BY <1>5, NewIsOK, Appended, Measured
  <2>2. \A j \in 1 .. n : j \in DOMAIN buffers \/ j = n  BY <2>1
  <2>3. readable = "absent" /\ queue = << >> /\ read = << >> /\ Len(read) = 0
    BY <1>10 DEF StreamInv, ReaderKnown
  <2> HIDE DEF bs, n
  <2>4. /\ buffers' \in Seq(BufferRecords) /\ Len(buffers') = n
        /\ DOMAIN buffers' = 1 .. n
        /\ \A j \in 1 .. n : j # n => buffers'[j] = buffers[j]
        /\ BufferOK(c) /\ ~c.popping /\ ~c.draining /\ ~c.finished /\ c.error = "none"
        /\ tasks' = tasks /\ queue' = queue
        /\ c.items = << x >> /\ c.parked = << >>
    <3>1. PushTo(bs, n, x) /\ n \in DOMAIN bs  BY <1>10, <2>1 DEF bs, n
    <3>2. /\ BufferOK(bs[n]) /\ ~bs[n].finished /\ ~bs[n].popping
          /\ bs[n].items = << >> /\ bs[n].parked = << >> /\ bs[n].error = "none"
      BY <2>1, NewIsOK
    <3>3. /\ buffers' \in Seq(BufferRecords) /\ Len(buffers') = n
          /\ DOMAIN buffers' = 1 .. n
          /\ \A j \in 1 .. n : j # n => buffers'[j] = bs[j]
          /\ BufferOK(c) /\ ~c.popping /\ ~c.draining /\ ~c.finished /\ c.error = "none"
          /\ tasks' = tasks /\ queue' = queue
          /\ \/ c.items = Append(bs[n].items, x) /\ c.parked = << >>
             \/ c.parked = Append(bs[n].parked, x)
      <4>1. bs[n].popping => queue = << >>  BY <3>2
      <4>2. /\ buffers' \in Seq(BufferRecords) /\ Len(buffers') = Len(bs)
            /\ DOMAIN buffers' = DOMAIN bs
            /\ \A j \in DOMAIN bs : j # n => buffers'[j] = bs[j]
            /\ BufferOK(buffers'[n])
            /\ ~buffers'[n].popping /\ ~buffers'[n].draining /\ ~buffers'[n].finished
            /\ buffers'[n].error = "none"
            /\ tasks' = tasks /\ queue' \in Seq(Numbers)
            /\ \/ /\ bs[n].popping /\ queue' = Append(queue, x)
                  /\ buffers'[n].items = << >> /\ buffers'[n].parked = << >>
               \/ /\ ~bs[n].popping /\ queue' = queue
                  /\ bs[n].parked = << >> /\ buffers'[n].items = Append(bs[n].items, x)
                  /\ buffers'[n].parked = << >>
               \/ /\ ~bs[n].popping /\ queue' = queue
                  /\ buffers'[n].items = bs[n].items
                  /\ buffers'[n].parked = Append(bs[n].parked, x)
        <5>1. bs \in Seq(BufferRecords) /\ x \in Numbers  BY <1>2, <2>1
        <5>2. queue \in Seq(Numbers)  BY Parts DEF StreamTypeOK
        <5>3. BufferOK(bs[n]) /\ ~bs[n].finished  BY <3>2
        <5>4. PushTo(bs, n, x) /\ n \in DOMAIN bs /\ (bs[n].popping => queue = << >>)  BY <3>1, <4>1
        <5>5. PushedTo(bs, n, x)  BY <5>1, <5>2, <5>3, <5>4, PushMakes
        <5> QED  BY <5>5 DEF PushedTo
      <4> QED  BY <2>1, <3>2, <4>2
    <3>4. c.parked = << >>
      <4>1. ~IsFull(bs[n]) /\ bs[n].parked = << >> /\ buffers'[n] = Pushed(bs[n], x)
        BY <2>1, <3>1, <3>2, BufferAssumption DEF IsFull, PushTo
      <4> QED  BY <2>1, <3>2, <4>1 DEF Pushed, NewBuffer
    <3>5. Append(bs[n].items, x) = << x >> /\ Append(bs[n].parked, x) # << >>  BY <3>2
    <3> QED  BY <2>1, <2>2, <3>3, <3>4, <3>5
  <2>5. StreamBuffer' = n  BY <1>1, <1>10 DEF StreamBuffer, n
  <2>6. StreamTypeOK'
    <3>1. handshake' \in [ buffer : 0 .. n, reader : BOOLEAN ] /\ channelBuffer' \in 0 .. n
          /\ readerBuffer \in 0 .. n
      BY <2>1, <1>10 DEF n, None
    <3> QED  BY Parts, <1>2, <2>4, <1>1, <1>10, <3>1 DEF n, StreamTypeOK
  <2>7. Buffers'  BY <1>5, <1>10, <2>2, <2>3, <2>4 DEF Buffers, StreamInv
  <2>8. ReaderKnown'  BY <1>7, <1>10, <2>3, <2>4 DEF StreamInv, ReaderKnown
  <2>9. Flow(x)'
    <3>1. Taken' = 0 /\ Len(c.items) = 1 /\ Len(c.parked) = 0 /\ x = 1 /\ n # None
      BY <1>1, <1>10, <2>1, <2>3, <2>4 DEF Taken, None
    <3>2. From(c.items, 0) /\ From(c.parked, 1)  BY <2>4, <3>1 DEF From
    <3>3. channelBuffer' = n  BY <1>10 DEF n
    <3>4. /\ StreamBuffer' # None /\ buffers'[StreamBuffer'] = c
          /\ channelBuffer' = StreamBuffer'
      BY <2>5, <3>1, <3>3
    <3>5. From(c.items, Taken') /\ From(c.parked, Taken' + Len(c.items))  BY <3>1, <3>2
    <3>6. Met(x, Taken + Len(buffers[StreamBuffer].items) + Len(buffers[StreamBuffer].parked))'
      <4>1. x = Taken' + Len(c.items) + Len(c.parked)  BY <3>1
      <4> QED  BY <3>4, <4>1 DEF Met
    <3> QED  BY <2>4, <3>4, <3>5, <3>6 DEF Flow
  <2>10. Writer'  BY <1>1, <1>4, <2>4, <2>5 DEF StreamInv, Writer
  <2>11. Reader(x)'
    <3> SUFFICES ASSUME transport = "open", readable # "cancelled"
                 PROVE  Reader(x)'
      BY <1>1 DEF Reader
    <3>1. ~Acknowledged'  BY <1>1, <1>4, <2>4 DEF Acknowledged
    <3>2. lo # written  BY <1>2, Typed DEF StreamInv
    <3>3. \A t \in tasks' : t.task # "close"  BY <2>4, <3>2 DEF StreamInv, Reader
    <3> QED  BY <1>1, <2>3, <2>4, <2>5, <3>1, <3>3 DEF Reader
  <2> QED  BY <1>2, <2>6, <2>7, <2>8, <2>9, <2>10, <2>11 DEF StreamInv
<1>11. lo # written  BY <1>2, Typed DEF StreamInv
<1>12. handshake \in [ buffer : 0 .. Len(buffers), reader : BOOLEAN ]
       /\ NoHandshake \in [ buffer : 0 .. Len(buffers), reader : BOOLEAN ]
       /\ channelBuffer \in 0 .. Len(buffers)
       /\ Len(buffers) \in Nat /\ DOMAIN buffers = 1 .. Len(buffers)
  BY <1>5, Measured, Typed DEF StreamInv, StreamTypeOK, NoHandshake, None
<1>13. CASE DataOnChannel(m)
  <2>1. /\ channelBuffer # None /\ PushTo(buffers, channelBuffer, x)
        /\ channelBuffer' = channelBuffer /\ handshake' = handshake /\ linked' = linked
        /\ StreamBuffer' = sb
    BY <1>1, <1>3, <1>13 DEF DataOnChannel, StreamBuffer
  <2>2. sb # None  BY <2>1 DEF StreamInv, Flow
  <2>3. CASE buffers[sb].error = "none"  BY <1>6, <1>8, <2>1, <2>2, <2>3 DEF StreamInv, Flow
  <2>4. CASE buffers[sb].error # "none"
    <3>1. channelBuffer \in DOMAIN buffers  BY <1>12, <2>1 DEF None
    <3>2. Len(buffers) >= Len(buffers)  BY <1>12
    <3> QED  BY <1>5, <1>9, <1>12, <2>1, <2>2, <2>4, <3>1, <3>2
  <2> QED  BY <2>3, <2>4
<1>14. CASE DataForReader(m)
  <2>1. /\ channelBuffer = None /\ handshake.reader
        /\ channelBuffer' = handshake.buffer /\ handshake' = NoHandshake
        /\ linked' = "resolved" /\ PushTo(buffers, handshake.buffer, x)
    BY <1>3, <1>14 DEF DataForReader
  <2>2. readerBuffer # None /\ handshake.buffer = readerBuffer  BY <2>1 DEF StreamInv, ReaderKnown
  <2>3. sb # None /\ sb = handshake.buffer /\ StreamBuffer' = sb  BY <1>1, <2>2 DEF StreamBuffer
  <2>4. CASE buffers[sb].error = "none"  BY <1>6, <1>8, <2>1, <2>3, <2>4
  <2>5. CASE buffers[sb].error # "none"
    <3>1. sb \in DOMAIN buffers  BY <1>5, <2>3
    <3>2. Len(buffers) >= Len(buffers) /\ ~NoHandshake.reader  BY <1>12 DEF NoHandshake
    <3>3. channelBuffer' \in 0 .. Len(buffers)  BY <1>12, <2>1, <2>3
    <3> QED  BY <1>5, <1>9, <1>12, <2>1, <2>3, <2>5, <3>1, <3>2, <3>3
  <2> QED  BY <2>4, <2>5
<1>15. CASE DataForNobody(m)
  <2> DEFINE bs == Append(buffers, NewBuffer)
             n == Len(buffers) + 1
  <2>1. /\ channelBuffer = None
        /\ lo = 0 => ~handshake.reader
        /\ channelBuffer' = n /\ PushTo(bs, n, x) /\ linked' = linked
        /\ handshake' = IF lo = 0 THEN [ buffer |-> n, reader |-> FALSE ] ELSE handshake
    BY <1>3, <1>15 DEF DataForNobody
  <2>2. CASE readerBuffer = None /\ lo = 0  BY <1>10, <2>1, <2>2
  <2>3. CASE ~ (readerBuffer = None /\ lo = 0)
    <3>1. sb # None  BY <1>11, <2>3 DEF StreamInv, Flow, Met, StreamBuffer
    <3>2. buffers[sb].error # "none"
      <4> SUFFICES ASSUME buffers[sb].error = "none"
                   PROVE  FALSE
        OBVIOUS
      <4>1. handshake.reader /\ Met(lo, 0)  BY <2>1, <3>1 DEF StreamInv, Flow
      <4> QED  BY <1>11, <2>1, <4>1 DEF Met
    <3>3. StreamBuffer' = sb  BY <1>1, <2>1, <2>3 DEF StreamBuffer
    <3>4. /\ bs \in Seq(BufferRecords) /\ Len(bs) = n /\ DOMAIN bs = 1 .. n
          /\ bs[n] = NewBuffer /\ \A j \in 1 .. Len(buffers) : bs[j] = buffers[j]
          /\ n \in Nat /\ n \in 1 .. n
      BY <1>5, <1>12, NewIsOK, Appended
    <3>5. \A j \in DOMAIN bs : bs[j] = IF j \in DOMAIN buffers THEN buffers[j] ELSE NewBuffer  BY <1>12, <3>4
    <3>6. /\ Len(bs) >= Len(buffers) /\ n \in 0 .. Len(bs)
          /\ 0 .. Len(buffers) \subseteq 0 .. Len(bs)
      BY <1>12, <3>4
    <3>7. /\ handshake' \in [ buffer : 0 .. Len(bs), reader : BOOLEAN ]
          /\ handshake'.reader => handshake.reader /\ handshake'.buffer = handshake.buffer
      <4> HIDE DEF n, bs
      <4>1. CASE lo = 0  BY <2>1, <3>6, <4>1
      <4>2. CASE lo # 0  BY <1>12, <2>1, <3>6, <4>2
      <4> QED  BY <4>1, <4>2
    <3> HIDE DEF n, bs
    <3> QED  BY <1>9, <2>1, <3>1, <3>2, <3>3, <3>4, <3>5, <3>6, <3>7
  <2> QED  BY <2>2, <2>3
<1> QED  BY <1>1, <1>13, <1>14, <1>15 DEF HandleData

LEMMA ReceiveKeeps ==
  ASSUME NEW lo \in Nat, StreamInv(lo), ReceiveMessage
  PROVE  StreamInv(lo)' \/ StreamInv(lo + 1)'
BY DataKeeps, EndKeeps, ClosureKeeps DEF ReceiveMessage

-----------------------------------------------------------------------------
(* The reader.                                                             *)

LEMMA ReadKeeps ==
  ASSUME NEW lo \in Nat, StreamInv(lo), Read
  PROVE  StreamInv(lo)'
<1>1. /\ readable = "open" /\ queue # << >> /\ read' = Append(read, Head(queue))
      /\ queue' = << >>
      /\ UNCHANGED << writerVars, linkVars, managerVars, readerBuffer, linked, readable, tasks >>
  BY DEF Read
<1>2. /\ Len(queue) = 1 /\ Head(queue) = Len(read) + 1 /\ Head(queue) \in Numbers
      /\ Len(read) \in Nat
  <2>1. /\ queue \in Seq(Nat) /\ queue \in Seq(Numbers) /\ read \in Seq(Nat)
        /\ From(queue, Len(read)) /\ Len(queue) <= 1
    BY Typed DEF StreamInv, StreamTypeOK, ReaderKnown
  <2>2. Len(queue) \in Nat /\ Len(queue) # 0 /\ Len(read) \in Nat /\ Head(queue) \in Numbers
    BY <1>1, <2>1, Measured, TakenOff
  <2>3. Head(queue) = Len(read) + 1  BY <1>1, <2>1, <2>2, FromTakenOff
  <2> DEFINE k == Len(queue)
  <2>4. k \in Nat /\ k # 0 /\ k <= 1  BY <2>1, <2>2
  <2> HIDE DEF k
  <2>5. k = 1  BY <2>4
  <2> QED  BY <2>2, <2>3, <2>5 DEF k
<1>3. /\ read' \in Seq(Numbers) /\ Len(read') = Len(read) + 1 /\ From(read', 0)
      /\ queue' \in Seq(Numbers) /\ Len(queue') = 0 /\ \A n : From(queue', n)
  <2>1. read \in Seq(Nat) /\ read \in Seq(Numbers) /\ From(read, 0)
    BY Typed DEF StreamInv, StreamTypeOK, ReaderKnown
  <2>2. Append(read, Head(queue)) \in Seq(Numbers) /\ Len(Append(read, Head(queue))) = Len(read) + 1
    BY <1>2, <2>1, Appended
  <2>3. From(Append(read, 0 + Len(read) + 1), 0)  BY <2>1, FromAppended
  <2>4. 0 + Len(read) + 1 = Head(queue)  BY <1>2
  <2>5. << >> \in Seq(Numbers) /\ Len(<< >>) = 0  OBVIOUS
  <2> QED  BY <1>1, <2>2, <2>3, <2>4, <2>5, NoneFrom
<1>4. Taken' = Taken /\ StreamBuffer' = StreamBuffer  BY <1>2, <1>3, <1>1 DEF Taken, StreamBuffer, managerVars
<1>5. UNCHANGED << written, writable, outgoing, wire, ackOnWire, transport, nodes, buffers,
                   channelBuffer, handshake, listening, readerBuffer, linked, readable, tasks >>
  BY <1>1 DEF writerVars, linkVars, managerVars
<1>6. StreamTypeOK' /\ Buffers' /\ WireCarriesAfter(lo)' /\ lo \in 0 .. written'
  BY <1>1, <1>3, <1>5 DEF StreamInv, StreamTypeOK, Buffers, WireCarriesAfter
<1>7. ReaderKnown'  BY <1>1, <1>3, <1>5 DEF StreamInv, ReaderKnown
<1>8. Flow(lo)' /\ Writer'  BY <1>4, <1>5 DEF StreamInv, Flow, Met, Writer, Trailer
<1>9. Reader(lo)'  BY <1>1, <1>4, <1>5 DEF StreamInv, Reader, Acknowledged, Aborted
<1> QED  BY <1>6, <1>7, <1>8, <1>9 DEF StreamInv

LEMMA CreateKeeps ==
  ASSUME NEW lo \in Nat, StreamInv(lo), CreatePullReader
  PROVE  StreamInv(lo)'
<1> DEFINE n == Len(buffers) + 1
<1>1. /\ readable = "absent" /\ readable' = "open"
      /\ UNCHANGED << written, writable, outgoing, wire, ackOnWire, transport, nodes,
                      channelBuffer, listening, linked, queue, read, tasks >>
      /\ handshake' = [ buffer |-> readerBuffer', reader |-> TRUE ]
  BY DEF CreatePullReader, writerVars, linkVars
<1>2. /\ readerBuffer = None /\ queue = << >> /\ read = << >> /\ Taken = 0 /\ Taken' = 0
      /\ StreamBuffer = handshake.buffer
  BY <1>1 DEF StreamInv, ReaderKnown, Taken, StreamBuffer
<1>3. /\ buffers \in Seq(BufferRecords) /\ Len(buffers) \in Nat
      /\ DOMAIN buffers = 1 .. Len(buffers)
      /\ handshake \in [ buffer : 0 .. Len(buffers), reader : BOOLEAN ]
      /\ channelBuffer \in 0 .. Len(buffers)
  BY Typed DEF StreamInv, StreamTypeOK
<1>4. WireCarriesAfter(lo)' /\ lo \in 0 .. written'  BY <1>1 DEF StreamInv, WireCarriesAfter
<1>5. \A i \in DOMAIN buffers : BufferOK(buffers[i]) /\ ~buffers[i].popping  BY <1>1 DEF StreamInv, Buffers
<1>6. CASE handshake = NoHandshake
  <2>1. /\ StreamBuffer = None /\ channelBuffer = None /\ Met(lo, 0)
    BY <1>2, <1>6 DEF StreamInv, Flow, NoHandshake
  <2>2. /\ readerBuffer' = n /\ buffers' = Append(buffers, NewBuffer)  BY <1>6 DEF CreatePullReader
  <2>3. /\ buffers' \in Seq(BufferRecords) /\ Len(buffers') = n /\ DOMAIN buffers' = 1 .. n
        /\ buffers'[n] = NewBuffer /\ \A j \in 1 .. Len(buffers) : buffers'[j] = buffers[j]
    BY <1>3, <2>2, NewIsOK, Appended
  <2>4. /\ n \in 1 .. n /\ n \in 0 .. n /\ 0 .. Len(buffers) \subseteq 0 .. n /\ n # None
        /\ \A j \in 1 .. n : j = n \/ j \in 1 .. Len(buffers)
    BY <1>3 DEF None
  <2>5. StreamBuffer' = n  BY <2>2, <2>4 DEF StreamBuffer
  <2> HIDE DEF n
  <2>6. StreamTypeOK'  BY <1>1, <1>2, <1>3, <2>2, <2>3, <2>4 DEF StreamInv, StreamTypeOK
  <2>7. Buffers'  BY <1>3, <1>5, <2>3, <2>4, NewIsOK, <1>1 DEF StreamInv, Buffers
  <2>8. ReaderKnown'  BY <1>1, <2>2, <2>4 DEF StreamInv, ReaderKnown
  <2>9. Flow(lo)'
    <3>1. From(<< >>, 0) /\ Met(lo, 0)'  BY <1>1, <2>1, NoneFrom DEF Met
    <3>2. /\ From(buffers'[n].items, 0) /\ From(buffers'[n].parked, 0 + Len(buffers'[n].items))
          /\ ~buffers'[n].finished
          /\ buffers'[n].items = << >> /\ buffers'[n].parked = << >>
      BY <2>3, NewIsOK, NoneFrom
    <3>3. channelBuffer' = None /\ handshake' = [ buffer |-> n, reader |-> TRUE ]  BY <1>1, <2>1, <2>2
    <3> QED  BY <1>2, <2>4, <2>5, <3>1, <3>2, <3>3 DEF Flow
  <2>10. Writer'  BY <1>1, <2>3, <2>5, NewIsOK DEF StreamInv, Writer, Trailer
  <2>11. Reader(lo)'  BY <1>1, <2>1, <2>3, <2>5, NewIsOK DEF StreamInv, Reader, Acknowledged, Aborted
  <2> QED  BY <1>4, <2>6, <2>7, <2>8, <2>9, <2>10, <2>11 DEF StreamInv
<1>7. CASE handshake # NoHandshake
  <2>1. ~handshake.reader /\ handshake.buffer # None
    BY <1>2, <1>3, <1>7 DEF StreamInv, ReaderKnown, NoHandshake
  <2>2. readerBuffer' = handshake.buffer /\ buffers' = buffers  BY <1>7 DEF CreatePullReader
  <2>3. StreamBuffer' = StreamBuffer /\ StreamBuffer # None /\ StreamBuffer \in DOMAIN buffers
    BY <1>2, <1>3, <2>1, <2>2 DEF StreamBuffer, None
  <2>4. StreamTypeOK'  BY <1>1, <1>3, <2>2 DEF StreamInv, StreamTypeOK
  <2>5. Buffers'  BY <1>1, <1>5, <2>2 DEF StreamInv, Buffers
  <2>6. ReaderKnown'  BY <1>1, <2>1, <2>2 DEF StreamInv, ReaderKnown
  <2>7. Flow(lo)'  BY <1>1, <1>2, <2>1, <2>2, <2>3 DEF StreamInv, Flow, Met
  <2>8. Writer'  BY <1>1, <2>2, <2>3 DEF StreamInv, Writer, Trailer
  <2>9. Reader(lo)'  BY <1>1, <1>2, <2>2, <2>3 DEF StreamInv, Reader, Acknowledged, Aborted
  <2> QED  BY <1>4, <2>4, <2>5, <2>6, <2>7, <2>8, <2>9 DEF StreamInv
<1> QED  BY <1>6, <1>7

LEMMA PullKeeps ==
  ASSUME NEW lo \in Nat, StreamInv(lo), Pull
  PROVE  StreamInv(lo)'
<1> DEFINE b == buffers[readerBuffer]
<1>1. /\ readable = "open" /\ queue = << >> /\ ~b.popping
      /\ UNCHANGED << written, writable, outgoing, wire, ackOnWire, transport, nodes,
                      channelBuffer, handshake, listening, readerBuffer, linked, read >>
  BY DEF Pull, writerVars, linkVars
<1>2. /\ readerBuffer # None /\ StreamBuffer = readerBuffer /\ StreamBuffer' = readerBuffer
      /\ readerBuffer \in DOMAIN buffers /\ b \in BufferRecords /\ BufferOK(b)
      /\ buffers \in Seq(BufferRecords) /\ DOMAIN buffers = 1 .. Len(buffers)
      /\ \A i \in DOMAIN buffers : BufferOK(buffers[i]) /\ ~buffers[i].popping
      /\ Taken = Len(read) /\ Taken \in Nat /\ Len(read) \in Nat
  <2>1. readerBuffer # None /\ readerBuffer \in DOMAIN buffers
    BY <1>1, Typed DEF StreamInv, ReaderKnown, StreamTypeOK, None
  <2>2. StreamBuffer = readerBuffer /\ StreamBuffer' = readerBuffer  BY <1>1, <2>1 DEF StreamBuffer
  <2>3. Len(read) \in Nat /\ Len(queue) = 0  BY <1>1, Typed, Measured DEF StreamInv
  <2>4. Taken = Len(read)  BY <2>3 DEF Taken
  <2> QED  BY <1>1, <2>1, <2>2, <2>3, <2>4, Typed DEF StreamInv, StreamTypeOK, Buffers
<1>3. WireCarriesAfter(lo)' /\ lo \in 0 .. written'  BY <1>1 DEF StreamInv, WireCarriesAfter
\* The buffer is as it was.
<1>4. ASSUME readable' \in { "open", "closed", "errored" }, buffers' = buffers, queue' = queue,
             tasks' = tasks,
             transport = "open" =>
               /\ readable' = "errored" => Aborted
               /\ readable' = "closed" =>
                    Len(read) = written /\ writable \in { "closing", "closed" }
      PROVE  StreamInv(lo)'
  <2>1. StreamTypeOK' /\ Buffers' /\ ReaderKnown' /\ Taken' = Taken
    <3>1. StreamTypeOK'  BY <1>1, <1>4 DEF StreamInv, StreamTypeOK
    <3>2. Buffers'  BY <1>1, <1>2, <1>4 DEF StreamInv, Buffers
    <3>3. ReaderKnown'  BY <1>1, <1>2, <1>4 DEF StreamInv, ReaderKnown
    <3>4. Taken' = Taken  BY <1>1, <1>4 DEF Taken
    <3> QED  BY <3>1, <3>2, <3>3, <3>4
  <2>2. Flow(lo)' /\ Writer'  BY <1>1, <1>2, <1>4, <2>1 DEF StreamInv, Flow, Met, Writer, Trailer
  <2>3. Reader(lo)'  BY <1>1, <1>2, <1>4, <2>1 DEF StreamInv, Reader, Acknowledged, Aborted
  <2> QED  BY <1>3, <2>1, <2>2, <2>3 DEF StreamInv
<1>5. CASE b.error # "none" /\ readable' = EndOf(b.error) /\ UNCHANGED << buffers, queue, tasks >>
  <2>1. readable' \in { "closed", "errored" } /\ (readable' = "closed" <=> b.error = "closed")
    BY <1>5 DEF EndOf
  <2>2. b.error \in { "closed", "error" }  BY <1>2, <1>5 DEF BufferRecords, Kinds
  <2>3. transport = "open" =>
          /\ readable' = "errored" => Aborted
          /\ readable' = "closed" =>
               Len(read) = written /\ writable \in { "closing", "closed" }
    BY <1>1, <1>2, <1>5, <2>1, <2>2 DEF StreamInv, Reader, Acknowledged, Aborted
  <2> QED  BY <1>4, <1>5, <2>1, <2>3
<1>6. CASE /\ b.error = "none" /\ b.items = << >> /\ b.finished
           /\ readable' = "closed" /\ UNCHANGED << buffers, queue, tasks >>
  <2>1. b.parked = << >>  BY <1>2, <1>6, BufferAssumption DEF BufferOK, IsFull
  <2>2. transport = "open" => Len(read) = written /\ writable \in { "closing", "closed" }
    <3> SUFFICES ASSUME transport = "open"
                 PROVE  Len(read) = written /\ writable \in { "closing", "closed" }
      OBVIOUS
    <3>1. lo = written /\ writable \in { "closing", "closed" }  BY <1>1, <1>2, <1>6 DEF StreamInv, Reader
    <3>2. \/ Met(lo, Taken + Len(b.items) + Len(b.parked))
          \/ Met(lo, 0) /\ Taken = 0
      BY <1>2, <1>6 DEF StreamInv, Flow
    <3>3. Len(b.items) = 0 /\ Len(b.parked) = 0  BY <1>6, <2>1
    <3> QED  BY <1>2, <3>1, <3>2, <3>3 DEF Met
  <2> QED  BY <1>4, <1>6, <2>2
<1>7. CASE /\ b.error = "none" /\ b.items = << >> /\ ~b.finished
           /\ buffers' = [ buffers EXCEPT ![readerBuffer].popping = TRUE ]
           /\ UNCHANGED << readable, queue, tasks >>
  <2> DEFINE c == [ b EXCEPT !.popping = TRUE ]
  <2>1. b.parked = << >>  BY <1>2, <1>7, BufferAssumption DEF BufferOK, IsFull
  <2>2. /\ c \in BufferRecords /\ BufferOK(c) /\ c.popping
        /\ c.items = b.items /\ c.parked = b.parked /\ c.finished = b.finished
        /\ c.error = b.error /\ c.draining = b.draining
    BY <1>2, <1>7, <2>1 DEF BufferRecords, BufferOK
  <2> HIDE DEF c
  <2>3. buffers' = [ buffers EXCEPT ![readerBuffer] = c ]  BY <1>7 DEF c
  <2>4. /\ buffers' \in Seq(BufferRecords) /\ Len(buffers') = Len(buffers)
        /\ DOMAIN buffers' = DOMAIN buffers /\ buffers'[readerBuffer] = c
        /\ \A j \in DOMAIN buffers : j # readerBuffer => buffers'[j] = buffers[j]
    BY <1>2, <2>2, <2>3, OneReplaced
  <2>5. Taken' = Taken  BY <1>1, <1>7 DEF Taken
  <2>6. StreamTypeOK'  BY <1>1, <1>7, <2>4 DEF StreamInv, StreamTypeOK
  <2>7. Buffers'  BY <1>1, <1>2, <1>7, <2>2, <2>4 DEF StreamInv, Buffers
  <2>8. ReaderKnown'  BY <1>1, <1>7 DEF StreamInv, ReaderKnown
  <2>9. Flow(lo)'  BY <1>1, <1>2, <2>2, <2>4, <2>5 DEF StreamInv, Flow, Met
  <2>10. Writer'  BY <1>1, <1>2, <1>7, <2>2, <2>4 DEF StreamInv, Writer, Trailer
  <2>11. Reader(lo)'  BY <1>1, <1>2, <1>7, <2>2, <2>4, <2>5 DEF StreamInv, Reader, Acknowledged, Aborted
  <2> QED  BY <1>3, <2>6, <2>7, <2>8, <2>9, <2>10, <2>11 DEF StreamInv
<1>8. CASE /\ b.error = "none" /\ b.items # << >>
           /\ queue' = << Head(b.items) >>
           /\ buffers' = [ buffers EXCEPT ![readerBuffer] = Popped(b) ]
           /\ tasks' = tasks \cup IF b.draining /\ ~Popped(b).draining THEN { AckTask } ELSE {}
           /\ UNCHANGED readable
  <2> DEFINE p == Popped(b)
  <2>1. /\ From(b.items, Taken) /\ From(b.parked, Taken + Len(b.items))
        /\ b.finished => lo = written
        /\ channelBuffer = readerBuffer
        /\ Met(lo, Taken + Len(b.items) + Len(b.parked))
    BY <1>2, <1>8 DEF StreamInv, Flow
  <2>2. /\ p \in BufferRecords /\ BufferOK(p) /\ ~p.popping
        /\ p.finished = b.finished /\ p.error = "none"
        /\ p.draining => b.draining
        /\ b.draining /\ ~p.draining => p.items = << >> /\ p.parked = << >>
        /\ From(p.items, Taken + 1) /\ From(p.parked, Taken + 1 + Len(p.items))
        /\ Len(p.items) + Len(p.parked) + 1 = Len(b.items) + Len(b.parked)
    BY <1>2, <1>8, <2>1, PoppedIsOK
  <2>3. /\ Head(b.items) \in Numbers /\ Head(b.items) = Len(read) + 1
    <3>1. b.items \in Seq(Numbers) /\ Numbers \subseteq Nat  BY <1>2 DEF BufferRecords, Numbers
    <3>2. b.items \in Seq(Nat)  BY <3>1, SeqMonotonic
    <3>3. Head(b.items) = Taken + 1  BY <1>2, <1>8, <2>1, <3>2, FromTakenOff
    <3> QED  BY <1>2, <1>8, <3>1, <3>3, TakenOff
  <2>4. /\ queue' \in Seq(Numbers) /\ Len(queue') = 1 /\ From(queue', Len(read))
        /\ Taken' = Taken + 1
    <3>1. queue'[1] = Len(read) + 1 /\ DOMAIN queue' = { 1 } /\ Len(queue') = 1  BY <1>8, <2>3
    <3> QED  BY <1>1, <1>2, <1>8, <2>3, <3>1 DEF From, Taken
  <2> HIDE DEF p
  <2>5. /\ buffers' \in Seq(BufferRecords) /\ Len(buffers') = Len(buffers)
        /\ DOMAIN buffers' = DOMAIN buffers /\ buffers'[readerBuffer] = p
        /\ \A j \in DOMAIN buffers : j # readerBuffer => buffers'[j] = buffers[j]
    BY <1>2, <1>8, <2>2, OneReplaced DEF p
  <2>6. /\ tasks' \subseteq tasks \cup { AckTask } /\ tasks \subseteq tasks'
        /\ AckTask \in tasks' => AckTask \in tasks \/ (b.draining /\ ~p.draining)
        /\ p.draining /\ AckTask \in tasks' => AckTask \in tasks
        /\ AckTask \in [ task : { "close", "ack" }, why : Kinds ] /\ AckTask.task # "close"
    BY <1>8 DEF p, AckTask, Kinds
  <2>7. StreamTypeOK'  BY <1>1, <1>8, <2>4, <2>5, <2>6 DEF StreamInv, StreamTypeOK
  <2>8. Buffers'  BY <1>1, <1>2, <2>2, <2>5, <2>6 DEF StreamInv, Buffers
  <2>9. ReaderKnown'  BY <1>1, <1>8, <2>4 DEF StreamInv, ReaderKnown
  <2>10. Taken' + Len(p.items) + Len(p.parked) = Taken + Len(b.items) + Len(b.parked)
    <3> DEFINE k == Len(p.items)
               l == Len(p.parked)
               i == Len(b.items)
               j == Len(b.parked)
    <3>1. k \in Nat /\ l \in Nat /\ i \in Nat /\ j \in Nat /\ k + l + 1 = i + j
      BY <1>2, <2>2, Measured DEF BufferRecords
    <3> HIDE DEF k, l, i, j
    <3>2. (Taken + 1) + k + l = Taken + i + j  BY <1>2, <3>1
    <3> QED  BY <2>4, <3>2 DEF k, l, i, j
  <2>11. Flow(lo)'
    <3>1. StreamBuffer' # None /\ buffers'[StreamBuffer'] = p /\ channelBuffer' = StreamBuffer'
      BY <1>1, <1>2, <2>1, <2>5
    <3>2. Met(lo, Taken + Len(buffers[StreamBuffer].items) + Len(buffers[StreamBuffer].parked))'
      BY <1>1, <2>1, <2>10, <3>1 DEF Met
    <3> QED  BY <1>1, <2>1, <2>2, <2>4, <3>1, <3>2 DEF Flow
  <2>12. Writer'  BY <1>1, <1>2, <2>2, <2>5, <2>6 DEF StreamInv, Writer, Trailer
  <2>13. Reader(lo)'
    <3> SUFFICES ASSUME transport = "open"
                 PROVE  Reader(lo)'
      BY <1>1 DEF Reader
    <3>1. ~Acknowledged  BY <1>1, <1>2, <1>8 DEF StreamInv, Reader
    <3>2. Acknowledged' =>
            /\ p.finished /\ p.items = << >> /\ p.parked = << >> /\ Taken' = written
      <4> SUFFICES ASSUME Acknowledged'
                   PROVE  p.finished /\ p.items = << >> /\ p.parked = << >> /\ Taken' = written
        OBVIOUS
      <4>1. b.draining /\ ~p.draining  BY <1>1, <2>6, <3>1 DEF Acknowledged
      <4>2. p.finished /\ p.items = << >> /\ p.parked = << >> /\ lo = written
        BY <1>2, <2>1, <2>2, <4>1 DEF BufferOK
      <4>3. lo = Taken + Len(b.items) + Len(b.parked)  BY <2>1 DEF Met
      <4> DEFINE k == Len(p.items)
                 l == Len(p.parked)
                 t == Taken'
      <4>4. k = 0 /\ l = 0 /\ t + k + l = lo  BY <2>10, <4>2, <4>3
      <4>5. t \in Nat  BY <1>2, <2>4
      <4> HIDE DEF k, l, t
      <4>6. t = lo  BY <4>4, <4>5
      <4>7. written' = written  BY <1>1
      <4> QED  BY <4>2, <4>6, <4>7 DEF t
    <3> QED  BY <1>1, <1>2, <1>8, <2>2, <2>5, <2>6, <3>2 DEF StreamInv, Reader, Aborted
  <2> QED  BY <1>3, <2>7, <2>8, <2>9, <2>11, <2>12, <2>13 DEF StreamInv
<1> QED  BY <1>5, <1>6, <1>7, <1>8 DEF Pull

LEMMA CancelKeeps ==
  ASSUME NEW lo \in Nat, StreamInv(lo), Cancel
  PROVE  StreamInv(lo)'
<1> DEFINE b == buffers[readerBuffer]
           d == Destroyed(b, "error")
<1>1. /\ readable = "open" /\ readable' = "cancelled" /\ queue' = << >>
      /\ UNCHANGED << written, writable, outgoing, wire, ackOnWire, transport, nodes,
                      channelBuffer, listening, readerBuffer, read >>
      /\ buffers' = [ buffers EXCEPT ![readerBuffer] = d ]
      /\ handshake' = IF handshake.reader THEN NoHandshake ELSE handshake
      /\ linked' = IF handshake.reader THEN "rejected" ELSE linked
      /\ tasks' = TasksAfter(readerBuffer, "error") \cup
                    IF linked = "resolved" THEN { CloseTask("error") } ELSE {}
  BY DEF Cancel, DropReader, writerVars, linkVars
<1>2. /\ readerBuffer # None /\ StreamBuffer = readerBuffer /\ StreamBuffer' = readerBuffer
      /\ readerBuffer \in DOMAIN buffers /\ b \in BufferRecords /\ BufferOK(b)
      /\ buffers \in Seq(BufferRecords) /\ DOMAIN buffers = 1 .. Len(buffers)
  BY <1>1, Typed DEF StreamInv, ReaderKnown, StreamTypeOK, StreamBuffer, None, Buffers
<1>3. d \in BufferRecords /\ BufferOK(d) /\ ~d.popping /\ ~d.draining /\ d.error # "none"
  BY <1>2, DestroyedIsOK
<1>4. /\ buffers' \in Seq(BufferRecords) /\ Len(buffers') = Len(buffers)
      /\ DOMAIN buffers' = DOMAIN buffers /\ buffers'[readerBuffer] = d
      /\ \A j \in DOMAIN buffers : j # readerBuffer => buffers'[j] = buffers[j]
  BY <1>1, <1>2, <1>3, OneReplaced
<1>5. /\ tasks \subseteq tasks' /\ tasks' \subseteq tasks \cup { CloseTask("error") }
      /\ CloseTask("error") \in [ task : { "close", "ack" }, why : Kinds ]
      /\ CloseTask("error").why # "none" /\ CloseTask("error") # AckTask
  BY <1>1 DEF TasksAfter, CloseTask, AckTask, Kinds
<1>6. StreamTypeOK'
  <2>1. handshake' \in [ buffer : 0 .. Len(buffers), reader : BOOLEAN ]
    BY Typed, <1>1 DEF StreamInv, StreamTypeOK, NoHandshake, None
  <2> QED  BY <1>1, <1>4, <1>5, <2>1 DEF StreamInv, StreamTypeOK
<1>7. Buffers'  BY <1>1, <1>3, <1>4, <1>5 DEF StreamInv, Buffers
<1>8. ReaderKnown'  BY NoneFrom, <1>1, <1>2, <1>3, <1>4 DEF NoHandshake, StreamInv, ReaderKnown
<1>9. Flow(lo)'  BY <1>2, <1>3, <1>4 DEF Flow
<1>10. Writer'  BY <1>1, <1>2, <1>3, <1>4, <1>5 DEF StreamInv, Writer, Trailer
<1>11. Reader(lo)' /\ WireCarriesAfter(lo)' /\ lo \in 0 .. written'
  BY <1>1 DEF StreamInv, Reader, WireCarriesAfter
<1> QED  BY <1>6, <1>7, <1>8, <1>9, <1>10, <1>11 DEF StreamInv

-----------------------------------------------------------------------------
(* The link and the nodes.                                                 *)

\* Nothing that was written is under way any more.
LEMMA Emptied ==
  ASSUME StreamTypeOK, written' = written, NEW n \in Nat, n = written,
         wire' \in Seq(Messages), \A i \in DOMAIN wire' : wire'[i].type # "data"
  PROVE  WireCarriesAfter(n)' /\ n \in 0 .. written'
BY Typed, Measured DEF WireCarriesAfter

LEMMA BreakKeeps ==
  ASSUME NEW lo \in Nat, StreamInv(lo), ChannelBreaks, NEW n \in Nat, n = written
  PROVE  StreamInv(n)'
<1>1. /\ transport = "open" /\ transport' = "closed" /\ ackOnWire' = FALSE
      /\ wire' = IF outgoing = "none" THEN << >> ELSE << Closed("error") >>
      /\ outgoing' = IF outgoing = "none" THEN "none" ELSE "closed"
      /\ UNCHANGED << written, writable, nodes, managerVars, readerVars, tasks >>
  BY DEF ChannelBreaks
<1>2. /\ WireCarriesAfter(n)' /\ n \in 0 .. written'
      /\ wire' \in Seq(Messages)
  <2>1. Closed("error") \in Messages /\ Closed("error").type # "data"  BY DEF Messages, Closed
  <2>2. /\ wire' \in Seq(Messages) /\ \A i \in DOMAIN wire' : wire'[i].type # "data"  BY <1>1, <2>1
  <2> QED  BY <1>1, <2>2, Emptied DEF StreamInv
<1>3. StreamTypeOK' /\ Buffers' /\ ReaderKnown'
  <2>1. StreamTypeOK /\ Buffers /\ ReaderKnown  BY Parts
  <2>2. StreamTypeOK'  BY <1>1, <1>2, <2>1 DEF StreamTypeOK, managerVars, readerVars
  <2>3. Buffers' /\ ReaderKnown'  BY <1>1, <2>1 DEF Buffers, ReaderKnown, managerVars, readerVars
  <2> QED  BY <2>2, <2>3
<1>4. StreamBuffer' = StreamBuffer /\ Taken' = Taken /\ \A k : Met(n, k)'
  BY <1>1 DEF StreamBuffer, Taken, Met, managerVars, readerVars
<1>5. Flow(n)'  BY <1>1, <1>4 DEF StreamInv, Flow, managerVars
<1>6. Writer' /\ Reader(n)'  BY <1>1 DEF Writer, Reader
<1> QED  BY <1>1, <1>2, <1>3, <1>5, <1>6 DEF StreamInv

LEMMA WriterCloseKeeps ==
  ASSUME NEW lo \in Nat, StreamInv(lo), WriterNodeCloses
  PROVE  StreamInv(lo)'
<1>1. /\ nodes' = nodes \ { "writer" }
      /\ writable' = IF writable = "closing" THEN "closed" ELSE writable
      /\ outgoing' = IF outgoing = "none" THEN "none" ELSE "closed"
      /\ transport' = "closed" /\ ackOnWire' = FALSE
      /\ wire' = wire \o << >> \o << Closed("closed") >> \/ wire' = wire
      /\ UNCHANGED << written, managerVars, readerVars, tasks >>
  BY DEF WriterNodeCloses, SendAndClose
<1>2. wire' \in Seq(Messages) /\ WireCarriesAfter(lo)' /\ lo \in 0 .. written'
  <2>1. Closed("closed") \in Messages /\ Closed("closed").type # "data"  BY DEF Messages, Closed
  <2>2. wire \in Seq(Messages)  BY Typed DEF StreamInv
  <2>3. wire' = Append(wire, Closed("closed")) \/ wire' = wire  BY <1>1, <2>1, <2>2
  <2>4. CASE wire' = Append(wire, Closed("closed"))
    BY <1>1, <2>1, <2>2, <2>4, CarriesTrailer, Appended DEF StreamInv
  <2>5. CASE wire' = wire  BY <1>1, <2>2, <2>5 DEF StreamInv, WireCarriesAfter
  <2> QED  BY <2>3, <2>4, <2>5
<1>3. StreamTypeOK' /\ Buffers' /\ ReaderKnown'
  BY <1>1, <1>2 DEF StreamInv, StreamTypeOK, Buffers, ReaderKnown, managerVars, readerVars
<1>4. /\ StreamBuffer' = StreamBuffer /\ Taken' = Taken
      /\ \A n : Met(lo, n) => Met(lo, n)'
  BY <1>1 DEF StreamBuffer, Taken, Met, managerVars, readerVars
<1>5. Flow(lo)'  BY <1>1, <1>4 DEF StreamInv, Flow, managerVars
<1>6. Writer' /\ Reader(lo)'  BY <1>1 DEF Writer, Reader
<1> QED  BY <1>1, <1>2, <1>3, <1>5, <1>6 DEF StreamInv

LEMMA ReaderCloseKeeps ==
  ASSUME NEW lo \in Nat, StreamInv(lo), ReaderNodeCloses, NEW n \in Nat, n = written
  PROVE  StreamInv(n)'
<1> DEFINE gone == { i \in { channelBuffer, handshake.buffer } : i # None }
<1>1. /\ nodes' = nodes \ { "reader" } /\ handshake' = NoHandshake /\ channelBuffer' = None
      /\ linked' = IF handshake.reader THEN "rejected" ELSE linked
      /\ buffers' = [ i \in DOMAIN buffers |->
                        IF i \in gone THEN Destroyed(buffers[i], "error") ELSE buffers[i] ]
      /\ readable' = IF readerBuffer \in gone THEN ReadableAfter(readerBuffer, "error")
                     ELSE readable
      /\ tasks' = tasks \cup UNION { TasksAfter(i, "error") : i \in gone }
      /\ transport' = "closed" /\ wire' = << >> /\ ackOnWire' = FALSE
      /\ outgoing' = IF outgoing = "none" THEN "none" ELSE "closed"
      /\ UNCHANGED << written, writable, listening, readerBuffer, queue, read >>
  BY DEF ReaderNodeCloses
<1>2. /\ buffers \in Seq(BufferRecords) /\ DOMAIN buffers = 1 .. Len(buffers)
      /\ Len(buffers) \in Nat
      /\ \A i \in DOMAIN buffers : buffers[i] \in BufferRecords /\ BufferOK(buffers[i])
      /\ \A i \in DOMAIN buffers : buffers[i].popping =>
           i = readerBuffer /\ readable = "open" /\ queue = << >>
      /\ readerBuffer \in 0 .. Len(buffers)
  BY Typed DEF StreamInv, StreamTypeOK, Buffers
<1> HIDE DEF gone
<1>3. ASSUME NEW i \in DOMAIN buffers
      PROVE  /\ buffers'[i] \in BufferRecords /\ BufferOK(buffers'[i])
             /\ buffers'[i].popping => buffers[i].popping /\ i \notin gone
             /\ i \in gone \/ buffers[i].error # "none" => buffers'[i].error # "none"
  <2>1. CASE i \in gone  BY <1>1, <2>1, <1>2, DestroyedIsOK
  <2>2. CASE i \notin gone  BY <1>1, <2>2, <1>2
  <2> QED  BY <2>1, <2>2
<1>4. /\ buffers' \in Seq(BufferRecords) /\ Len(buffers') = Len(buffers)
      /\ DOMAIN buffers' = DOMAIN buffers
  BY <1>1, <1>2, <1>3
<1>5. \A t \in tasks' : t \in tasks \/ t = CloseTask("error")  BY <1>1 DEF TasksAfter
<1>6. \/ /\ readable' = "errored" /\ readable = "open" /\ readerBuffer \in gone
      \/ readable' = readable /\ (readerBuffer \in gone => ~buffers[readerBuffer].popping)
  BY <1>2, <1>1 DEF gone, None, ReadableAfter, EndOf
<1>7. StreamTypeOK'
  <2>1. tasks' \subseteq [ task : { "close", "ack" }, why : Kinds ]
    BY <1>5 DEF StreamInv, StreamTypeOK, CloseTask, Kinds
  <2>2. NoHandshake \in [ buffer : 0 .. Len(buffers), reader : BOOLEAN ] /\ 0 \in 0 .. Len(buffers)
    BY <1>2 DEF NoHandshake, None
  <2>3. /\ handshake' \in [ buffer : 0 .. Len(buffers), reader : BOOLEAN ]
        /\ channelBuffer' \in 0 .. Len(buffers)
    BY <1>1, <2>2 DEF None
  <2>4. readable' \in { "absent", "open", "closed", "errored", "cancelled" }
    BY <1>6 DEF StreamInv, StreamTypeOK
  <2>5. linked' \in { "pending", "resolved", "rejected" } /\ wire' \in Seq(Messages)
        /\ outgoing' \in { "none", "open", "closed" } /\ nodes' \subseteq { "writer", "reader" }
    BY <1>1 DEF StreamInv, StreamTypeOK
  <2> QED  BY <1>1, <1>4, <2>1, <2>3, <2>4, <2>5 DEF StreamInv, StreamTypeOK
<1>8. Buffers'
  <2>1. \A t \in tasks' : t.task = "close" => t.why # "none"  BY <1>5 DEF StreamInv, Buffers, CloseTask
  <2>2. ASSUME NEW i \in DOMAIN buffers, buffers'[i].popping
        PROVE  i = readerBuffer /\ readable' = "open" /\ queue = << >>
    BY <1>2, <1>3, <1>6, <2>2
  <2> QED  BY <1>1, <1>3, <1>4, <2>1, <2>2 DEF Buffers
<1>9. ReaderKnown'
  <2>1. readable' = "cancelled" => buffers'[readerBuffer].error # "none"
    <3> SUFFICES ASSUME readable' = "cancelled"
                 PROVE  buffers'[readerBuffer].error # "none"
      OBVIOUS
    <3>1. readable = "cancelled"  BY <1>6
    <3>2. buffers[readerBuffer].error # "none" /\ readerBuffer \in DOMAIN buffers
      BY <1>2, <3>1 DEF StreamInv, ReaderKnown, None
    <3> QED  BY <1>3, <3>2
  <2>2. ~NoHandshake.reader  BY DEF NoHandshake
  <2>3. readerBuffer = None <=> readable' = "absent"  BY <1>6 DEF StreamInv, ReaderKnown
  <2> QED  BY <1>1, <1>6, <2>1, <2>2, <2>3 DEF StreamInv, ReaderKnown
<1>10. Flow(n)'
  <2>1. \A k : Met(n, k)'  BY <1>1 DEF Met
  <2>2. CASE readerBuffer = None  BY <1>1, <2>2, <2>1 DEF StreamBuffer, NoHandshake, Flow
  <2>3. CASE readerBuffer # None
    <3>1. StreamBuffer = readerBuffer /\ StreamBuffer' = readerBuffer
          /\ readerBuffer \in DOMAIN buffers
      BY <1>1, <1>2, <2>3 DEF StreamBuffer, None
    <3>2. buffers[readerBuffer].error = "none" => readerBuffer \in gone
      BY <2>3, <3>1 DEF StreamInv, Flow, gone
    <3>3. buffers'[readerBuffer].error # "none"  BY <1>3, <3>1, <3>2
    <3> QED  BY <2>3, <3>1, <3>3 DEF Flow
  <2> QED  BY <2>2, <2>3
<1>11. Writer' /\ Reader(n)'  BY <1>1 DEF Writer, Reader
<1>12. WireCarriesAfter(n)' /\ n \in 0 .. written'  BY <1>1, Emptied DEF StreamInv
<1> QED  BY <1>1, <1>7, <1>8, <1>9, <1>10, <1>11, <1>12 DEF StreamInv

-----------------------------------------------------------------------------
(* The invariant.                                                          *)

ChunksInv == \E lo \in Nat : StreamInv(lo)

LEMMA InitHolds == StreamInit => ChunksInv
<1> SUFFICES ASSUME StreamInit
             PROVE  StreamInv(0)
  BY DEF ChunksInv
<1> USE DEF StreamInit
<1>1. StreamTypeOK
  <2>1. /\ wire \in Seq(Messages) /\ buffers \in Seq(BufferRecords) /\ Len(buffers) = 0
        /\ queue \in Seq(Numbers) /\ read \in Seq(Numbers)
    OBVIOUS
  <2>2. /\ handshake \in [ buffer : 0 .. 0, reader : BOOLEAN ]
        /\ channelBuffer \in 0 .. 0 /\ readerBuffer \in 0 .. 0
    BY DEF NoHandshake, None
  <2>3. written \in 0 .. Chunks  BY StreamAssumption
  <2> QED  BY <2>1, <2>2, <2>3 DEF StreamTypeOK
<1>2. Buffers /\ ReaderKnown  BY NoneFrom DEF Buffers, ReaderKnown, NoHandshake, None
<1>3. WireCarriesAfter(0) /\ 0 \in 0 .. written  BY DEF WireCarriesAfter
<1>4. StreamBuffer = None  BY DEF StreamBuffer, NoHandshake, None
<1>5. Flow(0) /\ Writer /\ Reader(0)  BY <1>4 DEF Flow, Met, Writer, Reader, Acknowledged, Aborted, Trailer
<1> QED  BY <1>1, <1>2, <1>3, <1>5 DEF StreamInv

LEMMA NextKeeps == ChunksInv /\ [StreamNext]_streamVars => ChunksInv'
<1> SUFFICES ASSUME NEW lo \in Nat, StreamInv(lo), [StreamNext]_streamVars
             PROVE  \E n \in Nat : StreamInv(n)'
  BY DEF ChunksInv
<1>1. lo + 1 \in Nat /\ written \in Nat  BY Typed DEF StreamInv
<1>2. CASE Write \/ WriteFails \/ Close \/ Abort \/ ReceiveAck
  BY <1>2, WriteKeeps, WriteFailsKeeps, CloseKeeps, AbortKeeps, ReceiveAckKeeps
<1>3. CASE ReceiveMessage  BY <1>1, <1>3, ReceiveKeeps
<1>4. CASE RunAck \/ \E t \in tasks : RunClose(t)  BY <1>4, RunAckKeeps, RunCloseKeeps
<1>5. CASE CreatePullReader \/ Pull \/ Read \/ Cancel  BY <1>5, CreateKeeps, PullKeeps, ReadKeeps, CancelKeeps
<1>6. CASE ChannelBreaks  BY <1>6, BreakKeeps, <1>1
<1>7. CASE WriterNodeCloses  BY <1>7, WriterCloseKeeps
<1>8. CASE ReaderNodeCloses  BY <1>8, ReaderCloseKeeps, <1>1
<1>9. CASE UNCHANGED streamVars
  <2>1. UNCHANGED << written, writable, outgoing, wire, ackOnWire, transport, nodes, buffers,
                     channelBuffer, handshake, listening, readerBuffer, linked, readable,
                     queue, read, tasks >>
    BY <1>9 DEF streamVars, writerVars, linkVars, managerVars, readerVars
  <2>2. StreamTypeOK' /\ Buffers' /\ ReaderKnown' /\ WireCarriesAfter(lo)' /\ lo \in 0 .. written'
    BY <2>1 DEF StreamInv, StreamTypeOK, Buffers, ReaderKnown, WireCarriesAfter
  <2>3. StreamBuffer' = StreamBuffer /\ Taken' = Taken  BY <2>1 DEF StreamBuffer, Taken
  <2>4. Flow(lo)'  BY <2>1, <2>3 DEF StreamInv, Flow, Met
  <2>5. Writer'  BY <2>1, <2>3 DEF StreamInv, Writer, Trailer
  <2>6. Reader(lo)'  BY <2>1, <2>3 DEF StreamInv, Reader, Acknowledged, Aborted
  <2> QED  BY <2>2, <2>4, <2>5, <2>6 DEF StreamInv
<1> QED  BY <1>2, <1>3, <1>4, <1>5, <1>6, <1>7, <1>8, <1>9 DEF StreamNext

-----------------------------------------------------------------------------
(* What it says.                                                           *)

LEMMA InOneLine ==
  ASSUME NEW lo \in Nat, StreamInv(lo)
  PROVE  /\ read \o queue = [ n \in 1 .. Len(read \o queue) |-> n ]
         /\ Len(read \o queue) = Taken /\ From(read \o queue, 0) /\ read \o queue \in Seq(Nat)
<1>1. /\ read \in Seq(Nat) /\ queue \in Seq(Nat) /\ From(read, 0) /\ From(queue, Len(read))
      /\ Len(read) \in Nat /\ 0 + Len(read) = Len(read)
  BY Typed, Measured DEF StreamInv, ReaderKnown
<1>2. /\ From(read \o queue, 0) /\ read \o queue \in Seq(Nat)
      /\ Len(read \o queue) = Len(read) + Len(queue)
  BY <1>1, FromJoined
<1> QED  BY <1>2, FromFirst DEF Taken

LEMMA LosesNothing ==
  ASSUME NEW lo \in Nat, StreamInv(lo)
  PROVE  NothingLost
<1> SUFFICES ASSUME Undisturbed
             PROVE  /\ ChunksHeld = [ n \in 1 .. Len(ChunksHeld) |-> n ]
                    /\ WireCarriesAfter(Len(ChunksHeld))
  BY DEF NothingLost
<1> DEFINE rq == read \o queue
<1>1. rq \in Seq(Nat) /\ From(rq, 0) /\ Len(rq) = Taken /\ Len(rq) \in Nat  BY InOneLine, Measured
<1>2. /\ transport = "open" /\ readable \notin { "cancelled", "errored" }
      /\ writable = "errored" => outgoing = "open"
  BY DEF Undisturbed
<1>3. ASSUME ChunksInBuffer \in Seq(Nat), From(ChunksInBuffer, Taken),
             lo = Taken + Len(ChunksInBuffer)
      PROVE  /\ ChunksHeld = [ n \in 1 .. Len(ChunksHeld) |-> n ]
             /\ WireCarriesAfter(Len(ChunksHeld))
  <2>1. rq \in Seq(Nat) /\ From(rq, 0) /\ 0 \in Nat /\ From(ChunksInBuffer, 0 + Len(rq))  BY <1>1, <1>3
  <2> HIDE DEF rq
  <2>2. /\ From(rq \o ChunksInBuffer, 0) /\ rq \o ChunksInBuffer \in Seq(Nat)
        /\ Len(rq \o ChunksInBuffer) = Len(rq) + Len(ChunksInBuffer)
    BY <1>3, <2>1, FromJoined
  <2>3. ChunksHeld = rq \o ChunksInBuffer  BY DEF ChunksHeld, rq
  <2>4. Len(ChunksHeld) = lo  BY <1>1, <1>3, <2>2, <2>3
  <2>5. WireCarriesAfter(lo)  BY DEF StreamInv
  <2> QED  BY <2>2, <2>3, <2>4, <2>5, FromFirst
<1>4. CASE StreamBuffer = None
  <2>1. lo = 0 /\ queue = << >> /\ read = << >>
    BY <1>2, <1>4 DEF StreamInv, Flow, Met, StreamBuffer, ReaderKnown, None
  <2>2. ChunksInBuffer = << >> /\ << >> \in Seq(Nat) /\ Len(<< >>) = 0 /\ Taken = 0
    BY <1>4, <2>1 DEF ChunksInBuffer, Taken
  <2> QED  BY <1>3, <2>1, <2>2, NoneFrom
<1>5. CASE StreamBuffer # None
  <2> DEFINE b == buffers[StreamBuffer]
  <2>1. /\ b \in BufferRecords /\ BufferOK(b) /\ ChunksInBuffer = b.items \o b.parked
    BY <1>5, Typed DEF StreamInv, Buffers, ChunksInBuffer
  <2>2. b.items \in Seq(Nat) /\ b.parked \in Seq(Nat)
    <3>1. Numbers \subseteq Nat /\ b.items \in Seq(Numbers) /\ b.parked \in Seq(Numbers)
      BY <2>1 DEF BufferRecords, Numbers
    <3> QED  BY <3>1, SeqMonotonic
  <2>3. /\ From(b.items, Taken) /\ From(b.parked, Taken + Len(b.items))
        /\ lo = Taken + Len(b.items) + Len(b.parked)
    <3>1. CASE b.error = "none"
      <4>1. /\ From(b.items, Taken) /\ From(b.parked, Taken + Len(b.items))
            /\ \/ lo = Taken + Len(b.items) + Len(b.parked)
               \/ lo = 0 /\ Taken = 0 /\ b.items = << >> /\ b.parked = << >>
        BY <1>2, <1>5, <3>1 DEF StreamInv, Flow, Met
      <4> QED  BY <4>1
    <3>2. CASE b.error # "none"
      <4>1. writable = "closed" /\ outgoing = "closed" /\ lo = written
        BY <1>2, <1>5, <2>1, <3>2 DEF StreamInv, Reader, BufferRecords, Kinds
      <4>2. b.items = << >> /\ b.parked = << >> /\ Taken = written
        BY <1>2, <1>5, <4>1 DEF StreamInv, Reader, Acknowledged
      <4>3. Len(b.items) = 0 /\ Len(b.parked) = 0 /\ \A n : From(<< >>, n)  BY <4>2, NoneFrom
      <4>4. lo = Taken + 0 + 0  BY <1>1, <4>1, <4>2
      <4> QED  BY <4>2, <4>3, <4>4
    <3> QED  BY <3>1, <3>2
  <2>4. /\ From(b.items \o b.parked, Taken) /\ b.items \o b.parked \in Seq(Nat)
        /\ Len(b.items \o b.parked) = Len(b.items) + Len(b.parked)
    BY <1>1, <2>2, <2>3, FromJoined
  <2> DEFINE k == Len(b.items)
             l == Len(b.parked)
             m == Len(b.items \o b.parked)
  <2>5. k \in Nat /\ l \in Nat /\ m = k + l /\ lo = Taken + k + l /\ Taken \in Nat
    BY <1>1, <2>2, <2>3, <2>4, Measured
  <2> HIDE DEF k, l, m
  <2>6. lo = Taken + m  BY <2>5
  <2> QED  BY <1>3, <2>1, <2>4, <2>6 DEF m
<1> QED  BY <1>4, <1>5

LEMMA InvImplies == ChunksInv => ChunksAreKept
<1> SUFFICES ASSUME NEW lo \in Nat, StreamInv(lo)
             PROVE  ChunksAreKept
  BY DEF ChunksInv
<1>1. StreamTypeOK  BY DEF StreamInv
<1>2. WaitersAreDue  BY DEF StreamInv, Buffers, BufferOK, WaitersAreDue
<1>3. NothingLost  BY LosesNothing
<1>4. EndMeansAll  BY InOneLine DEF EndMeansAll, StreamInv, Reader
<1>5. AckMeansConsumed  BY InOneLine DEF AckMeansConsumed, StreamInv, Reader, Acknowledged
<1> QED  BY <1>1, <1>2, <1>3, <1>4, <1>5 DEF ChunksAreKept

\* Whatever the capacity of the buffer, the number of chunks and what fails or
\* closes, the chunks written are in one place and in order, nobody waits in a
\* buffer for what has come, and neither end is told of an end that is not
\* one (stream-manager.ts, stream.feature.ts, incoming-buffer.ts).
THEOREM ChunksAreAlwaysKept == StreamSpec => []ChunksAreKept
BY InitHolds, NextKeeps, PTL, InvImplies DEF StreamSpec

-----------------------------------------------------------------------------
(* Calls. *)

Asking(c)    == { r \in Requests : r.call = c }
Answering(c) == { r \in Responses : r.call = c }

\* A message of the set M is on the wire w; at most one is.
In(w, M)   == \E k \in DOMAIN w : w[k] \in M
Once(w, M) == \A j, k \in DOMAIN w : w[j] \in M /\ w[k] \in M => j = k

PlacesOf(w, M) == { k \in DOMAIN w : w[k] \in M }

Runs(ex, c) == \E m \in ex : m.call = c

(***************************************************************************)
(* The inductive invariant, part by part.                                  *)
(***************************************************************************)

\* A connection that holds has not been told of its end.
Linked == connected \subseteq open \cap serving

\* What is said of a call is said over its client's connection.
Addressed(ts, tc) ==
  \A cl \in Clients, c \in Calls :
    ClientOf[c] # cl => ~In(ts[cl], Asking(c)) /\ ~In(tc[cl], Answering(c))

\* A call is in one place at most, no other than an open one is in any, and on
\* a connection that holds every open one is: w and v are its client's wires.
At(c, w, v, ex, st, links, quiet) ==
  /\ Once(w, Asking(c)) /\ Once(v, Answering(c))
  /\ \A m, n \in ex : m.call = c /\ n.call = c => m = n
  /\ In(w, Asking(c)) => ~Runs(ex, c) /\ ~In(v, Answering(c))
  /\ Runs(ex, c) => ~In(v, Answering(c))
  /\ In(w, Asking(c)) \/ Runs(ex, c) \/ In(v, Answering(c)) => st # "idle" /\ c \notin quiet
  /\ c \in quiet => st # "idle"
  /\ ClientOf[c] \in links =>
       (st = "pending" /\ c \notin quiet
          <=> In(w, Asking(c)) \/ Runs(ex, c) \/ In(v, Answering(c)))

Whole ==
  \A c \in Calls :
    At(c, toServer[ClientOf[c]], toClient[ClientOf[c]], executing, status[c], connected, silent)

\* The calls that are made and have been run, or never will be.  Each new id
\* was given to what one of them returned, so that the ids suffice.
Done(ts, ex, st) ==
  { c \in Calls : st[c] # "idle" /\ ~In(ts[ClientOf[c]], Asking(c)) /\ ~Runs(ex, c) }
Counted == lastId <= Cardinality(Done(toServer, executing, status))

\* A proxy stands for an id.
Named == \A p \in Calls : proxy[p] # "none" => pinnedAs[p] \in Ids

CallsInv == TypeOK /\ Linked /\ Named /\ Addressed(toServer, toClient) /\ Whole /\ Counted

-----------------------------------------------------------------------------
(* Wires.                                                                  *)

\* A message is sent.
LEMMA Appending ==
  ASSUME NEW S, NEW w \in Seq(S), NEW m \in S, NEW M
  PROVE  /\ Append(w, m) \in Seq(S)
         /\ In(Append(w, m), M) <=> In(w, M) \/ m \in M
         /\ Once(w, M) /\ (m \in M => ~In(w, M)) => Once(Append(w, m), M)
<1>1. /\ Append(w, m) \in Seq(S)
      /\ DOMAIN w = 1 .. Len(w) /\ Len(w) \in Nat
      /\ DOMAIN Append(w, m) = 1 .. (Len(w) + 1)
      /\ \A i \in 1 .. Len(w) : Append(w, m)[i] = w[i]
      /\ Append(w, m)[Len(w) + 1] = m
  OBVIOUS
<1> DEFINE v == Append(w, m)
<1> HIDE DEF v
<1>2. DOMAIN v = DOMAIN w \cup { Len(w) + 1 } /\ Len(w) + 1 \notin DOMAIN w  BY <1>1 DEF v
<1>3. v[Len(w) + 1] = m /\ \A i \in DOMAIN w : v[i] = w[i]  BY <1>1 DEF v
<1>4. In(v, M) <=> In(w, M) \/ m \in M  BY <1>2, <1>3 DEF In
<1>5. Once(w, M) /\ (m \in M => ~In(w, M)) => Once(v, M)  BY <1>2, <1>3 DEF In, Once
<1> QED  BY <1>1, <1>4, <1>5 DEF v

\* The first message is taken.
LEMMA Taking ==
  ASSUME NEW S, NEW w \in Seq(S), w # << >>, NEW M
  PROVE  /\ Head(w) \in S /\ Tail(w) \in Seq(S)
         /\ In(w, M) <=> Head(w) \in M \/ In(Tail(w), M)
         /\ Once(w, M) => Once(Tail(w), M) /\ (Head(w) \in M => ~In(Tail(w), M))
<1>1. /\ Head(w) = w[1] /\ w[1] \in S /\ Tail(w) \in Seq(S)
      /\ DOMAIN w = 1 .. Len(w) /\ Len(w) \in Nat /\ Len(w) >= 1
      /\ DOMAIN Tail(w) = 1 .. (Len(w) - 1)
      /\ \A i \in 1 .. (Len(w) - 1) : Tail(w)[i] = w[i + 1]
  OBVIOUS
<1> DEFINE v == Tail(w)
<1> HIDE DEF v
<1>2. \A i \in DOMAIN v : i + 1 \in DOMAIN w /\ v[i] = w[i + 1] /\ i + 1 # 1 /\ i \in Int  BY <1>1 DEF v
<1>3. \A i \in DOMAIN w : i = 1 \/ (i - 1 \in DOMAIN v /\ v[i - 1] = w[i])  BY <1>1 DEF v
<1>4. 1 \in DOMAIN w  BY <1>1
<1>5. In(w, M) <=> w[1] \in M \/ In(v, M)  BY <1>2, <1>3, <1>4 DEF In
<1>6. Once(w, M) => Once(v, M)
  <2> SUFFICES ASSUME Once(w, M), NEW i \in DOMAIN v, NEW j \in DOMAIN v, v[i] \in M, v[j] \in M
               PROVE  i = j
    BY DEF Once
  <2>1. i + 1 = j + 1  BY <1>2 DEF Once
  <2> QED  BY <1>2, <2>1
<1>7. Once(w, M) /\ w[1] \in M => ~In(v, M)  BY <1>2, <1>4 DEF Once, In
<1> QED  BY <1>1, <1>5, <1>6, <1>7 DEF v

\* A wire that is cut holds nothing.
LEMMA Cutting == \A M : ~In(<< >>, M) /\ Once(<< >>, M)
BY DEF In, Once

-----------------------------------------------------------------------------
(* What the invariant says of the places of a call.                        *)

LEMMA HowMany ==
  ASSUME NEW x, NEW w, NEW M, Once(w, M)
  PROVE  Cardinality({ x } \X PlacesOf(w, M)) = IF In(w, M) THEN 1 ELSE 0
<1>1. CASE In(w, M)
  <2>1. PICK k \in DOMAIN w : w[k] \in M  BY <1>1 DEF In
  <2>2. PlacesOf(w, M) = { k }  BY <2>1 DEF Once, PlacesOf
  <2>3. { x } \X PlacesOf(w, M) = { << x, k >> }  BY <2>2
  <2> QED  BY <1>1, <2>3, FS_Singleton
<1>2. CASE ~In(w, M)  BY <1>2, FS_EmptySet DEF In, PlacesOf
<1> QED  BY <1>1, <1>2

LEMMA CallsImply == CallsInv => PendingIsSomewhere
<1> SUFFICES ASSUME CallsInv, NEW c \in Calls, ClientOf[c] \in connected
             PROVE  Places(c) = IF status[c] = "pending" /\ c \notin silent THEN 1 ELSE 0
  BY DEF CallsInv, PendingIsSomewhere
<1> DEFINE cl == ClientOf[c]
<1> DEFINE w == toServer[cl]
<1> DEFINE v == toClient[cl]
<1> DEFINE A == Among(toServer, LAMBDA m : m.type = "request" /\ m.call = c)
<1> DEFINE B == { m \in executing : m.call = c }
<1> DEFINE C == Among(toClient, LAMBDA m : m.call = c)
<1>1. cl \in Clients /\ w \in Seq(Requests \cup Releases) /\ v \in Seq(Responses)
  BY CallsAssumption DEF CallsInv, TypeOK
<1>2. At(c, w, v, executing, status[c], connected, silent)  BY DEF CallsInv, Whole
<1>3. \A d \in Clients :
        /\ \A k \in DOMAIN toServer[d] :
             (toServer[d][k].type = "request" /\ toServer[d][k].call = c) <=> toServer[d][k] \in Asking(c)
        /\ \A k \in DOMAIN toClient[d] : toClient[d][k].call = c <=> toClient[d][k] \in Answering(c)
  <2> SUFFICES ASSUME NEW d \in Clients
               PROVE  /\ \A k \in DOMAIN toServer[d] :
                           (toServer[d][k].type = "request" /\ toServer[d][k].call = c)
                             <=> toServer[d][k] \in Asking(c)
                      /\ \A k \in DOMAIN toClient[d] : toClient[d][k].call = c <=> toClient[d][k] \in Answering(c)
    OBVIOUS
  <2>1. /\ \A k \in DOMAIN toServer[d] : toServer[d][k] \in Requests \cup Releases
        /\ \A k \in DOMAIN toClient[d] : toClient[d][k] \in Responses
    BY DEF CallsInv, TypeOK
  <2> QED  BY <2>1 DEF Asking, Answering, Requests, Releases
<1>4. \A d \in Clients : d # cl =>
        /\ \A k \in DOMAIN toServer[d] : toServer[d][k] \notin Asking(c)
        /\ \A k \in DOMAIN toClient[d] : toClient[d][k] \notin Answering(c)
  BY DEF CallsInv, Addressed, In
<1>5. A = { cl } \X PlacesOf(w, Asking(c))  BY <1>1, <1>3, <1>4 DEF Among, PlacesOf
<1>6. C = { cl } \X PlacesOf(v, Answering(c))  BY <1>1, <1>3, <1>4 DEF Among, PlacesOf
<1>7. Cardinality(A) = IF In(w, Asking(c)) THEN 1 ELSE 0
  <2>1. Once(w, Asking(c))  BY <1>2 DEF At
  <2> HIDE DEF A, w, cl
  <2> QED  BY <1>5, <2>1, HowMany
<1>8. Cardinality(C) = IF In(v, Answering(c)) THEN 1 ELSE 0
  <2>1. Once(v, Answering(c))  BY <1>2 DEF At
  <2> HIDE DEF C, v, cl
  <2> QED  BY <1>6, <2>1, HowMany
<1>9. Cardinality(B) = IF Runs(executing, c) THEN 1 ELSE 0
  <2>1. CASE Runs(executing, c)
    <3>1. PICK m \in executing : m.call = c  BY <2>1 DEF Runs
    <3>2. B = { m }  BY <1>2, <3>1 DEF At
    <3> HIDE DEF B
    <3> QED  BY <2>1, <3>2, FS_Singleton
  <2>2. CASE ~Runs(executing, c)
    <3>1. B = {}  BY <2>2 DEF Runs
    <3> HIDE DEF B
    <3> QED  BY <2>2, <3>1, FS_EmptySet
  <2> QED  BY <2>1, <2>2
<1>10. Places(c) = Cardinality(A) + Cardinality(B) + Cardinality(C)  BY DEF Places
<1> HIDE DEF A, B, C, w, v, cl
<1> QED  BY <1>2, <1>7, <1>8, <1>9, <1>10 DEF At, cl
-----------------------------------------------------------------------------
(* The wires of all connections, and one message of them.                  *)

Wires(S) == [ Clients -> Seq(S) ]

\* us is ts after cl sent m, if it is connected.
AfterSending(ts, us, cl, m) ==
  \A M : \A d \in Clients :
    /\ In(us[d], M) <=> In(ts[d], M) \/ (d = cl /\ cl \in connected /\ m \in M)
    /\ Once(ts[d], M) /\ (m \in M => ~In(ts[d], M)) => Once(us[d], M)

LEMMA FrameSent ==
  ASSUME NEW S, NEW ts \in Wires(S), NEW cl \in Clients, NEW m \in S
  PROVE  /\ Sent(ts, cl, m) \in Wires(S)
         /\ AfterSending(ts, Sent(ts, cl, m), cl, m)
<1> DEFINE us == Sent(ts, cl, m)
<1>1. CASE cl \in connected
  <2>1. us = [ ts EXCEPT ![cl] = Append(ts[cl], m) ]  BY <1>1 DEF Sent
  <2>2. ts[cl] \in Seq(S) /\ Append(ts[cl], m) \in Seq(S)  BY Appending DEF Wires
  <2> HIDE DEF us
  <2>3. us \in Wires(S) /\ us[cl] = Append(ts[cl], m) /\ \A d \in Clients : d # cl => us[d] = ts[d]
    BY <2>1, <2>2 DEF Wires
  <2>4. \A M : /\ In(us[cl], M) <=> In(ts[cl], M) \/ m \in M
               /\ Once(ts[cl], M) /\ (m \in M => ~In(ts[cl], M)) => Once(us[cl], M)
    BY <2>2, <2>3, Appending
  <2> QED  BY <1>1, <2>3, <2>4 DEF us, AfterSending
<1>2. CASE cl \notin connected  BY <1>2 DEF Sent, AfterSending
<1> QED  BY <1>1, <1>2

LEMMA SendingFrame ==
  ASSUME NEW S, NEW ts \in Wires(S), NEW cl \in Clients, NEW m \in S
  PROVE  /\ Sent(ts, cl, m) \in Wires(S)
         /\ \A M : \A d \in Clients :
              /\ In(Sent(ts, cl, m)[d], M) <=> In(ts[d], M) \/ (d = cl /\ cl \in connected /\ m \in M)
              /\ Once(ts[d], M) /\ (m \in M => ~In(ts[d], M)) => Once(Sent(ts, cl, m)[d], M)
BY FrameSent DEF AfterSending

LEMMA SendingOnce ==
  ASSUME NEW S, NEW ts \in Wires(S), NEW cl \in Clients, NEW m \in S, NEW M, NEW d \in Clients,
         Once(ts[d], M), m \in M => ~In(ts[d], M)
  PROVE  Once(Sent(ts, cl, m)[d], M)
BY SendingFrame

\* The first message from cl, or to it, is taken; its wire is cut.
Took(ts, cl) == [ ts EXCEPT ![cl] = Tail(@) ]
Cut(ts, cl)  == [ ts EXCEPT ![cl] = << >> ]

LEMMA TakingFrame ==
  ASSUME NEW S, NEW ts \in Wires(S), NEW cl \in Clients, ts[cl] # << >>
  PROVE  /\ Took(ts, cl) \in Wires(S) /\ Head(ts[cl]) \in S
         /\ \A M : \A d \in Clients :
              /\ In(ts[d], M) <=> In(Took(ts, cl)[d], M) \/ (d = cl /\ Head(ts[cl]) \in M)
              /\ Once(ts[d], M) => Once(Took(ts, cl)[d], M)
         /\ \A M : Once(ts[cl], M) /\ Head(ts[cl]) \in M => ~In(Took(ts, cl)[cl], M)
<1> DEFINE us == Took(ts, cl)
<1>1. ts[cl] \in Seq(S) /\ Head(ts[cl]) \in S /\ Tail(ts[cl]) \in Seq(S)  BY Taking DEF Wires
<1>2. us \in Wires(S) /\ us[cl] = Tail(ts[cl]) /\ \A d \in Clients : d # cl => us[d] = ts[d]
  BY <1>1 DEF Took, Wires
<1> HIDE DEF us
<1>3. \A M : /\ In(ts[cl], M) <=> Head(ts[cl]) \in M \/ In(us[cl], M)
             /\ Once(ts[cl], M) => Once(us[cl], M) /\ (Head(ts[cl]) \in M => ~In(us[cl], M))
  BY <1>1, <1>2, Taking
<1> QED  BY <1>1, <1>2, <1>3 DEF us

LEMMA CuttingFrame ==
  ASSUME NEW S, NEW ts \in Wires(S), NEW cl \in Clients
  PROVE  /\ Cut(ts, cl) \in Wires(S)
         /\ \A M : \A d \in Clients :
              /\ In(Cut(ts, cl)[d], M) <=> d # cl /\ In(ts[d], M)
              /\ Once(ts[d], M) => Once(Cut(ts, cl)[d], M)
<1> DEFINE us == Cut(ts, cl)
<1>1. << >> \in Seq(S)  OBVIOUS
<1>2. us \in Wires(S) /\ us[cl] = << >> /\ \A d \in Clients : d # cl => us[d] = ts[d]  BY <1>1 DEF Cut, Wires
<1> HIDE DEF us
<1> QED  BY <1>2, Cutting DEF us

\* What messages are about.
LEMMA MessagesAre ==
  /\ \A c, d \in Calls, target \in Ids \cup { NoId }, live \in BOOLEAN :
       /\ Request(c, target, live) \in Requests
       /\ Request(c, target, live) \in Asking(d) <=> c = d
  /\ \A id \in Ids, d \in Calls : Release(id) \in Releases /\ Release(id) \notin Asking(d)
  /\ \A c, d \in Calls, success \in BOOLEAN, id \in Ids \cup { NoId } :
       /\ Response(c, success, id) \in Responses
       /\ Response(c, success, id) \in Answering(d) <=> c = d
  /\ \A m \in Requests \cup Releases :
       /\ m.type = "request" => m \in Requests /\ m.call \in Calls /\ m.target \in Ids \cup { NoId }
       /\ m.type = "release" => m \in Releases /\ m.target \in Ids
       /\ m.type = "request" \/ m.type = "release"
  /\ \A m \in Requests, d \in Calls : m \in Asking(d) <=> m.call = d
  /\ \A m \in Releases, d \in Calls : m \notin Asking(d)
  /\ \A m \in Responses : m.call \in Calls /\ m.pin \in Ids \cup { NoId }
  /\ \A m \in Responses, d \in Calls : m \in Answering(d) <=> m.call = d
BY DEF Request, Release, Response, Requests, Releases, Responses, Asking, Answering

-----------------------------------------------------------------------------
(* The state after a step.                                                 *)

LEMMA WholeAfter ==
  Whole' <=> \A c \in Calls : At(c, toServer'[ClientOf[c]], toClient'[ClientOf[c]], executing',
                                 status'[c], connected', silent')
BY DEF Whole, At, In, Once, Runs

LEMMA AddressedAfter == Addressed(toServer, toClient)' <=> Addressed(toServer', toClient')
BY DEF Addressed, In

LEMMA CountedAfter == Counted' <=> lastId' <= Cardinality(Done(toServer', executing', status'))
BY DEF Counted, Done, In, Runs

LEMMA DoneFinite ==
  ASSUME NEW ts, NEW ex, NEW st
  PROVE  /\ Done(ts, ex, st) \subseteq Calls
         /\ IsFiniteSet(Done(ts, ex, st)) /\ Cardinality(Done(ts, ex, st)) \in Nat
         /\ Cardinality(Done(ts, ex, st)) <= Cardinality(Calls) /\ Cardinality(Calls) \in Nat
BY CallsAssumption, FS_Subset, FS_CardinalityType DEF Done

\* No call that is done is taken up again.
LEMMA CountKeeps ==
  ASSUME CallsInv, UNCHANGED lastId,
         \A c \in Calls : c \in Done(toServer, executing, status) => c \in Done(toServer', executing', status')
  PROVE  Counted'
<1> DEFINE D == Done(toServer, executing, status)
<1> DEFINE E == Done(toServer', executing', status')
<1>1. IsFiniteSet(E) /\ Cardinality(E) \in Nat /\ Cardinality(D) \in Nat  BY DoneFinite
<1>2. D \subseteq E  BY DoneFinite
<1>3. lastId <= Cardinality(D) /\ lastId \in Nat  BY DEF CallsInv, Counted, TypeOK
<1> HIDE DEF D, E
<1>4. Cardinality(D) <= Cardinality(E)  BY <1>1, <1>2, FS_Subset
<1>5. lastId' <= Cardinality(E)  BY <1>1, <1>3, <1>4
<1> QED  BY <1>5, CountedAfter DEF E

LEMMA InvInit == Init => CallsInv
<1> SUFFICES ASSUME Init PROVE CallsInv  OBVIOUS
<1>1. TypeOK  BY CallsAssumption, FS_CardinalityType DEF Init, TypeOK
<1>2. Linked  BY DEF Init, Linked
<1>3. Named /\ Addressed(toServer, toClient)  BY Cutting DEF Init, Named, Addressed
<1>4. Whole  BY CallsAssumption, Cutting DEF Init, Whole, At, Runs
<1>5. Counted  BY DoneFinite DEF Init, Counted
<1> QED  BY <1>1, <1>2, <1>3, <1>4, <1>5 DEF CallsInv

\* What the invariant gives each call.
LEMMA CallFacts ==
  ASSUME CallsInv
  PROVE  /\ toServer \in [ Clients -> Seq(Requests \cup Releases) ]
         /\ toClient \in [ Clients -> Seq(Responses) ]
         /\ connected \subseteq open /\ connected \subseteq serving
         /\ \A c \in Calls :
              /\ ClientOf[c] \in Clients
              /\ At(c, toServer[ClientOf[c]], toClient[ClientOf[c]], executing, status[c], connected, silent)
              /\ Once(toServer[ClientOf[c]], Asking(c)) /\ Once(toClient[ClientOf[c]], Answering(c))
BY CallsAssumption DEF CallsInv, TypeOK, Whole, At, Linked

-----------------------------------------------------------------------------
(* One lemma for each operation.                                           *)

LEMMA TrackAskKeeps ==
  ASSUME CallsInv, NEW c \in Calls, NEW target \in Ids \cup { NoId }, NEW live \in BOOLEAN,
         TrackAsk(c, Request(c, target, live))
  PROVE  CallsInv'
<1> DEFINE m == Request(c, target, live)
<1> DEFINE cl == ClientOf[c]
<1>1. /\ cl \in Clients /\ status[c] = "idle"
      /\ m \in Requests \cup Releases /\ \A d \in Calls : m \in Asking(d) <=> c = d
      /\ UNCHANGED << connectionVars, toClient, executing, pinVars, proxyVars, silent, missed >>
  BY CallFacts, MessagesAre DEF TrackAsk
<1>2. CASE cl \in open
  <2>1. status' = [ status EXCEPT ![c] = "pending" ] /\ toServer' = Sent(toServer, cl, m)
    BY <1>2 DEF TrackAsk
  <2> HIDE DEF m, cl
  <2>2. /\ toServer' \in [ Clients -> Seq(Requests \cup Releases) ]
        /\ \A M : \A e \in Clients :
             /\ In(toServer'[e], M) <=> In(toServer[e], M) \/ (e = cl /\ cl \in connected /\ m \in M)
             /\ Once(toServer[e], M) /\ (m \in M => ~In(toServer[e], M)) => Once(toServer'[e], M)
    <3> DEFINE S == Requests \cup Releases
    <3>1. toServer \in Wires(S) /\ m \in S /\ cl \in Clients  BY <1>1, CallFacts DEF Wires
    <3> HIDE DEF S
    <3>2. /\ Sent(toServer, cl, m) \in Wires(S)
          /\ \A M : \A e \in Clients :
               /\ In(Sent(toServer, cl, m)[e], M) <=> In(toServer[e], M) \/ (e = cl /\ cl \in connected /\ m \in M)
               /\ Once(toServer[e], M) /\ (m \in M => ~In(toServer[e], M)) => Once(Sent(toServer, cl, m)[e], M)
      BY <3>1, FrameSent DEF AfterSending
    <3> QED  BY <2>1, <3>2 DEF S, Wires
  <2>3. /\ \A e \in Clients, d \in Calls : d # c => (In(toServer'[e], Asking(d)) <=> In(toServer[e], Asking(d)))
        /\ \A e \in Clients, d \in Calls : d # c => (Once(toServer[e], Asking(d)) => Once(toServer'[e], Asking(d)))
        /\ \A d \in Calls : d # c => status'[d] = status[d]
        /\ status'[c] = "pending"
    BY <1>1, <2>1, <2>2 DEF CallsInv, TypeOK
  <2>4. TypeOK' /\ Linked' /\ Named'
    BY <1>1, <2>1, <2>2 DEF CallsInv, TypeOK, Linked, Named, connectionVars, pinVars, proxyVars
  <2>5. Addressed(toServer, toClient)'  BY <1>1, <2>2, <2>3, AddressedAfter DEF CallsInv, Addressed, cl
  <2>6. Whole'
    <3>1. At(c, toServer'[cl], toClient'[cl], executing', status'[c], connected', silent')
      BY <1>1, <2>2, <2>3, CallFacts DEF At, cl, connectionVars
    <3>2. ASSUME NEW d \in Calls, d # c
          PROVE  At(d, toServer'[ClientOf[d]], toClient'[ClientOf[d]], executing', status'[d], connected', silent')
      BY <1>1, <2>3, <3>2, CallFacts DEF At, connectionVars
    <3> QED  BY <3>1, <3>2, WholeAfter DEF cl
  <2>7. Counted'  BY <1>1, <2>3, CallFacts, CountKeeps DEF Done, pinVars
  <2> QED  BY <2>4, <2>5, <2>6, <2>7 DEF CallsInv
<1>3. CASE cl \notin open
  <2>1. status' = [ status EXCEPT ![c] = "rejected" ] /\ UNCHANGED toServer /\ cl \notin connected
    BY <1>3, CallFacts DEF TrackAsk
  <2>2. TypeOK' /\ Linked' /\ Named'
    BY <1>1, <2>1 DEF CallsInv, TypeOK, Linked, Named, connectionVars, pinVars, proxyVars
  <2>3. Addressed(toServer, toClient)'  BY <1>1, <2>1, AddressedAfter DEF CallsInv
  <2>4. Whole'
    <3>1. \A d \in Calls : status'[d] = status[d] \/ (d = c /\ status'[d] # "idle")
      BY <2>1 DEF CallsInv, TypeOK
    <3>2. ASSUME NEW d \in Calls
          PROVE  At(d, toServer'[ClientOf[d]], toClient'[ClientOf[d]], executing', status'[d], connected', silent')
      BY <1>1, <2>1, <3>1, CallFacts DEF At, connectionVars
    <3> QED  BY <3>2, WholeAfter
  <2>5. Counted'  BY <1>1, <2>1, CountKeeps DEF Done, CallsInv, TypeOK, pinVars
  <2> QED  BY <2>2, <2>3, <2>4, <2>5 DEF CallsInv
<1> QED  BY <1>2, <1>3

LEMMA SendFailsKeeps ==
  ASSUME CallsInv, NEW c \in Calls, SendFails(c)
  PROVE  CallsInv'
<1>1. /\ ClientOf[c] \notin connected /\ status' = [ status EXCEPT ![c] = "rejected" ]
      /\ UNCHANGED << connectionVars, toServer, toClient, executing, pinVars, proxyVars, silent, missed >>
  BY DEF SendFails
<1>2. TypeOK' /\ Linked' /\ Named'
  BY <1>1 DEF CallsInv, TypeOK, Linked, Named, connectionVars, pinVars, proxyVars
<1>3. Addressed(toServer, toClient)'  BY <1>1, AddressedAfter DEF CallsInv
<1>4. \A d \in Calls : status'[d] = status[d] \/ (d = c /\ status'[d] # "idle")  BY <1>1 DEF CallsInv, TypeOK
<1>5. Whole'
  <2>1. ASSUME NEW d \in Calls
        PROVE  At(d, toServer'[ClientOf[d]], toClient'[ClientOf[d]], executing', status'[d], connected', silent')
    BY <1>1, <1>4, CallFacts DEF At, connectionVars
  <2> QED  BY <2>1, WholeAfter
<1>6. Counted'  BY <1>1, <1>4, CountKeeps DEF Done, pinVars
<1> QED  BY <1>2, <1>3, <1>5, <1>6 DEF CallsInv

LEMMA FreeKeeps ==
  ASSUME CallsInv, NEW p \in Calls, Free(p)
  PROVE  CallsInv'
<1> DEFINE m == Release(pinnedAs[p])
<1> DEFINE cl == ClientOf[p]
<1>1. /\ cl \in Clients
      /\ m \in Requests \cup Releases /\ \A d \in Calls : m \notin Asking(d)
      /\ proxy' = [ proxy EXCEPT ![p] = "freed" ] /\ proxy[p] = "live"
      /\ UNCHANGED << status, connectionVars, toClient, executing, pinVars, pinnedAs, silent, missed >>
  BY CallFacts, MessagesAre DEF Free, CallsInv, Named
<1>2. toServer' = toServer \/ toServer' = Sent(toServer, cl, m)  BY DEF Free
<1> HIDE DEF m, cl
<1>3. /\ toServer' \in [ Clients -> Seq(Requests \cup Releases) ]
      /\ \A e \in Clients, d \in Calls :
           /\ In(toServer'[e], Asking(d)) <=> In(toServer[e], Asking(d))
           /\ Once(toServer[e], Asking(d)) => Once(toServer'[e], Asking(d))
  <2>1. toServer \in [ Clients -> Seq(Requests \cup Releases) ]  BY CallFacts
  <2>2. CASE toServer' = toServer  BY <2>1, <2>2
  <2>3. CASE toServer' = Sent(toServer, cl, m)
    <3> DEFINE S == Requests \cup Releases
    <3>1. toServer \in Wires(S) /\ m \in S /\ cl \in Clients  BY <1>1, <2>1 DEF Wires
    <3> HIDE DEF S
    <3>2. /\ Sent(toServer, cl, m) \in Wires(S)
          /\ \A M : \A e \in Clients :
               /\ In(Sent(toServer, cl, m)[e], M) <=> In(toServer[e], M) \/ (e = cl /\ cl \in connected /\ m \in M)
               /\ Once(toServer[e], M) /\ (m \in M => ~In(toServer[e], M)) => Once(Sent(toServer, cl, m)[e], M)
      BY <3>1, FrameSent DEF AfterSending
    <3> QED  BY <1>1, <2>3, <3>2 DEF S, Wires
  <2> QED  BY <1>2, <2>2, <2>3
<1>4. TypeOK' /\ Linked' /\ Named'  BY <1>1, <1>3 DEF CallsInv, TypeOK, Linked, Named, connectionVars, pinVars
<1>5. Addressed(toServer, toClient)'  BY <1>1, <1>3, AddressedAfter DEF CallsInv, Addressed
<1>6. Whole'
  <2>1. ASSUME NEW d \in Calls
        PROVE  At(d, toServer'[ClientOf[d]], toClient'[ClientOf[d]], executing', status'[d], connected', silent')
    BY <1>1, <1>3, CallFacts DEF At, connectionVars
  <2> QED  BY <2>1, WholeAfter
<1>7. Counted'  BY <1>1, <1>3, CallFacts, CountKeeps DEF Done, pinVars
<1> QED  BY <1>4, <1>5, <1>6, <1>7 DEF CallsInv

LEMMA HandleResponseKeeps ==
  ASSUME CallsInv, NEW cl \in Clients, HandleResponse(cl)
  PROVE  CallsInv'
<1> DEFINE m == Head(toClient[cl])
<1> DEFINE k == m.call
<1>1. /\ toClient[cl] # << >> /\ toClient' = Took(toClient, cl)
      /\ UNCHANGED << connectionVars, toServer, executing, pinVars, silent, missed >>
  BY DEF HandleResponse, Took
<1>2. /\ Took(toClient, cl) \in [ Clients -> Seq(Responses) ] /\ m \in Responses
      /\ \A M : \A d \in Clients :
           /\ In(toClient[d], M) <=> In(Took(toClient, cl)[d], M) \/ (d = cl /\ m \in M)
           /\ Once(toClient[d], M) => Once(Took(toClient, cl)[d], M)
      /\ \A M : Once(toClient[cl], M) /\ m \in M => ~In(Took(toClient, cl)[cl], M)
  <2> DEFINE S == Responses
  <2>1. toClient \in Wires(S) /\ toClient[cl] # << >>  BY <1>1, CallFacts DEF Wires
  <2> HIDE DEF S
  <2>2. /\ Took(toClient, cl) \in Wires(S) /\ m \in S
        /\ \A M : \A d \in Clients :
             /\ In(toClient[d], M) <=> In(Took(toClient, cl)[d], M) \/ (d = cl /\ m \in M)
             /\ Once(toClient[d], M) => Once(Took(toClient, cl)[d], M)
        /\ \A M : Once(toClient[cl], M) /\ m \in M => ~In(Took(toClient, cl)[cl], M)
    BY <2>1, TakingFrame
  <2> QED  BY <2>2 DEF S, Wires
<1>3. \/ status[k] # "pending" /\ UNCHANGED << status, proxyVars >>
      \/ /\ status[k] = "pending"
         /\ status' = [ status EXCEPT ![k] = IF m.success THEN "resolved" ELSE "rejected" ]
         /\ \/ UNCHANGED proxyVars
            \/ /\ m.pin # NoId /\ proxy' = [ proxy EXCEPT ![k] = "live" ]
               /\ pinnedAs' = [ pinnedAs EXCEPT ![k] = m.pin ]
  BY DEF HandleResponse
<1>4. k \in Calls /\ m.pin \in Ids \cup { NoId } /\ \A d \in Calls : m \in Answering(d) <=> k = d
  BY <1>2, MessagesAre
<1> HIDE DEF m, k
<1>5. ClientOf[k] = cl  BY <1>2, <1>4 DEF CallsInv, Addressed
<1>6. /\ In(toClient[cl], Answering(k)) /\ ~In(toClient'[cl], Answering(k))
      /\ \A e \in Clients, d \in Calls :
           /\ In(toClient'[e], Answering(d)) => In(toClient[e], Answering(d))
           /\ d # k => (In(toClient[e], Answering(d)) => In(toClient'[e], Answering(d)))
           /\ Once(toClient[e], Answering(d)) => Once(toClient'[e], Answering(d))
  BY <1>1, <1>2, <1>4, <1>5, CallFacts
<1>7. /\ \A d \in Calls : d # k => status'[d] = status[d]
      /\ \/ status[k] # "pending" /\ status'[k] = status[k]
         \/ status'[k] \in { "resolved", "rejected" }
      /\ status' \in [ Calls -> { "idle", "pending", "resolved", "rejected" } ]
  BY <1>3, <1>4 DEF CallsInv, TypeOK
<1>8. TypeOK' /\ Linked' /\ Named'
  <2>1. /\ proxy' \in [ Calls -> { "none", "live", "freed" } ]
        /\ pinnedAs' \in [ Calls -> Ids \cup { NoId } ]
        /\ \A p \in Calls : proxy'[p] # "none" => pinnedAs'[p] \in Ids
    BY <1>3, <1>4 DEF CallsInv, TypeOK, Named, proxyVars
  <2> QED  BY <1>1, <1>2, <1>7, <2>1 DEF CallsInv, TypeOK, Linked, Named, connectionVars, pinVars
<1>9. Addressed(toServer, toClient)'  BY <1>1, <1>6, AddressedAfter DEF CallsInv, Addressed
<1>10. Whole'
  <2>1. At(k, toServer'[cl], toClient'[cl], executing', status'[k], connected', silent')
    BY <1>1, <1>4, <1>5, <1>6, <1>7, CallFacts DEF At, connectionVars
  <2>2. ASSUME NEW d \in Calls, d # k
        PROVE  At(d, toServer'[ClientOf[d]], toClient'[ClientOf[d]], executing', status'[d], connected', silent')
    <3>1. At(d, toServer[ClientOf[d]], toClient[ClientOf[d]], executing, status[d], connected, silent)
          /\ ClientOf[d] \in Clients
      BY CallFacts
    <3>2. /\ toServer' = toServer /\ executing' = executing /\ connected' = connected
          /\ silent' = silent /\ status'[d] = status[d]
      BY <1>1, <1>7, <2>2 DEF connectionVars
    <3>3. /\ In(toClient'[ClientOf[d]], Answering(d)) <=> In(toClient[ClientOf[d]], Answering(d))
          /\ Once(toClient[ClientOf[d]], Answering(d)) => Once(toClient'[ClientOf[d]], Answering(d))
      BY <1>6, <2>2, <3>1
    <3> QED  BY <3>1, <3>2, <3>3 DEF At
  <2> QED  BY <1>5, <2>1, <2>2, WholeAfter
<1>11. Counted'
  <2>1. \A d \in Calls : d \in Done(toServer, executing, status) => d \in Done(toServer', executing', status')
    BY <1>1, <1>7 DEF Done
  <2>2. UNCHANGED lastId  BY <1>1 DEF pinVars
  <2> QED  BY <2>1, <2>2, CountKeeps
<1> QED  BY <1>8, <1>9, <1>10, <1>11 DEF CallsInv

\* A message is taken from a server's wire.
LEMMA ReceiveFacts ==
  ASSUME CallsInv, NEW cl \in Clients, ReceiveAtServer(cl), NEW m, m = Head(toServer[cl])
  PROVE  /\ m \in Requests \cup Releases
         /\ toServer' \in [ Clients -> Seq(Requests \cup Releases) ]
         /\ \A e \in Clients, d \in Calls :
              /\ In(toServer[e], Asking(d)) <=> In(toServer'[e], Asking(d)) \/ (e = cl /\ m \in Asking(d))
              /\ Once(toServer[e], Asking(d)) => Once(toServer'[e], Asking(d))
         /\ \A d \in Calls : Once(toServer[cl], Asking(d)) /\ m \in Asking(d) => ~In(toServer'[cl], Asking(d))
         /\ UNCHANGED << status, connectionVars, proxyVars, silent >>
<1> DEFINE S == Requests \cup Releases
<1>1. /\ toServer \in Wires(S) /\ toServer[cl] # << >>
      /\ toServer' = Took(toServer, cl)
      /\ UNCHANGED << status, connectionVars, proxyVars, silent >>
  BY CallFacts DEF ReceiveAtServer, Took, Wires
<1> HIDE DEF S
<1>2. /\ Took(toServer, cl) \in Wires(S) /\ Head(toServer[cl]) \in S
      /\ \A M : \A d \in Clients :
           /\ In(toServer[d], M) <=> In(Took(toServer, cl)[d], M) \/ (d = cl /\ Head(toServer[cl]) \in M)
           /\ Once(toServer[d], M) => Once(Took(toServer, cl)[d], M)
      /\ \A M : Once(toServer[cl], M) /\ Head(toServer[cl]) \in M => ~In(Took(toServer, cl)[cl], M)
  BY <1>1, TakingFrame
<1> QED  BY <1>1, <1>2 DEF S, Wires

LEMMA ReceiveReleaseKeeps ==
  ASSUME CallsInv, NEW cl \in Clients, ReceiveAtServer(cl), NEW m, m = Head(toServer[cl]),
         m.type = "release", HandleRelease(m)
  PROVE  CallsInv'
<1>1. /\ m \in Requests \cup Releases
      /\ toServer' \in [ Clients -> Seq(Requests \cup Releases) ]
      /\ \A e \in Clients, d \in Calls :
           /\ In(toServer[e], Asking(d)) <=> In(toServer'[e], Asking(d)) \/ (e = cl /\ m \in Asking(d))
           /\ Once(toServer[e], Asking(d)) => Once(toServer'[e], Asking(d))
      /\ UNCHANGED << status, connectionVars, proxyVars, silent >>
  BY ReceiveFacts
<1>2. m.target \in Ids /\ \A d \in Calls : m \notin Asking(d)  BY <1>1, MessagesAre
<1>3. /\ UNCHANGED << executing, toClient, missed, lastId >>
      /\ refCount' = [ refCount EXCEPT ![m.target] = IF @ = 0 THEN 0 ELSE @ - 1 ]
      /\ current' = NoId \/ current' = current
  BY DEF HandleRelease, ReleaseResource
<1>4. TypeOK' /\ Linked' /\ Named'
  <2>1. refCount' \in [ Ids -> Nat ]  BY <1>2, <1>3 DEF CallsInv, TypeOK
  <2> QED  BY <1>1, <1>3, <2>1 DEF CallsInv, TypeOK, Linked, Named, connectionVars, proxyVars
<1>5. Addressed(toServer, toClient)'  BY <1>1, <1>3, AddressedAfter DEF CallsInv, Addressed
<1>6. Whole'
  <2>1. ASSUME NEW d \in Calls
        PROVE  At(d, toServer'[ClientOf[d]], toClient'[ClientOf[d]], executing', status'[d], connected', silent')
    BY <1>1, <1>2, <1>3, CallFacts DEF At, connectionVars
  <2> QED  BY <2>1, WholeAfter
<1>7. Counted'  BY <1>1, <1>2, <1>3, CallFacts, CountKeeps DEF Done
<1> QED  BY <1>4, <1>5, <1>6, <1>7 DEF CallsInv

\* A request starts to run.
LEMMA ReceiveStartsKeeps ==
  ASSUME CallsInv, NEW cl \in Clients, ReceiveAtServer(cl), NEW m, m = Head(toServer[cl]),
         m.type = "request", executing' = executing \cup { m },
         UNCHANGED << toClient, pinVars, missed >>
  PROVE  CallsInv'
<1> DEFINE k == m.call
<1>1. /\ m \in Requests \cup Releases
      /\ toServer' \in [ Clients -> Seq(Requests \cup Releases) ]
      /\ \A e \in Clients, d \in Calls :
           /\ In(toServer[e], Asking(d)) <=> In(toServer'[e], Asking(d)) \/ (e = cl /\ m \in Asking(d))
           /\ Once(toServer[e], Asking(d)) => Once(toServer'[e], Asking(d))
      /\ \A d \in Calls : Once(toServer[cl], Asking(d)) /\ m \in Asking(d) => ~In(toServer'[cl], Asking(d))
      /\ UNCHANGED << status, connectionVars, proxyVars, silent >>
  BY ReceiveFacts
<1>2. k \in Calls /\ m \in Requests /\ \A d \in Calls : m \in Asking(d) <=> k = d  BY <1>1, MessagesAre
<1>3. ClientOf[k] = cl  BY <1>1, <1>2 DEF CallsInv, Addressed
<1>4. /\ In(toServer[cl], Asking(k)) /\ ~In(toServer'[cl], Asking(k))
      /\ ~Runs(executing, k) /\ Runs(executing', k)
      /\ \A d \in Calls : d # k => (Runs(executing', d) <=> Runs(executing, d))
  BY <1>1, <1>2, <1>3, CallFacts DEF At, Runs
<1>5. TypeOK' /\ Linked' /\ Named'
  BY <1>1, <1>2 DEF CallsInv, TypeOK, Linked, Named, connectionVars, pinVars, proxyVars
<1>6. Addressed(toServer, toClient)'  BY <1>1, <1>2, AddressedAfter DEF CallsInv, Addressed
<1>7. Whole'
  <2>1. At(k, toServer'[cl], toClient'[cl], executing', status'[k], connected', silent')
    <3>1. \A n \in executing' : n.call = k => n = m  BY <1>4 DEF Runs
    <3> HIDE DEF k
    <3>2. At(k, toServer[cl], toClient[cl], executing, status[k], connected, silent)  BY <1>2, <1>3, CallFacts
    <3>3. Once(toServer'[cl], Asking(k)) /\ UNCHANGED << toClient, status, connected, silent >>
      BY <1>1, <1>2, <1>3, CallFacts DEF connectionVars
    <3> QED  BY <1>4, <3>1, <3>2, <3>3 DEF At
  <2>2. ASSUME NEW d \in Calls, d # k
        PROVE  At(d, toServer'[ClientOf[d]], toClient'[ClientOf[d]], executing', status'[d], connected', silent')
    <3>1. \A n \in executing' : n.call = d => n \in executing  BY <2>2
    <3> HIDE DEF k
    <3> DEFINE e == ClientOf[d]
    <3>2. /\ e \in Clients
          /\ At(d, toServer[e], toClient[e], executing, status[d], connected, silent)
          /\ Once(toServer[e], Asking(d))
      BY CallFacts
    <3> HIDE DEF e
    <3>3. /\ In(toServer'[e], Asking(d)) <=> In(toServer[e], Asking(d))
          /\ Once(toServer'[e], Asking(d)) /\ UNCHANGED << toClient, status, connected, silent >>
      BY <1>1, <1>2, <2>2, <3>2 DEF connectionVars
    <3> QED  BY <1>4, <2>2, <3>1, <3>2, <3>3 DEF At, e
  <2> QED  BY <1>3, <2>1, <2>2, WholeAfter
<1>8. Counted'
  <2>1. \A d \in Calls : d \in Done(toServer, executing, status) => d \in Done(toServer', executing', status')
    <3> SUFFICES ASSUME NEW d \in Calls, d \in Done(toServer, executing, status)
                 PROVE  d \in Done(toServer', executing', status')
      OBVIOUS
    <3> HIDE DEF k
    <3>1. d # k  BY <1>3, <1>4 DEF Done
    <3> QED  BY <1>1, <1>2, <1>4, <3>1, CallFacts DEF Done
  <2>2. UNCHANGED lastId  BY DEF pinVars
  <2> QED  BY <2>1, <2>2, CountKeeps
<1> QED  BY <1>5, <1>6, <1>7, <1>8 DEF CallsInv

\* An answer to call k is sent over cl, or lost with it.
LEMMA AnswerFacts ==
  ASSUME CallsInv, NEW k \in Calls, NEW success \in BOOLEAN, NEW id \in Ids \cup { NoId },
         NEW cl, cl = ClientOf[k],
         \/ toClient' = Sent(toClient, cl, Response(k, success, id))
         \/ UNCHANGED toClient /\ cl \notin connected
  PROVE  /\ toClient' \in [ Clients -> Seq(Responses) ]
         /\ In(toClient'[cl], Answering(k)) <=> In(toClient[cl], Answering(k)) \/ cl \in connected
         /\ ~In(toClient[cl], Answering(k)) => Once(toClient'[cl], Answering(k))
         /\ \A e \in Clients : e # cl => (In(toClient'[e], Answering(k)) <=> In(toClient[e], Answering(k)))
         /\ \A e \in Clients, d \in Calls : d # k =>
              /\ In(toClient'[e], Answering(d)) <=> In(toClient[e], Answering(d))
              /\ Once(toClient[e], Answering(d)) => Once(toClient'[e], Answering(d))
<1> DEFINE m == Response(k, success, id)
<1> DEFINE S == Responses
<1>1. toClient \in Wires(S) /\ cl \in Clients /\ m \in S  BY CallFacts, MessagesAre DEF Wires
<1>2. \A d \in Calls : m \in Answering(d) <=> k = d  BY MessagesAre
<1>3. Once(toClient[cl], Answering(k))  BY CallFacts
<1> HIDE DEF m, S
<1>4. CASE toClient' = Sent(toClient, cl, m)
  <2>1. Sent(toClient, cl, m) \in Wires(S)  BY <1>1, SendingFrame
  <2>2. ASSUME NEW e \in Clients, NEW M
        PROVE  In(Sent(toClient, cl, m)[e], M) <=> In(toClient[e], M) \/ (e = cl /\ cl \in connected /\ m \in M)
    BY <1>1, SendingFrame
  <2>3. ASSUME NEW e \in Clients, NEW M, Once(toClient[e], M), m \in M => ~In(toClient[e], M)
        PROVE  Once(Sent(toClient, cl, m)[e], M)
    BY <1>1, <2>3, SendingOnce
  <2> QED  BY <1>1, <1>2, <1>3, <1>4, <2>1, <2>2, <2>3 DEF S, Wires
<1>5. CASE UNCHANGED toClient /\ cl \notin connected  BY <1>1, <1>3, <1>5 DEF S, Wires
<1> QED  BY <1>4, <1>5 DEF m

\* A call of an object that is gone is answered with an error at once.
LEMMA ReceiveMissesKeeps ==
  ASSUME CallsInv, NEW cl \in Clients, ReceiveAtServer(cl), NEW m, m = Head(toServer[cl]),
         m.type = "request", toClient' = Sent(toClient, cl, Response(m.call, FALSE, NoId)),
         missed' = missed \cup { c \in { m.call } : m.live },
         UNCHANGED << executing, pinVars >>
  PROVE  CallsInv'
<1> DEFINE k == m.call
<1>1. /\ m \in Requests \cup Releases
      /\ toServer' \in [ Clients -> Seq(Requests \cup Releases) ]
      /\ \A e \in Clients, d \in Calls :
           /\ In(toServer[e], Asking(d)) <=> In(toServer'[e], Asking(d)) \/ (e = cl /\ m \in Asking(d))
           /\ Once(toServer[e], Asking(d)) => Once(toServer'[e], Asking(d))
      /\ \A d \in Calls : Once(toServer[cl], Asking(d)) /\ m \in Asking(d) => ~In(toServer'[cl], Asking(d))
      /\ UNCHANGED << status, connectionVars, proxyVars, silent >>
  BY ReceiveFacts
<1>2. k \in Calls /\ m \in Requests /\ \A d \in Calls : m \in Asking(d) <=> k = d  BY <1>1, MessagesAre
<1>3. ClientOf[k] = cl  BY <1>1, <1>2 DEF CallsInv, Addressed
<1>4. missed' \subseteq Calls  BY <1>2 DEF CallsInv, TypeOK
<1>5. PICK success \in BOOLEAN, id \in Ids \cup { NoId } : toClient' = Sent(toClient, cl, Response(k, success, id))
  OBVIOUS
<1> HIDE DEF k
<1>6. /\ toClient' \in [ Clients -> Seq(Responses) ]
      /\ In(toClient'[cl], Answering(k)) <=> In(toClient[cl], Answering(k)) \/ cl \in connected
      /\ ~In(toClient[cl], Answering(k)) => Once(toClient'[cl], Answering(k))
      /\ \A e \in Clients : e # cl => (In(toClient'[e], Answering(k)) <=> In(toClient[e], Answering(k)))
      /\ \A e \in Clients, d \in Calls : d # k =>
           /\ In(toClient'[e], Answering(d)) <=> In(toClient[e], Answering(d))
           /\ Once(toClient[e], Answering(d)) => Once(toClient'[e], Answering(d))
  <2> DEFINE e == ClientOf[k]
  <2>1. \/ toClient' = Sent(toClient, e, Response(k, success, id))
        \/ UNCHANGED toClient /\ e \notin connected
    BY <1>3, <1>5
  <2>2. /\ toClient' \in [ Clients -> Seq(Responses) ]
        /\ In(toClient'[e], Answering(k)) <=> In(toClient[e], Answering(k)) \/ e \in connected
        /\ ~In(toClient[e], Answering(k)) => Once(toClient'[e], Answering(k))
        /\ \A f \in Clients : f # e => (In(toClient'[f], Answering(k)) <=> In(toClient[f], Answering(k)))
        /\ \A f \in Clients, d \in Calls : d # k =>
             /\ In(toClient'[f], Answering(d)) <=> In(toClient[f], Answering(d))
             /\ Once(toClient[f], Answering(d)) => Once(toClient'[f], Answering(d))
    BY <1>2, <2>1, AnswerFacts
  <2> QED  BY <1>3, <2>2
<1>7. TypeOK' /\ Linked' /\ Named'
  BY <1>1, <1>4, <1>6 DEF CallsInv, TypeOK, Linked, Named, connectionVars, pinVars, proxyVars
<1>8. Addressed(toServer, toClient)'  BY <1>1, <1>3, <1>6, AddressedAfter DEF CallsInv, Addressed
<1>9. Whole'
  <2>1. At(k, toServer'[cl], toClient'[cl], executing', status'[k], connected', silent')
    BY <1>1, <1>2, <1>3, CallFacts, <1>6 DEF connectionVars, At
  <2>2. ASSUME NEW d \in Calls, d # k
        PROVE  At(d, toServer'[ClientOf[d]], toClient'[ClientOf[d]], executing', status'[d], connected', silent')
    <3> DEFINE e == ClientOf[d]
    <3>1. /\ e \in Clients
          /\ At(d, toServer[e], toClient[e], executing, status[d], connected, silent)
          /\ Once(toServer[e], Asking(d)) /\ Once(toClient[e], Answering(d))
      BY CallFacts
    <3> HIDE DEF e
    <3>2. /\ In(toServer'[e], Asking(d)) <=> In(toServer[e], Asking(d))
          /\ Once(toServer'[e], Asking(d))
          /\ In(toClient'[e], Answering(d)) <=> In(toClient[e], Answering(d))
          /\ Once(toClient'[e], Answering(d))
          /\ UNCHANGED << executing, status, connected, silent >>
      BY <1>1, <1>2, <1>6, <2>2, <3>1 DEF connectionVars
    <3> QED  BY <3>1, <3>2 DEF At, e
  <2> QED  BY <1>3, <2>1, <2>2, WholeAfter
<1>10. Counted'  BY <1>1, <1>2, CallFacts, CountKeeps DEF Done, pinVars
<1> QED  BY <1>7, <1>8, <1>9, <1>10 DEF CallsInv

LEMMA ReceiveAtServerKeeps ==
  ASSUME CallsInv, NEW cl \in Clients, ReceiveAtServer(cl)
  PROVE  CallsInv'
<1> DEFINE m == Head(toServer[cl])
<1>1. \/ m.type = "request" /\ (ExecuteAsk(m) \/ HandlePinCall(cl, m))
      \/ m.type = "release" /\ HandleRelease(m)
  BY DEF ReceiveAtServer
<1>2. \/ m.type = "release" /\ HandleRelease(m)
      \/ /\ m.type = "request" /\ executing' = executing \cup { m }
         /\ UNCHANGED << toClient, pinVars, missed >>
      \/ /\ m.type = "request" /\ toClient' = Sent(toClient, cl, Response(m.call, FALSE, NoId))
         /\ missed' = missed \cup { c \in { m.call } : m.live }
         /\ UNCHANGED << executing, pinVars >>
  BY <1>1 DEF ExecuteAsk, HandlePinCall
<1>3. CASE m.type = "release" /\ HandleRelease(m)  BY <1>3, ReceiveReleaseKeeps
<1>4. CASE /\ m.type = "request" /\ executing' = executing \cup { m }
           /\ UNCHANGED << toClient, pinVars, missed >>
  BY <1>4, ReceiveStartsKeeps
<1>5. CASE /\ m.type = "request" /\ toClient' = Sent(toClient, cl, Response(m.call, FALSE, NoId))
           /\ missed' = missed \cup { c \in { m.call } : m.live }
           /\ UNCHANGED << executing, pinVars >>
  BY <1>5, ReceiveMissesKeeps
<1> QED  BY <1>2, <1>3, <1>4, <1>5

\* A procedure that ends makes its call one that is done.
LEMMA OneMoreDone ==
  ASSUME CallsInv, NEW m \in executing, ProcedureEnds(m)
  PROVE  /\ Cardinality(Done(toServer', executing', status')) \in Nat
         /\ lastId + 1 <= Cardinality(Done(toServer', executing', status'))
         /\ lastId + 1 <= Cardinality(Calls)
<1> DEFINE k == m.call
<1> DEFINE D == Done(toServer, executing, status)
<1> DEFINE E == Done(toServer', executing', status')
<1>1. /\ k \in Calls /\ Runs(executing, k)
      /\ executing' = executing \ { m } /\ UNCHANGED << toServer, status >>
  BY DEF ProcedureEnds, CallsInv, TypeOK, Requests, Runs
<1>2. ~Runs(executing', k) /\ \A d \in Calls : Runs(executing', d) => Runs(executing, d)
  BY <1>1, CallFacts DEF At, Runs
<1>3. /\ status[k] # "idle" /\ ~In(toServer[ClientOf[k]], Asking(k))  BY <1>1, CallFacts DEF At
<1> HIDE DEF k
<1>4. k \in E /\ k \notin D /\ D \subseteq E  BY <1>1, <1>2, <1>3 DEF Done
<1>5. /\ IsFiniteSet(D) /\ Cardinality(D) \in Nat /\ lastId <= Cardinality(D) /\ lastId \in Nat
      /\ IsFiniteSet(E) /\ Cardinality(E) \in Nat
      /\ Cardinality(E) <= Cardinality(Calls) /\ Cardinality(Calls) \in Nat
  BY DoneFinite DEF CallsInv, Counted, TypeOK
<1> HIDE DEF D, E
<1>6. Cardinality(D \cup { k }) = Cardinality(D) + 1  BY <1>4, <1>5, FS_AddElement
<1>7. D \cup { k } \subseteq E  BY <1>4
<1>8. Cardinality(D \cup { k }) <= Cardinality(E)  BY <1>5, <1>7, FS_Subset
<1> QED  BY <1>5, <1>6, <1>8 DEF E

\* A procedure ends with an answer.
LEMMA EndsAnsweringKeeps ==
  ASSUME CallsInv, NEW m \in executing, ProcedureEnds(m), UNCHANGED silent,
         NEW success \in BOOLEAN, NEW id \in Ids \cup { NoId },
         Respond(m.call, Response(m.call, success, id)),
         current' \in Ids \cup { NoId }, refCount' \in [ Ids -> Nat ],
         lastId' \in { lastId, lastId + 1 }
  PROVE  CallsInv'
<1> DEFINE k == m.call
<1> DEFINE cl == ClientOf[k]
<1>1. /\ k \in Calls /\ cl \in Clients /\ m \in Requests
      /\ executing' = executing \ { m }
      /\ UNCHANGED << status, connectionVars, toServer, proxyVars, missed, silent >>
  BY CallFacts DEF ProcedureEnds, CallsInv, TypeOK, Requests
<1>2. \/ toClient' = Sent(toClient, cl, Response(k, success, id))
      \/ UNCHANGED toClient /\ cl \notin connected
  BY <1>1, CallFacts DEF Respond
<1>3. At(k, toServer[cl], toClient[cl], executing, status[k], connected, silent)  BY <1>1, CallFacts
<1>4. Runs(executing, k)  BY DEF Runs
<1>5. ~Runs(executing', k)  BY <1>1, <1>3 DEF At, Runs
<1> HIDE DEF k
<1>6. /\ toClient' \in [ Clients -> Seq(Responses) ]
      /\ In(toClient'[cl], Answering(k)) <=> In(toClient[cl], Answering(k)) \/ cl \in connected
      /\ ~In(toClient[cl], Answering(k)) => Once(toClient'[cl], Answering(k))
      /\ \A e \in Clients : e # cl => (In(toClient'[e], Answering(k)) <=> In(toClient[e], Answering(k)))
      /\ \A e \in Clients, d \in Calls : d # k =>
           /\ In(toClient'[e], Answering(d)) <=> In(toClient[e], Answering(d))
           /\ Once(toClient[e], Answering(d)) => Once(toClient'[e], Answering(d))
  BY <1>1, <1>2, AnswerFacts
<1>7. /\ Cardinality(Done(toServer', executing', status')) \in Nat
      /\ lastId + 1 <= Cardinality(Done(toServer', executing', status'))
      /\ lastId + 1 <= Cardinality(Calls) /\ Cardinality(Calls) \in Nat
      /\ lastId \in Nat
  BY OneMoreDone, DoneFinite DEF CallsInv, TypeOK
<1>8. TypeOK' /\ Linked' /\ Named'
  <2>1. lastId' \in 0 .. Cardinality(Calls)  BY <1>7
  <2> QED  BY <1>1, <1>6, <2>1 DEF CallsInv, TypeOK, Linked, Named, connectionVars, proxyVars
<1>9. Addressed(toServer, toClient)'
  <2>1. Addressed(toServer', toClient')  BY <1>1, <1>6 DEF CallsInv, Addressed
  <2> QED  BY <2>1, AddressedAfter
<1>10. Whole'
  <2>1. At(k, toServer'[cl], toClient'[cl], executing', status'[k], connected', silent')
    BY <1>1, <1>3, <1>4, <1>5, <1>6 DEF connectionVars, At
  <2>2. ASSUME NEW d \in Calls, d # k
        PROVE  At(d, toServer'[ClientOf[d]], toClient'[ClientOf[d]], executing', status'[d], connected', silent')
    <3> DEFINE e == ClientOf[d]
    <3>1. /\ e \in Clients
          /\ At(d, toServer[e], toClient[e], executing, status[d], connected, silent)
          /\ Once(toClient[e], Answering(d))
      BY CallFacts
    <3> HIDE DEF e
    <3>2. /\ In(toClient'[e], Answering(d)) <=> In(toClient[e], Answering(d))
          /\ Once(toClient'[e], Answering(d))
          /\ UNCHANGED << toServer, status, connected, silent >>
      BY <1>1, <1>6, <2>2, <3>1 DEF connectionVars
    <3>3. \A n : n.call = d => (n \in executing' <=> n \in executing)  BY <1>1, <2>2 DEF k
    <3>4. Runs(executing', d) <=> Runs(executing, d)  BY <3>3 DEF Runs
    <3> QED  BY <3>1, <3>2, <3>3, <3>4 DEF At, e
  <2> QED  BY <2>1, <2>2, WholeAfter
<1>11. Counted'  BY <1>7, CountedAfter
<1> QED  BY <1>8, <1>9, <1>10, <1>11 DEF CallsInv

LEMMA ReturnsCycleKeeps ==
  ASSUME CallsInv, NEW m \in executing, ReturnsCycle(m)
  PROVE  CallsInv'
<1> DEFINE k == m.call
<1> DEFINE cl == ClientOf[k]
<1>1. /\ k \in Calls /\ cl \in Clients /\ m \in Requests
      /\ executing' = executing \ { m } /\ silent' = silent \cup { k }
      /\ UNCHANGED << status, connectionVars, toServer, proxyVars, missed, toClient, pinVars >>
  BY CallFacts DEF ReturnsCycle, ProcedureEnds, CallsInv, TypeOK, Requests
<1>2. At(k, toServer[cl], toClient[cl], executing, status[k], connected, silent)  BY <1>1, CallFacts
<1>3. Runs(executing, k)  BY DEF Runs
<1>4. ~Runs(executing', k)  BY <1>1, <1>2 DEF At, Runs
<1> HIDE DEF k
<1>5. /\ Cardinality(Done(toServer', executing', status')) \in Nat
      /\ lastId + 1 <= Cardinality(Done(toServer', executing', status'))
      /\ lastId \in Nat /\ lastId' = lastId
  <2>1. ProcedureEnds(m) /\ lastId' = lastId  BY <1>1 DEF ReturnsCycle, pinVars
  <2>2. lastId \in Nat  BY DEF CallsInv, TypeOK
  <2> QED  BY <2>1, <2>2, OneMoreDone
<1>6. TypeOK' /\ Linked' /\ Named'
  BY <1>1 DEF CallsInv, TypeOK, Linked, Named, connectionVars, proxyVars, pinVars
<1>7. Addressed(toServer, toClient)'  BY <1>1, AddressedAfter DEF CallsInv
<1>8. Whole'
  <2>1. At(k, toServer'[cl], toClient'[cl], executing', status'[k], connected', silent')
    BY <1>1, <1>2, <1>3, <1>4 DEF connectionVars, At
  <2>2. ASSUME NEW d \in Calls, d # k
        PROVE  At(d, toServer'[ClientOf[d]], toClient'[ClientOf[d]], executing', status'[d], connected', silent')
    <3> DEFINE e == ClientOf[d]
    <3>1. At(d, toServer[e], toClient[e], executing, status[d], connected, silent)  BY CallFacts
    <3> HIDE DEF e
    <3>2. UNCHANGED << toServer, toClient, status, connected >> /\ (d \in silent' <=> d \in silent)
      BY <1>1, <2>2 DEF connectionVars
    <3>3. \A n : n.call = d => (n \in executing' <=> n \in executing)  BY <1>1, <2>2 DEF k
    <3>4. Runs(executing', d) <=> Runs(executing, d)  BY <3>3 DEF Runs
    <3> QED  BY <3>1, <3>2, <3>3, <3>4 DEF At, e
  <2> QED  BY <2>1, <2>2, WholeAfter
<1>9. Counted'  BY <1>5, CountedAfter
<1> QED  BY <1>6, <1>7, <1>8, <1>9 DEF CallsInv

LEMMA EndsKeeps ==
  ASSUME CallsInv, NEW m \in executing, Ends(m)
  PROVE  CallsInv'
<1>1. CASE \E success \in BOOLEAN : Returns(m, success)
  <2>1. PICK success \in BOOLEAN : Returns(m, success)  BY <1>1
  <2>2. /\ ProcedureEnds(m) /\ UNCHANGED silent /\ Respond(m.call, Response(m.call, success, NoId))
        /\ UNCHANGED << current, refCount, lastId >>
    BY <2>1 DEF Returns, pinVars
  <2>3. /\ NoId \in Ids \cup { NoId } /\ current' \in Ids \cup { NoId }
        /\ refCount' \in [ Ids -> Nat ] /\ lastId' \in { lastId, lastId + 1 }
    BY <2>2 DEF CallsInv, TypeOK
  <2> QED  BY <2>2, <2>3, EndsAnsweringKeeps
<1>2. CASE ReturnsPin(m)
  <2>1. ProcedureEnds(m) /\ Pin /\ UNCHANGED silent /\ Respond(m.call, Response(m.call, TRUE, current'))
    BY <1>2 DEF ReturnsPin
  <2>2. /\ lastId \in Nat /\ lastId + 1 <= Cardinality(Calls) /\ Cardinality(Calls) \in Nat
        /\ refCount \in [ Ids -> Nat ] /\ current \in Ids \cup { NoId }
    BY <2>1, OneMoreDone, DoneFinite DEF CallsInv, TypeOK
  <2>3. lastId + 1 \in Ids  BY <2>2 DEF Ids
  <2>4. CASE current # NoId
    <3>1. refCount' = [ refCount EXCEPT ![current] = @ + 1 ] /\ current' = current /\ lastId' = lastId
      BY <2>1, <2>4 DEF Pin
    <3>2. current \in Ids /\ refCount[current] + 1 \in Nat  BY <2>2, <2>4
    <3>3. refCount' \in [ Ids -> Nat ] /\ current' \in Ids \cup { NoId } /\ lastId' \in { lastId, lastId + 1 }
      BY <2>2, <3>1, <3>2
    <3> QED  BY <2>1, <3>3, EndsAnsweringKeeps
  <2>5. CASE current = NoId
    <3>1. lastId' = lastId + 1 /\ current' = lastId' /\ refCount' = [ refCount EXCEPT ![lastId'] = 1 ]
      BY <2>1, <2>5 DEF Pin
    <3>2. refCount' \in [ Ids -> Nat ] /\ current' \in Ids \cup { NoId } /\ lastId' \in { lastId, lastId + 1 }
      BY <2>2, <2>3, <3>1
    <3> QED  BY <2>1, <3>2, EndsAnsweringKeeps
  <2> QED  BY <2>4, <2>5
<1>3. CASE ReturnsCycle(m)  BY <1>3, ReturnsCycleKeeps
<1> QED  BY <1>1, <1>2, <1>3 DEF Ends

LEMMA LinkBreaksKeeps ==
  ASSUME CallsInv, NEW cl \in Clients, LinkBreaks(cl)
  PROVE  CallsInv'
<1>1. /\ connected' = connected \ { cl }
      /\ UNCHANGED << status, open, serving, users, toServer, toClient, executing,
                      pinVars, proxyVars, silent, missed >>
  BY DEF LinkBreaks
<1>2. TypeOK' /\ Linked' /\ Named'  BY <1>1 DEF CallsInv, TypeOK, Linked, Named, proxyVars, pinVars
<1>3. Addressed(toServer, toClient)'  BY <1>1, AddressedAfter DEF CallsInv
<1>4. Whole'
  <2>1. ASSUME NEW d \in Calls
        PROVE  At(d, toServer'[ClientOf[d]], toClient'[ClientOf[d]], executing', status'[d], connected', silent')
    BY <1>1, CallFacts DEF At
  <2> QED  BY <2>1, WholeAfter
<1>5. Counted'  BY <1>1, CountKeeps DEF pinVars
<1> QED  BY <1>2, <1>3, <1>4, <1>5 DEF CallsInv

\* The close event at the client, before the transport is closed or after.
LEMMA HandleCloseKeeps ==
  ASSUME CallsInv, NEW cl \in Clients, HandleClose(cl), connected' = connected \ { cl },
         UNCHANGED << serving, users, toServer, executing, pinVars, proxyVars, silent, missed >>
  PROVE  CallsInv'
<1>1. /\ toClient' = Cut(toClient, cl) /\ open' = open \ { cl }
      /\ status' = [ c \in Calls |-> IF c \in CallsOf(cl) /\ status[c] = "pending"
                                     THEN "rejected" ELSE status[c] ]
  BY DEF HandleClose, Cut
<1>2. /\ Cut(toClient, cl) \in [ Clients -> Seq(Responses) ]
      /\ \A M : \A d \in Clients :
           /\ In(Cut(toClient, cl)[d], M) <=> d # cl /\ In(toClient[d], M)
           /\ Once(toClient[d], M) => Once(Cut(toClient, cl)[d], M)
  <2> DEFINE S == Responses
  <2>1. toClient \in Wires(S)  BY CallFacts DEF Wires
  <2> HIDE DEF S
  <2>2. /\ Cut(toClient, cl) \in Wires(S)
        /\ \A M : \A d \in Clients :
             /\ In(Cut(toClient, cl)[d], M) <=> d # cl /\ In(toClient[d], M)
             /\ Once(toClient[d], M) => Once(Cut(toClient, cl)[d], M)
    BY <2>1, CuttingFrame
  <2> QED  BY <2>2 DEF S, Wires
<1>3. /\ \A c \in Calls : status'[c] = status[c] \/ (ClientOf[c] = cl /\ status'[c] = "rejected")
      /\ \A c \in Calls : status[c] # "idle" => status'[c] # "idle"
      /\ status' \in [ Calls -> { "idle", "pending", "resolved", "rejected" } ]
  BY <1>1 DEF CallsInv, TypeOK, CallsOf
<1>4. /\ \A e \in Clients, d \in Calls :
           /\ In(toClient'[e], Answering(d)) => In(toClient[e], Answering(d))
           /\ e # cl => (In(toClient[e], Answering(d)) => In(toClient'[e], Answering(d)))
           /\ Once(toClient[e], Answering(d)) => Once(toClient'[e], Answering(d))
  BY <1>1, <1>2
<1>5. TypeOK' /\ Linked' /\ Named'
  BY <1>1, <1>2, <1>3 DEF CallsInv, TypeOK, Linked, Named, proxyVars, pinVars
<1>6. Addressed(toServer, toClient)'  BY <1>4, AddressedAfter DEF CallsInv, Addressed
<1>7. Whole'
  <2>1. ASSUME NEW d \in Calls
        PROVE  At(d, toServer'[ClientOf[d]], toClient'[ClientOf[d]], executing', status'[d], connected', silent')
    <3> DEFINE e == ClientOf[d]
    <3>1. /\ e \in Clients
          /\ At(d, toServer[e], toClient[e], executing, status[d], connected, silent)
          /\ Once(toClient[e], Answering(d))
      BY CallFacts
    <3> HIDE DEF e
    <3>2. CASE e = cl  BY <1>3, <1>4, <3>1, <3>2 DEF At, e
    <3>3. CASE e # cl  BY <1>3, <1>4, <3>1, <3>3 DEF At, e
    <3> QED  BY <3>2, <3>3 DEF e
  <2> QED  BY <2>1, WholeAfter
<1>8. Counted'  BY <1>3, CountKeeps DEF Done, pinVars
<1> QED  BY <1>5, <1>6, <1>7, <1>8 DEF CallsInv

\* The server half hears of the end, or is closed.
LEMMA ServerEndsKeeps ==
  ASSUME CallsInv, NEW cl \in Clients, connected' = connected \ { cl }, serving' = serving \ { cl },
         toServer' = Cut(toServer, cl),
         users' \subseteq users, current' \in { current, NoId }, UNCHANGED lastId,
         refCount' \in [ Ids -> Nat ],
         UNCHANGED << status, open, toClient, executing, proxyVars, silent, missed >>
  PROVE  CallsInv'
<1>1. /\ Cut(toServer, cl) \in [ Clients -> Seq(Requests \cup Releases) ]
      /\ \A M : \A d \in Clients :
           /\ In(Cut(toServer, cl)[d], M) <=> d # cl /\ In(toServer[d], M)
           /\ Once(toServer[d], M) => Once(Cut(toServer, cl)[d], M)
  <2> DEFINE S == Requests \cup Releases
  <2>1. toServer \in Wires(S)  BY CallFacts DEF Wires
  <2> HIDE DEF S
  <2>2. /\ Cut(toServer, cl) \in Wires(S)
        /\ \A M : \A d \in Clients :
             /\ In(Cut(toServer, cl)[d], M) <=> d # cl /\ In(toServer[d], M)
             /\ Once(toServer[d], M) => Once(Cut(toServer, cl)[d], M)
    BY <2>1, CuttingFrame
  <2> QED  BY <2>2 DEF S, Wires
<1>2. /\ \A e \in Clients, d \in Calls :
           /\ In(toServer'[e], Asking(d)) => In(toServer[e], Asking(d))
           /\ e # cl => (In(toServer[e], Asking(d)) => In(toServer'[e], Asking(d)))
           /\ Once(toServer[e], Asking(d)) => Once(toServer'[e], Asking(d))
  BY <1>1
<1>3. TypeOK' /\ Linked' /\ Named'  BY <1>1 DEF CallsInv, TypeOK, Linked, Named, proxyVars
<1>4. Addressed(toServer, toClient)'  BY <1>2, AddressedAfter DEF CallsInv, Addressed
<1>5. Whole'
  <2>1. ASSUME NEW d \in Calls
        PROVE  At(d, toServer'[ClientOf[d]], toClient'[ClientOf[d]], executing', status'[d], connected', silent')
    <3> DEFINE e == ClientOf[d]
    <3>1. /\ e \in Clients
          /\ At(d, toServer[e], toClient[e], executing, status[d], connected, silent)
          /\ Once(toServer[e], Asking(d))
      BY CallFacts
    <3> HIDE DEF e
    <3>2. CASE e = cl  BY <1>2, <3>1, <3>2 DEF At, e
    <3>3. CASE e # cl  BY <1>2, <3>1, <3>3 DEF At, e
    <3> QED  BY <3>2, <3>3 DEF e
  <2> QED  BY <2>1, WholeAfter
<1>6. Counted'  BY <1>2, CallFacts, CountKeeps DEF Done
<1> QED  BY <1>3, <1>4, <1>5, <1>6 DEF CallsInv

LEMMA ConnectionsKeep ==
  ASSUME CallsInv, NEW cl \in Clients,
         LinkBreaks(cl) \/ ClientTold(cl) \/ ServerTold(cl) \/ ClientCloses(cl) \/ ServerCloses(cl)
  PROVE  CallsInv'
<1>1. CASE LinkBreaks(cl)  BY <1>1, LinkBreaksKeeps
<1>2. CASE ClientTold(cl)  BY <1>2, HandleCloseKeeps DEF ClientTold
<1>3. CASE ServerTold(cl)  BY <1>3, ServerEndsKeeps DEF ServerTold, Cut, pinVars, CallsInv, TypeOK
<1>4. CASE ClientCloses(cl)  BY <1>4, HandleCloseKeeps DEF ClientCloses
<1>5. CASE ServerCloses(cl)
  <2>1. /\ connected' = connected \ { cl } /\ serving' = serving \ { cl }
        /\ toServer' = Cut(toServer, cl) /\ users' \subseteq users
        /\ UNCHANGED << status, open, toClient, executing, proxyVars, silent, missed >>
    BY <1>5 DEF ServerCloses, ReleaseManager, Cut
  <2>2. /\ current' \in { current, NoId } /\ UNCHANGED lastId
        /\ refCount' \in [ Ids -> Nat ]
    BY <1>5 DEF ServerCloses, ReleaseManager, pinVars, CallsInv, TypeOK
  <2> QED  BY <2>1, <2>2, ServerEndsKeeps
<1> QED  BY <1>1, <1>2, <1>3, <1>4, <1>5

-----------------------------------------------------------------------------

\* The invariant is inductive: each disjunct of Next, and the stutter.
LEMMA InvNext == CallsInv /\ [Next]_vars => CallsInv'
<1> SUFFICES ASSUME CallsInv, [Next]_vars PROVE CallsInv'  OBVIOUS
<1>1. ASSUME NEW c \in Calls, Ask(c) PROVE CallsInv'  BY <1>1, TrackAskKeeps DEF Ask
<1>2. ASSUME NEW c \in Calls, SendFails(c) PROVE CallsInv'  BY <1>2, SendFailsKeeps
<1>3. ASSUME NEW c \in Calls, NEW p \in Calls, PinCall(c, p) PROVE CallsInv'
  BY <1>3, TrackAskKeeps DEF CallsInv, TypeOK, PinCall
<1>4. ASSUME NEW p \in Calls, Free(p) PROVE CallsInv'  BY <1>4, FreeKeeps
<1>5. ASSUME NEW cl \in Clients, HandleResponse(cl) \/ ReceiveAtServer(cl) PROVE CallsInv'
  BY <1>5, HandleResponseKeeps, ReceiveAtServerKeeps
<1>6. ASSUME NEW m \in executing, Ends(m) PROVE CallsInv'  BY <1>6, EndsKeeps
<1>7. ASSUME NEW cl \in Clients,
             LinkBreaks(cl) \/ ClientTold(cl) \/ ServerTold(cl) \/ ClientCloses(cl) \/ ServerCloses(cl)
      PROVE  CallsInv'
  BY <1>7, ConnectionsKeep
<1>8. CASE UNCHANGED vars
  <2>1. TypeOK' /\ Linked' /\ Named'
    BY <1>8 DEF CallsInv, TypeOK, Linked, Named, vars, connectionVars, pinVars, proxyVars
  <2>2. Addressed(toServer, toClient)'  BY <1>8, AddressedAfter DEF CallsInv, vars
  <2>3. Whole'
    <3>1. ASSUME NEW d \in Calls
          PROVE  At(d, toServer'[ClientOf[d]], toClient'[ClientOf[d]], executing', status'[d], connected', silent')
      BY <1>8, CallFacts DEF vars, connectionVars
    <3> QED  BY <3>1, WholeAfter
  <2>4. Counted'  BY <1>8, CountKeeps DEF vars, pinVars
  <2> QED  BY <2>1, <2>2, <2>3, <2>4 DEF CallsInv
<1> QED  BY <1>1, <1>2, <1>3, <1>4, <1>5, <1>6, <1>7, <1>8 DEF Next

\* Over a connection that holds, a pending call is in exactly one place, and a
\* call that is not pending is in none: whatever the number of calls, of
\* connections, of pinned objects and of breaks, no call is run twice, answered
\* twice or lost (call-manager and call-executor features).
THEOREM CallsAreInOnePlace == Spec => []PendingIsSomewhere
BY InvInit, InvNext, PTL, CallsImply DEF Spec

-----------------------------------------------------------------------------
(***************************************************************************)
(* The pinned objects, for any number of calls over any number of          *)
(* connections: what the manager counts covers what is held, and a call    *)
(* made on a live proxy finds its object.                                  *)
(***************************************************************************)

ToServer == Requests \cup Releases

Releasing(id) == { r \in Releases : r.target = id }
Pinning(id)   == { r \in Responses : r.pin = id }
Calling(id)   == { r \in Requests : r.target = id /\ r.live }
Naming(id)    == { r \in ToServer : r.target = id }

\* Where the messages of the set M are on the wires.
Spots(ts, M) ==
  { x \in Clients \X Nat : x[2] \in DOMAIN ts[x[1]] /\ ts[x[1]][x[2]] \in M }

Proxies(px, pa, id) == { p \in Calls : px[p] = "live" /\ pa[p] = id }

\* A call made on a live proxy is on the wire w, and no release behind it.
Waits(w, id) ==
  \E i \in DOMAIN w : /\ w[i] \in Calling(id)
                      /\ \A j \in DOMAIN w : j > i => w[j] \notin Releasing(id)

\* The connections that owe a release: such a call is under way, and the proxy
\* was freed when nothing could be sent any more.
Owed(ts, px, pa, id) ==
  { cl \in Clients : Waits(ts[cl], id) /\ \A p \in Proxies(px, pa, id) : ClientOf[p] # cl }

(***************************************************************************)
(* The inductive invariant, part by part.                                  *)
(***************************************************************************)

\* Only a call that has settled brought a proxy.
Settled == \A p \in Calls : proxy[p] # "none" => status[p] \notin { "idle", "pending" }

\* Nothing arrives at a server half that has ended; others use the manager.
Served ==
  /\ serving \subseteq users
  /\ \A cl \in Clients : cl \notin serving => toServer[cl] = << >>

\* Nobody knows an id that was not given out.
Fresh(id, ts, tc, pa, cur) ==
  /\ cur # id
  /\ \A p \in Calls : pa[p] # id
  /\ \A cl \in Clients : ~In(ts[cl], Naming(id)) /\ ~In(tc[cl], Pinning(id))
NoneForeseen == \A id \in Ids : id > lastId => Fresh(id, toServer, toClient, pinnedAs, current)

\* The manager's count of id is what is held, and what is owed besides.
References(id, ts, tc, px, pa) ==
  Cardinality(Spots(ts, Releasing(id))) + Cardinality(Spots(tc, Pinning(id)))
    + Cardinality(Proxies(px, pa, id))
Covers(id, ts, tc, px, pa, us, links, count) ==
  /\ IsFiniteSet(Spots(ts, Releasing(id))) /\ IsFiniteSet(Spots(tc, Pinning(id)))
  /\ IsFiniteSet(Owed(ts, px, pa, id))
  /\ us # {} => count[id] >= References(id, ts, tc, px, pa) + Cardinality(Owed(ts, px, pa, id))
  /\ links = Clients => count[id] = References(id, ts, tc, px, pa)
Covered ==
  \A id \in Ids : Covers(id, toServer, toClient, proxy, pinnedAs, users, connected, refCount)

\* The whole.
PinParts == Settled /\ Served /\ NoneForeseen /\ Covered /\ LiveCallsFind
PinsInv == CallsInv /\ PinParts

-----------------------------------------------------------------------------
(* Counting messages.                                                      *)

LEMMA SpotsOf ==
  ASSUME NEW S, NEW ts \in Wires(S), NEW M
  PROVE  /\ \A cl \in Clients : ts[cl] \in Seq(S) /\ DOMAIN ts[cl] = 1 .. Len(ts[cl]) /\ Len(ts[cl]) \in Nat
         /\ \A x : x \in Spots(ts, M) <=>
              \E cl \in Clients, k \in Nat : x = << cl, k >> /\ k \in DOMAIN ts[cl] /\ ts[cl][k] \in M
         /\ \A cl \in Clients : \A k : << cl, k >> \in Spots(ts, M) <=> k \in DOMAIN ts[cl] /\ ts[cl][k] \in M
BY DEF Wires, Spots

LEMMA SpotsSent ==
  ASSUME NEW S, NEW ts \in Wires(S), NEW cl \in Clients, NEW m \in S, NEW M,
         IsFiniteSet(Spots(ts, M))
  PROVE  /\ IsFiniteSet(Spots(Sent(ts, cl, m), M))
         /\ Cardinality(Spots(Sent(ts, cl, m), M)) =
              Cardinality(Spots(ts, M)) + IF cl \in connected /\ m \in M THEN 1 ELSE 0
<1> DEFINE us == Sent(ts, cl, m)
<1> DEFINE n == Len(ts[cl]) + 1
<1>0. Cardinality(Spots(ts, M)) \in Nat  BY FS_CardinalityType
<1>1. CASE cl \notin connected  BY <1>0, <1>1 DEF Sent
<1>2. CASE cl \in connected
  <2>1. us \in Wires(S)  BY SendingFrame
  <2>2. /\ us[cl] = Append(ts[cl], m) /\ \A d \in Clients : d # cl => us[d] = ts[d]  BY <1>2 DEF Sent, Wires
  <2>3. ts[cl] \in Seq(S) /\ DOMAIN ts[cl] = 1 .. Len(ts[cl]) /\ Len(ts[cl]) \in Nat  BY SpotsOf
  <2>4. /\ DOMAIN us[cl] = 1 .. n
        /\ us[cl][n] = m /\ \A k \in DOMAIN ts[cl] : us[cl][k] = ts[cl][k]
    BY <2>2, <2>3
  <2>5. n \notin DOMAIN ts[cl] /\ DOMAIN us[cl] = DOMAIN ts[cl] \cup { n }  BY <2>3, <2>4
  <2> HIDE DEF us, n
  <2>6. \A d \in Clients : \A k : << d, k >> \in Spots(us, M) <=>
          << d, k >> \in Spots(ts, M) \/ (d = cl /\ k = n /\ m \in M)
    <3> SUFFICES ASSUME NEW d \in Clients, NEW k
                 PROVE  << d, k >> \in Spots(us, M) <=>
                          << d, k >> \in Spots(ts, M) \/ (d = cl /\ k = n /\ m \in M)
      OBVIOUS
    <3>1. << d, k >> \in Spots(us, M) <=> k \in DOMAIN us[d] /\ us[d][k] \in M  BY <2>1, SpotsOf
    <3>2. << d, k >> \in Spots(ts, M) <=> k \in DOMAIN ts[d] /\ ts[d][k] \in M  BY SpotsOf
    <3> QED  BY <2>2, <2>4, <2>5, <3>1, <3>2
  <2>7. \A x : x \in Spots(us, M) \/ x \in Spots(ts, M) => \E d \in Clients : \E k : x = << d, k >>
    BY <2>1, SpotsOf
  <2>8. << cl, n >> \notin Spots(ts, M)  BY <2>5, SpotsOf
  <2>9. CASE m \in M  BY <2>6, <2>7, <2>9, <1>2, <2>8, FS_AddElement DEF us
  <2>10. CASE m \notin M  BY <2>6, <2>7, <2>10, <1>0 DEF us
  <2> QED  BY <2>9, <2>10
<1> QED  BY <1>1, <1>2

LEMMA SpotsTook ==
  ASSUME NEW S, NEW ts \in Wires(S), NEW cl \in Clients, ts[cl] # << >>, NEW M,
         IsFiniteSet(Spots(ts, M))
  PROVE  /\ IsFiniteSet(Spots(Took(ts, cl), M))
         /\ Cardinality(Spots(Took(ts, cl), M)) =
              Cardinality(Spots(ts, M)) - IF Head(ts[cl]) \in M THEN 1 ELSE 0
<1> DEFINE us == Took(ts, cl)
<1> DEFINE A == Spots(ts, M) \ { << cl, 1 >> }
<1> DEFINE B == Spots(us, M)
<1>1. us \in Wires(S)  BY TakingFrame
<1>2. ts[cl] \in Seq(S) /\ DOMAIN ts[cl] = 1 .. Len(ts[cl]) /\ Len(ts[cl]) \in Nat  BY SpotsOf
<1>3. /\ us[cl] = Tail(ts[cl]) /\ \A d \in Clients : d # cl => us[d] = ts[d]  BY DEF Took, Wires
<1>4. /\ 1 \in DOMAIN ts[cl] /\ ts[cl][1] = Head(ts[cl])
      /\ DOMAIN us[cl] = 1 .. (Len(ts[cl]) - 1)
      /\ \A k \in 1 .. (Len(ts[cl]) - 1) : us[cl][k] = ts[cl][k + 1]
  BY <1>2, <1>3
<1>5. /\ IsFiniteSet(A)
      /\ Cardinality(A) = Cardinality(Spots(ts, M)) - IF Head(ts[cl]) \in M THEN 1 ELSE 0
  <2>1. << cl, 1 >> \in Spots(ts, M) <=> Head(ts[cl]) \in M  BY <1>4, SpotsOf
  <2>2. Cardinality(Spots(ts, M)) \in Nat  BY FS_CardinalityType
  <2> QED  BY <2>1, <2>2, FS_RemoveElement
<1> DEFINE f == [ x \in A |-> IF x[1] = cl THEN << cl, x[2] - 1 >> ELSE x ]
<1> HIDE DEF us
<1>6. \A d \in Clients : \A k : << d, k >> \in B <=> k \in DOMAIN us[d] /\ us[d][k] \in M  BY <1>1, SpotsOf
<1>7. \A d \in Clients : \A k : << d, k >> \in A <=> k \in DOMAIN ts[d] /\ ts[d][k] \in M /\ ~(d = cl /\ k = 1)
  BY SpotsOf
<1>8. \A x : x \in A \/ x \in B => \E d \in Clients, k \in Nat : x = << d, k >>  BY <1>1, SpotsOf
<1>9. /\ \A d \in Clients, k \in Nat : d # cl => (<< d, k >> \in A <=> << d, k >> \in B)
      /\ \A k \in Nat : << cl, k + 1 >> \in A <=> << cl, k >> \in B
      /\ << cl, 0 >> \notin A /\ << cl, 1 >> \notin A
  <2>1. \A d \in Clients, k \in Nat : d # cl => (<< d, k >> \in A <=> << d, k >> \in B)  BY <1>3, <1>6, <1>7
  <2>2. << cl, 0 >> \notin A /\ << cl, 1 >> \notin A  BY <1>2, <1>7
  <2>3. ASSUME NEW k \in Nat
        PROVE  << cl, k + 1 >> \in A <=> << cl, k >> \in B
    BY <1>4, <1>2, <1>6, <1>7
  <2> QED  BY <2>1, <2>2, <2>3
<1>10. \A k \in Nat : << cl, k >> \in A => k - 1 \in Nat /\ k - 1 + 1 = k /\ << cl, k - 1 >> \in B
  <2> SUFFICES ASSUME NEW k \in Nat, << cl, k >> \in A
               PROVE  k - 1 \in Nat /\ k - 1 + 1 = k /\ << cl, k - 1 >> \in B
    OBVIOUS
  <2>1. k # 0 /\ k # 1  BY <1>9
  <2>2. k - 1 \in Nat /\ k - 1 + 1 = k  BY <2>1
  <2> QED  BY <1>9, <2>2
<1> HIDE DEF A, B
<1>11. f \in Bijection(A, B)
  <2>1. \A d \in Clients, k \in Nat : << d, k >> \in A =>
          f[<< d, k >>] = IF d = cl THEN << cl, k - 1 >> ELSE << d, k >>
    OBVIOUS
  <2>2. f \in [ A -> B ]
    <3>1. ASSUME NEW x \in A PROVE f[x] \in B
      <4>1. PICK d \in Clients, k \in Nat : x = << d, k >>  BY <1>8
      <4>2. f[x] = IF d = cl THEN << cl, k - 1 >> ELSE << d, k >>  BY <2>1, <4>1
      <4> HIDE DEF f
      <4> QED  BY <1>9, <1>10, <4>1, <4>2
    <3> QED  BY <3>1
  <2>3. ASSUME NEW x \in A, NEW y \in A, f[x] = f[y] PROVE x = y
    <3>1. PICK d \in Clients, k \in Nat : x = << d, k >>  BY <1>8
    <3>2. PICK e \in Clients, j \in Nat : y = << e, j >>  BY <1>8
    <3>3. /\ f[x] = IF d = cl THEN << cl, k - 1 >> ELSE << d, k >>
          /\ f[y] = IF e = cl THEN << cl, j - 1 >> ELSE << e, j >>
      BY <2>1, <3>1, <3>2
    <3> HIDE DEF f
    <3>4. d = e  BY <3>3, <2>3
    <3>5. CASE d = cl
      <4>1. << cl, k - 1 >> = << cl, j - 1 >>  BY <2>3, <3>3, <3>4, <3>5
      <4>2. k - 1 = j - 1  BY <4>1
      <4>3. k = j  BY <4>2
      <4> QED  BY <3>1, <3>2, <3>4, <4>3
    <3>6. CASE d # cl  BY <2>3, <3>1, <3>2, <3>3, <3>4, <3>6
    <3> QED  BY <3>5, <3>6
  <2>4. ASSUME NEW y \in B PROVE \E x \in A : f[x] = y
    <3>1. PICK e \in Clients, j \in Nat : y = << e, j >>  BY <1>8
    <3>2. CASE e = cl
      <4>1. << cl, j + 1 >> \in A /\ j + 1 \in Nat  BY <1>9, <3>1, <3>2
      <4>2. f[<< cl, j + 1 >>] = << cl, j >>  BY <2>1, <4>1
      <4> QED  BY <3>1, <3>2, <4>1, <4>2
    <3>3. CASE e # cl
      <4>1. << e, j >> \in A  BY <1>9, <3>1, <3>3
      <4> QED  BY <2>1, <3>1, <3>3, <4>1
    <3> QED  BY <3>2, <3>3
  <2> HIDE DEF f
  <2> QED  BY <2>2, <2>3, <2>4 DEF Bijection, Injection, Surjection, IsInjective
<1>12. IsFiniteSet(B) /\ Cardinality(B) = Cardinality(A)  BY <1>5, <1>11, FS_Bijection DEF ExistsBijection
<1> QED  BY <1>5, <1>12 DEF us, B

LEMMA SpotsCut ==
  ASSUME NEW S, NEW ts \in Wires(S), NEW cl \in Clients, NEW M, IsFiniteSet(Spots(ts, M))
  PROVE  /\ IsFiniteSet(Spots(Cut(ts, cl), M))
         /\ Cardinality(Spots(Cut(ts, cl), M)) <= Cardinality(Spots(ts, M))
BY FS_Subset DEF Cut, Wires, Spots

-----------------------------------------------------------------------------
(* What messages are about, and who waits for a release.                   *)

LEMMA WireTypes ==
  ASSUME CallsInv
  PROVE  /\ toServer \in Wires(ToServer) /\ toClient \in Wires(Responses)
         /\ \A cl \in Clients : toServer[cl] \in Seq(ToServer) /\ toClient[cl] \in Seq(Responses)
BY CallFacts DEF Wires, ToServer

LEMMA KindsAre ==
  ASSUME NEW id \in Ids
  PROVE  /\ \A c \in Calls, target \in Ids \cup { NoId }, live \in BOOLEAN :
              LET m == Request(c, target, live) IN
              /\ m \in ToServer /\ m \notin Releasing(id)
              /\ m \in Calling(id) <=> target = id /\ live
              /\ m \in Naming(id) <=> target = id
         /\ \A q \in Ids :
              LET m == Release(q) IN
              /\ m \in ToServer /\ m \notin Calling(id)
              /\ m \in Releasing(id) <=> q = id
              /\ m \in Naming(id) <=> q = id
         /\ \A c \in Calls, success \in BOOLEAN, q \in Ids \cup { NoId } :
              LET m == Response(c, success, q) IN
              m \in Responses /\ (m \in Pinning(id) <=> q = id)
         /\ \A m \in Responses : m \in Pinning(id) <=> m.pin = id
         /\ \A m \in ToServer :
              /\ m.type = "request" => m \in Requests /\ m \notin Releasing(id)
              /\ m.type = "release" => m \in Releases /\ m.target \in Ids
              /\ m \in Releasing(id) => m.type = "release"
              /\ m.type = "release" => (m \in Releasing(id) <=> m.target = id)
              /\ ~(m \in Releasing(id) /\ m \in Calling(id))
         /\ Releasing(id) \subseteq Naming(id) /\ Calling(id) \subseteq Naming(id)
         /\ id # NoId
BY DEF Request, Release, Response, Requests, Releases, Responses, ToServer,
       Releasing, Pinning, Calling, Naming, Ids, NoId

LEMMA WaitsSent ==
  ASSUME NEW w \in Seq(ToServer), NEW m \in ToServer, NEW id \in Ids
  PROVE  /\ m \in Releasing(id) => ~Waits(Append(w, m), id)
         /\ m \notin Calling(id) /\ Waits(Append(w, m), id) => Waits(w, id)
<1> DEFINE v == Append(w, m)
<1> DEFINE n == Len(w) + 1
<1>1. /\ DOMAIN w = 1 .. Len(w) /\ Len(w) \in Nat /\ DOMAIN v = 1 .. n
      /\ v[n] = m /\ \A k \in 1 .. Len(w) : v[k] = w[k]
  OBVIOUS
<1>2. \A k \in DOMAIN v : k = n \/ (k \in DOMAIN w /\ n > k /\ v[k] = w[k])  BY <1>1
<1>3. n \in DOMAIN v /\ DOMAIN w \subseteq DOMAIN v /\ \A k \in DOMAIN w : v[k] = w[k]  BY <1>1
<1>4. m \in Releasing(id) => m \notin Calling(id)  BY KindsAre
<1> HIDE DEF v, n
<1>5. m \in Releasing(id) => ~Waits(v, id)
  <2> SUFFICES ASSUME m \in Releasing(id), Waits(v, id) PROVE FALSE  OBVIOUS
  <2>1. PICK i \in DOMAIN v : v[i] \in Calling(id) /\ \A j \in DOMAIN v : j > i => v[j] \notin Releasing(id)
    BY DEF Waits
  <2>2. i # n  BY <1>1, <1>4, <2>1 DEF v, n
  <2>3. n > i  BY <1>2, <2>2
  <2> QED  BY <1>3, <2>1, <2>3, <1>1 DEF v, n
<1>6. m \notin Calling(id) /\ Waits(v, id) => Waits(w, id)
  <2> SUFFICES ASSUME m \notin Calling(id), Waits(v, id) PROVE Waits(w, id)  OBVIOUS
  <2>1. PICK i \in DOMAIN v : v[i] \in Calling(id) /\ \A j \in DOMAIN v : j > i => v[j] \notin Releasing(id)
    BY DEF Waits
  <2>2. v[n] = m  BY <1>1 DEF v, n
  <2>3. i \in DOMAIN w /\ w[i] \in Calling(id)  BY <1>2, <2>1, <2>2
  <2>4. \A j \in DOMAIN w : j > i => w[j] \notin Releasing(id)  BY <1>3, <2>1
  <2> QED  BY <2>3, <2>4 DEF Waits
<1> QED  BY <1>5, <1>6 DEF v

LEMMA WaitsTook ==
  ASSUME NEW w \in Seq(ToServer), w # << >>, NEW id
  PROVE  /\ Waits(Tail(w), id) => Waits(w, id)
         /\ Head(w) \in Calling(id) => Waits(w, id) \/ \E j \in DOMAIN w : w[j] \in Releasing(id)
<1> DEFINE v == Tail(w)
<1>1. /\ DOMAIN w = 1 .. Len(w) /\ Len(w) \in Nat /\ Len(w) >= 1 /\ DOMAIN v = 1 .. (Len(w) - 1)
      /\ Head(w) = w[1] /\ \A k \in 1 .. (Len(w) - 1) : v[k] = w[k + 1]
  OBVIOUS
<1>2. 1 \in DOMAIN w  BY <1>1
<1> HIDE DEF v
<1>3. Waits(v, id) => Waits(w, id)
  <2> SUFFICES ASSUME Waits(v, id) PROVE Waits(w, id)  OBVIOUS
  <2>1. PICK i \in DOMAIN v : v[i] \in Calling(id) /\ \A j \in DOMAIN v : j > i => v[j] \notin Releasing(id)
    BY DEF Waits
  <2>2. i + 1 \in DOMAIN w /\ w[i + 1] \in Calling(id) /\ i \in Int  BY <1>1, <2>1
  <2>3. ASSUME NEW j \in DOMAIN w, j > i + 1 PROVE w[j] \notin Releasing(id)
    <3>1. j \in Int /\ j - 1 \in DOMAIN v /\ j - 1 > i /\ v[j - 1] = w[j - 1 + 1] /\ j - 1 + 1 = j
      BY <1>1, <2>2, <2>3
    <3> QED  BY <2>1, <3>1
  <2> QED  BY <2>2, <2>3 DEF Waits
<1>4. Head(w) \in Calling(id) => Waits(w, id) \/ \E j \in DOMAIN w : w[j] \in Releasing(id)
  BY <1>1, <1>2 DEF Waits
<1> QED  BY <1>3, <1>4 DEF v

LEMMA NobodyWaits == \A id : ~Waits(<< >>, id)
BY DEF Waits

LEMMA OwedWithin ==
  ASSUME NEW id, NEW ts, NEW px, NEW pa, NEW us, NEW qx, NEW qa,
         IsFiniteSet(Owed(ts, px, pa, id)),
         \A d \in Clients :
           Waits(us[d], id) /\ (\A p \in Proxies(qx, qa, id) : ClientOf[p] # d) =>
             Waits(ts[d], id) /\ (\A p \in Proxies(px, pa, id) : ClientOf[p] # d)
  PROVE  /\ IsFiniteSet(Owed(us, qx, qa, id))
         /\ Cardinality(Owed(us, qx, qa, id)) \in Nat /\ Cardinality(Owed(ts, px, pa, id)) \in Nat
         /\ Cardinality(Owed(us, qx, qa, id)) <= Cardinality(Owed(ts, px, pa, id))
BY FS_Subset, FS_CardinalityType DEF Owed

LEMMA ProxiesFinite ==
  ASSUME NEW px, NEW pa, NEW id
  PROVE  IsFiniteSet(Proxies(px, pa, id)) /\ Cardinality(Proxies(px, pa, id)) \in Nat
BY CallsAssumption, FS_Subset, FS_CardinalityType DEF Proxies

-----------------------------------------------------------------------------
(* The state after a step.                                                 *)

LEMMA CoveredAfter ==
  Covered' <=> \A id \in Ids : Covers(id, toServer', toClient', proxy', pinnedAs', users', connected', refCount')
BY DEF Covered, Covers, References, Spots, Owed, Proxies, Waits

LEMMA NoneForeseenAfter ==
  NoneForeseen' <=> \A id \in Ids : id > lastId' => Fresh(id, toServer', toClient', pinnedAs', current')
BY DEF NoneForeseen, Fresh, In

\* The numbers of an id.
LEMMA NumbersAre ==
  ASSUME PinsInv, NEW id \in Ids
  PROVE  /\ Covers(id, toServer, toClient, proxy, pinnedAs, users, connected, refCount)
         /\ Cardinality(Spots(toServer, Releasing(id))) \in Nat
         /\ Cardinality(Spots(toClient, Pinning(id))) \in Nat
         /\ Cardinality(Proxies(proxy, pinnedAs, id)) \in Nat
         /\ Cardinality(Owed(toServer, proxy, pinnedAs, id)) \in Nat
         /\ refCount \in [ Ids -> Nat ] /\ refCount[id] \in Nat
BY ProxiesFinite, FS_CardinalityType DEF PinsInv, PinParts, Covered, CallsInv, TypeOK, Covers

-----------------------------------------------------------------------------
(* One lemma for each operation.                                           *)

LEMMA TrackAskPins ==
  ASSUME PinsInv, NEW c \in Calls, NEW target \in Ids \cup { NoId }, NEW live \in BOOLEAN,
         TrackAsk(c, Request(c, target, live)),
         target # NoId => /\ \E p \in Calls : pinnedAs[p] = target
                          /\ live => \E p \in Proxies(proxy, pinnedAs, target) : ClientOf[p] = ClientOf[c]
  PROVE  PinParts'
<1> DEFINE m == Request(c, target, live)
<1> DEFINE cl == ClientOf[c]
<1>1. /\ CallsInv /\ cl \in Clients /\ status[c] = "idle"
      /\ UNCHANGED << connectionVars, toClient, executing, pinVars, proxyVars, silent, missed >>
      /\ toServer' = Sent(toServer, cl, m) \/ toServer' = toServer
      /\ status' \in { [ status EXCEPT ![c] = "pending" ], [ status EXCEPT ![c] = "rejected" ] }
  BY CallFacts DEF TrackAsk, PinsInv
<1>2. m \in ToServer  BY MessagesAre DEF ToServer
<1>20. ASSUME NEW id \in Ids
       PROVE  /\ m \notin Releasing(id) /\ (m \in Calling(id) <=> target = id /\ live)
              /\ m \in Naming(id) <=> target = id
  BY KindsAre
<1> HIDE DEF m, cl
<1>3. Settled' /\ LiveCallsFind'
  BY <1>1 DEF PinsInv, PinParts, Settled, CallsInv, TypeOK, LiveCallsFind, proxyVars
<1>4. Served'  BY <1>1, CallFacts DEF Served, Sent, connectionVars, PinsInv, PinParts, CallsInv, TypeOK
<1>5. NoneForeseen'
  <2>1. ASSUME NEW id \in Ids, id > lastId'
        PROVE  Fresh(id, toServer', toClient', pinnedAs', current')
    <3>1. Fresh(id, toServer, toClient, pinnedAs, current)
      BY <1>1, <2>1 DEF PinsInv, PinParts, NoneForeseen, pinVars
    <3>2. m \notin Naming(id)  BY <1>20, <3>1, KindsAre DEF Fresh
    <3>3. \A d \in Clients : In(toServer'[d], Naming(id)) => In(toServer[d], Naming(id))
      BY <1>1, <1>2, <3>2, WireTypes, SendingFrame
    <3> QED  BY <1>1, <3>1, <3>3 DEF Fresh, pinVars, proxyVars
  <2> QED  BY <2>1, NoneForeseenAfter
<1>6. Covered'
  <2>1. ASSUME NEW id \in Ids
        PROVE  Covers(id, toServer', toClient', proxy', pinnedAs', users', connected', refCount')
    <3> DEFINE R == Releasing(id)
    <3>1. /\ IsFiniteSet(Spots(toServer, R)) /\ IsFiniteSet(Owed(toServer, proxy, pinnedAs, id))
          /\ Cardinality(Spots(toServer, R)) \in Nat
      BY NumbersAre DEF Covers
    <3>2. m \notin R  BY <1>20
    <3>3. /\ IsFiniteSet(Spots(toServer', R))
          /\ Cardinality(Spots(toServer', R)) = Cardinality(Spots(toServer, R))
      <4> HIDE DEF R
      <4>1. CASE toServer' = Sent(toServer, cl, m)  BY <1>1, <1>2, <3>1, <3>2, WireTypes, SpotsSent, <4>1
      <4>2. CASE toServer' = toServer  BY <3>1, <4>2
      <4> QED  BY <1>1, <4>1, <4>2
    <3>4. ASSUME NEW d \in Clients, Waits(toServer'[d], id),
                 \A p \in Proxies(proxy, pinnedAs, id) : ClientOf[p] # d
          PROVE  Waits(toServer[d], id)
      <4>1. CASE toServer'[d] = toServer[d]  BY <3>4, <4>1
      <4>2. CASE toServer'[d] # toServer[d]
        <5>1. d = cl /\ toServer'[d] = Append(toServer[d], m)  BY <1>1, <4>2, WireTypes DEF Sent, Wires
        <5>2. m \notin Calling(id)  BY <1>20, <3>4, <5>1, KindsAre DEF cl
        <5> QED  BY <1>1, <1>2, <3>4, <5>1, <5>2, WireTypes, WaitsSent
      <4> QED  BY <4>1, <4>2
    <3>5. /\ IsFiniteSet(Owed(toServer', proxy, pinnedAs, id))
          /\ Cardinality(Owed(toServer', proxy, pinnedAs, id)) \in Nat
          /\ Cardinality(Owed(toServer', proxy, pinnedAs, id)) <= Cardinality(Owed(toServer, proxy, pinnedAs, id))
      BY <3>1, <3>4, OwedWithin
    <3>6. UNCHANGED << toClient, proxy, pinnedAs, users, connected, refCount >>
      BY <1>1 DEF connectionVars, pinVars, proxyVars
    <3> HIDE DEF R
    <3> QED  BY <3>3, <3>5, <3>6, NumbersAre DEF Covers, References, R
  <2> QED  BY <2>1, CoveredAfter
<1> QED  BY <1>3, <1>4, <1>5, <1>6 DEF PinParts

\* Nothing changes but the state of calls that brought no proxy, and links break.
LEMMA NothingPinned ==
  ASSUME PinsInv, connected' \in { connected } \cup { connected \ { cl } : cl \in Clients },
         \A p \in Calls : status[p] \in { "idle", "pending" } \/ status'[p] \notin { "idle", "pending" },
         UNCHANGED << serving, users, toServer, toClient, pinVars, proxyVars, missed >>
  PROVE  PinParts'
<1>1. Settled' /\ LiveCallsFind' /\ Served'
  BY DEF Settled, LiveCallsFind, Served, proxyVars, PinsInv, PinParts
<1>2. NoneForeseen'  BY NoneForeseenAfter DEF NoneForeseen, pinVars, proxyVars, PinsInv, PinParts
<1>3. Covered'
  <2>1. connected' = connected \/ connected' # Clients  OBVIOUS
  <2>2. ASSUME NEW id \in Ids
        PROVE  Covers(id, toServer', toClient', proxy', pinnedAs', users', connected', refCount')
    BY <2>1, NumbersAre DEF Covers, pinVars, proxyVars
  <2> QED  BY <2>2, CoveredAfter
<1> QED  BY <1>1, <1>2, <1>3 DEF PinParts

LEMMA FreePins ==
  ASSUME PinsInv, NEW p \in Calls, Free(p)
  PROVE  PinParts'
<1> DEFINE q == pinnedAs[p]
<1> DEFINE cl == ClientOf[p]
<1> DEFINE m == Release(q)
<1>1. /\ CallsInv /\ cl \in Clients /\ q \in Ids /\ proxy[p] = "live"
      /\ proxy' = [ proxy EXCEPT ![p] = "freed" ]
      /\ UNCHANGED << status, connectionVars, toClient, pinVars, pinnedAs, missed >>
      /\ proxy \in [ Calls -> { "none", "live", "freed" } ]
  BY CallFacts DEF Free, PinsInv, CallsInv, Named, TypeOK
<1>2. toServer' = IF cl \in connected THEN Sent(toServer, cl, m) ELSE toServer
  BY CallFacts DEF Free, PinsInv, Sent
<1>3. m \in ToServer  BY <1>1, MessagesAre DEF ToServer
<1>4. ASSUME NEW id \in Ids
      PROVE  /\ m \notin Calling(id) /\ (m \in Releasing(id) <=> q = id)
             /\ m \in Naming(id) <=> q = id
  BY <1>1, KindsAre
<1>5. /\ p \in Proxies(proxy, pinnedAs, q)
      /\ Proxies(proxy', pinnedAs', q) = Proxies(proxy, pinnedAs, q) \ { p }
      /\ \A id \in Ids : id # q => Proxies(proxy', pinnedAs', id) = Proxies(proxy, pinnedAs, id)
  BY <1>1 DEF Proxies
<1> HIDE DEF m, cl, q
<1>6. Settled' /\ LiveCallsFind'  BY <1>1 DEF Settled, LiveCallsFind, PinsInv, PinParts
<1>7. Served'  BY <1>1, <1>2, CallFacts DEF Served, Sent, connectionVars, PinsInv, PinParts, CallsInv, TypeOK
<1>8. NoneForeseen'
  <2>1. ASSUME NEW id \in Ids, id > lastId'
        PROVE  Fresh(id, toServer', toClient', pinnedAs', current')
    <3>1. Fresh(id, toServer, toClient, pinnedAs, current)
      BY <1>1, <2>1 DEF PinsInv, PinParts, NoneForeseen, pinVars
    <3>2. m \notin Naming(id)  BY <1>4, <3>1 DEF Fresh, q
    <3>3. \A d \in Clients : In(toServer'[d], Naming(id)) => In(toServer[d], Naming(id))
      BY <1>1, <1>2, <1>3, <3>2, WireTypes, SendingFrame
    <3> QED  BY <1>1, <3>1, <3>3 DEF Fresh, pinVars
  <2> QED  BY <2>1, NoneForeseenAfter
<1>9. Covered'
  <2>1. ASSUME NEW id \in Ids
        PROVE  Covers(id, toServer', toClient', proxy', pinnedAs', users', connected', refCount')
    <3> DEFINE R == Releasing(id)
    <3> DEFINE O == Owed(toServer, proxy, pinnedAs, id)
    <3> DEFINE O2 == Owed(toServer', proxy', pinnedAs', id)
    <3>1. /\ IsFiniteSet(Spots(toServer, R)) /\ IsFiniteSet(O)
          /\ Cardinality(Spots(toServer, R)) \in Nat /\ Cardinality(O) \in Nat
      BY NumbersAre DEF Covers
    <3>2. m \in R <=> q = id  BY <1>4
    <3>3. /\ IsFiniteSet(Spots(toServer', R))
          /\ Cardinality(Spots(toServer', R)) =
               Cardinality(Spots(toServer, R)) + IF cl \in connected /\ q = id THEN 1 ELSE 0
      <4> HIDE DEF R
      <4>1. CASE cl \in connected  BY <1>1, <1>3, <3>1, WireTypes, SpotsSent, <1>2, <3>2, <4>1
      <4>2. CASE cl \notin connected  BY <1>2, <3>1, <4>2
      <4> QED  BY <4>1, <4>2
    <3>4. ASSUME NEW d \in Clients, Waits(toServer'[d], id) PROVE Waits(toServer[d], id)
      <4>1. CASE toServer'[d] = toServer[d]  BY <3>4, <4>1
      <4>2. CASE toServer'[d] # toServer[d]
        <5>1. d = cl /\ toServer'[d] = Append(toServer[d], m)  BY <1>1, <1>2, <4>2, WireTypes DEF Sent, Wires
        <5> QED  BY <1>1, <1>3, <1>4, <3>4, <5>1, WireTypes, WaitsSent
      <4> QED  BY <4>1, <4>2
    <3>5. /\ IsFiniteSet(O2) /\ Cardinality(O2) \in Nat
          /\ Cardinality(O2) <= Cardinality(O) + IF cl \notin connected /\ q = id THEN 1 ELSE 0
      <4>1. CASE cl \notin connected /\ q = id
        <5>1. O2 \subseteq O \cup { cl }
          <6> SUFFICES ASSUME NEW d \in O2, d # cl PROVE d \in O  OBVIOUS
          <6>1. d \in Clients /\ Waits(toServer[d], id)  BY <3>4 DEF Owed
          <6>2. \A r \in Proxies(proxy, pinnedAs, id) : ClientOf[r] # d  BY <1>5, <4>1 DEF Owed, cl
          <6> QED  BY <6>1, <6>2 DEF Owed
        <5> HIDE DEF O, O2
        <5>2. IsFiniteSet(O \cup { cl }) /\ Cardinality(O \cup { cl }) <= Cardinality(O) + 1
          <6>1. /\ IsFiniteSet(O \cup { cl })
                /\ Cardinality(O \cup { cl }) = IF cl \in O THEN Cardinality(O) ELSE Cardinality(O) + 1
            BY <3>1, FS_AddElement
          <6> QED  BY <3>1, <6>1
        <5>3. IsFiniteSet(O2) /\ Cardinality(O2) \in Nat /\ Cardinality(O2) <= Cardinality(O \cup { cl })
          BY <5>1, <5>2, FS_Subset, FS_CardinalityType
        <5>4. Cardinality(O \cup { cl }) \in Nat  BY <5>2, FS_CardinalityType
        <5> QED  BY <3>1, <4>1, <5>2, <5>3, <5>4
      <4>2. CASE ~(cl \notin connected /\ q = id)
        <5>1. ASSUME NEW d \in Clients, Waits(toServer'[d], id),
                     \A r \in Proxies(proxy', pinnedAs', id) : ClientOf[r] # d
              PROVE  Waits(toServer[d], id) /\ \A r \in Proxies(proxy, pinnedAs, id) : ClientOf[r] # d
          <6>1. CASE q # id  BY <1>5, <3>4, <5>1, <6>1
          <6>2. CASE q = id /\ d # cl  BY <1>5, <3>4, <5>1, <6>2 DEF cl
          <6>3. CASE q = id /\ d = cl
            <7>1. toServer'[d] = Append(toServer[d], m)  BY <1>1, <1>2, <4>2, <6>3, WireTypes DEF Sent, Wires
            <7> QED  BY <1>1, <1>3, <1>4, <5>1, <6>3, <7>1, WireTypes, WaitsSent
          <6> QED  BY <6>1, <6>2, <6>3
        <5> QED  BY <3>1, <4>2, <5>1, OwedWithin
      <4> QED  BY <4>1, <4>2
    <3>6. Cardinality(Proxies(proxy', pinnedAs', id)) =
            Cardinality(Proxies(proxy, pinnedAs, id)) - IF q = id THEN 1 ELSE 0
      <4>1. CASE q = id  BY <1>5, <4>1, ProxiesFinite, FS_RemoveElement
      <4>2. CASE q # id  BY <1>5, <4>2, ProxiesFinite
      <4> QED  BY <4>1, <4>2
    <3>7. UNCHANGED << toClient, users, connected, refCount >>  BY <1>1 DEF connectionVars, pinVars
    <3>8. cl \notin connected => connected # Clients  BY <1>1
    <3>9. Cardinality(Proxies(proxy', pinnedAs', id)) \in Nat  BY ProxiesFinite
    <3> HIDE DEF R, O, O2
    <3> QED  BY <3>3, <3>5, <3>6, <3>7, <3>8, <3>9, NumbersAre DEF Covers, References, R, O, O2
  <2> QED  BY <2>1, CoveredAfter
<1> QED  BY <1>6, <1>7, <1>8, <1>9 DEF PinParts

LEMMA HandleResponsePins ==
  ASSUME PinsInv, NEW cl \in Clients, HandleResponse(cl)
  PROVE  PinParts'
<1> DEFINE m == Head(toClient[cl])
<1> DEFINE k == m.call
<1> DEFINE q == m.pin
<1> DEFINE gained == status[k] = "pending" /\ q # NoId
<1>1. /\ CallsInv /\ toClient[cl] # << >> /\ toClient' = Took(toClient, cl)
      /\ UNCHANGED << connectionVars, toServer, executing, pinVars, silent, missed >>
  BY DEF HandleResponse, Took, PinsInv
<1>2. /\ Took(toClient, cl) \in Wires(Responses) /\ m \in Responses
      /\ \A M : \A d \in Clients : In(toClient[d], M) <=> In(Took(toClient, cl)[d], M) \/ (d = cl /\ m \in M)
  BY <1>1, WireTypes, TakingFrame
<1>3. k \in Calls /\ q \in Ids \cup { NoId } /\ m \in Answering(k)  BY <1>2, MessagesAre
<1>4. ClientOf[k] = cl  BY <1>1, <1>2, <1>3 DEF CallsInv, Addressed
<1>5. cl \in connected => status[k] = "pending"  BY <1>1, <1>2, <1>3, <1>4, CallFacts DEF At
<1>6. /\ status' = status \/ (status[k] = "pending"
                             /\ status' = [ status EXCEPT ![k] = IF m.success THEN "resolved" ELSE "rejected" ])
      /\ gained => /\ proxy' = [ proxy EXCEPT ![k] = "live" ]
                   /\ pinnedAs' = [ pinnedAs EXCEPT ![k] = q ]
      /\ ~gained => UNCHANGED << proxy, pinnedAs >>
  BY DEF HandleResponse, proxyVars
<1>7. ASSUME NEW id \in Ids PROVE m \in Pinning(id) <=> q = id  BY <1>2, KindsAre
<1>8. /\ proxy \in [ Calls -> { "none", "live", "freed" } ] /\ pinnedAs \in [ Calls -> Ids \cup { NoId } ]
      /\ status \in [ Calls -> { "idle", "pending", "resolved", "rejected" } ]
      /\ status[k] = "pending" => proxy[k] = "none"
  BY <1>1, <1>3 DEF CallsInv, TypeOK, PinsInv, PinParts, Settled
<1> HIDE DEF m, k, q
<1>9. Settled' /\ LiveCallsFind'
  <2>1. \A p \in Calls : proxy'[p] # "none" => proxy[p] # "none" \/ (p = k /\ gained)  BY <1>6, <1>8
  <2>2. \A p \in Calls : status'[p] = status[p] \/ status'[p] \in { "resolved", "rejected" }  BY <1>6, <1>8
  <2>3. gained => status'[k] \in { "resolved", "rejected" }  BY <1>3, <1>6, <1>8 DEF HandleResponse, m, k, q
  <2> QED  BY <1>1, <2>1, <2>2, <2>3 DEF Settled, LiveCallsFind, PinsInv, PinParts
<1>10. Served'  BY <1>1 DEF Served, connectionVars, PinsInv, PinParts
<1>11. NoneForeseen'
  <2>1. ASSUME NEW id \in Ids, id > lastId'
        PROVE  Fresh(id, toServer', toClient', pinnedAs', current')
    <3>1. Fresh(id, toServer, toClient, pinnedAs, current)
      BY <1>1, <2>1 DEF PinsInv, PinParts, NoneForeseen, pinVars
    <3>2. q # id  BY <1>2, <1>7, <3>1 DEF Fresh
    <3>3. \A p \in Calls : pinnedAs'[p] # id  BY <1>6, <1>8, <3>1, <3>2 DEF Fresh
    <3> QED  BY <1>1, <1>2, <3>1, <3>3 DEF Fresh, pinVars
  <2> QED  BY <2>1, NoneForeseenAfter
<1>12. Covered'
  <2>1. ASSUME NEW id \in Ids
        PROVE  Covers(id, toServer', toClient', proxy', pinnedAs', users', connected', refCount')
    <3> DEFINE B == Pinning(id)
    <3> DEFINE O == Owed(toServer, proxy, pinnedAs, id)
    <3> DEFINE O2 == Owed(toServer', proxy', pinnedAs', id)
    <3> DEFINE P == Proxies(proxy, pinnedAs, id)
    <3> DEFINE P2 == Proxies(proxy', pinnedAs', id)
    <3>1. /\ IsFiniteSet(Spots(toClient, B)) /\ IsFiniteSet(O)
          /\ Cardinality(Spots(toClient, B)) \in Nat /\ Cardinality(O) \in Nat
      BY NumbersAre DEF Covers
    <3>2. /\ IsFiniteSet(Spots(toClient', B))
          /\ Cardinality(Spots(toClient', B)) =
               Cardinality(Spots(toClient, B)) - IF q = id THEN 1 ELSE 0
      <4>1. m \in B <=> q = id  BY <1>7
      <4> HIDE DEF B
      <4>2. /\ IsFiniteSet(Spots(Took(toClient, cl), B))
            /\ Cardinality(Spots(Took(toClient, cl), B)) =
                 Cardinality(Spots(toClient, B)) - IF m \in B THEN 1 ELSE 0
        BY <1>1, <3>1, WireTypes, SpotsTook DEF m
      <4> QED  BY <1>1, <4>1, <4>2
    <3>3. P2 = IF gained /\ q = id THEN P \cup { k } ELSE P  BY <1>3, <1>6, <1>8 DEF Proxies
    <3>4. gained => k \notin P  BY <1>8 DEF Proxies
    <3>5. /\ Cardinality(P2) = Cardinality(P) + IF gained /\ q = id THEN 1 ELSE 0
          /\ Cardinality(P) \in Nat
      <4>1. IsFiniteSet(P) /\ Cardinality(P) \in Nat  BY ProxiesFinite
      <4> HIDE DEF P, P2
      <4>2. CASE gained /\ q = id  BY <3>3, <3>4, <4>1, <4>2, FS_AddElement
      <4>3. CASE ~(gained /\ q = id)  BY <3>3, <4>1, <4>3
      <4> QED  BY <4>1, <4>2, <4>3
    <3>6. IsFiniteSet(O2) /\ Cardinality(O2) \in Nat /\ Cardinality(O2) <= Cardinality(O)
      BY <3>3, <1>1, <3>1, OwedWithin
    <3>7. UNCHANGED << toServer, users, connected, refCount >>  BY <1>1 DEF connectionVars, pinVars
    <3>8. connected = Clients /\ q = id => gained  BY <1>5, KindsAre
    <3> HIDE DEF B, O, O2, P, P2, gained
    <3> QED  BY <3>2, <3>5, <3>6, <3>7, <3>8, NumbersAre DEF Covers, References, B, O, O2, P, P2
  <2> QED  BY <2>1, CoveredAfter
<1> QED  BY <1>9, <1>10, <1>11, <1>12 DEF PinParts

\* A call that was made on a live proxy finds its object: the proxy is held,
\* its release lies behind the call, or it is owed.
LEMMA CallFinds ==
  ASSUME PinsInv, NEW cl \in Clients, toServer[cl] # << >>, NEW id \in Ids,
         Head(toServer[cl]) \in Calling(id)
  PROVE  refCount[id] > 0
<1> DEFINE w == toServer[cl]
<1>1. CallsInv /\ cl \in users  BY DEF PinsInv, PinParts, Served
<1>2. Waits(w, id) \/ \E j \in DOMAIN w : w[j] \in Releasing(id)  BY <1>1, WireTypes, WaitsTook
<1>3. \/ \E x : x \in Spots(toServer, Releasing(id))
      \/ \E x : x \in Proxies(proxy, pinnedAs, id)
      \/ \E x : x \in Owed(toServer, proxy, pinnedAs, id)
  <2>1. CASE \E j \in DOMAIN w : w[j] \in Releasing(id)  BY <1>1, <2>1, WireTypes, SpotsOf
  <2>2. CASE Waits(w, id)  BY <2>2 DEF Owed
  <2> QED  BY <1>2, <2>1, <2>2
<1>4. /\ IsFiniteSet(Spots(toServer, Releasing(id))) /\ IsFiniteSet(Proxies(proxy, pinnedAs, id))
      /\ IsFiniteSet(Owed(toServer, proxy, pinnedAs, id))
  BY NumbersAre, ProxiesFinite DEF Covers
<1>5. \/ Cardinality(Spots(toServer, Releasing(id))) # 0
      \/ Cardinality(Proxies(proxy, pinnedAs, id)) # 0
      \/ Cardinality(Owed(toServer, proxy, pinnedAs, id)) # 0
  BY <1>3, <1>4, FS_EmptySet
<1> QED  BY <1>1, <1>5, NumbersAre DEF Covers, References

LEMMA ReceiveAtServerPins ==
  ASSUME PinsInv, NEW cl \in Clients, ReceiveAtServer(cl)
  PROVE  PinParts'
<1> DEFINE m == Head(toServer[cl])
<1> DEFINE q == m.target
<1> DEFINE released == m.type = "release"
<1> DEFINE n == Response(m.call, FALSE, NoId)
<1>1. /\ CallsInv /\ toServer[cl] # << >> /\ toServer' = Took(toServer, cl)
      /\ UNCHANGED << status, connectionVars, proxyVars, silent >>
  BY DEF ReceiveAtServer, Took, PinsInv
<1>2. /\ Took(toServer, cl) \in Wires(ToServer) /\ m \in ToServer
      /\ \A M : \A d \in Clients : In(toServer[d], M) <=> In(Took(toServer, cl)[d], M) \/ (d = cl /\ m \in M)
  BY <1>1, WireTypes, TakingFrame
<1>3. /\ released => m \in Releases /\ q \in Ids
      /\ ~released => m \in Requests /\ m.call \in Calls /\ n \in Responses
  <2>1. /\ m.type = "release" => m \in Releases /\ m.target \in Ids
        /\ m.type # "release" => m \in Requests /\ m.call \in Calls
    BY <1>2, MessagesAre DEF ToServer
  <2>2. ASSUME NEW c \in Calls PROVE Response(c, FALSE, NoId) \in Responses  BY MessagesAre
  <2> QED  BY <2>1, <2>2
<1>4. /\ ~released => UNCHANGED pinVars
      /\ released => ReleaseResource(q) /\ UNCHANGED << toClient, missed >>
      /\ toClient' = toClient \/ (~released /\ toClient' = Sent(toClient, cl, n))
      /\ missed' = missed \/ (~released /\ q # NoId /\ ~(refCount[q] > 0)
                              /\ missed' = missed \cup { c \in { m.call } : m.live })
  BY <1>2 DEF ReceiveAtServer, ExecuteAsk, HandlePinCall, HandleRelease, pinVars
<1>5. ASSUME NEW id \in Ids
      PROVE  /\ m \in Releasing(id) <=> released /\ q = id
             /\ ~released => n \notin Pinning(id)
  <2>1. m \in Releasing(id) <=> m.type = "release" /\ m.target = id  BY <1>2, KindsAre
  <2>2. ASSUME NEW c \in Calls PROVE Response(c, FALSE, NoId) \notin Pinning(id)  BY KindsAre
  <2> QED  BY <1>3, <2>1, <2>2
<1> HIDE DEF n
<1>6. LiveCallsFind'
  <2> SUFFICES ASSUME ~released, q # NoId, ~(refCount[q] > 0), m.live PROVE FALSE
    BY <1>4 DEF LiveCallsFind, PinsInv, PinParts
  <2>1. q \in Ids /\ m \in Calling(q)  BY <1>3 DEF Requests, Calling
  <2> QED  BY <1>1, <2>1, CallFinds
<1> HIDE DEF m, q, released
<1>7. Settled' /\ Served'  BY <1>1 DEF Settled, Served, connectionVars, proxyVars, PinsInv, PinParts, Took
<1>8. lastId' = lastId /\ current' \in { current, NoId }  BY <1>4 DEF ReleaseResource, pinVars
<1>9. NoneForeseen'
  <2>1. ASSUME NEW id \in Ids, id > lastId'
        PROVE  Fresh(id, toServer', toClient', pinnedAs', current')
    <3>1. Fresh(id, toServer, toClient, pinnedAs, current)  BY <1>8, <2>1 DEF PinsInv, PinParts, NoneForeseen
    <3>2. current' # id  BY <1>8, <3>1, KindsAre DEF Fresh
    <3>3. \A d \in Clients : In(toClient'[d], Pinning(id)) => In(toClient[d], Pinning(id))
      <4>1. CASE ~released /\ toClient' = Sent(toClient, cl, n)
        BY <1>1, <1>3, <1>5, <4>1, WireTypes, SendingFrame
      <4> QED  BY <1>4, <4>1
    <3> QED  BY <1>1, <1>2, <3>1, <3>2, <3>3 DEF Fresh, proxyVars
  <2> QED  BY <2>1, NoneForeseenAfter
<1>10. Covered'
  <2>1. ASSUME NEW id \in Ids
        PROVE  Covers(id, toServer', toClient', proxy', pinnedAs', users', connected', refCount')
    <3> DEFINE R == Releasing(id)
    <3> DEFINE B == Pinning(id)
    <3> DEFINE O == Owed(toServer, proxy, pinnedAs, id)
    <3> DEFINE O2 == Owed(toServer', proxy', pinnedAs', id)
    <3>1. /\ IsFiniteSet(Spots(toServer, R)) /\ IsFiniteSet(O) /\ IsFiniteSet(Spots(toClient, B))
          /\ Cardinality(Spots(toServer, R)) \in Nat /\ Cardinality(O) \in Nat
          /\ Cardinality(Spots(toClient, B)) \in Nat
      BY NumbersAre DEF Covers
    <3>2. /\ IsFiniteSet(Spots(toServer', R))
          /\ Cardinality(Spots(toServer', R)) =
               Cardinality(Spots(toServer, R)) - IF released /\ q = id THEN 1 ELSE 0
          /\ Cardinality(Spots(toServer', R)) \in Nat
      <4>1. m \in R <=> released /\ q = id  BY <1>5
      <4> HIDE DEF R
      <4>2. /\ IsFiniteSet(Spots(Took(toServer, cl), R))
            /\ Cardinality(Spots(Took(toServer, cl), R)) =
                 Cardinality(Spots(toServer, R)) - IF m \in R THEN 1 ELSE 0
        BY <1>1, <3>1, WireTypes, SpotsTook DEF m
      <4>3. Cardinality(Spots(Took(toServer, cl), R)) \in Nat  BY <4>2, FS_CardinalityType
      <4> QED  BY <1>1, <4>1, <4>2, <4>3
    <3>3. /\ IsFiniteSet(Spots(toClient', B))
          /\ Cardinality(Spots(toClient', B)) = Cardinality(Spots(toClient, B))
      <4>1. CASE ~released /\ toClient' = Sent(toClient, cl, n)
        <5>1. n \notin B  BY <1>5, <4>1
        <5> HIDE DEF B
        <5>2. /\ IsFiniteSet(Spots(Sent(toClient, cl, n), B))
              /\ Cardinality(Spots(Sent(toClient, cl, n), B)) =
                   Cardinality(Spots(toClient, B)) + IF cl \in connected /\ n \in B THEN 1 ELSE 0
          BY <1>1, <1>3, <3>1, <4>1, WireTypes, SpotsSent
        <5> QED  BY <3>1, <4>1, <5>1, <5>2
      <4>2. CASE toClient' = toClient  BY <3>1, <4>2
      <4> QED  BY <1>4, <4>1, <4>2
    <3>4. IsFiniteSet(O2) /\ Cardinality(O2) \in Nat /\ Cardinality(O2) <= Cardinality(O)
      <4>1. ASSUME NEW d \in Clients, Waits(toServer'[d], id) PROVE Waits(toServer[d], id)
        <5>1. CASE d = cl  BY <1>1, <5>1, WireTypes, <4>1, WaitsTook DEF Took, Wires
        <5>2. CASE d # cl  BY <1>1, <5>2, WireTypes, <4>1 DEF Took, Wires
        <5> QED  BY <5>1, <5>2
      <4>2. UNCHANGED << proxy, pinnedAs >>  BY <1>1 DEF proxyVars
      <4> QED  BY <3>1, <4>1, <4>2, OwedWithin
    <3>5. /\ ~released \/ q # id => refCount'[id] = refCount[id]
          /\ released /\ q = id => refCount'[id] = IF refCount[id] = 0 THEN 0 ELSE refCount[id] - 1
      BY <1>3, <1>4, NumbersAre DEF ReleaseResource, pinVars
    <3>6. UNCHANGED << proxy, pinnedAs, users, connected >>  BY <1>1 DEF connectionVars, proxyVars
    <3> HIDE DEF R, B, O, O2
    <3>7. released /\ q = id => Cardinality(Spots(toServer, R)) >= 1  BY <3>1, <3>2
    <3> QED  BY <3>2, <3>3, <3>4, <3>5, <3>6, <3>7, NumbersAre DEF Covers, References, R, B, O, O2
  <2> QED  BY <2>1, CoveredAfter
<1> QED  BY <1>6, <1>7, <1>9, <1>10 DEF PinParts

\* A procedure returns: with q = NoId something else than the object.
LEMMA AnsweringPins ==
  ASSUME PinsInv, NEW m \in executing, ProcedureEnds(m), NEW success \in BOOLEAN,
         NEW q \in Ids \cup { NoId }, Respond(m.call, Response(m.call, success, q)),
         \/ q = NoId /\ UNCHANGED pinVars
         \/ /\ q # NoId /\ q = current /\ UNCHANGED << current, lastId >>
            /\ refCount' = [ refCount EXCEPT ![q] = @ + 1 ]
         \/ /\ q # NoId /\ q = lastId + 1 /\ current' = q /\ lastId' = q
            /\ refCount' = [ refCount EXCEPT ![q] = 1 ]
  PROVE  PinParts'
<1> DEFINE cl == ClientOf[m.call]
<1> DEFINE n == Response(m.call, success, q)
<1>1. /\ CallsInv /\ m.call \in Calls /\ cl \in Clients /\ lastId \in Nat
      /\ UNCHANGED << status, connectionVars, toServer, proxyVars, missed >>
      /\ connected \subseteq serving
  BY CallFacts DEF ProcedureEnds, PinsInv, CallsInv, TypeOK, Requests
<1>2. toClient' = IF cl \in connected THEN Sent(toClient, cl, n) ELSE toClient  BY <1>1 DEF Respond, Sent
<1>3. n \in Responses  BY <1>1, MessagesAre
<1>4. ASSUME NEW id \in Ids PROVE n \in Pinning(id) <=> q = id  BY <1>1, KindsAre
<1> HIDE DEF n, cl
<1>5. Settled' /\ Served' /\ LiveCallsFind'
  BY <1>1 DEF Settled, Served, LiveCallsFind, connectionVars, proxyVars, PinsInv, PinParts
<1>6. NoneForeseen'
  <2>1. ASSUME NEW id \in Ids, id > lastId'
        PROVE  Fresh(id, toServer', toClient', pinnedAs', current')
    <3>1. id > lastId /\ q # id /\ current' \in { current, q }
      <4>1. CASE q = NoId /\ UNCHANGED pinVars  BY <2>1, <4>1, KindsAre DEF pinVars
      <4>2. CASE q = current /\ UNCHANGED << current, lastId >>
        BY <2>1, <4>2 DEF PinsInv, PinParts, NoneForeseen, Fresh
      <4>3. CASE q = lastId + 1 /\ current' = q /\ lastId' = q  BY <1>1, <2>1, <4>3 DEF Ids
      <4> QED  BY <4>1, <4>2, <4>3
    <3>2. Fresh(id, toServer, toClient, pinnedAs, current)  BY <3>1 DEF PinsInv, PinParts, NoneForeseen
    <3>3. \A d \in Clients : In(toClient'[d], Pinning(id)) => In(toClient[d], Pinning(id))
      BY <1>4, <3>1, <1>1, <1>2, <1>3, WireTypes, SendingFrame
    <3> QED  BY <1>1, <3>1, <3>2, <3>3 DEF Fresh, proxyVars
  <2> QED  BY <2>1, NoneForeseenAfter
<1>7. Covered'
  <2>1. ASSUME NEW id \in Ids
        PROVE  Covers(id, toServer', toClient', proxy', pinnedAs', users', connected', refCount')
    <3> DEFINE R == Releasing(id)
    <3> DEFINE B == Pinning(id)
    <3> DEFINE O == Owed(toServer, proxy, pinnedAs, id)
    <3> DEFINE P == Proxies(proxy, pinnedAs, id)
    <3>1. /\ IsFiniteSet(Spots(toClient, B)) /\ Cardinality(Spots(toClient, B)) \in Nat
      BY NumbersAre DEF Covers
    <3>2. n \in B <=> q = id  BY <1>4
    <3>3. /\ IsFiniteSet(Spots(toClient', B))
          /\ Cardinality(Spots(toClient', B)) =
               Cardinality(Spots(toClient, B)) + IF cl \in connected /\ q = id THEN 1 ELSE 0
      <4> HIDE DEF B
      <4>1. CASE cl \in connected  BY <1>1, <1>3, <3>1, WireTypes, SpotsSent, <1>2, <3>2, <4>1
      <4>2. CASE cl \notin connected  BY <1>2, <3>1, <4>2
      <4> QED  BY <4>1, <4>2
    <3>4. q = id /\ q = lastId + 1 =>
            /\ Cardinality(Spots(toServer, R)) = 0 /\ Cardinality(Spots(toClient, B)) = 0
            /\ Cardinality(P) = 0 /\ Cardinality(O) = 0
      <4> SUFFICES ASSUME q = id, q = lastId + 1
                   PROVE  /\ Spots(toServer, R) = {} /\ Spots(toClient, B) = {}
                          /\ P = {} /\ O = {}
        BY FS_EmptySet
      <4>1. Fresh(id, toServer, toClient, pinnedAs, current)  BY <1>1 DEF PinsInv, PinParts, NoneForeseen
      <4>2. Spots(toServer, R) = {} /\ Spots(toClient, B) = {} /\ P = {}
        BY <4>1, KindsAre DEF Fresh, Spots, Proxies, In
      <4>3. O = {}  BY <4>1, KindsAre DEF Fresh, Owed, Waits, In
      <4> QED  BY <4>2, <4>3
    <3>5. /\ q # id => refCount'[id] = refCount[id]
          /\ q = id => \/ refCount'[id] = refCount[id] + 1
                       \/ refCount'[id] = 1 /\ q = lastId + 1
      BY NumbersAre, KindsAre DEF pinVars
    <3>6. UNCHANGED << toServer, proxy, pinnedAs, users, connected >>  BY <1>1 DEF connectionVars, proxyVars
    <3>7. connected = Clients => cl \in connected  BY <1>1
    <3> HIDE DEF R, O, B, P
    <3> QED  BY <3>3, <3>4, <3>5, <3>6, <3>7, NumbersAre DEF Covers, References, R, O, B, P
  <2> QED  BY <2>1, CoveredAfter
<1> QED  BY <1>5, <1>6, <1>7 DEF PinParts

LEMMA EndsPins ==
  ASSUME PinsInv, NEW m \in executing, Ends(m)
  PROVE  PinParts'
<1>1. CASE \E success \in BOOLEAN : Returns(m, success)  BY <1>1, AnsweringPins DEF Returns
<1>2. CASE ReturnsPin(m)
  <2>1. ProcedureEnds(m) /\ Pin /\ UNCHANGED silent /\ Respond(m.call, Response(m.call, TRUE, current'))
    BY <1>2 DEF ReturnsPin
  <2>2. /\ CallsInv /\ lastId \in Nat /\ lastId + 1 <= Cardinality(Calls) /\ Cardinality(Calls) \in Nat
        /\ current \in Ids \cup { NoId }
    BY <2>1, OneMoreDone, DoneFinite DEF PinsInv, CallsInv, TypeOK
  <2>3. lastId + 1 \in Ids  BY <2>2 DEF Ids
  <2>4. CASE current # NoId  BY <2>1, <2>2, <2>4, AnsweringPins DEF Pin
  <2>5. CASE current = NoId
    <3>1. lastId + 1 # NoId  BY <2>2 DEF NoId
    <3> QED  BY <2>1, <2>3, <2>5, <3>1, AnsweringPins DEF Pin
  <2> QED  BY <2>4, <2>5
<1>3. CASE ReturnsCycle(m)  BY <1>3, NothingPinned DEF ReturnsCycle, ProcedureEnds, connectionVars
<1> QED  BY <1>1, <1>2, <1>3 DEF Ends

\* The close event at the client.
LEMMA HandleClosePins ==
  ASSUME PinsInv, NEW cl \in Clients, HandleClose(cl), connected' = connected \ { cl },
         UNCHANGED << serving, users, toServer, pinVars, proxyVars, missed >>
  PROVE  PinParts'
<1>1. /\ CallsInv /\ toClient' = Cut(toClient, cl)
      /\ \A p \in Calls : status[p] \in { "idle", "pending" } \/ status'[p] \notin { "idle", "pending" }
  BY DEF HandleClose, Cut, PinsInv
<1>2. Settled' /\ LiveCallsFind' /\ Served'
  BY <1>1 DEF Settled, LiveCallsFind, Served, proxyVars, PinsInv, PinParts
<1>3. NoneForeseen'
  <2>1. \A M : \A d \in Clients : In(toClient'[d], M) => In(toClient[d], M)  BY <1>1, WireTypes, CuttingFrame
  <2> QED  BY <2>1, NoneForeseenAfter DEF NoneForeseen, Fresh, pinVars, proxyVars, PinsInv, PinParts
<1>4. Covered'
  <2>1. ASSUME NEW id \in Ids
        PROVE  Covers(id, toServer', toClient', proxy', pinnedAs', users', connected', refCount')
    <3> DEFINE B == Pinning(id)
    <3>1. IsFiniteSet(Spots(toClient, B))  BY NumbersAre DEF Covers
    <3>2. /\ IsFiniteSet(Spots(toClient', B)) /\ Cardinality(Spots(toClient', B)) \in Nat
          /\ Cardinality(Spots(toClient', B)) <= Cardinality(Spots(toClient, B))
      <4> HIDE DEF B
      <4>1. /\ IsFiniteSet(Spots(Cut(toClient, cl), B))
            /\ Cardinality(Spots(Cut(toClient, cl), B)) <= Cardinality(Spots(toClient, B))
        BY <1>1, <3>1, WireTypes, SpotsCut
      <4> QED  BY <1>1, <4>1, FS_CardinalityType
    <3>3. connected' # Clients  OBVIOUS
    <3>4. UNCHANGED << toServer, proxy, pinnedAs, users, refCount >>  BY DEF pinVars, proxyVars
    <3> HIDE DEF B
    <3> QED  BY <3>2, <3>3, <3>4, NumbersAre DEF Covers, References, B
  <2> QED  BY <2>1, CoveredAfter
<1> QED  BY <1>2, <1>3, <1>4 DEF PinParts

\* A server half hears of the end, or is closed and leaves the manager.
LEMMA ServerEndsPins ==
  ASSUME PinsInv, NEW cl \in Clients, connected' = connected \ { cl }, serving' = serving \ { cl },
         toServer' = Cut(toServer, cl), UNCHANGED << status, toClient, proxyVars, missed >>,
         \/ UNCHANGED << users, pinVars >>
         \/ /\ users' = users \ { cl } /\ current' \in { current, NoId } /\ lastId' = lastId
            /\ users' = {} \/ refCount' = refCount
  PROVE  PinParts'
<1>1. /\ CallsInv /\ lastId' = lastId /\ current' \in { current, NoId }
      /\ serving' \subseteq users' /\ users' \subseteq users
      /\ users' = {} \/ refCount' = refCount
  <2>1. CallsInv /\ serving \subseteq users  BY DEF PinsInv, PinParts, Served
  <2>2. CASE UNCHANGED << users, pinVars >>  BY <2>1, <2>2 DEF pinVars
  <2>3. CASE /\ users' = users \ { cl } /\ current' \in { current, NoId } /\ lastId' = lastId
             /\ users' = {} \/ refCount' = refCount
    BY <2>1, <2>3
  <2> QED  BY <2>1, <2>2, <2>3
<1>2. \A d \in Clients : toServer'[d] = IF d = cl THEN << >> ELSE toServer[d]
  BY <1>1, WireTypes DEF Cut, Wires
<1>3. Settled' /\ LiveCallsFind'  BY DEF Settled, LiveCallsFind, proxyVars, PinsInv, PinParts
<1>4. Served'  BY <1>1, <1>2 DEF Served, PinsInv, PinParts
<1>5. NoneForeseen'
  <2>1. \A M : \A d \in Clients : In(toServer'[d], M) => In(toServer[d], M)  BY <1>2, Cutting
  <2>2. \A id \in Ids : id # NoId  BY KindsAre
  <2> QED  BY <1>1, <2>1, <2>2, NoneForeseenAfter DEF NoneForeseen, Fresh, proxyVars, PinsInv, PinParts
<1>6. Covered'
  <2>1. ASSUME NEW id \in Ids
        PROVE  Covers(id, toServer', toClient', proxy', pinnedAs', users', connected', refCount')
    <3> DEFINE R == Releasing(id)
    <3> DEFINE O == Owed(toServer, proxy, pinnedAs, id)
    <3> DEFINE O2 == Owed(toServer', proxy', pinnedAs', id)
    <3>1. IsFiniteSet(Spots(toServer, R)) /\ IsFiniteSet(O)  BY NumbersAre DEF Covers
    <3>2. /\ IsFiniteSet(Spots(toServer', R)) /\ Cardinality(Spots(toServer', R)) \in Nat
          /\ Cardinality(Spots(toServer', R)) <= Cardinality(Spots(toServer, R))
      <4> HIDE DEF R
      <4>1. /\ IsFiniteSet(Spots(Cut(toServer, cl), R))
            /\ Cardinality(Spots(Cut(toServer, cl), R)) <= Cardinality(Spots(toServer, R))
        BY <1>1, <3>1, WireTypes, SpotsCut
      <4> QED  BY <4>1, FS_CardinalityType
    <3>3. IsFiniteSet(O2) /\ Cardinality(O2) \in Nat /\ Cardinality(O2) <= Cardinality(O)
      BY <1>2, NobodyWaits, <3>1, OwedWithin DEF proxyVars
    <3>4. connected' # Clients  OBVIOUS
    <3>5. UNCHANGED << toClient, proxy, pinnedAs >>  BY DEF proxyVars
    <3> HIDE DEF R, O, O2
    <3> QED  BY <1>1, <3>2, <3>3, <3>4, <3>5, NumbersAre DEF Covers, References, R, O, O2
  <2> QED  BY <2>1, CoveredAfter
<1> QED  BY <1>3, <1>4, <1>5, <1>6 DEF PinParts

LEMMA ConnectionsPins ==
  ASSUME PinsInv, NEW cl \in Clients,
         LinkBreaks(cl) \/ ClientTold(cl) \/ ServerTold(cl) \/ ClientCloses(cl) \/ ServerCloses(cl)
  PROVE  PinParts'
<1>1. CASE LinkBreaks(cl)  BY <1>1, NothingPinned DEF LinkBreaks
<1>2. CASE ClientTold(cl)  BY <1>2, HandleClosePins DEF ClientTold
<1>3. CASE ServerTold(cl)  BY <1>3, ServerEndsPins DEF ServerTold, Cut
<1>4. CASE ClientCloses(cl)  BY <1>4, HandleClosePins DEF ClientCloses
<1>5. CASE ServerCloses(cl)  BY <1>5, ServerEndsPins DEF ServerCloses, ReleaseManager, pinVars, Cut
<1> QED  BY <1>1, <1>2, <1>3, <1>4, <1>5

-----------------------------------------------------------------------------

LEMMA PinsInvInit == Init => PinsInv
<1> SUFFICES ASSUME Init PROVE PinsInv  OBVIOUS
<1>1. CallsInv  BY InvInit
<1>2. Settled /\ Served /\ LiveCallsFind  BY DEF Init, Settled, Served, LiveCallsFind
<1>3. NoneForeseen  BY KindsAre, Cutting DEF Init, NoneForeseen, Fresh
<1>4. Covered
  <2>1. ASSUME NEW id \in Ids
        PROVE  Covers(id, toServer, toClient, proxy, pinnedAs, users, connected, refCount)
    <3>1. Spots(toServer, Releasing(id)) = {} /\ Spots(toClient, Pinning(id)) = {}  BY DEF Init, Spots
    <3>2. Proxies(proxy, pinnedAs, id) = {}  BY DEF Init, Proxies
    <3>3. Owed(toServer, proxy, pinnedAs, id) = {}  BY NobodyWaits DEF Init, Owed
    <3>4. refCount[id] = 0  BY DEF Init
    <3> QED  BY <3>1, <3>2, <3>3, <3>4, FS_EmptySet DEF Covers, References
  <2> QED  BY <2>1 DEF Covered
<1> QED  BY <1>1, <1>2, <1>3, <1>4 DEF PinsInv, PinParts

LEMMA PinsInvNext == PinsInv /\ [Next]_vars => PinsInv'
<1> SUFFICES ASSUME PinsInv, [Next]_vars PROVE PinParts'  BY InvNext DEF PinsInv
<1>1. ASSUME NEW c \in Calls, Ask(c) PROVE PinParts'  BY <1>1, TrackAskPins DEF Ask
<1>2. ASSUME NEW c \in Calls, SendFails(c) PROVE PinParts'
  BY <1>2, NothingPinned DEF SendFails, PinsInv, CallsInv, TypeOK, connectionVars
<1>3. ASSUME NEW c \in Calls, NEW p \in Calls, PinCall(c, p) PROVE PinParts'
  BY <1>3, TrackAskPins DEF PinsInv, CallsInv, TypeOK, Proxies, PinCall
<1>4. ASSUME NEW p \in Calls, Free(p) PROVE PinParts'  BY <1>4, FreePins
<1>5. ASSUME NEW cl \in Clients, HandleResponse(cl) \/ ReceiveAtServer(cl) PROVE PinParts'
  BY <1>5, HandleResponsePins, ReceiveAtServerPins
<1>6. ASSUME NEW m \in executing, Ends(m) PROVE PinParts'  BY <1>6, EndsPins
<1>7. ASSUME NEW cl \in Clients,
             LinkBreaks(cl) \/ ClientTold(cl) \/ ServerTold(cl) \/ ClientCloses(cl) \/ ServerCloses(cl)
      PROVE  PinParts'
  BY <1>7, ConnectionsPins
<1>8. CASE UNCHANGED vars  BY <1>8, NothingPinned DEF vars, connectionVars
<1> QED  BY <1>1, <1>2, <1>3, <1>4, <1>5, <1>6, <1>7, <1>8 DEF Next

\* What is held is what the invariant counts.
LEMMA HeldIsCounted ==
  ASSUME PinsInv, NEW id \in Ids
  PROVE  Held(id) = References(id, toServer, toClient, proxy, pinnedAs)
<1> DEFINE A == Among(toServer, LAMBDA m : m.type = "release" /\ m.target = id)
<1> DEFINE B == Among(toClient, LAMBDA m : m.pin = id)
<1>1. ASSUME NEW cl \in Clients
      PROVE  /\ DOMAIN toServer[cl] \subseteq Nat /\ DOMAIN toClient[cl] \subseteq Nat
             /\ \A k \in DOMAIN toServer[cl] :
                  (toServer[cl][k].type = "release" /\ toServer[cl][k].target = id)
                    <=> toServer[cl][k] \in Releasing(id)
             /\ \A k \in DOMAIN toClient[cl] :
                  toClient[cl][k].pin = id <=> toClient[cl][k] \in Pinning(id)
  BY WireTypes, KindsAre DEF PinsInv
<1>2. A = Spots(toServer, Releasing(id))  BY <1>1 DEF Among, Spots
<1>3. B = Spots(toClient, Pinning(id))  BY <1>1 DEF Among, Spots
<1>4. Held(id) = Cardinality(Proxies(proxy, pinnedAs, id)) + Cardinality(A) + Cardinality(B)
  BY DEF Held, Proxies
<1> HIDE DEF A, B
<1> QED  BY <1>2, <1>3, <1>4, NumbersAre DEF References

LEMMA PinsInvImplies == PinsInv => PinsAreKept
<1> SUFFICES ASSUME PinsInv PROVE CountCoversHeld  BY DEF PinsAreKept, PinsInv, PinParts
<1>1. ASSUME NEW id \in Ids
      PROVE  /\ users # {} => refCount[id] >= Held(id)
             /\ connected = Clients => refCount[id] = Held(id)
  BY HeldIsCounted, NumbersAre DEF Covers, References
<1> QED  BY <1>1 DEF CountCoversHeld

\* The manager's count covers the references that are held, and unless a
\* connection was lost counts no other; and a call made on a live proxy finds
\* its object: however many connections share the manager, and in whatever
\* order they pin, release, call, break and close (resource-manager.ts,
\* pin.handler.ts, pin.feature.ts).
THEOREM ObjectsAreKept == Spec => []PinsAreKept
BY PinsInvInit, PinsInvNext, PTL, PinsInvImplies DEF Spec


-----------------------------------------------------------------------------
(* Calls from a proxy to a handler.                                        *)

Links == {"inject", "input", "output", "retry"}
Marked == Nat \cup {"caller"}
Given == [ctx : {"none", "caller"}, meta : Seq(Marked), input : [there : BOOLEAN, list : Seq({"raw", "parsed"})]]

\* What each level is given, as far as the levels above it make a difference.
Parsed == [there |-> TRUE, list |-> [i \in 1 .. Arity |-> "parsed"]]
Passed(k, m) == \E j \in 1 .. k - 1 : chain[j] = m
Gives == IF route = "broadcast" /\ call.count = 0 THEN NoInput ELSE Input(call.count)

CtxAt(k)   == IF route # "server" /\ k > 1 THEN "caller" ELSE "none"
MetaAt(k)  == IF route # "server" /\ k = 1 THEN <<"caller">> \o call.meta ELSE call.meta
InputAt(k) == IF Passed(k, "input") THEN Parsed ELSE Gives
GivenAt(k) == Opts(CtxAt(k), MetaAt(k), InputAt(k))

\* The injector comes first, where a context is to be injected, and nowhere else.
ChainIsRight ==
    /\ chain \in Seq(Links)
    /\ route # "server" => Len(chain) >= 1 /\ chain[1] = "inject"
    /\ \A j \in 1 .. Len(chain) : chain[j] = "inject" => route # "server" /\ j = 1

LevelsAreGiven ==
    /\ opts \in Seq(Given) /\ Len(opts) = level
    /\ \A k \in 1 .. level : opts[k] = GivenAt(k) /\ (Passed(k, "input") => call.count = Arity /\ Gives.there)

OutcomeIsTold ==
    outcome # "failed" =>
        outcome = IF \E j \in level + 1 .. Len(chain) : chain[j] = "output" THEN "checked" ELSE "returned"

ApiTypeOK ==
    /\ api \in Apis /\ route \in {"server", "p2p", "broadcast"}
    /\ client \in [path : Seq(Segments), meta : Seq(Nat)]
    /\ Idle => call = Unmade /\ chain \in Chains
    /\ ~Idle => /\ call \in [state : {"running", "over"}, path : Seq(Segments), action : Actions, count : 0 .. Arity,
                             meta : Seq(Nat), found : Nat]
                /\ call.found = FindProcedure(api, call.path)
                /\ call.found = 0 => call.state = "over" /\ outcome = "failed"
                /\ ChainIsRight

CallIsOnItsWay ==
    /\ Running => /\ LevelsAreGiven
                  /\ \/ dir = "down" /\ level \in 1 .. Len(chain) + 1
                     \/ dir = "up" /\ level \in 0 .. Len(chain) /\ OutcomeIsTold
    /\ call.state = "over" /\ call.found # 0 => level = 0 /\ OutcomeIsTold

ApiInv == ApiTypeOK /\ CallIsOnItsWay

-----------------------------------------------------------------------------
(* Which procedure is found.                                               *)

LEMMA GreatestNumber ==
  ASSUME NEW N \in Nat, NEW S \in SUBSET (0 .. N), S # {}
  PROVE  \E x \in S : \A y \in S : y <= x
<1> DEFINE T == {N - x : x \in S}
<1>1. T \subseteq Nat /\ T # {}
  <2>1. \A x \in S : N - x \in Nat  OBVIOUS
  <2>2. PICK x \in S : TRUE  OBVIOUS
  <2> QED  BY <2>1, <2>2
<1>2. PICK y \in T : \A z \in T : y <= z
  <2> HIDE DEF T
  <2> QED  BY <1>1, LeastNumber
<1>3. PICK x \in S : y = N - x  BY <1>2
<1>4. \A z \in S : z <= x
  <2> TAKE z \in S
  <2>1. y <= N - z  BY <1>2
  <2> QED  BY <1>3, <2>1
<1> QED  BY <1>4

\* The path of a procedure is a sequence of segments.
LEMMA PathsAre ==
  ASSUME NEW a \in Apis, NEW i \in DOMAIN a
  PROVE  PathOf(a[i]) \in Seq(Segments)
<1>1. a[i] \in ApiEntry  BY DEF Apis
<1>2. a[i].keys \in KeyLists  BY <1>1 DEF ApiEntry
<1>3. PICK n \in 0 .. MaxDepth : a[i].keys \in [1 .. n -> Keys]  BY <1>2 DEF KeyLists
<1> DEFINE s == a[i].keys
<1>4. s \in Seq(Seq(Segments)) /\ Len(s) = n
  <2>1. n \in Nat /\ Keys \subseteq Seq(Segments)  BY <1>3, ApiAssumption
  <2> DEFINE S == Seq(Segments)
  <2>2. s \in [1 .. n -> Keys]  BY <1>3
  <2> HIDE DEF s, S
  <2>3. s \in [1 .. n -> S]  BY <2>1, <2>2 DEF S
  <2> QED  BY <2>1, <2>3 DEF S
<1> HIDE DEF s
<1>5. CASE s = <<>>  BY <1>5 DEF PathOf, FlattenSeq, s
<1>6. CASE s # <<>>
  <2>1. PICK f \in [1 .. Len(s) -> Seq(Segments)] : Flattens(f, s) /\ FlattenSeq(s) = f[Len(s)]
    BY ONLY <1>4, <1>6, FlattenIs
  <2>2. Len(s) \in 1 .. Len(s)  BY <1>4, <1>6
  <2> QED  BY <2>1, <2>2 DEF PathOf, s
<1> QED  BY <1>5, <1>6

LEMMA StoredIs ==
  ASSUME NEW a \in Apis, NEW path, NEW types
  PROVE  /\ StoredAt(a, path, types) = 0 => \A i \in DOMAIN a : ~(PathOf(a[i]) = path /\ a[i].type \in types)
         /\ StoredAt(a, path, types) # 0 =>
              LET s == StoredAt(a, path, types) IN s \in DOMAIN a /\ s \in Nat /\ PathOf(a[s]) = path /\ a[s].type \in types
<1> DEFINE put == {i \in DOMAIN a : PathOf(a[i]) = path /\ a[i].type \in types}
           m == CHOOSE i \in put : \A j \in put : j <= i
<1>1. PICK n \in Nat : DOMAIN a = 1 .. n  BY ApiAssumption DEF Apis
<1>2. StoredAt(a, path, types) = IF put = {} THEN 0 ELSE m  BY DEF StoredAt
<1>3. put # {} => m \in put
  <2> SUFFICES ASSUME put # {} PROVE m \in put  OBVIOUS
  <2>1. put \in SUBSET (0 .. n)  BY <1>1
  <2> HIDE DEF put
  <2>2. \E x \in put : \A y \in put : y <= x  BY <2>1, GreatestNumber
  <2> QED  BY <2>2
<1> HIDE DEF m
<1>4. m \in put => m \in 1 .. n /\ m \in Nat /\ m # 0  BY <1>1
<1> QED  BY <1>1, <1>2, <1>3, <1>4

LEMMA PrefixIs ==
  ASSUME NEW p \in Seq(Segments), NEW path \in Seq(Segments)
  PROVE  /\ IsPrefix(p, path) <=> Len(p) <= Len(path) /\ p = SubSeq(path, 1, Len(p))
         /\ \A n \in 0 .. Len(path) : SubSeq(path, 1, n) \in Seq(Segments) /\ Len(SubSeq(path, 1, n)) = n
         /\ IsPrefix(p, path) => \A m \in 0 .. Len(p) : SubSeq(path, 1, m) = SubSeq(p, 1, m)
<1>1. SubSeq(p, 1, Len(p)) = p  OBVIOUS
<1>2. IsPrefix(p, path) <=> Len(p) <= Len(path) /\ p = SubSeq(path, 1, Len(p))  BY <1>1 DEF IsPrefix
<1>3. \A n \in 0 .. Len(path) : SubSeq(path, 1, n) \in Seq(Segments) /\ Len(SubSeq(path, 1, n)) = n  OBVIOUS
<1>4. ASSUME IsPrefix(p, path), NEW m \in 0 .. Len(p)
      PROVE  SubSeq(path, 1, m) = SubSeq(p, 1, m)
  BY <1>2, <1>4
<1> QED  BY <1>2, <1>3, <1>4

LEMMA PrefixFound ==
  ASSUME NEW a \in Apis, NEW path \in Seq(Segments)
  PROVE  LET s == LongestPrefix(a, path)
         IN /\ s = 0 => \A i \in DOMAIN a : ~(a[i].type = "dynamic" /\ AnswersFor(a[i], path))
            /\ s # 0 => /\ s \in DOMAIN a /\ s \in Nat /\ a[s].type = "dynamic" /\ AnswersFor(a[s], path)
                       /\ \A i \in DOMAIN a : a[i].type = "dynamic" /\ AnswersFor(a[i], path)
                                              => Len(PathOf(a[i])) <= Len(PathOf(a[s]))
<1> DEFINE D == {"dynamic"}
           on == {n \in 0 .. Len(path) : \A m \in 0 .. n : SubSeq(path, 1, m) \in TrieNodes(a)}
           found == {n \in on : StoredAt(a, SubSeq(path, 1, n), D) # 0}
           g == CHOOSE n \in found : \A m \in found : m <= n
           s == StoredAt(a, SubSeq(path, 1, g), D)
<1>1. LongestPrefix(a, path) = IF found = {} THEN 0 ELSE s  BY DEF LongestPrefix
\* every dynamic procedure that answers for the path is found on the way
<1>2. ASSUME NEW i \in DOMAIN a, a[i].type = "dynamic", AnswersFor(a[i], path)
      PROVE  Len(PathOf(a[i])) \in found
  <2> DEFINE p == PathOf(a[i])
  <2>1. p \in Seq(Segments) /\ IsPrefix(p, path)  BY <1>2, PathsAre DEF AnswersFor
  <2>2. /\ Len(p) \in 0 .. Len(path) /\ p = SubSeq(path, 1, Len(p))
        /\ \A m \in 0 .. Len(p) : SubSeq(path, 1, m) = SubSeq(p, 1, m)
    <3> HIDE DEF p
    <3>1. Len(p) \in Nat  BY <2>1
    <3> QED  BY <2>1, <3>1, PrefixIs
  <2>3. \A m \in 0 .. Len(p) : SubSeq(p, 1, m) \in TrieNodes(a)  BY <1>2 DEF TrieNodes
  <2>4. StoredAt(a, SubSeq(path, 1, Len(p)), D) # 0
    <3> DEFINE q == SubSeq(path, 1, Len(p))
    <3>1. PathOf(a[i]) = q /\ a[i].type \in D  BY <1>2, <2>2
    <3> HIDE DEF p, q, D
    <3>2. StoredAt(a, q, D) # 0  BY <3>1, StoredIs
    <3> QED  BY <3>2 DEF q
  <2> HIDE DEF p
  <2>5. Len(p) \in on  BY <2>2, <2>3
  <2> QED  BY <2>4, <2>5 DEF p
<1>3. found # {} => g \in found /\ \A m \in found : m <= g
  <2> SUFFICES ASSUME found # {} PROVE g \in found /\ \A m \in found : m <= g  OBVIOUS
  <2>1. found \in SUBSET (0 .. Len(path)) /\ Len(path) \in Nat  OBVIOUS
  <2> HIDE DEF found
  <2>2. \E x \in found : \A y \in found : y <= x  BY <2>1, GreatestNumber
  <2> QED  BY <2>2
<1>4. found # {} => g \in 0 .. Len(path) /\ s # 0  BY <1>3
<1>5. s # 0 => s \in DOMAIN a /\ s \in Nat /\ PathOf(a[s]) = SubSeq(path, 1, g) /\ a[s].type = "dynamic"
  <2> DEFINE p == SubSeq(path, 1, g)
  <2> HIDE DEF p, g
  <2> QED  BY StoredIs DEF p
<1> HIDE DEF g, s, found
<1>6. ASSUME found # {} PROVE AnswersFor(a[s], path) /\ Len(PathOf(a[s])) = g
  <2>1. SubSeq(path, 1, g) \in Seq(Segments) /\ Len(SubSeq(path, 1, g)) = g /\ g <= Len(path)
    BY <1>4, <1>6, PrefixIs
  <2>2. IsPrefix(SubSeq(path, 1, g), path)  BY <2>1, PrefixIs
  <2> QED  BY <1>4, <1>5, <1>6, <2>1, <2>2 DEF AnswersFor
<1>7. CASE found = {}  BY <1>1, <1>2, <1>7
<1>8. CASE found # {}  BY <1>1, <1>2, <1>3, <1>4, <1>5, <1>6, <1>8
<1> QED  BY <1>7, <1>8

\* p answers for no more of a path than f, and is dynamic where f is.
IsNoBetter(p, f) == Len(PathOf(p)) <= Len(PathOf(f)) /\ (f.type = "dynamic" => p.type = "dynamic")

LEMMA ProcedureFound ==
  ASSUME NEW a \in Apis, NEW path \in Seq(Segments)
  PROVE  LET f == FindProcedure(a, path)
             able == {i \in DOMAIN a : AnswersFor(a[i], path)}
         IN /\ f \in Nat
            /\ f = 0 <=> able = {}
            /\ f # 0 => f \in able /\ \A i \in able : IsNoBetter(a[i], a[f])
<1> DEFINE e == StoredAt(a, path, Actions)
           l == LongestPrefix(a, path)
<1>1. FindProcedure(a, path) = IF e # 0 THEN e ELSE l  BY DEF FindProcedure
<1>2. /\ e = 0 => \A i \in DOMAIN a : ~(PathOf(a[i]) = path /\ a[i].type \in Actions)
      /\ e # 0 => e \in DOMAIN a /\ e \in Nat /\ PathOf(a[e]) = path /\ a[e].type \in Actions
  BY StoredIs
<1>3. /\ l = 0 => \A i \in DOMAIN a : ~(a[i].type = "dynamic" /\ AnswersFor(a[i], path))
      /\ l # 0 => /\ l \in DOMAIN a /\ l \in Nat /\ a[l].type = "dynamic" /\ AnswersFor(a[l], path)
                 /\ \A i \in DOMAIN a : a[i].type = "dynamic" /\ AnswersFor(a[i], path)
                                              => Len(PathOf(a[i])) <= Len(PathOf(a[l]))
  BY PrefixFound
<1> HIDE DEF e, l
<1>4. \A i \in DOMAIN a : a[i].type \in Actions \cup {"dynamic"}  BY DEF Apis, ApiEntry
<1>p. ASSUME NEW i \in DOMAIN a, AnswersFor(a[i], path)
      PROVE  Len(PathOf(a[i])) <= Len(path)
  BY PathsAre, <1>p DEF AnswersFor, IsPrefix
<1>5. CASE e # 0
  <2>1. AnswersFor(a[e], path) /\ a[e].type # "dynamic"  BY <1>2, <1>5 DEF AnswersFor, Actions
  <2>2. ASSUME NEW i \in DOMAIN a, AnswersFor(a[i], path)
        PROVE  IsNoBetter(a[i], a[e])
    BY <1>2, <1>5, <1>p, <2>1, <2>2 DEF IsNoBetter
  <2> QED  BY <1>1, <1>2, <1>5, <2>1, <2>2
<1>6. CASE e = 0
  <2>1. ASSUME NEW i \in DOMAIN a, AnswersFor(a[i], path), a[i].type # "dynamic" PROVE FALSE
    BY <2>1, <1>4, <1>2, <1>6 DEF AnswersFor
  <2>2. ASSUME l # 0, NEW i \in DOMAIN a, AnswersFor(a[i], path)
        PROVE  IsNoBetter(a[i], a[l])
    BY <1>3, <2>1, <2>2 DEF IsNoBetter
  <2> QED  BY <1>1, <1>3, <1>6, <2>1, <2>2
<1> QED  BY <1>5, <1>6

-----------------------------------------------------------------------------
(* What the levels are given, and what the caller is told.                 *)

LEMMA ApiInvImplies == ApiInv => CallsAreHandled
<1> SUFFICES ASSUME ApiInv PROVE CallsAreHandled  OBVIOUS
<1>1. RightProcedureRuns
  <2> SUFFICES ASSUME ~Idle PROVE RightProcedureRuns  BY DEF RightProcedureRuns
  <2>1. api \in Apis /\ call.path \in Seq(Segments) /\ call.found = FindProcedure(api, call.path)
    BY DEF ApiInv, ApiTypeOK
  <2> DEFINE able == {i \in DOMAIN api : AnswersFor(api[i], call.path)}
  <2>2. /\ call.found = 0 <=> able = {}
        /\ call.found # 0 => call.found \in able /\ \A i \in able : IsNoBetter(api[i], api[call.found])
    BY <2>1, ProcedureFound
  <2> HIDE DEF able
  <2> QED  BY <2>2 DEF RightProcedureRuns, able, IsNoBetter
<1>2. HandlerSeesCaller
  <2>1. ASSUME AtHandler
        PROVE  LET o == opts[level]
               IN /\ o.ctx = (IF route = "server" THEN "none" ELSE "caller")
                  /\ o.meta = call.meta
                  /\ o.input.there => Len(o.input.list) = call.count
                  /\ ~o.input.there => route = "broadcast" /\ call.count = 0
                  /\ Contains(chain, "input") => o.input = Parsed
    <3>1. Running /\ dir = "down" /\ level = Len(chain) + 1 /\ ~Idle  BY <2>1 DEF AtHandler, Running, Idle
    <3>2. ChainIsRight /\ call.count \in 0 .. Arity  BY <3>1 DEF ApiInv, ApiTypeOK
    <3>3. LevelsAreGiven  BY <3>1 DEF ApiInv, CallIsOnItsWay
    <3>4. Len(chain) \in Nat /\ (route # "server" => level > 1) /\ level \in 1 .. level
      BY <3>1, <3>2 DEF ChainIsRight
    <3>5. opts[level] = GivenAt(level) /\ (Passed(level, "input") => call.count = Arity /\ Gives.there)
      BY <3>3, <3>4 DEF LevelsAreGiven
    <3>6. Contains(chain, "input") <=> Passed(level, "input")  BY <3>1, <3>4 DEF Contains, Passed
    <3>7. /\ Gives.there => Len(Gives.list) = call.count
          /\ ~Gives.there => route = "broadcast" /\ call.count = 0
          /\ Parsed.there /\ Len(Parsed.list) = Arity
      BY <3>2, ApiAssumption DEF Gives, NoInput, Input, Parsed
    <3>8. opts[level].ctx = CtxAt(level) /\ opts[level].meta = MetaAt(level) /\ opts[level].input = InputAt(level)
      BY <3>5 DEF GivenAt, Opts
    <3>9. opts[level].input = IF Contains(chain, "input") THEN Parsed ELSE Gives  BY <3>6, <3>8 DEF InputAt
    <3>10. opts[level].ctx = (IF route = "server" THEN "none" ELSE "caller") /\ opts[level].meta = call.meta
      BY <3>4, <3>8 DEF CtxAt, MetaAt
    <3> QED  BY <3>5, <3>6, <3>7, <3>9, <3>10
  <2>2. ASSUME call.state = "over", call.found # 0, outcome # "failed"
        PROVE  outcome = (IF Contains(chain, "output") THEN "checked" ELSE "returned")
    BY <2>2 DEF ApiInv, CallIsOnItsWay, OutcomeIsTold, Contains
  <2> QED  BY <2>1, <2>2 DEF HandlerSeesCaller, Parsed
<1> QED  BY <1>1, <1>2 DEF CallsAreHandled

LEMMA ApiInitOK == ApiInit => ApiInv
<1> SUFFICES ASSUME ApiInit PROVE ApiInv  OBVIOUS
<1>1. Idle /\ call = Unmade /\ ~Running /\ call.state = "none"  BY DEF ApiInit, Idle, Unmade, Running
<1>2. client \in [path : Seq(Segments), meta : Seq(Nat)]  BY DEF ApiInit
<1> QED  BY <1>1, <1>2 DEF ApiInit, ApiInv, ApiTypeOK, CallIsOnItsWay

\* While the proxy gathers, nothing else changes.
LEMMA GathersOK ==
  ASSUME ApiInv, Idle, client' \in [path : Seq(Segments), meta : Seq(Nat)],
         UNCHANGED <<api, chain, route, call, level, dir, opts, outcome, retried>>
  PROVE  ApiInv'
BY DEF Idle, Running, ApiInv, ApiTypeOK, CallIsOnItsWay

LEMMA GetOK ==
  ASSUME ApiInv, NEW k \in Keys, Get(k)
  PROVE  ApiInv'
<1>1. k \in Seq(Segments) /\ client \in [path : Seq(Segments), meta : Seq(Nat)]
  BY ApiAssumption DEF ApiInv, ApiTypeOK
<1>2. client' = [client EXCEPT !.path = @ \o k]  BY DEF Get
<1> DEFINE p == client.path \o k
<1>3. p \in Seq(Segments) /\ client' = [client EXCEPT !.path = p]  BY <1>1, <1>2
<1> HIDE DEF p
<1>4. client' \in [path : Seq(Segments), meta : Seq(Nat)]  BY <1>1, <1>3
<1> QED  BY <1>4, GathersOK DEF Get

LEMMA MetaOK ==
  ASSUME ApiInv, Meta
  PROVE  ApiInv'
<1>1. client \in [path : Seq(Segments), meta : Seq(Nat)]  BY DEF ApiInv, ApiTypeOK
<1> DEFINE m == Append(client.meta, Len(client.meta) + 1)
<1>2. m \in Seq(Nat) /\ client' = [client EXCEPT !.meta = m]  BY <1>1 DEF Meta
<1> HIDE DEF m
<1>3. client' \in [path : Seq(Segments), meta : Seq(Nat)]  BY <1>1, <1>2
<1> QED  BY <1>3, GathersOK DEF Meta

LEMMA ArrivingTyped ==
  ASSUME NEW n \in Nat, NEW m \in Seq(Nat)
  PROVE  Arriving(n, m) \in Given
<1> DEFINE e == IF route = "server" THEN m ELSE <<"caller">> \o m
           i == IF route = "broadcast" /\ n = 0 THEN NoInput ELSE Input(n)
<1>1. e \in Seq(Marked)
  <2>1. m \in Seq(Marked) /\ <<"caller">> \in Seq(Marked)  BY DEF Marked
  <2> QED  BY <2>1
<1>2. i \in [there : BOOLEAN, list : Seq({"raw", "parsed"})]  BY DEF NoInput, Input
<1> HIDE DEF e, i
<1>3. Opts("none", e, i) \in Given  BY <1>1, <1>2 DEF Opts, Given
<1> QED  BY <1>3 DEF Arriving, e, i

LEMMA InjectedIs ==
  ASSUME chain \in Chains
  PROVE  LET c == Injected(chain)
         IN /\ c \in Seq(Links)
            /\ route # "server" => Len(c) >= 1 /\ c[1] = "inject"
            /\ \A j \in 1 .. Len(c) : c[j] = "inject" => route # "server" /\ j = 1
<1>1. chain \in Seq({"input", "output", "retry"})  BY ApiAssumption
<1> DEFINE d == <<"inject">> \o chain
<1>2. chain \in Seq(Links) /\ \A j \in 1 .. Len(chain) : chain[j] # "inject"  BY <1>1 DEF Links
<1>3. /\ d \in Seq(Links) /\ Len(d) = Len(chain) + 1 /\ d[1] = "inject"
      /\ \A j \in 1 .. Len(d) : j # 1 => d[j] = chain[j - 1] /\ j - 1 \in 1 .. Len(chain)
  BY <1>2 DEF Links
<1> HIDE DEF d
<1>4. CASE route = "server"  BY <1>2, <1>4 DEF Injected
<1>5. CASE route # "server"  BY <1>5, <1>2, <1>3 DEF Injected, d
<1> QED  BY <1>4, <1>5

LEMMA RequestedOK ==
  ASSUME ApiInv, NEW path \in Seq(Segments), NEW action \in Actions, NEW n \in 0 .. Arity, Requested(path, action, n)
  PROVE  ApiInv'
<1> DEFINE found == FindProcedure(api, path)
<1>1. /\ Idle
      /\ call' = [state |-> IF found = 0 THEN "over" ELSE "running", path |-> path, action |-> action,
                  count |-> n, meta |-> client.meta, found |-> found]
      /\ chain' = Injected(chain)
      /\ opts' = <<Arriving(n, client.meta)>>
      /\ outcome' = IF found = 0 THEN "failed" ELSE "none"
      /\ level' = 1 /\ dir' = "down"
      /\ UNCHANGED <<api, route, client>>
  BY DEF Requested
<1>2. /\ api \in Apis /\ route \in {"server", "p2p", "broadcast"}
      /\ client \in [path : Seq(Segments), meta : Seq(Nat)] /\ client.meta \in Seq(Nat)
      /\ chain \in Chains /\ n \in Nat
  BY <1>1, ApiAssumption DEF ApiInv, ApiTypeOK
<1>3. found \in Nat  BY <1>2, ProcedureFound
<1> HIDE DEF found
<1>4. /\ call'.state = (IF found = 0 THEN "over" ELSE "running") /\ call'.path = path /\ call'.count = n
      /\ call'.meta = client.meta /\ call'.found = found
      /\ call' \in [state : {"running", "over"}, path : Seq(Segments), action : Actions, count : 0 .. Arity,
                     meta : Seq(Nat), found : Nat]
  BY <1>1, <1>2, <1>3
<1>5. ChainIsRight'  BY <1>1, <1>2, InjectedIs DEF ChainIsRight
<1>6. ApiTypeOK'  BY <1>4, <1>1, <1>2, <1>5 DEF found, Idle, ApiTypeOK
<1>7. Running' => found # 0  BY <1>4 DEF Running
<1>8. LevelsAreGiven'
  <2> DEFINE o == Arriving(n, client.meta)
  <2>1. o \in Given  BY <1>2, ArrivingTyped
  <2>2. ~Passed(1, "input")'  BY DEF Passed
  <2>3. o = GivenAt(1)'
    <3>1. Gives' = IF route = "broadcast" /\ n = 0 THEN NoInput ELSE Input(n)  BY <1>1, <1>4 DEF Gives
    <3>2. InputAt(1)' = Gives' /\ CtxAt(1)' = "none"  BY <2>2 DEF InputAt, CtxAt
    <3>3. MetaAt(1)' = IF route = "server" THEN client.meta ELSE <<"caller">> \o client.meta
      BY <1>1, <1>4 DEF MetaAt
    <3> QED  BY <3>1, <3>2, <3>3 DEF GivenAt, Arriving
  <2> HIDE DEF o
  <2>4. opts' = <<o>> /\ opts' \in Seq(Given) /\ Len(opts') = 1 /\ opts'[1] = o  BY <1>1, <2>1 DEF o
  <2>5. \A k \in 1 .. level' : k = 1  BY <1>1
  <2> QED  BY <1>1, <2>2, <2>3, <2>4, <2>5 DEF LevelsAreGiven
<1>9. CallIsOnItsWay'  BY <1>5, <1>1, <1>4, <1>8 DEF ChainIsRight, CallIsOnItsWay
<1> QED  BY <1>6, <1>9 DEF ApiInv

\* The level below is given what it should be.
LEMMA GoesDown ==
  ASSUME ApiInv, Running, level \in 1 .. Len(chain), NEW o \in Given, o = GivenAt(level + 1),
         Passed(level + 1, "input") => call.count = Arity /\ Gives.there,
         level' = level + 1, opts' = Append(opts, o), dir' = "down", UNCHANGED <<api, chain, route, client, call>>
  PROVE  ApiInv'
<1>1. ~Idle /\ call.found # 0 /\ call.state = "running" /\ ~Idle' /\ Running'
  BY DEF ApiInv, ApiTypeOK, Idle, Running
<1>2. ApiTypeOK'  BY <1>1 DEF ApiInv, ApiTypeOK, ChainIsRight
<1>3. opts \in Seq(Given) /\ Len(opts) = level /\ level \in Nat /\ Len(chain) \in Nat
  BY <1>1 DEF ApiInv, CallIsOnItsWay, LevelsAreGiven, ApiTypeOK, ChainIsRight
<1>4. /\ opts' \in Seq(Given) /\ Len(opts') = level'
      /\ \A k \in 1 .. level' : opts'[k] = IF k = level' THEN o ELSE opts[k]
  BY <1>3
<1>5. \A k : (Passed(k, "input")' <=> Passed(k, "input")) /\ Gives' = Gives
  BY DEF GivenAt, Passed, Gives, CtxAt, MetaAt, InputAt
<1>6. LevelsAreGiven'
  <2> SUFFICES ASSUME NEW k \in 1 .. level'
               PROVE  opts'[k] = GivenAt(k)' /\ (Passed(k, "input")' => call'.count = Arity /\ Gives'.there)
    BY <1>4 DEF LevelsAreGiven
  <2>1. GivenAt(k)' = GivenAt(k)  BY DEF GivenAt, Passed, Gives, CtxAt, MetaAt, InputAt
  <2>2. CASE k = level'  BY <1>4, <1>5, <2>1, <2>2
  <2>3. CASE k # level'
    <3>1. k \in 1 .. level  BY <1>3, <2>3
    <3> QED  BY <1>1, <1>4, <1>5, <2>1, <2>3, <3>1 DEF ApiInv, CallIsOnItsWay, LevelsAreGiven
  <2> QED  BY <2>2, <2>3
<1>7. CallIsOnItsWay'  BY <1>3, <1>1, <1>6 DEF CallIsOnItsWay
<1> QED  BY <1>2, <1>7 DEF ApiInv

\* The level above is told.
LEMMA GoesUp ==
  ASSUME ApiInv, Running, level \in 1 .. Len(chain) + 1, level' = level - 1, opts' = SubSeq(opts, 1, level - 1),
         dir' = "up", OutcomeIsTold', UNCHANGED <<api, chain, route, client, call>>
  PROVE  ApiInv'
<1>1. ~Idle /\ call.found # 0 /\ call.state = "running" /\ ~Idle' /\ Running'
  BY DEF ApiInv, ApiTypeOK, Idle, Running
<1>2. ApiTypeOK'  BY <1>1 DEF ApiInv, ApiTypeOK, ChainIsRight
<1>3. opts \in Seq(Given) /\ Len(opts) = level /\ level \in Nat /\ Len(chain) \in Nat
  BY <1>1 DEF ApiInv, CallIsOnItsWay, LevelsAreGiven, ApiTypeOK, ChainIsRight
<1>4. /\ opts' \in Seq(Given) /\ Len(opts') = level'
      /\ \A k \in 1 .. level' : opts'[k] = opts[k]
  BY <1>3
<1>6. LevelsAreGiven'
  <2> SUFFICES ASSUME NEW k \in 1 .. level'
               PROVE  opts'[k] = GivenAt(k)' /\ (Passed(k, "input")' => call'.count = Arity /\ Gives'.there)
    BY <1>4 DEF LevelsAreGiven
  <2>1. GivenAt(k)' = GivenAt(k) /\ (Passed(k, "input")' <=> Passed(k, "input")) /\ Gives' = Gives
    BY DEF GivenAt, Passed, Gives, CtxAt, MetaAt, InputAt
  <2>2. k \in 1 .. level  BY <1>3
  <2> QED  BY <1>1, <1>4, <2>1, <2>2 DEF ApiInv, CallIsOnItsWay, LevelsAreGiven
<1>7. CallIsOnItsWay'  BY <1>3, <1>1, <1>6 DEF CallIsOnItsWay
<1> QED  BY <1>2, <1>7 DEF ApiInv

LEMMA GoesUpFailed ==
  ASSUME ApiInv, Running, level \in 1 .. Len(chain) + 1, HandsUp("failed"),
         UNCHANGED <<api, chain, route, client, call>>
  PROVE  ApiInv'
BY GoesUp DEF OutcomeIsTold, HandsUp

LEMMA Together ==
  ASSUME NEW S, NEW s \in Seq(S), NEW t \in Seq(S)
  PROVE  s \o t \in Seq(S)
  OBVIOUS

LEMMA OneLong ==
  ASSUME NEW S, NEW e \in S
  PROVE  <<e>> \in Seq(S)
  OBVIOUS

LEMMA InvokeOK ==
  ASSUME ApiInv, NEW sub \in Subpaths, NEW action \in Actions, NEW n \in 0 .. Arity, Invoke(sub, action, n)
  PROVE  ApiInv'
<1> DEFINE p == client.path
           j == Joined(p, sub)
<1>1. p \in Seq(Segments)  BY DEF ApiInv, ApiTypeOK
<1> HIDE DEF p
<1>2. "" \in Segments  BY DEF Segments
<1>3. sub \in Seq(Segments)  BY ApiAssumption
<1>4. <<"">> \in Seq(Segments)  BY ONLY <1>2, OneLong
<1>5. j \in Seq(Segments)
  <2>1. (p \o sub) \in Seq(Segments) /\ (p \o <<"">>) \in Seq(Segments)  BY ONLY <1>1, <1>3, <1>4, Together
  <2> QED  BY ONLY <1>3, <2>1 DEF Joined
<1>6. Requested(j, action, n)  BY DEF Invoke, p
<1> HIDE DEF j
<1> QED  BY <1>5, <1>6, RequestedOK

LEMMA MadeOK ==
  ASSUME ApiInv, NEW action \in Actions, NEW n \in 0 .. Arity, Call(action, n) \/ Publish(action, n)
  PROVE  ApiInv'
BY RequestedOK DEF ApiInv, ApiTypeOK, Call, Publish

\* Where a call is while it goes down.
LEMMA DownIs ==
  ASSUME ApiInv, Running, dir = "down"
  PROVE  /\ ChainIsRight /\ Len(chain) \in Nat /\ level \in 1 .. Len(chain) + 1 /\ level \in Nat
         /\ opts[level] = GivenAt(level) /\ opts[level] \in Given
         /\ Passed(level, "input") => call.count = Arity /\ Gives.there
         /\ call.meta \in Seq(Nat) /\ call.count \in 0 .. Arity /\ call.count \in Nat
BY ApiAssumption DEF Idle, Running, ApiInv, ApiTypeOK, CallIsOnItsWay, ChainIsRight, LevelsAreGiven

\* A level that changes nothing gives on what it was given.
LEMMA SameGiven ==
  ASSUME ChainIsRight, NEW k \in Nat, k \in 1 .. Len(chain), chain[k] # "inject", chain[k] # "input"
  PROVE  GivenAt(k + 1) = GivenAt(k) /\ (Passed(k + 1, "input") <=> Passed(k, "input"))
<1>1. Len(chain) \in Nat  BY DEF ChainIsRight
<1>2. route # "server" => k # 1  BY DEF ChainIsRight
<1>3. Passed(k + 1, "input") <=> Passed(k, "input")  BY DEF Passed
<1>4. CtxAt(k + 1) = CtxAt(k) /\ MetaAt(k + 1) = MetaAt(k)  BY <1>2 DEF CtxAt, MetaAt
<1> QED  BY <1>3, <1>4 DEF GivenAt, InputAt

WithContext(o, d, e) == [o EXCEPT !.ctx = d, !.meta = e]

LEMMA OptsChanged ==
  ASSUME NEW c, NEW m, NEW i, NEW o, o = Opts(c, m, i), NEW d, NEW e
  PROVE  WithContext(o, d, e) = Opts(d, e, i)
<1>1. o = [ctx |-> c, meta |-> m, input |-> i]  BY DEF Opts
<1>2. [o EXCEPT !.ctx = d, !.meta = e] = [[o EXCEPT !.ctx = d] EXCEPT !.meta = e]  OBVIOUS
<1>3. [o EXCEPT !.ctx = d] = [ctx |-> d, meta |-> m, input |-> i]  BY ONLY <1>1
<1>4. [[ctx |-> d, meta |-> m, input |-> i] EXCEPT !.meta = e] = [ctx |-> d, meta |-> e, input |-> i]  OBVIOUS
<1> QED  BY <1>2, <1>3, <1>4 DEF Opts, WithContext

LEMMA ListChanged ==
  ASSUME NEW t, NEW l, NEW n, n = [there |-> t, list |-> l], NEW z
  PROVE  [n EXCEPT !.list = z] = [there |-> t, list |-> z]
  OBVIOUS

LEMMA InputChanged ==
  ASSUME NEW c, NEW m, NEW l, NEW n, n = [there |-> TRUE, list |-> l], NEW o, o = Opts(c, m, n), NEW z
  PROVE  [o EXCEPT !.input.list = z] = Opts(c, m, [there |-> TRUE, list |-> z])
<1>0. [n EXCEPT !.list = z] = [there |-> TRUE, list |-> z]
  <2>1. \A t : n = [there |-> t, list |-> l] => [n EXCEPT !.list = z] = [there |-> t, list |-> z]
    BY ONLY ListChanged
  <2> QED  BY ONLY <2>1, n = [there |-> TRUE, list |-> l], Zenon
<1> DEFINE y == [there |-> TRUE, list |-> z]
<1>1. [n EXCEPT !.list = z] = y  BY ONLY <1>0
<1>2. o = [ctx |-> c, meta |-> m, input |-> n]  BY DEF Opts
<1> HIDE DEF y
<1>3. [o EXCEPT !.input.list = z] = [o EXCEPT !.input = [o.input EXCEPT !.list = z]]  OBVIOUS
<1>4. o.input = n  BY ONLY <1>2
<1>5. [o EXCEPT !.input = y] = [ctx |-> c, meta |-> m, input |-> y]  BY ONLY <1>2
<1> QED  BY <1>1, <1>3, <1>4, <1>5 DEF y, Opts

LEMMA EnterOK ==
  ASSUME ApiInv, Enter
  PROVE  ApiInv'
<1> DEFINE o == opts[level]
<1>1. Running /\ dir = "down" /\ level <= Len(chain) /\ UNCHANGED <<api, chain, route, client, call, retried>>
  BY DEF Enter
<1>2. /\ ChainIsRight /\ Len(chain) \in Nat /\ level \in 1 .. Len(chain) + 1 /\ level \in Nat
      /\ o = GivenAt(level) /\ o \in Given
      /\ Passed(level, "input") => call.count = Arity /\ Gives.there
      /\ call.meta \in Seq(Nat) /\ call.count \in Nat
  BY <1>1, DownIs
<1>3. level \in 1 .. Len(chain)  BY <1>1, <1>2
<1> HIDE DEF o
<1>4. CASE Middleware = "inject"
  <2>1. Inject(o)  BY <1>4 DEF Enter, o
  <2>2. CASE HandsUp("failed")  BY <1>1, <1>2, <2>2, GoesUpFailed
  <2>3. CASE ~HandsUp("failed")
    <3>1. level = 1 /\ route # "server"  BY <1>2, <1>3, <1>4 DEF Middleware, ChainIsRight
    <3> DEFINE m == call.meta
               w == <<"caller">> \o m
               p == Opts("caller", m, Gives)
    <3>2. Head(w) = "caller" /\ Tail(w) = m
      <4>1. m \in Seq(Marked) /\ <<"caller">> \in Seq(Marked)  BY <1>2 DEF Marked
      <4> HIDE DEF m
      <4> QED  BY <4>1
    <3>3. ~Passed(1, "input")  BY DEF Passed
    <3>4. o = Opts("none", w, Gives)  BY <1>2, <3>1, <3>3 DEF GivenAt, CtxAt, MetaAt, InputAt
    <3> HIDE DEF w
    <3>5. [o EXCEPT !.ctx = Head(o.meta), !.meta = Tail(@)] = p
      <4>1. o.meta = w  BY <3>4 DEF Opts
      <4>2. [o EXCEPT !.ctx = Head(o.meta), !.meta = Tail(@)] = [o EXCEPT !.ctx = Head(w), !.meta = Tail(w)]
        BY <4>1
      <4> DEFINE h == Head(w)
                 r == Tail(w)
      <4>3. h = "caller" /\ r = m  BY <3>2
      <4> HIDE DEF h, r
      <4>4. WithContext(o, h, r) = Opts(h, r, Gives)  BY ONLY <3>4, OptsChanged
      <4>5. WithContext(o, h, r) = [o EXCEPT !.ctx = h, !.meta = r]  BY DEF WithContext
      <4> QED  BY <4>2, <4>3, <4>4, <4>5 DEF h, r
    <3>6. CallsNext(p)  BY <2>1, <2>3, <3>5 DEF Inject
    <3>7. p = GivenAt(level + 1) /\ ~Passed(level + 1, "input")
      <4>1. level + 1 = 2  BY <3>1
      <4>2. ~Passed(2, "input")  BY <1>4, <3>1 DEF Middleware, Passed
      <4>3. CtxAt(2) = "caller" /\ MetaAt(2) = m /\ InputAt(2) = Gives
        BY <3>1, <4>2 DEF CtxAt, MetaAt, InputAt
      <4> QED  BY <4>1, <4>2, <4>3 DEF GivenAt
    <3>8. p \in Given
      <4>1. m \in Seq(Marked) /\ Gives \in [there : BOOLEAN, list : Seq({"raw", "parsed"})]
        BY <1>2 DEF Marked, Gives, NoInput, Input
      <4> HIDE DEF m
      <4> QED  BY <4>1 DEF Opts, Given
    <3> HIDE DEF p
    <3> QED  BY <1>1, <1>3, <3>6, <3>7, <3>8, GoesDown DEF CallsNext
  <2> QED  BY <2>2, <2>3
<1>5. CASE Middleware = "input"
  <2>1. Validate(o)  BY <1>5 DEF Enter, o
  <2>2. CASE HandsUp("failed")  BY <1>1, <1>2, <2>2, GoesUpFailed
  <2>3. CASE ~HandsUp("failed")
    <3>1. /\ o.input.there /\ Len(o.input.list) = Arity
          /\ CallsNext([o EXCEPT !.input.list = [i \in 1 .. Arity |-> "parsed"]])
      BY <2>1, <2>3 DEF Validate
    <3> DEFINE p == [o EXCEPT !.input.list = [i \in 1 .. Arity |-> "parsed"]]
    <3>2. chain[level] = "input" /\ (route # "server" => level # 1)
      BY <1>3, <1>5, <1>2 DEF Middleware, ChainIsRight
    <3>3. Passed(level + 1, "input")  BY <1>2, <1>3, <3>2 DEF Passed
    <3>4. o = Opts(CtxAt(level), MetaAt(level), InputAt(level)) /\ InputAt(level).there
      BY <1>2, <3>1 DEF GivenAt, Opts
    <3>5. InputAt(level) = [there |-> TRUE, list |-> InputAt(level).list]
      BY <3>4 DEF InputAt, Parsed, Gives, NoInput, Input
    <3>6. p = Opts(CtxAt(level), MetaAt(level), Parsed)
      <4> DEFINE n == InputAt(level)
                 z == [i \in 1 .. Arity |-> "parsed"]
      <4>1. n = [there |-> TRUE, list |-> n.list] /\ o = Opts(CtxAt(level), MetaAt(level), n)  BY <3>4, <3>5
      <4> HIDE DEF n, z
      <4>2. [o EXCEPT !.input.list = z] = Opts(CtxAt(level), MetaAt(level), [there |-> TRUE, list |-> z])
        BY ONLY <4>1, InputChanged
      <4> QED  BY <4>2 DEF z, Parsed
    <3>7. CtxAt(level + 1) = CtxAt(level) /\ MetaAt(level + 1) = MetaAt(level) /\ InputAt(level + 1) = Parsed
      BY <1>2, <1>3, <3>2, <3>3 DEF CtxAt, MetaAt, InputAt
    <3>8. p = GivenAt(level + 1)  BY <3>6, <3>7 DEF GivenAt
    <3>9. call.count = Arity /\ Gives.there
      <4>1. CASE Passed(level, "input")  BY <1>2, <4>1
      <4>2. CASE ~Passed(level, "input")
        <5>1. o.input = Gives  BY <3>4, <4>2 DEF Opts, InputAt
        <5> QED  BY <1>2, <3>1, <5>1, ApiAssumption DEF Gives, NoInput, Input
      <4> QED  BY <4>1, <4>2
    <3>10. p \in Given
      <4>1. Parsed \in [there : BOOLEAN, list : Seq({"raw", "parsed"})]  BY ApiAssumption DEF Parsed
      <4>2. o.ctx = CtxAt(level) /\ o.meta = MetaAt(level)  BY <3>4 DEF Opts
      <4> HIDE DEF p
      <4> QED  BY <1>2, <3>6, <4>1, <4>2 DEF Opts, Given
    <3> HIDE DEF p
    <3>11. CallsNext(p)  BY <3>1 DEF p
    <3> QED  BY <1>1, <1>3, <3>8, <3>9, <3>10, <3>11, GoesDown DEF CallsNext
  <2> QED  BY <2>2, <2>3
<1>6. CASE Middleware # "inject" /\ Middleware # "input"
  <2>1. CallsNext(o)  BY <1>6 DEF Enter, o
  <2>2. o = GivenAt(level + 1) /\ (Passed(level + 1, "input") => call.count = Arity /\ Gives.there)
    BY <1>2, <1>3, <1>6, SameGiven DEF Middleware
  <2> QED  BY <1>1, <1>2, <1>3, <2>1, <2>2, GoesDown DEF CallsNext
<1> QED  BY <1>4, <1>5, <1>6

LEMMA HandleOK ==
  ASSUME ApiInv, Handle
  PROVE  ApiInv'
<1>1. /\ Running /\ dir = "down" /\ level = Len(chain) + 1
      /\ UNCHANGED <<api, chain, route, client, call, retried>>
  BY DEF Handle, AtHandler
<1>2. PICK result \in {"returned", "failed"} : HandsUp(result)  BY DEF Handle
<1>3. Len(chain) \in Nat /\ level \in 1 .. Len(chain) + 1  BY <1>1, DownIs
<1>4. OutcomeIsTold'  BY <1>1, <1>2, <1>3 DEF HandsUp, OutcomeIsTold
<1> QED  BY <1>1, <1>2, <1>3, <1>4, GoesUp DEF HandsUp

LEMMA LeaveOK ==
  ASSUME ApiInv, Leave
  PROVE  ApiInv'
<1>1. Running /\ dir = "up" /\ level > 0 /\ UNCHANGED <<api, chain, route, client, call>>  BY DEF Leave
<1>2. ChainIsRight /\ LevelsAreGiven /\ level \in 0 .. Len(chain) /\ OutcomeIsTold
  BY <1>1 DEF ApiInv, ApiTypeOK, CallIsOnItsWay, Idle, Running
<1>3. Len(chain) \in Nat /\ level \in 1 .. Len(chain) /\ level \in 1 .. Len(chain) + 1 /\ level \in Nat
  BY <1>1, <1>2 DEF ChainIsRight
<1>4. CASE Middleware = "output" /\ \E result \in {"checked", "failed"} : HandsUp(result)
  <2>1. PICK result \in {"checked", "failed"} : HandsUp(result)  BY <1>4
  <2>2. level \in level' + 1 .. Len(chain') /\ chain'[level] = "output"
    BY <1>1, <1>3, <1>4, <2>1 DEF HandsUp, Middleware
  <2>3. OutcomeIsTold'  BY <2>1, <2>2 DEF OutcomeIsTold, HandsUp
  <2> QED  BY <1>1, <1>3, <2>1, <2>3, GoesUp DEF HandsUp
<1>5. CASE /\ Middleware = "retry" /\ dir' = "down"
           /\ level' = level + 1 /\ opts' = Append(SubSeq(opts, 1, level), opts[level])
  <2> DEFINE o == opts[level]
  <2>1. opts \in Seq(Given) /\ Len(opts) = level  BY <1>2 DEF LevelsAreGiven
  <2>2. SubSeq(opts, 1, level) = opts /\ o \in Given  BY <1>3, <2>1
  <2>3. o = GivenAt(level) /\ (Passed(level, "input") => call.count = Arity /\ Gives.there)
    BY <1>2, <1>3 DEF LevelsAreGiven
  <2>4. o = GivenAt(level + 1) /\ (Passed(level + 1, "input") => call.count = Arity /\ Gives.there)
    BY <1>2, <1>3, <1>5, <2>3, SameGiven DEF Middleware
  <2>5. opts' = Append(opts, o)  BY <1>5, <2>2
  <2> HIDE DEF o
  <2> QED  BY <1>1, <1>3, <1>5, <2>2, <2>4, <2>5, GoesDown
<1>6. CASE (Middleware = "output" => outcome = "failed") /\ HandsUp(outcome)
  <2>1. level' = level - 1 /\ outcome' = outcome /\ chain' = chain  BY <1>1, <1>6 DEF HandsUp
  <2>2. ASSUME outcome # "failed" PROVE \A j : j \in level' + 1 .. Len(chain') /\ chain'[j] = "output"
                                          <=> j \in level + 1 .. Len(chain) /\ chain[j] = "output"
    BY <1>6, <2>2, <1>3, <2>1 DEF Middleware
  <2>3. OutcomeIsTold'  BY <1>2, <2>1, <2>2 DEF OutcomeIsTold
  <2> QED  BY <1>1, <1>3, <1>6, <2>3, GoesUp DEF HandsUp
<1> QED  BY <1>4, <1>5, <1>6 DEF Leave

LEMMA FinishOK ==
  ASSUME ApiInv, Finish
  PROVE  ApiInv'
BY DEF Finish, ApiInv, ApiTypeOK, Idle, Running, ChainIsRight, CallIsOnItsWay, OutcomeIsTold

LEMMA ApiStepOK == ApiInv /\ [ApiNext]_apivars => ApiInv'
<1> SUFFICES ASSUME ApiInv, [ApiNext]_apivars PROVE ApiInv'  OBVIOUS
<1>1. CASE \E k \in Keys : Get(k)  BY <1>1, GetOK
<1>2. CASE Meta  BY <1>2, MetaOK
<1>3. CASE \E action \in Actions, n \in 0 .. Arity : Call(action, n) \/ Publish(action, n)  BY <1>3, MadeOK
<1>4. CASE \E action \in Actions, n \in 0 .. Arity : \E sub \in Subpaths : Invoke(sub, action, n)
  BY <1>4, InvokeOK
<1>5. CASE Enter  BY <1>5, EnterOK
<1>6. CASE Handle  BY <1>6, HandleOK
<1>7. CASE Leave  BY <1>7, LeaveOK
<1>8. CASE Finish  BY <1>8, FinishOK
<1>9. CASE UNCHANGED apivars
  BY <1>9 DEF apivars, ApiInv, ApiTypeOK, CallIsOnItsWay, Idle, Running, ChainIsRight, LevelsAreGiven, OutcomeIsTold,
              GivenAt, CtxAt, MetaAt, InputAt, Passed, Gives
<1> QED  BY <1>1, <1>2, <1>3, <1>4, <1>5, <1>6, <1>7, <1>8, <1>9 DEF ApiNext

\* A call is answered by the right procedure, which sees what its caller sent, through
\* any chain of middlewares and however it travels, and whose outcome the caller is told.
THEOREM CallsAreAlwaysHandled == ApiSpec => []CallsAreHandled
BY ApiInitOK, ApiStepOK, ApiInvImplies, PTL DEF ApiSpec

=============================================================================
