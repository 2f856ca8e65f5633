------------------------------ MODULE H2Frames ------------------------------
(***************************************************************************)
(* Frames on an HTTP/2 stream (packages/h2: FrameParser and the channel's  *)
(* sendFrame).  A frame is its length, in a fixed number of bytes, and its *)
(* bytes; the stream hands them over in pieces of any size.                *)
(***************************************************************************)
EXTENDS Naturals, Sequences, SequencesExt

CONSTANTS
    Prefix,      \* bytes of the length of a frame
    Sizes,       \* lengths of payloads
    HighWater,   \* bytes the stream queues before it asks the sender to wait
    MaxFrames    \* bound: frames sent

VARIABLES
    written,    \* the sizes of the frames written
    queue,     \* the bytes not handed over yet: which byte of which frame
    sends,     \* the promise of each send
    end,       \* the writing side: "open", "ending", "ended", or broken off: "closed", "failed"
    handed,    \* how many bytes have been handed over
    buffer,    \* the parser's
    expected,  \* its expectedFrameSize, -1 while it waits for a length
    parsed,    \* the frames it has pushed
    reading    \* "open", "ended" without an error, "truncated"

framevars == <<written, queue, sends, end, handed, buffer, expected, parsed, reading>>

ASSUME PrefixAssumption == Prefix \in Nat \ {0}

FrameInit ==
    /\ written = <<>> /\ queue = <<>> /\ sends = <<>> /\ end = "open" /\ handed = 0
    /\ buffer = <<>> /\ expected = -1 /\ parsed = <<>> /\ reading = "open"

Bytes(f, size) == [i \in 1 .. Prefix + size |-> [frame |-> f, at |-> i]]

\* write() says that the queue is full: the send waits for "drain".
SendFrame(size) ==
    LET f == Len(written) + 1
        q == queue \o Bytes(f, size)
    IN /\ end = "open" /\ Len(written) < MaxFrames
       /\ written' = Append(written, size)
       /\ queue' = q
       /\ sends' = Append(sends, IF Len(q) < HighWater THEN "resolved" ELSE "waiting")
       /\ UNCHANGED <<end, handed, buffer, expected, parsed, reading>>

Waiting(result) == [f \in DOMAIN sends |-> IF sends[f] = "waiting" THEN result ELSE sends[f]]

AfterLength(b) == SubSeq(b, Prefix + 1, Len(b))

\* What the first bytes of the buffer say, if they are those of a length.
LengthIn(b) == written[b[1].frame]

\* The loop of _transform: lengths and frames in turn, as long as there are enough bytes.
RECURSIVE Parse(_, _, _)
Parse(b, size, out) ==
    IF size = -1
    THEN IF Len(b) < Prefix THEN [buffer |-> b, expected |-> size, parsed |-> out]
         ELSE Parse(AfterLength(b), LengthIn(b), out)
    ELSE IF Len(b) < size THEN [buffer |-> b, expected |-> size, parsed |-> out]
         ELSE Parse(SubSeq(b, size + 1, Len(b)), -1, Append(out, SubSeq(b, 1, size)))

\* The stream hands over its first n bytes; when none are left, it asks for more.
Transfer(n) ==
    LET p == Parse(buffer \o SubSeq(queue, 1, n), expected, parsed)
    IN /\ n \in 1 .. Len(queue) /\ end \in {"open", "ending"} /\ reading = "open"
       /\ queue' = SubSeq(queue, n + 1, Len(queue)) /\ handed' = handed + n
       /\ sends' = IF queue' = <<>> THEN Waiting("resolved") ELSE sends
       /\ buffer' = p.buffer /\ expected' = p.expected /\ parsed' = p.parsed
       /\ UNCHANGED <<written, end, reading>>

\* close(): the writing side ends after what it has queued.
EndStream ==
    /\ end = "open"
    /\ end' = "ending"
    /\ UNCHANGED <<written, queue, sends, handed, buffer, expected, parsed, reading>>

\* _flush: only bytes that are left over tell that a frame is missing.
Flushed == IF buffer = <<>> THEN "ended" ELSE "truncated"

FlushStream ==
    /\ end = "ending" /\ queue = <<>>
    /\ end' = "ended"
    /\ reading' = Flushed
    /\ UNCHANGED <<written, queue, sends, handed, buffer, expected, parsed>>

\* The stream breaks off: what is queued is lost.  An error rejects the sends that
\* wait for "drain"; when there is none, nothing settles them.
Break(how) ==
    /\ end \in {"open", "ending"}
    /\ end' = how
    /\ queue' = <<>>
    /\ sends' = IF how = "failed" THEN Waiting("rejected") ELSE sends
    /\ reading' = Flushed
    /\ UNCHANGED <<written, handed, buffer, expected, parsed>>

FrameNext ==
    \/ \E size \in Sizes : SendFrame(size)
    \/ \E n \in 1 .. (MaxFrames * 8) : Transfer(n)
    \/ EndStream \/ FlushStream
    \/ \E how \in {"failed", "closed"} : Break(how)

----------------------------------------------------------------------------
(* Properties.                                                             *)

\* Where in the stream of bytes the frame after the first k begins.
Start(k) == FoldLeft(LAMBDA n, size : n + Prefix + size, 0, SubSeq(written, 1, k))

\* However the stream cuts them up, the frames that come out are the first ones
\* that went in, each with its own bytes, as soon as these are there; a stream
\* is taken to be truncated exactly if it breaks off inside a length or a frame,
\* but not between the two; and a send waits only while there is something
\* before it, or the stream has closed (FrameParser, H2ChannelBase.sendFrame).
FramesArriveWhole ==
    /\ \A f \in DOMAIN parsed : parsed[f] = [i \in 1 .. written[f] |-> [frame |-> f, at |-> Prefix + i]]
    /\ \A f \in DOMAIN written : Start(f) <= handed => f <= Len(parsed)
    /\ reading = "ended" <=> /\ reading # "open"
                             /\ \E k \in 0 .. Len(written) :
                                  handed = Start(k) \/ (k < Len(written) /\ handed = Start(k) + Prefix)
    /\ end = "ended" => reading = "ended" /\ Len(parsed) = Len(written)
    /\ \A f \in DOMAIN sends : sends[f] = "waiting" => queue # <<>> \/ end = "closed"

=============================================================================
