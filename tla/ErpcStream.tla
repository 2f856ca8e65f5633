----------------------------- MODULE ErpcStream -----------------------------
(***************************************************************************)
(* One stream between two erpc nodes (packages/erpc/src/features/stream):  *)
(* a push writer (StreamFeature.createPushWriter) at one node, and at the  *)
(* other the StreamManager and a pull reader (createPullReader).  The two  *)
(* share a handshake id that travels in an RPC message, so that the first  *)
(* data may come before the reader exists.                                 *)
(*                                                                         *)
(* A WritableStream calls its sink one call after the other, and abort()   *)
(* when no call is under way, so each sink method is one step; only        *)
(* close() stops in the middle, to await the `stream-ack`.  A              *)
(* ReadableStream keeps one chunk (high water mark 1) and pulls when it    *)
(* has none.  Stream channels are FIFO; the `stream-ack` takes the         *)
(* control channel.  Chunks are numbered from 1 in the order written.      *)
(***************************************************************************)
EXTENDS ErpcBuffer

CONSTANTS
  Chunks,    \* bound: how many chunks may be written
  Troubles   \* bound: which of "write", "link" and "node" may fail or close

ASSUME StreamAssumption ==
  /\ Chunks \in Nat
  /\ Troubles \subseteq { "write", "link", "node" }

VARIABLES
  written,     \* how many chunks the writer has sent
  writable,    \* the WritableStream: "open", "closing", "closed", "errored"
  outgoing,    \* the writer's channel: "none", "open" or "closed"
  wire,        \* what is under way on the channel, in order
  ackOnWire,   \* a stream-ack is under way
  transport,   \* "open" or "closed"
  nodes,       \* the nodes not yet closed
  buffers,     \* the IncomingBuffers ever made; one is named by its index
  channelBuffer,  \* buffers.get(channelId), or None
  handshake,   \* pendingHandshakes.get(handshakeId), or NoHandshake
  listening,   \* processNewStream has seen the channel
  readerBuffer,   \* the buffer of the pull reader, or None
  linked,      \* the reader's handshakePromise: "pending", "resolved", "rejected"
  readable,    \* the ReadableStream: "absent", "open", "closed", "errored", "cancelled"
  queue,       \* the chunk it holds, if any
  read,        \* history: the chunks the application has read
  tasks        \* continuations of settled promises, not yet run

writerVars == << written, writable, outgoing >>
readerVars == << readerBuffer, linked, readable, queue, read >>
managerVars == << buffers, channelBuffer, handshake, listening >>
linkVars == << wire, ackOnWire, transport, nodes >>
streamVars == << writerVars, linkVars, managerVars, readerVars, tasks >>

None == 0
NoHandshake == [ buffer |-> None, reader |-> FALSE ]

Data(n) == [ type |-> "data", chunk |-> n, first |-> n = 1 ]
StreamEnd == [ type |-> "end" ]
StreamAbort == [ type |-> "abort" ]
Closed(why) == [ type |-> "closed", why |-> why ]

\* What a channel carries once it has been closed by the writer's node.
SendAndClose(messages) == wire' = wire \o messages \o << Closed("closed") >>

StreamInit ==
  /\ written = 0 /\ writable = "open" /\ outgoing = "none"
  /\ wire = << >> /\ ackOnWire = FALSE
  /\ transport = "open" /\ nodes = { "writer", "reader" }
  /\ buffers = << >> /\ channelBuffer = None
  /\ handshake = NoHandshake /\ listening = FALSE
  /\ readerBuffer = None /\ linked = "pending"
  /\ readable = "absent" /\ queue = << >> /\ read = << >>
  /\ tasks = {}

-----------------------------------------------------------------------------
(* The push writer.                                                        *)

\* The first write opens the channel, and carries the handshake id.
Write ==
  /\ writable = "open"
  /\ written < Chunks
  /\ transport = "open"
  /\ written' = written + 1
  /\ outgoing' = "open"
  /\ wire' = Append(wire, Data(written + 1))
  /\ UNCHANGED << writable, ackOnWire, transport, nodes, managerVars, readerVars, tasks >>

\* serialize(), opening the channel or sending rejects: the stream is errored
\* and its sink is not called again, so the channel stays as it is.
WriteFails ==
  /\ writable = "open"
  /\ "write" \in Troubles \/ transport = "closed"
  /\ writable' = "errored"
  /\ UNCHANGED << written, outgoing, linkVars, managerVars, readerVars, tasks >>

\* close() without a write has no channel to tell; if it cannot send the end
\* it closes the channel all the same; else it awaits the ack.
Close ==
  /\ writable = "open"
  /\ \/ outgoing # "open" /\ writable' = "closed" /\ UNCHANGED wire
     \/ outgoing = "open" /\ writable' = "closing" /\ wire' = Append(wire, StreamEnd)
  /\ UNCHANGED << written, outgoing, ackOnWire, transport, nodes, managerVars,
                  readerVars, tasks >>

Abort ==
  /\ writable = "open"
  /\ writable' = "errored"
  /\ \/ outgoing = "open" /\ outgoing' = "closed" /\ SendAndClose(<< StreamAbort >>)
     \/ outgoing # "open" /\ UNCHANGED << outgoing, wire >>
  /\ UNCHANGED << written, ackOnWire, transport, nodes, managerVars, readerVars, tasks >>

\* AckManager.handleAck resolves close(), which closes the channel.
ReceiveAck ==
  /\ ackOnWire
  /\ ackOnWire' = FALSE
  /\ writable = "closing"
  /\ writable' = "closed"
  /\ outgoing' = "closed"
  /\ SendAndClose(<< >>)
  /\ UNCHANGED << written, transport, nodes, managerVars, readerVars, tasks >>

-----------------------------------------------------------------------------
(* Settling the promises of a buffer.  Only the pull reader pops.          *)

\* pull(): a BufferClosedError closes the stream, another error fails it.
EndOf(kind) == IF kind = "closed" THEN "closed" ELSE "errored"

CloseTask(kind) == [ task |-> "close", why |-> kind ]
AckTask == [ task |-> "ack", why |-> "none" ]

\* The readable stream when buffer i is destroyed.
ReadableAfter(i, kind) == IF buffers[i].popping THEN EndOf(kind) ELSE readable

\* The handlers whose push is rejected call closeIncoming().
TasksAfter(i, kind) ==
  tasks \cup IF buffers[i].parked # << >> THEN { CloseTask(kind) } ELSE {}

\* closeIncoming(): destroy the channel's buffer and forget it.
CloseIncoming(kind, running) ==
  /\ channelBuffer' = None
  /\ IF channelBuffer = None
     THEN UNCHANGED << buffers, readable >> /\ tasks' = tasks \ running
     ELSE /\ buffers' = [ buffers EXCEPT ![channelBuffer] = Destroyed(@, kind) ]
          /\ readable' = ReadableAfter(channelBuffer, kind)
          /\ tasks' = TasksAfter(channelBuffer, kind) \ running

-----------------------------------------------------------------------------
(* The stream manager.                                                     *)

\* push() of x to buffer i of `bs`.
PushTo(bs, i, x) ==
  IF bs[i].finished
  THEN /\ buffers' = bs
       /\ tasks' = tasks \cup { CloseTask(IF bs[i].error = "none" THEN "closed" ELSE bs[i].error) }
       /\ UNCHANGED queue
  ELSE /\ buffers' = [ bs EXCEPT ![i] = Pushed(@, x) ]
       /\ queue' = IF bs[i].popping THEN Append(queue, x) ELSE queue
       /\ UNCHANGED tasks

\* A chunk for a channel that has a buffer.
DataOnChannel(m) ==
  /\ channelBuffer # None
  /\ PushTo(buffers, channelBuffer, m.chunk)
  /\ UNCHANGED << channelBuffer, handshake, linked >>

\* The first chunk meets the reader: its promise is fulfilled and the entry
\* deleted.
DataForReader(m) ==
  /\ channelBuffer = None
  /\ m.first
  /\ handshake.reader
  /\ channelBuffer' = handshake.buffer
  /\ linked' = "resolved"
  /\ handshake' = NoHandshake
  /\ PushTo(buffers, handshake.buffer, m.chunk)

\* Mutant: the entry for the reader to come is not kept.
DataForNobodyUnkept(m) ==
  /\ channelBuffer = None
  /\ m.first => ~handshake.reader
  /\ channelBuffer' = Len(buffers) + 1
  /\ PushTo(Append(buffers, NewBuffer), Len(buffers) + 1, m.chunk)
  /\ UNCHANGED << handshake, linked >>

\* No reader yet, or no longer, or a channel whose buffer is gone: a new
\* buffer, which the reader to come finds if the chunk is the first.
DataForNobody(m) ==
  /\ channelBuffer = None
  /\ m.first => ~handshake.reader
  /\ channelBuffer' = Len(buffers) + 1
  /\ PushTo(Append(buffers, NewBuffer), Len(buffers) + 1, m.chunk)
  /\ handshake' = IF m.first THEN [ buffer |-> Len(buffers) + 1, reader |-> FALSE ]
                  ELSE handshake
  /\ UNCHANGED linked

HandleData(m) ==
  /\ m.type = "data"
  /\ listening' = TRUE
  /\ DataOnChannel(m) \/ DataForReader(m) \/ DataForNobody(m)
  /\ UNCHANGED readable

\* finish(), then onDrained() and the ack; an unknown channel is ignored.
HandleEnd(m) ==
  /\ m.type = "end"
  /\ IF channelBuffer = None THEN UNCHANGED << buffers, readable, tasks >>
     ELSE LET b == Finished(buffers[channelBuffer])
              waits == ~IsDrained(b) /\ b.error = "none"
          IN  /\ buffers' = [ buffers EXCEPT ![channelBuffer] = [ b EXCEPT !.draining = waits ] ]
              /\ readable' = ReadableAfter(channelBuffer, "closed")
              /\ tasks' = tasks \cup IF IsDrained(b) THEN { AckTask } ELSE {}
  /\ UNCHANGED << channelBuffer, handshake, listening, linked, queue >>

\* A stream-abort, or the channel's close event once someone listens to it.
HandleClosure(m) ==
  /\ \/ m.type = "abort" /\ CloseIncoming("error", {})
     \/ m.type = "closed" /\ listening /\ CloseIncoming(m.why, {})
     \/ m.type = "closed" /\ ~listening /\ UNCHANGED << channelBuffer, buffers, readable, tasks >>
  /\ UNCHANGED << handshake, listening, linked, queue >>

ReceiveMessage ==
  /\ wire # << >>
  /\ wire' = Tail(wire)
  /\ LET m == Head(wire) IN HandleData(m) \/ HandleEnd(m) \/ HandleClosure(m)
  /\ UNCHANGED << writerVars, ackOnWire, transport, nodes, readerBuffer, read >>

\* The buffer is drained: send the ack, unless the transport is closing.
RunAck ==
  /\ AckTask \in tasks
  /\ tasks' = tasks \ { AckTask }
  /\ ackOnWire' = (transport = "open")
  /\ UNCHANGED << writerVars, wire, transport, nodes, managerVars, readerVars >>

\* A handler whose push was rejected, or the reader that was cancelled after
\* its handshake, closes the channel's buffer.
RunClose(t) ==
  /\ t \in tasks
  /\ t.task = "close"
  /\ CloseIncoming(t.why, { t })
  /\ UNCHANGED << writerVars, linkVars, handshake, listening, readerBuffer, linked,
                  queue, read >>

-----------------------------------------------------------------------------
(* The pull reader.                                                        *)

\* The placeholder was serialised or deserialised: a reader that finds an
\* entry made by the first chunk replaces its resolvers.
CreatePullReader ==
  /\ readable = "absent"
  /\ "reader" \in nodes
  /\ readable' = "open"
  /\ readerBuffer' = IF handshake = NoHandshake THEN Len(buffers) + 1 ELSE handshake.buffer
  /\ buffers' = IF handshake = NoHandshake THEN Append(buffers, NewBuffer) ELSE buffers
  /\ handshake' = [ buffer |-> readerBuffer', reader |-> TRUE ]
  /\ UNCHANGED << writerVars, linkVars, channelBuffer, listening, linked, queue, read, tasks >>

\* pull(): pop an item, learn of the end, or wait.
Pull ==
  LET b == buffers[readerBuffer] IN
  /\ readable = "open"
  /\ queue = << >>
  /\ ~b.popping
  /\ \/ /\ b.error # "none"
        /\ readable' = EndOf(b.error)
        /\ UNCHANGED << buffers, queue, tasks >>
     \/ /\ b.error = "none" /\ b.items # << >>
        /\ queue' = << Head(b.items) >>
        /\ buffers' = [ buffers EXCEPT ![readerBuffer] = Popped(b) ]
        /\ tasks' = tasks \cup IF b.draining /\ ~Popped(b).draining THEN { AckTask } ELSE {}
        /\ UNCHANGED readable
     \/ /\ b.error = "none" /\ b.items = << >> /\ b.finished
        /\ readable' = "closed"
        /\ UNCHANGED << buffers, queue, tasks >>
     \/ /\ b.error = "none" /\ b.items = << >> /\ ~b.finished
        /\ buffers' = [ buffers EXCEPT ![readerBuffer].popping = TRUE ]
        /\ UNCHANGED << readable, queue, tasks >>
  /\ UNCHANGED << writerVars, linkVars, channelBuffer, handshake, listening,
                  readerBuffer, linked, read >>

Read ==
  /\ readable = "open"
  /\ queue # << >>
  /\ read' = Append(read, Head(queue))
  /\ queue' = << >>
  /\ UNCHANGED << writerVars, linkVars, managerVars, readerBuffer, linked, readable, tasks >>

\* The reader's part of the manager is torn down with an error.  An entry
\* still waiting is rejected; the promise of one that was met is not.
DropReader ==
  /\ buffers' = [ buffers EXCEPT ![readerBuffer] = Destroyed(@, "error") ]
  /\ handshake' = IF handshake.reader THEN NoHandshake ELSE handshake
  /\ linked' = IF handshake.reader THEN "rejected" ELSE linked

\* cancel(): nothing tells the writer.
Cancel ==
  /\ readable = "open"
  /\ readable' = "cancelled"
  /\ queue' = << >>
  /\ DropReader
  /\ tasks' = TasksAfter(readerBuffer, "error") \cup
                IF linked = "resolved" THEN { CloseTask("error") } ELSE {}
  /\ UNCHANGED << writerVars, linkVars, channelBuffer, listening, readerBuffer, read >>

-----------------------------------------------------------------------------
(* Nodes and the link.                                                     *)

\* The link breaks: what is under way is lost and both ends are closed with an
\* error.
ChannelBreaks ==
  /\ "link" \in Troubles
  /\ transport = "open"
  /\ transport' = "closed"
  /\ ackOnWire' = FALSE
  /\ wire' = IF outgoing = "none" THEN << >> ELSE << Closed("error") >>
  /\ outgoing' = IF outgoing = "none" THEN "none" ELSE "closed"
  /\ UNCHANGED << written, writable, nodes, managerVars, readerVars, tasks >>

\* StreamFeature.close() at the writer rejects the wait for the ack, and the
\* transport is closed after it.
WriterNodeCloses ==
  /\ "node" \in Troubles
  /\ "writer" \in nodes
  /\ nodes' = nodes \ { "writer" }
  /\ writable' = IF writable = "closing" THEN "closed" ELSE writable
  /\ outgoing' = IF outgoing = "none" THEN "none" ELSE "closed"
  /\ transport' = "closed"
  /\ ackOnWire' = FALSE
  /\ \/ outgoing = "open" /\ SendAndClose(<< >>)
     \/ outgoing # "open" /\ UNCHANGED wire
  /\ UNCHANGED << written, managerVars, readerVars, tasks >>

\* StreamManager.destroy(), then the transport is closed.
ReaderNodeCloses ==
  /\ "node" \in Troubles
  /\ "reader" \in nodes
  /\ nodes' = nodes \ { "reader" }
  /\ handshake' = NoHandshake
  /\ channelBuffer' = None
  /\ linked' = IF handshake.reader THEN "rejected" ELSE linked
  /\ LET gone == { i \in { channelBuffer, handshake.buffer } : i # None }
     IN  /\ buffers' = [ i \in DOMAIN buffers |->
                           IF i \in gone THEN Destroyed(buffers[i], "error") ELSE buffers[i] ]
         /\ readable' = IF readerBuffer \in gone THEN ReadableAfter(readerBuffer, "error")
                        ELSE readable
         /\ tasks' = tasks \cup UNION { TasksAfter(i, "error") : i \in gone }
  /\ transport' = "closed"
  /\ wire' = << >>
  /\ ackOnWire' = FALSE
  /\ outgoing' = IF outgoing = "none" THEN "none" ELSE "closed"
  /\ UNCHANGED << written, writable, listening, readerBuffer, queue, read >>

-----------------------------------------------------------------------------

StreamNext ==
  \/ Write \/ WriteFails \/ Close \/ Abort \/ ReceiveAck
  \/ ReceiveMessage
  \/ RunAck
  \/ \E t \in tasks : RunClose(t)
  \/ CreatePullReader \/ Pull \/ Read \/ Cancel
  \/ ChannelBreaks \/ WriterNodeCloses \/ ReaderNodeCloses

-----------------------------------------------------------------------------

Numbers == 1 .. Chunks
Kinds == { "none", "closed", "error" }
Messages == { Data(n) : n \in Numbers } \cup { StreamEnd, StreamAbort }
              \cup { Closed(why) : why \in { "closed", "error" } }
BufferRecords ==
  [ items : Seq(Numbers), parked : Seq(Numbers), popping : BOOLEAN,
    draining : BOOLEAN, finished : BOOLEAN, error : Kinds ]

\* Every variable keeps its type, and names only buffers that exist.
StreamTypeOK ==
  /\ written \in 0 .. Chunks
  /\ writable \in { "open", "closing", "closed", "errored" }
  /\ outgoing \in { "none", "open", "closed" }
  /\ wire \in Seq(Messages)
  /\ ackOnWire \in BOOLEAN
  /\ transport \in { "open", "closed" }
  /\ nodes \subseteq { "writer", "reader" }
  /\ buffers \in Seq(BufferRecords)
  /\ channelBuffer \in 0 .. Len(buffers)
  /\ handshake \in [ buffer : 0 .. Len(buffers), reader : BOOLEAN ]
  /\ listening \in BOOLEAN
  /\ readerBuffer \in 0 .. Len(buffers)
  /\ linked \in { "pending", "resolved", "rejected" }
  /\ readable \in { "absent", "open", "closed", "errored", "cancelled" }
  /\ queue \in Seq(Numbers)
  /\ read \in Seq(Numbers)
  /\ tasks \subseteq [ task : { "close", "ack" }, why : Kinds ]

\* Nobody waits in a buffer for what has already come: the consumer only
\* while it is empty, a push only while it is full, the end of the stream only
\* while items are left to be popped (incoming-buffer.ts; a wake-up that one
\* of push, pop, finish and destroy forgets).
WaitersAreDue ==
  \A i \in DOMAIN buffers :
    LET b == buffers[i] IN
    /\ b.popping => b.items = << >> /\ b.parked = << >> /\ ~b.finished
    /\ b.parked # << >> => IsFull(b) /\ b.error = "none"
    /\ b.draining => b.finished /\ b.error = "none" /\ b.items # << >>

\* The wire carries the chunks written after the first n, in order, and what
\* else is under way comes after them.
WireCarriesAfter(n) ==
  /\ written - n \in 0 .. Len(wire)
  /\ \A i \in DOMAIN wire :
       IF i <= written - n THEN wire[i] = Data(n + i) ELSE wire[i].type # "data"

\* Where the reader's chunks are, before and after there is a reader.
StreamBuffer == IF readerBuffer # None THEN readerBuffer ELSE handshake.buffer
ChunksInBuffer ==
  IF StreamBuffer = None THEN << >>
  ELSE buffers[StreamBuffer].items \o buffers[StreamBuffer].parked
ChunksHeld == read \o queue \o ChunksInBuffer

Undisturbed ==
  transport = "open" /\ readable \notin { "cancelled", "errored" }
    /\ (writable = "errored" => outgoing = "open")

\* Until something closes or fails, every chunk written is in one place, in
\* order: on the wire, in the reader's buffer or in line for it, in the
\* reader, or read.  Holds whether the data or the reader comes first
\* (stream-manager.ts, getOrCreateHandshake and createPullReader).
NothingLost ==
  Undisturbed =>
    /\ ChunksHeld = [ n \in 1 .. Len(ChunksHeld) |-> n ]
    /\ WireCarriesAfter(Len(ChunksHeld))

\* Whatever happens, what the application reads is a prefix of what was
\* written, and while the connection lives a stream that ends normally has
\* been read to its end and was closed by its writer.
EndMeansAll ==
  /\ read \o queue = [ n \in 1 .. Len(read \o queue) |-> n ]
  /\ readable = "closed" /\ transport = "open" =>
       Len(read) = written /\ writable \in { "closing", "closed" }

\* close() of a stream that sent something returns, while the connection
\* lives, only after the reader took every chunk out of the buffer
\* (stream.feature.ts: full consumption is acknowledged).
AckMeansConsumed ==
  writable = "closed" /\ outgoing = "closed" /\ transport = "open"
    /\ readable # "cancelled"
  => Len(read \o queue) = written

\* Chunks are in one place and in order, nobody waits in a buffer for what has
\* come, and neither end is told of an end that is not one.
ChunksAreKept == StreamTypeOK /\ WaitersAreDue /\ NothingLost /\ EndMeansAll /\ AckMeansConsumed

\* close() returns: the ack comes, or the node closes, unless the reader was
\* cancelled or the link broke.
CloseReturns ==
  writable = "closing" ~>
    writable = "closed" \/ readable = "cancelled" \/ transport = "closed"

\* Once the channel is closed, whoever closed it, the reader that had received
\* something does not wait for more.
ReaderEnds ==
  outgoing = "closed" /\ listening ~>
    readable \in { "closed", "errored", "cancelled" }
      \/ (readable = "absent" /\ "reader" \notin nodes)

\* Nobody at either end waits for what cannot come any more.
NobodyIsLeft == CloseReturns /\ ReaderEnds

=============================================================================
