# Eleplug in TLA+

Eleplug is a set of TypeScript packages from which an Electron application with
plugins is built: a multiplexed transport, remote calls on top of it, a bus of
nodes on top of those, and a plugin system that resolves, starts and stops
plugins. The repository has no tests. This directory models the parts whose
correctness depends on the order in which things happen, checks them with TLC on
small instances, and proves with TLAPS, for all instances, what can be proved of
the most important ones.

| file | what it is |
| --- | --- |
| `MuxenSender`, `MuxenReceiver` | the two halves of a multiplexed channel |
| `MuxenChannel`, `FifoChannel` | a channel over any link, and the FIFO channel it implements |
| `MuxenOrderedChannel` | the same halves over the ordered links the repository ships |
| `MuxenHeartbeat`, `MuxenTransport` | the heartbeat of a link, and the channels of two transports over it |
| `MemTransport`, `H2Transport`, `H2Frames` | the transport within a process; the one over HTTP/2, and its frames |
| `Ends` | the two ends of a transport |
| `ErpcBuffer`, `ErpcStream` | the buffer of a stream (operators, no state), and one stream from writer to reader |
| `ErpcCalls` | calls, pinned objects and the manager that several connections share |
| `ErpcTunnel` | a transport handed through a connection: bridge, proxy, pumped streams |
| `ErpcApi`, `ErpcSerializer`, `ErpcRuntime` | from a client's proxy to a handler; a value on its way; a node put together and taken apart |
| `EbusAskSession`, `EbusRouting` | one broadcast ask over a tree of buses; how the routing tables come about |
| `EbusCalls`, `EbusFanout` | calls from node to node while routes change; a stream that a broadcast gives to several targets |
| `PlexusGraph`, `PlexusResolver` | dependency graphs, plans, the resolver: operators, no state |
| `EsysOrchestrator`, `EsysBoot` | registry, plugin manager and orchestrator; the life of the host, its shutdown and its registry file |
| `ElepPlugins`, `ElepIpc`, `ElepResources` | how containers start and stop a plugin; how a page connects; which file a uri is |
| `*Proofs` | the theorems: of `MuxenChannel`; of `MuxenOrderedChannel`, `MuxenHeartbeat` and `MuxenTransport` (`MuxenProofs`); `H2Transport`, `MemTransport` and `ErpcTunnel` (`TransportsProofs`); `ErpcStream`, `ErpcCalls` and `ErpcApi` (`ErpcProofs`); `EbusAskSession`; `EbusCalls` and `EbusFanout` (`EbusCallsProofs`); `ElepPlugins`, `ElepIpc`, `ElepResources`, `ErpcRuntime` and `EsysBoot` (`HostProofs`). `DataProofs` has the lemmas about numbers, finite sets, sums and sequences that several of them cite |
| `MC*.tla`, `*.cfg` | the instances TLC checks |
| `PROJECT.json` | components, runs, mutants, hazards, findings, theorems, and for each definition the lines it models |

Run `tlc -config X.cfg M` for the pairs in the table of runs below, and
`tlapm M.tla` for each module of proofs.

## 1. The system

Paths are relative to `src/packages`. From the bottom up:

**muxen** multiplexes channels over one link of packets, which `muxen-mem`
provides within a process and `elep` between Electron's processes. *State*: per end, a map
of channels; per channel a sender (sequence numbers, unacknowledged packets with
a retransmission timer each, callers waiting for window space) and a receiver (a
circular buffer, the next expected number); per link a heartbeat (an interval, a
timeout, one handle). *Operations*: open, send, close a channel; packets
open-stream, open-stream-ack, data, ack, close-channel; ping and pong; the link
ends. *Hard*: retransmissions that cross acknowledgments; callers woken as
microtasks after the window moved again; packets for channels just closed;
several pings outstanding with one handle. *Correct if* payloads arrive once and
in order, nobody waits for ever, a channel is announced once and stays closed,
and the link is given up exactly when the peer is silent.

**transport, transport-mem, h2, h2-client, h2-server**: the interface of a
transport and its other implementations. *State*: per end a map of channels, a
control channel with a queue of early messages, a listener that may be heard
once, promises of sends, opens and closes. *Operations*: open, accept, send,
close, abort; over HTTP/2 the server's request for a stream and its timeout, and
frames cut up by the stream. *Hard*: in one process every method calls the peer's
and continues in microtasks; a server must ask its client for a stream and gives
up after ten seconds, when the stream may already be on its way; control channels
pend while the transport closes. *Correct if* each open settles, both ends know the
same streams, messages come in order and to somebody who may hear them, and what closes ends.

**erpc** makes typed calls over a transport. *State*: pending calls by id; stream
buffers and handshakes by id; pinned objects with reference counts; tunnels with
their bridges, proxies and pumps; an API as a tree of routers; a node's features.
*Operations*: ask, tell, stream read and write, pin and free, tunnel a transport,
serialize and deserialize, initialize, graceful and abrupt close. *Hard*: an
exception on one side that leaves a promise pending on the other; a stream's first
chunk racing its reader; release messages in flight; two life cycles coupled by a
tunnel; a value that occurs twice in a graph; a middleware that calls `next()` again;
a transport that closes between two features. *Correct if* every call reaches its
procedure and settles once, values, streams and tunnelled messages arrive whole
and in order and end, and no object is freed while a proxy is in use.

**ebus** is a tree of buses on which nodes join, call one another and publish
topics. *State*: per bus the local nodes and subscriptions, the routes, the
interest of each child, requests awaiting an answer of the parent, the sessions
of asks, and the calls of nodes that are pending. *Operations*: join, close,
subscribe, cancel; connect, drop; call a node; publish, answer, and the consumer's
`next()` and `return()`. Buses interact by `tell` messages over erpc. *Hard*: changes
that travel up one level at a time and are undone when refused or late; a call
whose answer finds other routes than the call did; results and end marks of several
branches; arguments that hold streams, given to several targets; links that break
under all of it. *Correct if* tables agree once everything has been answered, an ask
ends, and ends with exactly the results it is owed, and a call ends with what happened.

**plexus and esys** resolve and run plugins. *State*: the registry (installed,
enabled, last known status), the resolver's cache, the enabled graph, the
plan under way, what the containers have activated, the registry's file.
*Operations*: start, install, uninstall, enable, disable, reconcile, shut down.
*Hard*: the registry changes while a plan is carried out; a hook throws half way;
the provider's answers are cached; two callers shut the system down at once; a kill
leaves a file that says what no longer is. *Correct if* what runs is the graph, the
graph resolves what is enabled, plans keep the order of dependencies, reconcile()
ends, and after a restart the registry can be believed.

**elep, elep-boot**: windows, the ipc of a window's page, containers of plugins in
files, their resources, the start of an application. *State*: the acceptors, listeners
and links of each window; the runtimes a container lists, their nodes and development
servers; rewrite rules and what the loader has cached. *Operations*: handshake,
reload, destroy; activate, deactivate, close; request a file; bootstrap, before-quit.
*Hard*: a page is loaded again while packets of the earlier one are under way; a plugin
is stopped, or its container closed, between two awaits of its activation; rules that
match the same path. *Correct if* a page hears its own packets, nothing that runs is
forgotten, one file is served whatever the order of the rules, and the process ends.

**elep-dev, elep-vite-adapter, anvil, mimic, serbin, plugin-example**: development
tools, conversions and an example. They are sequential or input and output;
`PROJECT.json` gives the reason for each.

The hazards of the code are listed in `PROJECT.json` with the properties that
catch them; one has none, for the reason noted there.

## 2. The modules

### MuxenSender, MuxenReceiver, MuxenChannel

`send()` is three actions: `SendNow`, when the window has room, `SendParks`, when
the caller waits for `'ready'`, and `SendRejected` on a closed channel. Waiting
callers are in `parked`; `emit('ready')` moves all of them to `woken`, and
`ResumeSends` and `ResumeParks` are the microtask in which each tests `isReady`
again. `HandleAck` forgets the packet and refreshes the flag, `Retransmit` is the
ack timer, enabled for as long as the packet is kept, `Establish` changes the
window from the handshake's to the channel's, and `DestroySender` clears
everything and wakes the waiting callers. `sentLog` is the history of what got
which number.

`HandleDataPacket` acknowledges, tests the window and the slot, and slides. The
loop of `_slideWindowAndProcess` is written as what it reaches: the number
`stop` at which it breaks.

`MuxenChannel` puts a link between them that loses, duplicates and reorders:
the wire is a set, a received packet may stay in it, and any packet may go.
The handshake is `transport.ts`'s: a data packet that overtakes `open-stream`
creates the channel, and `open-stream` is then not answered. Payloads are the
calls themselves; `muxer.ts` encodes and decodes packets, which is abstracted.

`FifoChannel` is the abstract specification: payloads accepted once, and a growing
prefix of them received. `ImplementsFifo` maps `accepted` to `sentLog` and
`received` to `delivered`.

`MuxenOrderedChannel` is the same channel over two FIFO queues, as `muxen-mem`
and Electron's inter-process messages (`elep/src/transport`) provide. Retransmission still happens there, when an ack
is slower than `ackTimeout`.

### MuxenHeartbeat, MuxenTransport

Time is discrete. `timeouts` is the set of armed timeouts, `timeoutId` the one the
muxer's handle names: `SendPing` overwrites the handle without clearing what it
named, and `HandlePong` clears the named one whichever ping it answers. A live
peer answers within `MaxRtt`, which is less than the timeout.

`MuxenTransport` is two ends with a map of channels each. `close()` sends and
leaves the destruction to a microtask (`Close`, `DestroyClosing`); `Receive` is
`handlePacket` with its cases in order: close-channel, known channel, packets
that create a channel, the rest. Without a handler a new channel is closed at
once, before the packet that created it is answered; a handler may do the same. Either end may close,
and the opener may send until its `close()` takes effect. Data can therefore reach an end that has
forgotten the channel, which makes another of the same identifier there: `crossed` is the history of the channels
this can happen to. Windows and sequence numbers are left out here, and only the opener sends, which is what
`transport/src/channel.ts` says of streams.

### ErpcBuffer, ErpcStream

`ErpcBuffer` has an operator for each method of `IncomingBuffer`; whom a method answers
is read off the buffer it is called on. `ErpcStream` is one stream: a push writer
(`Write`, `WriteFails`, `Close`, `Abort`, and `ReceiveAck`, which ends the wait in
`close()`), a FIFO channel, the stream manager (`ReceiveMessage`, which is
`HandleData`, `HandleEnd` or `HandleClosure`), and a pull reader (`CreatePullReader`, `Pull`,
`Read`, `Cancel`). The reader is made at any moment, before or after the first
chunk: `DataForReader`, `DataForNobody` and `CreatePullReader` are the two ways to
meet. Continuations that run after the promise they await are in `tasks`:
the sending of the acknowledgment, and the `closeIncoming()` of a handler whose push was
rejected or of a reader that was cancelled. `buffers` keeps every buffer ever made, since a late chunk
may make one nobody reads. Handlers are not awaited by the transport, so that data
is pushed although the buffer is full.

### ErpcCalls

Several clients, each with a server half; all server halves share one resource
manager, as those of a bus do. `TrackAsk` registers a call and sends it, for a procedure (`Ask`) or on a
proxy (`PinCall`); at the server it runs (`ExecuteAsk`, `HandlePinCall`) until it
`Returns`, `ReturnsPin`, which counts a reference before the response is sent, or
`ReturnsCycle`, which sends no response. `Free` is `free()` or the collection of the
proxy. A method taken from a proxy may be called after the proxy is gone, hence `PinCall` on a freed
one. `ServerTold` is a lost connection, where nobody closes the features of the
peer's stack, and `ServerCloses` a close that does. There is one object; it gets a new id
whenever it is pinned after its last release.

### ErpcTunnel, ErpcApi, ErpcSerializer, ErpcRuntime

`ErpcTunnel`: one tunnel from the local end of a tunnelled transport over a bridge and a
proxy, with the host's connection between them. Control messages are sent (`SendFromLocal`,
`SendFromProxy`), taken up by the bridge (`ForwardFromLocal`) and routed at the other side
(`RouteToBridge`, `RouteToProxy`). A stream is opened at one end (`OpenFromLocal`, `OpenFromProxy`),
arrives at the tunnel (`Arrive`), which opens its counterpart (`DestinationReady`, `DestinationFails`);
from then on `Pump` is the listener of `pumpStream`, which carries data away from the opener, and
`LoseUnheard` is data that comes while there is no listener yet. The host, the tunnelled
transport and the proxy may each end at any moment (`LocalCloses`, `CloseProxy`,
`HostClosesAtBridge`, `HostClosesAtProxy`).

`ErpcApi` follows a call: a proxy gathers a path (`Get`) and metadata (`Meta`), the router
looks it up by the longest key that fits, and the procedure's chain is entered and
left one middleware at a time (`Enter`, `Handle`, `Leave`). A middleware of the program's
may catch a failure and call `next()` again; a validator may fail or replace its value;
`opts` are the contexts and metadata in the order they were joined.

`ErpcSerializer`: a value is a graph of nodes, each with its kind and items. Its tokens are
those of its tree, so that a value that occurs twice is written twice, and one that
contains itself fails unless the second occurrence is handled by reference. On the way of a
broadcast the dispatcher copies it first.

`ErpcRuntime`: the features of a server, a client and a bus's connections, in the order in
which `buildFeatures` sorts and initializes them, one step each, while messages arrive and
the transport may close; then closed in reverse.

### EbusAskSession

One ask of one publisher over a fixed tree. A session is a record of its source
and, for each branch and for the bus's own subscribers, whether the branch has
ended, how many results it announced and how many came. `Dispatch` is
`dispatchBroadcast`, `UpdateSession` and `Advance` are `update`, `processResult`
and `checkCompletion` with the iterator's `yield` and `close`, `RouteUpstream` is
what `routeP2PMessage` does to an answer nobody manages, `CallNext` and
`CallReturn` are the consumer, `NoticeDrop` is `connectionDropped`, `CloseBus` is
`close()`. Links are FIFO, because a `tell` serialises and sends synchronously
on an ordered control channel. The routing tables are those of the moment of the
ask, and may be stale. `silent` records where the ask reached a place from which
no answer will come; it is history, and only properties read it.

### EbusRouting

How the tables come about. A call on a node changes the tables of its bus and, if
the bus has a parent, waits for it; a request carries a correlation id and what to
do with the answer (`then`), and a bus answers its child when its own request has
been answered. `HandleNodes` and `HandleTopic` are the two kinds of
announcements with their admission and their conflicts, `Settle` the outcomes
with their rollbacks, `Timeout` the coordinator's timer, `Connect` the push of all
a bus knows, `NoticeDrop` the purge of all it knew through a child. The program
awaits each call about a node before the next about the same node (`AtRest`),
each id has one place, connecting is one step, the handshake, which carries no
state, is left out, and a timer fires only when a link on the way to the root has
broken. There is one topic, and groups are left to `EbusAskSession`.

### EbusCalls, EbusFanout

`EbusCalls` has the messages of node-to-node calls on the same tree: `Ask` and `Tell` send,
`Receive` is `routeP2PMessage` (execute here, pass on by the route, or to the parent when there is
none), `Returns` answers, `Forget` and `NoticeDrop` are the ends of links. Tables change as in
`EbusRouting`, reduced to what a call sees: a node joins at its bus and is learnt above one bus
at a time (`Learn`), leaves the same way, and is put back where that could not be passed on
(`PutBack`). Groups decide whether a bus lets a call in.

`EbusFanout` has the two directions of a stream in the arguments of a broadcast.
Fan-out: one pump reads the source and gives each chunk to every target at once, however much
of the earlier ones it has not read yet; a target that cancels ends the others with an error, and the source
is not told. Fan-in: each target writes to its own stream, all go into one queue of the
original, which closes when the last contributor has closed and ends when one has aborted.

### MemTransport, H2Transport, H2Frames

`MemTransport`: the methods of one transport call those of the other, and what they queue as
microtasks is the sequence `tasks`, run in order with program steps in between. The control
channel and the stream channels have the same listeners: none, one, one that listens once.
A message that finds nobody waits in the queue of the control channel and is awaited by the
sender on a stream. `_getOrCreateStreamChannel` calls the handler of incoming streams before the ends are linked
and before the message that made the channel is delivered. So `OpenOutgoing` and `ReceiveData` choose what the handler does
there and then: set a listener, close its end, which is not linked yet and closes alone (`early`), or send, which is refused.

`H2Transport`: an end is a record of its state, session and control channel; a stream goes through
the phases that `openStreamChannel` and `handleStream` give it. The server's request waits for the
control channel, is signalled over it (`SendSignal`) and is pending until the client's stream takes it up
(`AcceptPending`) or `OpenTimesOut`; a stream that comes after that is handed to the listener
of the client's own streams (`AcceptIncoming`). `Close` and `Abort`
end a session as Node does: no new stream, and the end once the last stream has gone.

`H2Frames`: frames are cut into pieces of any length; the parser's two states are whether it
awaits a length or a payload. `SendFrame` waits for 'drain' beyond the high-water mark, `Transfer`
carries any number of bytes, `EndStream` and `Break` are the two ends, and `FlushStream` is the
parser's test for a rest.

### PlexusGraph, PlexusResolver, EsysOrchestrator

The resolver returns one version of a name, so a graph is a function from names to
versions. The order in which a `Map` or `Set` is walked is left open: `Sorts` is
the set of all results of Kahn's algorithm and `Outcomes` the set of all results
of the search, both recursive functions. `Solves` says what a resolution
is without saying how to find it. A range is a sequence of alternatives, as `||` separates them, and `Joined` is
`#intersectRanges`: it writes one range behind the other, so that only the last alternative of the first and the
first of the second are intersected and the others are let through. `Conflicts` compares what is resolved already
without prereleases, `Candidates` takes them in, as the code does. `SolvesWherePlain` and `SolvableByReleases` say what is left of a
resolution under the two.

`EsysOrchestrator`: `state` and `status` are the registry, `running` what the
containers have activated, `graph` the enabled graph, `asked` and `cached` the
provider cache. `Reconcile` is everything up to the first entry of the plan,
which awaits nothing but its own promises; `BeginEntry` and `EntryDone` or
`EntryFails` are one entry, with the await of the plugin's hook between them, and
every operation of the plugin manager may come in between. `mishaps` remembers
that a plan was given up, or that a strict `disable()` stopped half way, and
`verdict` how the last reconciliation ended; both are history. Containers stay
mounted, a URI stands for one name and version, there is one provider, and every
registry is an initial state, as it is after a start from the file.

### EsysBoot, ElepPlugins, ElepIpc, ElepResources

`EsysBoot` is one process after another. `Start` reads the file or takes an argument,
`Mount`, `Ensure`, `LoadRegistry`, `AttachCore` and `Reconciled` are the phases, `BeginReconcile`, `AskContainer` and
`ContainerAnswers` a plan reduced to its plugins. `Quit` and `BeforeQuit` each start a `shutdown()`,
the user's also while one is under way, and the steps (`ShutdownStep`) of two may interleave; `AutoSave` writes the file, `Crash`
ends the process and keeps only the file.

`ElepPlugins` has a step for each await of `activate` (development server, module,
join, publish), of `deactivate` (hook, server, node) and of `close()`. A run is one call of
`activate`, a stop one of `deactivate`; `listed` is the container's map, `node` the nodes on the bus,
`held` and `server` the development servers and who keeps their handle. `orphans` and `failures` are
history: what `close()` passed over, and which steps threw.

`ElepIpc` has one window and the pages loaded in it one after another. `Handshake` and
`Answer` are `ipcMain.handle` and `accept`, `OpenTransport` the preload script's, `Arrive` the
dispatch by the router or by the page's listener. `wire` has what Electron carries, in order, to
whatever page is there by then.

`ElepResources`: paths are sequences of tokens. `Rewritten` takes the longest rule that is a
prefix (`SortedKeys`), `Fallback` the document of a single page application. A request (`Resolve`) finds
the runtime and its configuration, and a development server or the file system answers later
(`DevAnswers`, `Stored`); between the two the configuration may be edited (`Edit`) and the plugin stopped and
started again.

## 3. The runs

| run | module, cfg | instance | distinct states | result |
| --- | --- | --- | --- | --- |
| channel | MuxenChannel | 3 calls, send window 2, before the handshake 1, buffer 2 | 40,096 | holds |
| channel_acked | MuxenChannel, MuxenChannelAcked | 4 calls, windows 2, buffer 3 | | AckedPacketsAreKept violated |
| muxen | MCMuxen, Muxen | 1 channel with 1 data packet, interval 2, timeout 4, round trip up to 3; or 3 calls over an ordered link, windows 2 and 1, buffer 1, 4 packets in flight | 228,988 | holds |
| ask_session | MCEbusAskSession, EbusAskSession | 4 buses in a fork, 3 nodes, one trouble | 222,050 | holds |
| ask_silent | MCEbusAskSession, EbusAskSessionSilent | no trouble | | AskAlwaysCompletes violated |
| routing | MCEbusRouting, EbusRouting | a chain of 3 buses, 2 nodes, 3 calls, one trouble | 339,061 | holds |
| bus_calls | MCEbusCalls, BusCalls | a chain of 3 buses, 2 nodes, 1 call, 1 join, one trouble, 2 groups | 508,306 | holds |
| erpc | MCErpc, Erpc | a stream of 6 chunks, buffer 2; or 2 connections with 3 calls; all troubles | 251,156 | holds |
| plugins | MCEsysOrchestrator, EsysOrchestrator | 5 versions of 3 plugins, the newer ones prereleases, one range of two alternatives, 2 calls, 1 hook that throws | 214,713 | holds |
| transports | MCTransports, Transports | HTTP/2 with 1 stream from each side and one trouble; memory with 3 sends; a tunnel with 2 streams; 2 targets with 2 chunks or writes each | 104,171 | holds |
| library | MCLibrary, Library | keys a, b, a.b with 1 argument; graphs of 3 nodes; 3 frames of 0, 1 or 3 bytes; 3 kinds of node | 542,168 | holds |
| host | MCHost, Host | 2 starts, 2 plugins, 1 change, 2 calls of `shutdown()`; 2 runs and 2 stops; 2 pages, 2 packets each; 7 paths, 12 configurations | 733,927 | holds |

*muxen*, *erpc*, *transports*, *library* and *host* hold several parts that share no variable.
Each behaviour chooses one of them in its initial state and leaves the others
at rest, so that the state space is the sum of theirs and not the product. Nothing is lost by
it: no property of one part reads the variables of another, and the parts have no action in
common.

**Why the bounds are enough.** *channel*: three payloads with windows of one and
two make callers wait, be woken, find the window full again and wait again; with
two slots the third payload wraps around. Nothing else bounds the run: the wire
may hold any set of packets. *muxen*: one slot is the smallest buffer, and
with `MaxInFlight` 4 every packet can be duplicated more than once;
with interval 2, timeout 4 and round trip 3 a ping may be sent while another is
unanswered, yet every answer arrives within the timeout. Channels do not interact but through the link, hence one id. Either end closes it, at once in its handler or later,
and one data packet is enough to cross a close of the accepting end or to follow one of the opener.
*erpc*: six chunks fill the buffer of two, its waiting line, the reader and the
wire at once, and leave some to write after that; with two calls on one connection
and one on the other an object can be pinned by both, released and pinned
again under a new id, and called through a proxy while the other connection releases it or closes; with two
calls on each the invariants also hold (3.9 million states).
*ask_session*: from the fork's four places an ask goes up, down, up and
down, and past a bus that has no node of its own. A trouble is a stranger, a denied bus, a stale route,
a broken link or a closed bus; two troubles at once would let one excuse another.
*routing*: a chain of three has a bus in the middle that answers below only when
answered above; three calls are join, subscribe and one of cancel, close and a
call about the other node; each bus may be connected from the start, later, or
again. *bus_calls*: in the same chain the caller's bus, the bus between and the callee's see different
tables while a node leaves and joins once more. *plugins*: `app` needs `lib` needs `base`, where the newer
`lib` takes only the newer `base` and closes a cycle with `app`, and the older takes either, as two alternatives. The newer
versions are prereleases. So a resolution may need to backtrack, a prerelease may be resolved before what depends on it, and a
range with alternatives meets an exact one; plans keep, replace, modify and remove; two calls are enough to enable one
and disable another during a plan. A plugin's own range names no prerelease ("^1.0.0-beta"), and no range is
empty or a hyphen range ("1 - 2"), which joined to another would not be a text semver reads.
*transports*: three sends are one that waits for a listener, one behind it and one that finds the listener spent;
a handler in memory listens, closes, sends or does nothing as it is called, at the opening and when late data makes a channel again, what else it
does being a later step of its program; callbacks of `onClose` do nothing at once, and a listener does not close
or listen anew in the middle of the queue that is flushed to it;
a request for a stream, its timeout and a client's own stream are the races of the session;
two tunnelled streams begin one on each side; two targets are the least that may disagree.
*library*: a key with a dot shadows two nested ones; three nodes make a value that occurs twice or
contains itself; frames of length 0, 1 and 3 with a prefix of 2 are cut within the length,
within the payload and behind several frames. *host*: two starts are a crash and what the next process finds; two calls of `shutdown()` may both be the user's, or a plugin's and the user's;
two runs overlap an activation with the stop of an earlier one; two pages are a reload; the rules
include one that is a prefix of another.

**What the properties say.** *channel*: `WindowsHold` no packet is discarded for one of another turn, and
backpressure does not overrun; `NoLostWakeup` nor does it forget a caller;
`ImplementsFifo` the refinement, delivery exactly once and in order; `SentIsDelivered` what is sent arrives unless
the channel is destroyed or the receiver acknowledged what it discarded.
*muxen*: `AckIsSafe` that last exception does not
arise on an ordered link; `ChannelTrafficArrives` the handshake and the payloads, without any timer;
`LivesOnce` a channel is established by both, announced once, and stays closed, the last two at the accepting end unless data
may cross a close (`crossed`); `CloseReachesBoth` a channel that either end closes goes at its opener, and at the other end unless
data re-creates it there, or the link is given up;
`DropsTheDeadOnly` the heartbeat gives up a silent peer in time and no prompt one.
*erpc*: `ChunksAreKept` every chunk is in one place and in order, nobody waits in the buffer for what is there, and neither the
reader nor `close()` is told of an end that is not one; `NobodyIsLeft` nobody waits
at the reader or in `close()` for what cannot come;
`PendingIsSomewhere` a pending call is in exactly one place; `PinsAreKept`
an object lives as long as it is referred to, and no longer; `CallsSettle`.
*ask_session*: `CompleteMeansAll` no result comes twice, and an iterator that ends normally has everything owed
whatever broke elsewhere; `ResultsAddUp` end marks count
what came before them (and the types); `AskSettles` the ask ends and stray answers do not circulate.
*routing*: `TablesAgree` routes, interest and child index when all is
answered, and that subscribers have handlers; `JoinTellsAll` what a successful join()
means; `CallsSettle`. *bus_calls*: `AnswersAreTrue` a result means that the procedure ran, once, a refusal
that it did not, and between nodes that share a group and stay, over links that hold, a result comes;
`NothingGoesInCircles` no bus sends a message on more than once up and once down, for each time its
node may have joined, unless a route to a node that has left was put
back; `AsksSettle`, with the same exception. *plugins*: `RunsWhatIsEnabled` what runs is the graph, and the graph resolves what is enabled, every range included on
a name whose ranges have no alternatives, and at least one of them where one has;
`ResolutionComplete` the resolver finds a resolution if, of the versions it knows, there is one in which nothing depends on a prerelease; `PlansAreRun` plans keep the order of dependencies and reconcile() ends.
*transports*: `StreamsAreMatched` the ends of a session agree on their streams, and a stream opened for a
request is given to it; `OrderIsKept` what arrives, in memory and through a tunnel, arrives in order, and the ends of a channel in memory are open
together unless a handler closed its own as it was told of it; `SharedStreamsAgree` each target reads the whole stream, or its writes reach the original; `OpensSettle`,
`EverythingEnds`; `MemDropsUnheard` a message is dropped only if nobody can hear it: the channel is closed, its listener was one for a single
message, or its handler closed it as it was told of it.
*library*: `CallsAreHandled` the procedure that the path names runs, once for each `next()`, and its handler sees the contexts, metadata
and arguments its chain made; `DataArrives` a value and a row of frames come out as they went in; `NodeIsWhole`
no message comes before its listeners or after them (but for a call to a client, which has nobody to answer one), and
whoever listens to the end of the transport is told of it.
*host*: `RegistryIsTrue` at rest the registry says what runs, after a crash too, and a clean end stops and saves everything,
with nothing promised after a plan that failed, a plugin that did not stop, or a shutdown during a reconciliation; `QuitEnds` a user's
quit ends the process whatever fails;
`NothingIsForgotten` what runs is listed or excused by a failure, and no development server runs without its plugin;
`PagesHearTheirOwn` an end hears what was sent to its page in order, without gaps, and the router keeps just the open links;
`ServesOneFile` the file served is that of the longest rule, or the fallback, from one configuration.
Each passing property has in
`PROJECT.json` a mutant of a definition, a bug one could plausibly write, under
which TLC finds it violated; the mutants stand beside what they mutate.

**Fairness.** Microtasks and timers run (weak fairness). A link that keeps being
sent a packet does not lose every copy of it (strong fairness of the reception, in
`MuxenChannel` only); elsewhere links deliver while they are up. Procedures and
hooks return, with a value or an exception. Broken links are reported to both
ends. In `ErpcStream` the placeholder arrives and the reader is read. In `H2Transport` the
server sends the signal it has queued, its ten-second timer fires, and a session that is to end ends;
in `ErpcTunnel` messages are carried and pumped, and a host of which one end has closed closes
at the other; in `EbusFanout` the source gives and ends, and its readers and writers are taken from; in `EsysBoot` the steps of
a shutdown are taken. Nothing else is assumed of the program: nobody has to send, ask, write, consume, close, free
or call reconcile(). No fairness is assumed of failures.

**Deadlock** is not checked: all of these systems may legitimately come to rest, and
what must not rest is stated as liveness.

## 4. Where code and documents disagree

Each has an entry in `PROJECT.json` with the lines.

* *channel_acked*: every data packet is acknowledged before the window test, and a
  packet beyond the window is then discarded. The sender counts unacknowledged
  packets, not their span, so that over a link that loses packets it runs ahead
  of the receiver, and what it loses there is gone. Ordered links are not affected
  (`AckIsSafe`).
* *ask_silent*: a bus with nobody to ask sends no `ack_fin`, and the ask waits for ever.

Met while modelling, without a run of their own. The models behave as the code does, and the properties
leave out what follows from it, as their comments say.

* **muxen**: data under way re-creates a channel that the accepting end
  has closed, its handler is called again, and the new channel stays, as its opener has been destroyed by the close and tells nobody (what
  `LivesOnce` and `CloseReachesBoth` leave out). A ping overwrites the handle of an earlier
  timeout, so that a peer whose answers take longer than the interval is dropped, though it answers each
  within the timeout (`PromptIsKept`). A send waiting for window space never
  settles after `destroy()`.
* **transport-mem**: the handler of an incoming stream is called before the ends are linked. If it closes the channel there and
  then, the opener's end stays open alone, and what it sends is dropped and reported as sent (`early` in `MemEndsAgree` and
  `MemDropsUnheard`). Data that is late for a channel makes it again, and a handler that listens at once hears a message after the end.
* **h2**: the client's `close()` waits for a session that waits for the control stream, which nobody ends. A stream
  that ends behind the prefix of a frame counts as ended cleanly. A send that waits for 'drain' never settles
  if the stream closes without an error.
* **erpc**: a cancelled reader tells nobody, its acknowledgment never comes, and `close()` of
  the writer neither returns nor closes the channel. A full buffer makes no producer wait. A call
  whose result cannot be serialized gets no response (`silent` in `CallsSettle`). A pinned function is
  serialized as any function is. The streams of a tunnel are pumped away from their opener only.
* **ebus**: when the announcement that a node is gone
  cannot be passed on, the bus puts back a route to a node that no longer exists (`mishaps` in
  `TablesAgree`, `PutBack` in `EbusCalls`). A lost connection never releases what it had pinned. `closeNode` awaits the
  announcement before it rejects calls. When all targets of a fanned-out stream are gone, the source is locked by the pump and
  cannot be cancelled. A contributor that aborts without a reason closes the original for all. An object
  pinned on the publishing bus is copied, not shared.
* **plexus, esys**: the resolver caches the provider's answers and is never cleared, so that installing what was missing
  does not let a retry succeed (`Known` in `ResolutionComplete`). Joined as texts, ranges with alternatives admit versions that one of them does
  not, so that the version that is enabled may be passed over for another (`SolvesWherePlain`). A dependency that is resolved
  already is compared without prereleases, so that a set that has a solution may be given up (`SolvableByReleases`). Two metas that differ in the dependencies of the first
  compare as equal. Plugins that depend on a replaced plugin are not
  restarted if the replacement keeps its version (`OrderKept` speaks of the stops of removed plugins only). uninstall() accepts a plugin
  that is disabled but still running, and every later reconciliation then fails; after a plan
  that failed half way the enabled graph is no longer what runs (hence `mishaps` in *plugins*).
  The file says "running" after a kill. A shutdown stops at the first plugin that fails.
* **elep**: a development server is left running when a later step of the activation fails, or the plugin's own
  `deactivate()`; `close()` of a container passes over activations under way (`orphans`). The fallback of single page
  applications takes the last html segment, and entries with a leading slash never match.

## 5. What is proved

Each theorem holds for every value of the constants that satisfies the named assumptions.
Where it names a property of a run, TLC shows that property of a small instance.

| module | theorem | statement | assumptions |
| --- | --- | --- | --- |
| `MuxenChannelProofs` | `Invariance`, `TypeCorrect`, `DeliveryInOrder`, `WindowsRespected`, `WakeupNotLost` | `Spec => []P` for `IInv`, `TypeOK`, `DeliveredIsPrefix`, `WindowsHold`, `NoLostWakeup` | the windows and the buffer are positive |
| | `Refinement` | `Spec => ImplementsFifo` | |
| `MuxenProofs` | `OrderedAckIsSafe` | `OrderedSpec => []AckIsSafe` | the same |
| | `HeartbeatIsRight` | `Spec => []DropsTheDeadOnly` | the round trip is shorter than the timeout |
| | `ChannelsLiveOnce` | `Spec => []LivesOnce` | the same |
| `TransportsProofs` | `StreamsAlwaysMatched` | `H2Spec => []StreamsAreMatched` | the control stream, the client's and the server's streams are different |
| | `OrderIsAlwaysKept` | `Spec => []OrderIsKept` | finitely many streams, each with an opener; every tunneled stream has an origin; the bounds on messages are numbers |
| | `MemDrops` | `MemSpec => MemDropsUnheard` | the same |
| `ErpcProofs` | `ChunksAreAlwaysKept` | `StreamSpec => []ChunksAreKept` | the buffer holds at least one chunk |
| | `CallsAreInOnePlace` | `Spec => []PendingIsSomewhere` | there are finitely many calls |
| | `ObjectsAreKept` | `Spec => []PinsAreKept` | the same |
| | `CallsAreAlwaysHandled` | `ApiSpec => []CallsAreHandled` | keys, paths and chains are sequences; the bounds are numbers |
| `EbusAskSessionProofs` | `CompleteAlwaysMeansAll` | `Spec => []CompleteMeansAll` | the buses are finitely many, and a tree: from each its parents lead to the root, and never back; there are finitely many nodes, each on a bus |
| | `ResultsAlwaysAddUp` | `Spec => []ResultsAddUp` | the same |
| `EbusCallsProofs` | `AnswersAreAlwaysTrue` | `CSpec => []AnswersAreTrue` | such a tree, finite or not; the two words that stand for "here" and "nowhere" are not buses; having no route is not a set of groups |
| | `StreamsAreShared` | `FanSpec => []SharedStreamsAgree` | there are finitely many targets |
| `HostProofs` | `PluginsAreKnown` | `PlugSpec => []NothingIsForgotten` | "no run" is not a run |
| | `ChannelsAreKept` | `IpcSpec => []PagesHearTheirOwn` | there is a page |
| | `NodeIsAlwaysWhole` | `RunSpec => []NodeIsWhole` | |
| | `RegistryIsAlwaysTrue` | `BootSpec => []RegistryIsTrue` | a configuration lists finitely many plugins |
| | `UrisServeOneFile` | `ResSpec => []ServesOneFile` | paths and rules are texts, of tokens with "/" among them; a configuration has finitely many rules; a single page application with one page has an entry |

None of these properties is inductive; each proof strengthens its property, shows that
the initial states satisfy the strengthening and that each action keeps it (one lemma per action), and closes
with temporal logic.

**`MuxenChannel`.** `IInv` adds to the types: every data packet on
the wire is the one that was sent under its number (`WireIsSent`), without which
the receiver's history says nothing of the sender's; every filled slot holds such
a packet of the current window (`ReceiverInv`), without which sliding could hand over
a payload of another turn; each call is in one place only, waiting, woken, sent or
rejected (`CallsOnce`), without which a payload could be accepted twice;
and `isReady` is false only while the window was full at the last look and something is
still unacknowledged (`ReadyIsRoom`), without which an acknowledgment might find no one
to wake. The refinement
splits the steps into those that deliver, which hand over the next payloads of the log,
and the rest, which accept one payload or none.

**`MuxenOrderedChannel`.** That no packet is discarded once it is acknowledged follows from the order of the link:
before a packet on it, or at the receiver, are all earlier ones (`NoGaps`), everything the sender keeps is under way or
acknowledged (`AllUnderWay`), acknowledgments are of what was delivered
(`AcksAreTrue`), so that the receiver's buffer stays empty; after `destroy()` nothing is said any more (`SilentAfterClose`).

**`MuxenHeartbeat`.** An armed timeout has an age between zero and its bound (`TimersOK`); from the peer's death
to its timeout no more time passes than an interval and a timeout (`DeathIsTimed`); and while answers
come within the interval, the one timeout that is armed is the one the handle names
(`PingsAreTimed`), which is what the pong clears.

**`MuxenTransport`.** `LivesOnce` is proved channel by channel: `Chan` says of one channel, in the state it is given, what a
step must keep, so that a step that does not touch the channel keeps it at once (`ChanSame`). Nothing is known of a channel before it is opened
(`Unknown`); then the opener asks and the acceptor answers (`Spoken`), an answer under way, or an
established opener, means that an acceptor that listens has announced it (`Answered`), and the opener's end does not come back, as nothing that could
create it is sent to it: so much whatever the two programs do. Of a channel whose data crosses no close (`Uncrossed`) more is true:
what is said of it is framed, `open-stream` first and once and `close-channel` last (`Framed`), the end that closes it is
`Finished`, and an acceptor that listens has announced it exactly when the `open-stream` has arrived, and lives until the
opener is finished (`Accepted`), so that data never creates it a second time.

**`ErpcCalls`.** A call is in at most one place of its connection, and on one that
holds in exactly one while it is pending (`Whole`); that needs that nothing is said of it on
other connections (`Addressed`), that a connection that holds is open at the client and served (`Linked`),
that a proxy stands for an id that was given out (`Named`), and that ids
are not used up before calls are (`Counted`).
`ObjectsAreKept` builds on that. The count of a pinned object covers the proxies that are bound, the answers
under way that carry one, the releases not yet arrived, and what is `Owed`: a connection of which a proxy was freed when
the release could no longer be sent, while a call made on that proxy is still under way (`Covered`). While all
connections hold, the count is exactly the references. Without `Owed` the property is not inductive: nothing in the
state would keep the object that such a call still looks up. The rest says that only a settled call has brought a proxy (`Settled`), that the halves of the
server that serve are users of the manager and that nothing reaches one that has ended (`Served`), and that nobody knows an id before it is
given out (`NoneForeseen`).

**`EbusAskSession`.** A link leads away from the publisher's bus or towards it, and each link cuts the tree in two
(`Side`); that two such sides, both without the publisher, are disjoint or nested is what a tree is needed for. The invariant
has five parts besides types. The tables keep the routes to every subscriber while the links on the way hold
(`RoutesHold`). An ask is alone on a link that leads away, and beyond it nothing has happened yet: no session, no answer, no
message (`AsksAreFresh`), so that each bus sees one ask and no session is overwritten. A result is in one place, on a link, with its node, or delivered
(`ResultsAreOnce`), which is why none comes twice. A session answers towards the publisher, waits for
neighbours farther away, and counts as still owed those of its own subscribers that run (`SessionsFit`); the iterator is
open while the publisher's bus has its session (`IteratorFits`). And a node that is owed a result and has
not had it delivered is still to come (`NobodyIsMissed`): its ask is on one link of the way, or it runs, or its result is
on one link of the way back with no end mark in front; and from the publisher's bus up to there every bus has a session whose
branch towards the node is pending, with no end mark under way for it (`StillToCome`). The last clause is the
protocol: a session ends only when all its branches have, so that no bus on the way may end before the result has passed, and
what it sends when it ends comes behind that result. A closed iterator has no session
at the publisher's bus; so nothing is still to come, and everything owed is delivered. Failures elsewhere break only ways that then owe nothing; at the
publisher they make the iterator fail. An answer that finds no session wanders upward, and does no harm.

`ResultsAddUp` says of one bus that an end mark equals the results that came before it. What makes it true is at two: `Flow` says of each
link away from the publisher that what the far session has counted, from its own subscribers and all its branches (`Counted`), is what the near one has
been credited for that branch, plus what is under way between them; and that an end mark is the last message, with a total
of just as many, or of less if links have broken, since a branch that was cut off owes nothing any more though some of its results were passed on.
Where nobody waits, nothing has begun or all is over (`Over`), or the publisher has left (`Left`). That no branch is credited more
results than there are nodes beyond it (`BranchAdds`) follows, as the branches of a session lie apart (`SidesApart`); without it
an end mark might count more nodes than there are.

**`EbusCalls`.** Two arguments, which share only the messages. A call is in one place, as one message on one link or as one procedure that runs
or has been refused (`CallOK`), and what it carries there says how often it has been executed (`Carries`, `Holds`); so routing takes a message
from its place (`InHand`) and puts it in another, or settles the call with what it says. And an ask between nodes that stay
is never refused and never at a loss: on its links are only the ask itself, with its caller's groups, and answers with a result (`SteadyOK`).
For that every bus above a node that has joined must have its route as long as no link breaks (`RoutesHold`), which
is not inductive: it needs to know of the announcement that an earlier join of the node has left that it is under way once at most,
only while the node leaves, and that from where it goes all the routes upward are still there (`KnownFrom`), since each bus forgets
before it passes the announcement on. So none is left when the node has closed, and a later join is not undone by it.

**`ErpcStream`.** The chunks that are not on the wire any more are, in this order, read, queued at the reader, in
its buffer, and parked in line for room in it, and the wire goes on from there (`Flow`). That buffer is either the one the channel
feeds or the one that waits for the first chunk to name its channel, so that it makes no difference which of the two comes first. Which chunk
the wire begins with is in no variable once the wire is empty; so the invariant says that there is such a number (`StreamInv(lo)`).
While the transport is open, the writer's state says what else is on the wire and where (`Writer`), and what end the reader may have been
told of: a normal one only behind the last chunk, an error only of a writer that aborted (`Reader`).

**`ErpcApi`.** Of the lookup: an exact path is taken first, and otherwise the walk down the trie ends at the longest dynamic path that
is a prefix, since every prefix of such a path is a node of the trie (`PrefixFound`, `ProcedureFound`). Of the chain: what each level was given is a
function of the levels above it (`LevelsAreGiven`) -- the context is in front of the metadata until the injector, which stands first or nowhere
(`ChainIsRight`), has taken it, and the input is parsed below the first validator -- so that a middleware that tries again gives what it was given; and what
is handed up is checked exactly if an output validator stands below (`OutcomeIsTold`).

**`H2Transport`.** A stream the server wants is under way in one place only, as a signal and then as a request
(`AskedOnce`); a response comes from a server that has the stream (`AnswersAreTrue`); and whoever waits at the client has a frame under
way that will end the wait (`NobodyIsLeft`), in front of the end of the connection (`HearsBefore`) and behind which nothing
is requested any more (`NothingBehind`).

**`MemTransport`.** `MemKeepsOrder` is not inductive. Of each channel every message has one place, a stage (heard, queued, under way,
waiting for the channel) and a number in it, and who stands before another was sent before it (`Lines`). That an action keeps this is shown by
a map from the places after it to the places before (`Shift`, `ToResumed`) that keeps their order. The invariant also says that a control
channel queues only while it has no listener (`Queues`), which is why a listener for one message that drops the rest of a queue
takes it all, and that the two ends of a stream are known, linked and closed in step, but for an opener whose other end was closed by its handler
(`Pairs`, `Alone`). When ends close together, the sends that waited
there go back among the tasks, one end after the other in an order that nothing promises: so the proof needs what `FlattenSeq` of sequences and the sum
over a finite set are, and shows that each of these tasks is counted once. `MemDrops` reads the same cases as an action property, and rests on what the invariant says of a message under way: it goes to an end
that is ready, or to one its handler closed (`Together`).

**`ErpcTunnel`.** Each way, what has come out, is pending and is under way are the first control messages (`NothingMissing`) as
long as no part of the tunnel is gone (`BridgeSafe`, `ProxySafe`); and of each stream what is heard is a run, and what its pump has still to
move continues it (`StreamSafe`).

**`EbusFanout`.** Chunks are handed to all targets in one step, so each target's queue is the numbers from what it has read to what was
handed (`Numbers`), and the chunk that was read and not handed yet is the next one for everybody (`ChunkIsNext`). On the way in, a contributor has
one write in the queue at most, and it is the one it waits for (`QueueIsWrites`); the count of active contributors is the number of those that have
not closed until something ends it all, and from then on says nothing (`Counted`), which is why the last to close, and
only it, closes the original. Counting is why the targets must be finitely many.

**`ElepPlugins`.** What has a node or a development server is listed or excused. The invariant follows a run through its
awaits (`RunsAreKnown`) and its stops (`StopsHaveRuns`, `UndoneOnce`), with one node on the bus at a time (`OneNode`), and
says who keeps the handle of a server until it is stopped (`ServersAreHeld`).

**`ElepIpc`.** On each of the two ways of a page, the packets of its channel are sorted, begin behind what was heard,
and have no gap as long as both ends are open (`Ways`); the router keeps the open links only (`RouterKnows`),
a page shakes hands once (`OneHandshake`), and nothing is said before (`SilentBefore`).

**`ErpcRuntime`.** The property speaks of a node that is in use or closed; the invariant follows how it gets there. The position in the
list of features says exactly which handlers are registered, and which of them the serializer has seen
(`Handlers`), whether the transport is under its control (`FeaturesInOrder`), and, with what was taken off from the end (`TakenOff`), whether the
feature that closes the transport is among those (`Told`). That the transport may close while the node is being
built, before anyone listens, is why `Told` excuses that case.

**`EsysBoot`.** `RegistryIsTrue` is about a host at rest, or that has exited; the invariant has to hold while plans and shutdowns are
under way. Up to the first failure and the first shutdown, a plugin is active exactly if the graph the plan leads to has it,
unless the plan has still to do with it, and its entry says so (`Truthful`); for that, a plan says "start" of just what that graph has (`Planned`),
and whoever has a home in this run had one in the last (`Homes`), since the registry file is read before containers are mounted and a
plugin without a home would be found neither to start nor to stop. Behind a shutdown nothing is planned, whoever is still active when
containers close is among those they close (`AllStopped`), and the entries say "running" only of plugins that this shutdown has still to
stop, so that what it saves is true (`Records`). A second shutdown overlaps the first only after the first is over, unless a mishap is recorded (`Calls`).
Where plugins have their homes needs no assumption.

**`ElepResources`.** `ServesOneFile` compares what was served with what the rules promise, and the two are computed in different
ways: the code tries its rules in an order by length and takes the first that fits, the promise is the rule that every other
fitting one is a prefix of. `PromiseIsKept` says that they agree. It needs that finitely many rules can be put in that order at all (proved by
induction on their number), and that of two prefixes of one text the shorter is a prefix of the longer. A fallback is the text itself or
a page that `Departs` from it rightly (`SmartIs`, `ManyIs`). What remains is the time between
a lookup and its answer: `ResInv` has that what the loader has read is a configuration, and that a request past
its lookup leads to what the rules read then promise, which no later edit, stop or start may change.

**Only model-checked**: all liveness, which is out of the prover's reach under fairness. The library's induction theorems are too, as
they take an operator; where a proof needs induction, `DataProofs` states it of sets of numbers and proves it from the least element that
such a set has. That serves for `FlattenSeq` and the sums over finite sets, but not for functions whose recursion goes by no number the model knows:
the searches of `PlexusGraph` and `PlexusResolver` are defined on sets that shrink, so nothing says that such functions exist;
`ResolutionComplete`, `RunsWhatIsEnabled` and, with operators that are declared RECURSIVE, `DataArrives` stay with TLC.
`TablesAgree` and `NothingGoesInCircles` are about where announcements and calls may still be on their way; these
are within its reach and not yet proved.

## 6. The plan

Built, in the order of how much the rest depends on it: the channel, the
transport, the asks, the routing tables, the plugin system, erpc's streams and calls; then the other transports, the tunnels,
the path of a call through clients, routers and serializer, calls between nodes, the life of the host, and Electron's ipc. Next:

1. **erpc**: pins in arguments and several objects; an abstract bounded stream that
   `ErpcStream` implements.
2. **ebus**: clashing node ids as a second instance of `EbusRouting`; the broadcast of a tell; the handshake of a connection.
3. **muxen**: the singleton control channel, as `MemTransport` has it.
4. **esys**: `unmount()`, when something calls it.

Theorems: `TablesAgree`, by the child index first; `NothingGoesInCircles`, which has to count on which way a message is.

## 7. What is not modelled, and why

* **anvil, mimic, serbin**: URIs, JSON with binary data and a binary serializer. They keep no state and do nothing but convert their
  argument; `ErpcSerializer` assumes only that what is encoded is decoded.
* **elep-dev, elep-vite-adapter**: a development server, the generation of types and child processes; what a host sees of them,
  a server that starts, answers and stops, is in `ElepPlugins` and `ElepResources`.
* **plugin-example**: an example application, mostly of components of a user interface.
* **Types and forwarding**: the interface of a transport, public types, the wrappers that forward to Electron or to the system. They
  change nothing.
* **Of the parts marked "partly"**: the parsing of packets and of configurations, the text of uris and of errors,
  MIME types, logging; operations nobody calls (`unmount`, the provider's `clear`); the handshake between buses,
  which carries no state.

Electron, HTTP/2 and semver are external: a link is an ordered queue while it is up, a session of HTTP/2 delivers the frames of a stream in order and
ends as Node documents, a range is a sequence of sets of versions, its alternatives. Groups,
topics and payloads appear only as far as a property tells them apart.
