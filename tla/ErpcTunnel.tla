----------------------------- MODULE ErpcTunnel -----------------------------
(***************************************************************************)
(* A transport handed through erpc: the node that serialized it bridges    *)
(* it, the node that deserialized it holds a ProxyTransport.  The control  *)
(* messages of the tunnel travel inside those of the host connection; each *)
(* of its streams is a stream of the host pumped into one of the bridged   *)
(* transport, or the other way.  Data are pumped away from the side that   *)
(* opened the stream only.                                                 *)
(*                                                                         *)
(* Messages are numbered by sender; 0 is the placeholder of the transport  *)
(* or the stream-tunnel message that begins a stream of the host.  The     *)
(* bridged transport and the host connection are external: channels that   *)
(* keep the order and tell one end that the other has closed.              *)
(***************************************************************************)
EXTENDS Naturals, Sequences, SequencesExt

CONSTANTS
    Tunneled,    \* streams of the tunnel
    OriginOf,    \* [Tunneled -> {"bridge", "proxy"}], on which side it is opened
    MaxGiven     \* bounds the messages of a channel

ASSUME TunnelAssumption == OriginOf \in [Tunneled -> {"bridge", "proxy"}] /\ MaxGiven \in Nat

VARIABLES
    bridge,      \* the BridgeEntry, and whether its tunnel exists
    local,       \* whether the bridged transport is open
    proxy,       \* the ProxyTransport
    host,        \* per node, whether its end of the host connection is open
    toProxy,     \* control messages on the host connection
    toBridge,
    fromLocal,   \* control messages of the bridged transport, not yet forwarded
    atLocal,     \* control messages the bridged transport was given
    atProxy,     \* control messages the proxy has emitted
    given,       \* per side, how many control messages send() was given
    stream       \* per stream, the pump and its two channels

ctlvars == <<toProxy, toBridge, fromLocal, atLocal, atProxy, given>>
tvars == <<bridge, local, proxy, host, ctlvars, stream>>

Nodes == {"bridge", "proxy"}
Start == 0
Messages == 1..MaxGiven

\* a channel: whether the end that sends and the end that receives are open
Channel == [snd : BOOLEAN, rcv : BOOLEAN, queue : Seq(Messages \cup {Start})]
NoChannel == [snd |-> FALSE, rcv |-> FALSE, queue |-> <<>>]
OpenChannel(queue) == [snd |-> TRUE, rcv |-> TRUE, queue |-> queue]

\* "arriving": the source exists, its handler is not called yet; "opening": the
\* destination is awaited; "pumping": the source has its listener; "over": no pump
Phases == {"idle", "arriving", "opening", "pumping", "over"}

Stream == [phase : Phases, src : Channel, dst : Channel, accepted : BOOLEAN,
           sent : 0..MaxGiven, heard : Seq(Messages)]

TunnelTypeOK ==
    /\ bridge \in [state : {"none", "open", "gone"}, control : BOOLEAN, pending : Seq(Messages)]
    /\ local \in BOOLEAN
    /\ proxy \in {"unknown", "open", "closed"}
    /\ host \in [Nodes -> BOOLEAN]
    /\ toProxy \in Seq(Messages \cup {Start})
    /\ \A queue \in {toBridge, fromLocal, atLocal, atProxy} : queue \in Seq(Messages)
    /\ given \in [Nodes -> 0..MaxGiven]
    /\ stream \in [Tunneled -> Stream]

TunnelInit ==
    /\ bridge = [state |-> "none", control |-> FALSE, pending |-> <<>>]
    /\ local = TRUE
    /\ proxy = "unknown"
    /\ host = [n \in Nodes |-> TRUE]
    /\ toProxy = <<>> /\ toBridge = <<>> /\ fromLocal = <<>> /\ atLocal = <<>> /\ atProxy = <<>>
    /\ given = [n \in Nodes |-> 0]
    /\ stream = [s \in Tunneled |-> [phase |-> "idle", src |-> NoChannel, dst |-> NoChannel,
                                    accepted |-> FALSE, sent |-> 0, heard |-> <<>>]]

-----------------------------------------------------------------------------
(* Closing. *)

\* what the loss of an end of a channel at the bridge makes of a stream: cleanup()
\* of the pump, once it listens, closes the other end there
CleanedUp(t) ==
    IF t.phase = "pumping" /\ ~(t.src.rcv /\ t.dst.snd)
    THEN [t EXCEPT !.phase = "over", !.src.rcv = FALSE, !.src.queue = <<>>, !.dst.snd = FALSE]
    ELSE t

\* the ends of the streams that the bridged transport and the host have at the bridge
LocalLost(t, origin) ==
    CleanedUp(IF origin = "bridge" THEN [t EXCEPT !.src.rcv = FALSE, !.src.queue = <<>>]
                                   ELSE [t EXCEPT !.dst.snd = FALSE])
HostLost(t, origin) ==
    CleanedUp(IF origin = "bridge" THEN [t EXCEPT !.dst.snd = FALSE]
                                   ELSE [t EXCEPT !.src.rcv = FALSE, !.src.queue = <<>>])
\* ... and those the host has at the proxy
ProxyLost(t, origin) ==
    IF origin = "bridge" THEN [t EXCEPT !.dst.rcv = FALSE, !.dst.queue = <<>>]
                         ELSE [t EXCEPT !.src.snd = FALSE]

\* Mutant: the transport is left open
BridgeForgotten(streams) ==
    /\ bridge' = [bridge EXCEPT !.state = IF @ = "open" THEN "gone" ELSE @, !.pending = <<>>]
    /\ stream' = streams
    /\ UNCHANGED <<local, fromLocal>>

\* cleanupBridge(): the entry is deleted and the transport closed; the other node
\* is not told
BridgeCleaned(streams) ==
    /\ bridge' = [bridge EXCEPT !.state = IF @ = "open" THEN "gone" ELSE @, !.pending = <<>>]
    /\ local' = FALSE
    /\ fromLocal' = <<>>
    /\ stream' = [s \in Tunneled |-> LocalLost(streams[s], OriginOf[s])]

-----------------------------------------------------------------------------
(* The bridge. *)

\* serialize() and bridgeLocalTransport(); the placeholder goes with the message
\* that is being serialized
Bridge ==
    /\ bridge.state = "none"
    /\ host["bridge"]
    /\ local
    /\ bridge' = [bridge EXCEPT !.state = "open"]
    /\ toProxy' = Append(toProxy, Start)
    /\ UNCHANGED <<local, proxy, host, toBridge, fromLocal, atLocal, atProxy, given, stream>>

\* getControlChannel() of the bridged transport: what has come meanwhile is sent
ControlReady ==
    /\ bridge.state = "open" /\ ~bridge.control
    /\ bridge' = [bridge EXCEPT !.control = TRUE, !.pending = <<>>]
    /\ atLocal' = atLocal \o bridge.pending
    /\ UNCHANGED <<local, proxy, host, toProxy, toBridge, fromLocal, atProxy, given, stream>>

\* the transport, or its control channel, closes, or never was there
LocalCloses ==
    /\ local
    /\ BridgeCleaned(stream)
    /\ UNCHANGED <<proxy, host, toProxy, toBridge, atLocal, atProxy, given>>

SendFromLocal ==
    /\ local
    /\ given["bridge"] < MaxGiven
    /\ given' = [given EXCEPT !["bridge"] = @ + 1]
    /\ fromLocal' = Append(fromLocal, given'["bridge"])
    /\ UNCHANGED <<bridge, local, proxy, host, toProxy, toBridge, atLocal, atProxy, stream>>

\* onMessage() of the bridged transport's control channel
ForwardFromLocal ==
    /\ bridge.state = "open" /\ bridge.control
    /\ host["bridge"]
    /\ fromLocal # <<>>
    /\ toProxy' = Append(toProxy, Head(fromLocal))
    /\ fromLocal' = Tail(fromLocal)
    /\ UNCHANGED <<bridge, local, proxy, host, toBridge, atLocal, atProxy, given, stream>>

\* routeIncomingMessage() where the bridge is, or was
RouteToBridge ==
    /\ host["bridge"]
    /\ toBridge # <<>>
    /\ toBridge' = Tail(toBridge)
    /\ \/ /\ bridge.state = "open" /\ bridge.control
          /\ atLocal' = Append(atLocal, Head(toBridge))
          /\ UNCHANGED bridge
       \/ /\ bridge.state = "open" /\ ~bridge.control
          /\ bridge' = [bridge EXCEPT !.pending = Append(@, Head(toBridge))]
          /\ UNCHANGED atLocal
       \/ /\ bridge.state # "open"
          /\ UNCHANGED <<bridge, atLocal>>
    /\ UNCHANGED <<local, proxy, host, toProxy, fromLocal, atProxy, given, stream>>

-----------------------------------------------------------------------------
(* The proxy. *)

\* deserialize() and getProxyForRemote(), or routeIncomingMessage()
RouteToProxy ==
    /\ host["proxy"]
    /\ toProxy # <<>>
    /\ toProxy' = Tail(toProxy)
    /\ proxy' = IF Head(toProxy) = Start THEN "open" ELSE proxy
    /\ atProxy' = IF Head(toProxy) # Start /\ proxy = "open" THEN Append(atProxy, Head(toProxy)) ELSE atProxy
    /\ UNCHANGED <<bridge, local, host, toBridge, fromLocal, atLocal, given, stream>>

SendFromProxy ==
    /\ proxy = "open"
    /\ given["proxy"] < MaxGiven
    /\ given' = [given EXCEPT !["proxy"] = @ + 1]
    /\ toBridge' = Append(toBridge, given'["proxy"])
    /\ UNCHANGED <<bridge, local, proxy, host, toProxy, fromLocal, atLocal, atProxy, stream>>

\* close() of a ProxyTransport: it stays in the map, and nobody is told
CloseProxy ==
    /\ proxy = "open"
    /\ proxy' = "closed"
    /\ UNCHANGED <<bridge, local, host, ctlvars, stream>>

-----------------------------------------------------------------------------
(* The host connection. *)

\* 'close' where the bridge is: destroyAll()
HostClosesAtBridge ==
    /\ host["bridge"]
    /\ host' = [host EXCEPT !["bridge"] = FALSE]
    /\ toBridge' = <<>>
    /\ LET streams == [s \in Tunneled |-> HostLost(stream[s], OriginOf[s])]
       IN IF bridge.state = "open" THEN BridgeCleaned(streams)
          ELSE stream' = streams /\ UNCHANGED <<bridge, local, fromLocal>>
    /\ UNCHANGED <<proxy, toProxy, atLocal, atProxy, given>>

\* ... and where the proxy is
HostClosesAtProxy ==
    /\ host["proxy"]
    /\ host' = [host EXCEPT !["proxy"] = FALSE]
    /\ proxy' = "unknown"
    /\ toProxy' = <<>>
    /\ stream' = [s \in Tunneled |-> ProxyLost(stream[s], OriginOf[s])]
    /\ UNCHANGED <<bridge, local, toBridge, fromLocal, atLocal, atProxy, given>>

-----------------------------------------------------------------------------
(* Tunneled. *)

Step(s, t) ==
    /\ stream' = [stream EXCEPT ![s] = t]
    /\ UNCHANGED <<bridge, local, proxy, host, ctlvars>>

OpenFromLocal(s) ==
    /\ OriginOf[s] = "bridge"
    /\ stream[s].phase = "idle"
    /\ local
    /\ Step(s, [stream[s] EXCEPT !.phase = "arriving", !.src = OpenChannel(<<>>)])

\* openOutgoingStreamChannel() of a ProxyTransport, closed or not
OpenFromProxy(s) ==
    /\ OriginOf[s] = "proxy"
    /\ stream[s].phase = "idle"
    /\ host["proxy"]
    /\ proxy # "unknown"
    /\ Step(s, [stream[s] EXCEPT !.phase = "arriving", !.src = OpenChannel(<<Start>>)])

SendOnStream(s) ==
    /\ stream[s].src.snd
    /\ stream[s].sent < MaxGiven
    /\ Step(s, [stream[s] EXCEPT !.sent = @ + 1, !.src.queue = Append(@, stream[s].sent + 1)])

\* onIncomingStreamChannel() of the bridged transport, or routeIncomingStream(),
\* which closes a stream of a tunnel it does not know
Arrive(s) ==
    LET t == stream[s]
        routed == IF OriginOf[s] = "proxy" THEN [t EXCEPT !.src.queue = Tail(@)] ELSE t
    IN /\ t.phase = "arriving"
       /\ t.src.rcv
       /\ OriginOf[s] = "proxy" => t.src.queue # <<>>
       /\ IF bridge.state = "open" THEN Step(s, [routed EXCEPT !.phase = "opening"])
          ELSE IF OriginOf[s] = "proxy"
          THEN Step(s, [routed EXCEPT !.phase = "over", !.src.rcv = FALSE, !.src.queue = <<>>])
          ELSE Step(s, [routed EXCEPT !.phase = "over"])

\* data for a channel that has no listener yet, or has used up its onceData()
LoseUnheard(s) ==
    LET t == stream[s]
    IN /\ \/ t.phase = "opening"
          \/ t.phase \in {"arriving", "over"} /\ OriginOf[s] = "bridge"
       /\ t.src.rcv
       /\ t.src.queue # <<>>
       /\ Step(s, [t EXCEPT !.src.queue = Tail(@)])

\* the destination is open and, towards the proxy, its first message sent: the pump
\* listens, though the source may have closed meanwhile
DestinationReady(s) ==
    /\ stream[s].phase = "opening"
    /\ IF OriginOf[s] = "bridge" THEN host["bridge"] ELSE local
    /\ Step(s, [stream[s] EXCEPT !.phase = "pumping",
                                 !.dst = OpenChannel(IF OriginOf[s] = "bridge" THEN <<Start>> ELSE <<>>),
                                 !.accepted = (OriginOf[s] = "proxy")])

DestinationFails(s) ==
    /\ stream[s].phase = "opening"
    /\ Step(s, [stream[s] EXCEPT !.phase = "over", !.src.rcv = FALSE, !.src.queue = <<>>])

\* the listener of pumpStream()
Pump(s) ==
    LET t == stream[s]
    IN /\ t.phase = "pumping"
       /\ t.src.rcv /\ t.src.queue # <<>>
       /\ Step(s, [t EXCEPT !.src.queue = Tail(@), !.dst.queue = Append(@, Head(t.src.queue))])

\* the far end: the proxy hands a new stream to its handlers, which a closed proxy
\* has lost, and an unknown tunnel's stream is closed
Deliver(s) ==
    LET t == stream[s]
        rest == [t EXCEPT !.dst.queue = Tail(@)]
    IN /\ t.dst.rcv /\ t.dst.queue # <<>>
       /\ \/ /\ Head(t.dst.queue) = Start /\ proxy # "unknown"
             /\ Step(s, [rest EXCEPT !.accepted = (proxy = "open")])
          \/ /\ Head(t.dst.queue) = Start /\ proxy = "unknown"
             /\ Step(s, [rest EXCEPT !.dst.rcv = FALSE, !.dst.queue = <<>>])
          \/ /\ Head(t.dst.queue) # Start
             /\ Step(s, IF t.accepted THEN [rest EXCEPT !.heard = Append(@, Head(t.dst.queue))] ELSE rest)

\* the program that opened the stream, or the one that got it, closes
CloseSource(s) == stream[s].src.snd /\ Step(s, [stream[s] EXCEPT !.src.snd = FALSE])
CloseDestination(s) ==
    /\ stream[s].dst.rcv /\ stream[s].accepted
    /\ Step(s, [stream[s] EXCEPT !.dst.rcv = FALSE, !.dst.queue = <<>>])

\* the close of one end reaches the other, after what was sent before it
CloseReaches(s) ==
    LET t == stream[s]
    IN \/ t.src.rcv /\ ~t.src.snd /\ t.src.queue = <<>> /\ Step(s, CleanedUp([t EXCEPT !.src.rcv = FALSE]))
       \/ t.src.snd /\ ~t.src.rcv /\ Step(s, [t EXCEPT !.src.snd = FALSE])
       \/ t.dst.rcv /\ ~t.dst.snd /\ t.dst.queue = <<>> /\ Step(s, [t EXCEPT !.dst.rcv = FALSE])
       \/ t.dst.snd /\ ~t.dst.rcv /\ Step(s, CleanedUp([t EXCEPT !.dst.snd = FALSE]))

-----------------------------------------------------------------------------
TunnelProgram ==
    \/ Bridge \/ LocalCloses \/ SendFromLocal \/ SendFromProxy \/ CloseProxy
    \/ \E s \in Tunneled : \/ OpenFromLocal(s) \/ OpenFromProxy(s) \/ SendOnStream(s)
                          \/ CloseSource(s) \/ CloseDestination(s)

TunnelRoutes ==
    \/ ControlReady \/ ForwardFromLocal \/ RouteToBridge \/ RouteToProxy

StreamRoutes(s) ==
    \/ Arrive(s) \/ LoseUnheard(s) \/ DestinationReady(s) \/ DestinationFails(s)
    \/ Pump(s) \/ Deliver(s) \/ CloseReaches(s)

HostCloses == HostClosesAtBridge \/ HostClosesAtProxy

TunnelNext ==
    \/ TunnelProgram
    \/ TunnelRoutes
    \/ HostCloses
    \/ \E s \in Tunneled : StreamRoutes(s)

TunnelSpec == TunnelInit /\ [][TunnelNext]_tvars

\* Messages arrive, promises settle, and a host connection that is closed at one end
\* closes at the other.
TunnelFairness ==
    /\ WF_tvars(TunnelRoutes)
    /\ \A s \in Tunneled : WF_tvars(StreamRoutes(s))
    /\ WF_tvars((~host["bridge"] \/ ~host["proxy"]) /\ HostCloses)

-----------------------------------------------------------------------------
(* Properties. *)

IsFirst(messages, n) == messages = [k \in 1..Len(messages) |-> k] /\ Len(messages) <= n
IsRun(messages) == \A k \in 2..Len(messages) : messages[k] = messages[k - 1] + 1
\* the placeholder comes first, if at all
Data(queue) == IF queue # <<>> /\ Head(queue) = Start THEN Tail(queue) ELSE queue

\* Control messages arrive in order from the first on, those that came before the
\* control channel included, and are lost only behind a bridge, a proxy or a host
\* that is closed.  Of a stream everything arrives from the moment the pump listens:
\* what is lost is a beginning or an end, never something between.
TunnelKeepsOrder ==
    /\ TunnelTypeOK
    /\ IsFirst(atLocal \o bridge.pending \o toBridge, given["proxy"]) \/ bridge.state = "gone"
    /\ bridge.state = "open" => Len(atLocal \o bridge.pending \o toBridge) = given["proxy"]
    /\ IsFirst(atLocal, given["proxy"])
    /\ IsFirst(atProxy, given["bridge"])
    /\ (bridge.state = "open" /\ host["proxy"] /\ proxy # "closed") =>
            Len(atProxy \o Data(toProxy) \o fromLocal) = given["bridge"]
    /\ \A s \in Tunneled :
        LET t == stream[s]
        IN /\ IsRun(t.heard)
           /\ t.accepted /\ t.phase = "pumping" /\ t.dst.rcv =>
                IsRun(t.heard \o t.dst.queue \o t.src.queue)

\* When the host connection ends nothing of the tunnel is left: no bridge, no proxy,
\* no transport, and no end of a stream.
TunnelEndsWithHost ==
    (~host["bridge"] /\ bridge.state # "none")
        ~> /\ bridge.state = "gone" /\ ~local /\ proxy = "unknown"
           /\ \A s \in Tunneled : LET t == stream[s] IN ~(t.src.snd \/ t.src.rcv \/ t.dst.snd \/ t.dst.rcv)

=============================================================================
