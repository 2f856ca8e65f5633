---------------------------- MODULE ErpcRuntime ----------------------------
(***************************************************************************)
(* How a node is put together from its features and taken apart            *)
(* (packages/erpc: buildFeatures, the serialization feature and the        *)
(* transport adapter; packages/ebus: createPeerStack).  Every feature      *)
(* contributes, then they are initialized one after the other with a pause *)
(* between them in which the transport may close; messages come as soon as *)
(* the adapter listens.                                                    *)
(***************************************************************************)
EXTENDS Naturals, Sequences, FiniteSets, SequencesExt

VARIABLES
    role,       \* "server", "client" or "stack", a connection of a bus
    position,   \* how many features have been initialized
    status,     \* "building", "built", "handed" to its user, "failed", "closing", "closed"
    control,    \* whether the adapter has been given its control channel: "no", "asked", "yes"
    transport,  \* "open", "closed"
    late,       \* whether the transport closed before the node was handed over
    handlers,   \* handlersToRegister, which the serializer goes through to serialize
    byName,     \* handlerMap, which it looks in to deserialize
    told,       \* the features that were told that the transport closed
    deaf,       \* messages that were emitted to nobody
    taken       \* the features that have been closed, in order

runvars == <<role, position, status, control, transport, late, handlers, byName, told, deaf, taken>>

\* Mutant: the serializer comes first.
FeaturesSorted(r) ==
    <<"serialization", "error", "pin", "tunnel", "stream", "protocol", "calls">>
        \o (IF r = "client" THEN <<>> ELSE <<"executor">>) \o <<"adapter">>
        \o (IF r = "stack" THEN <<>> ELSE <<"lifecycle">>)

\* createServer: also what a peer has, as createPeer is createServer with a client.
ServerFeatures ==
    <<"error", "pin", "tunnel", "stream", "serialization", "protocol", "calls", "executor", "adapter", "lifecycle">>

\* createClient: nobody answers calls.
ClientFeatures ==
    <<"error", "pin", "tunnel", "stream", "serialization", "protocol", "calls", "adapter", "lifecycle">>

\* createPeerStack.
StackFeatures ==
    <<"error", "pin", "tunnel", "stream", "serialization", "protocol", "calls", "executor", "adapter">>

Features(r) ==
    CASE r = "server" -> ServerFeatures
      [] r = "client" -> ClientFeatures
      [] r = "stack"  -> StackFeatures

\* The handlers of types that init registers.
Registers(f) ==
    CASE f = "error"  -> {"error", "illegal type error"}
      [] f = "pin"    -> {"pin"}
      [] f = "tunnel" -> {"transport"}
      [] f = "stream" -> {"stream"}
      [] OTHER        -> {}

\* Who listens to a kind of message, besides the protocol feature that reads them.
Listener(k) ==
    CASE k \in {"ask", "tell"}        -> "executor"
      [] k = "response"               -> "calls"
      [] k \in {"release", "pinCall"} -> "pin"
      [] k = "streamAck"              -> "stream"
      [] k = "tunnel"                 -> "tunnel"
Kinds == {"ask", "tell", "response", "release", "pinCall", "streamAck", "tunnel"}

\* Who listens to the end of the transport: a bus once its stack is built.
OnClose(r) == {"tunnel", "calls"} \cup IF r = "stack" THEN {"bridge"} ELSE {"lifecycle"}

Ready(f) == \/ \E i \in 1 .. position : Features(role)[i] = f
            \/ f = "bridge" /\ status \notin {"building", "built", "failed"}

RunInit ==
    /\ role \in {"server", "client", "stack"}
    /\ position = 0 /\ status = "building" /\ control = "no"
    /\ transport = "open" /\ late = FALSE
    /\ handlers = {} /\ byName = {} /\ told = {} /\ deaf = {} /\ taken = <<>>

Feature == Features(role)[position + 1]
Building == status = "building" /\ position < Len(Features(role))

\* registerHandler
RegisterHandlers == handlers' = handlers \cup Registers(Feature)

\* The Serializer keeps the list of the handlers, and fills a map by their
\* names once.
NewSerializer == byName' = handlers

InitFeature ==
    /\ Building /\ Feature # "adapter"
    /\ position' = position + 1
    /\ RegisterHandlers
    /\ IF Feature = "serialization" THEN NewSerializer ELSE UNCHANGED byName
    /\ UNCHANGED <<role, status, control, transport, late, told, deaf, taken>>

\* The adapter waits for its control channel.
AskControl ==
    /\ Building /\ Feature = "adapter" /\ control = "no"
    /\ control' = "asked"
    /\ UNCHANGED <<role, position, status, transport, late, handlers, byName, told, deaf, taken>>

InitAdapter ==
    /\ Building /\ control = "asked" /\ transport = "open"
    /\ control' = "yes" /\ position' = position + 1
    /\ UNCHANGED <<role, status, transport, late, handlers, byName, told, deaf, taken>>

\* What was initialized stays as it is.
BuildFails ==
    /\ Building /\ control = "asked"
    /\ status' = "failed"
    /\ UNCHANGED <<role, position, control, transport, late, handlers, byName, told, deaf, taken>>

\* buildFeatures returns; a turn later its caller goes on.
Built ==
    /\ status = "building" /\ position = Len(Features(role))
    /\ status' = "built"
    /\ UNCHANGED <<role, position, control, transport, late, handlers, byName, told, deaf, taken>>

Handed ==
    /\ status = "built"
    /\ status' = "handed"
    /\ UNCHANGED <<role, position, control, transport, late, handlers, byName, told, deaf, taken>>

\* The protocol feature listens to the adapter from its init on.
ProtocolListens == Ready("protocol") /\ ~Contains(taken, "protocol")

\* A message, which the protocol feature reads and emits by its kind.
Message(k) ==
    /\ control = "yes" /\ transport = "open" /\ ~Contains(taken, "adapter")
    /\ deaf' = IF ProtocolListens /\ Ready(Listener(k)) THEN deaf ELSE deaf \cup {k}
    /\ UNCHANGED <<role, position, status, control, transport, late, handlers, byName, told, taken>>

\* The adapter emits "close" once, to those who listen by then.
Emitted == IF control = "yes" /\ transport = "open" THEN {f \in OnClose(role) : Ready(f)} ELSE {}

TransportCloses ==
    /\ transport = "open"
    /\ transport' = "closed"
    /\ told' = told \cup Emitted
    /\ late' = (status \in {"building", "built"})
    /\ UNCHANGED <<role, position, status, control, handlers, byName, deaf, taken>>

CloseNode ==
    /\ status = "handed"
    /\ status' = "closing"
    /\ UNCHANGED <<role, position, control, transport, late, handlers, byName, told, deaf, taken>>

\* In the reverse order.
NextToClose == Features(role)[Len(Features(role)) - Len(taken)]

\* The adapter tells who listens, and closes the transport.
CloseAdapter == told' = told \cup Emitted /\ transport' = "closed"

\* The lifecycle, the tunnels and the calls end by their own close() as well.
CloseOther(f) == told' = told \cup ({f} \cap OnClose(role)) /\ UNCHANGED transport

\* A feature is closed; if that fails, the next one is closed all the same.
CloseFeature ==
    /\ status = "closing"
    /\ LET f == NextToClose
       IN /\ taken' = Append(taken, f)
          /\ IF f = "adapter" THEN CloseAdapter ELSE CloseOther(f)
          /\ status' = IF Len(taken) + 1 = Len(Features(role)) THEN "closed" ELSE status
    /\ UNCHANGED <<role, position, control, late, handlers, byName, deaf>>

RunNext ==
    \/ InitFeature \/ AskControl \/ InitAdapter \/ BuildFails \/ Built \/ Handed
    \/ \E k \in Kinds : Message(k)
    \/ TransportCloses \/ CloseNode \/ CloseFeature

RunSpec == RunInit /\ [][RunNext]_runvars

----------------------------------------------------------------------------
(* Properties.                                                             *)

\* No message comes before those who listen to it are there, nor once they are
\* gone, but that a client has nobody to answer a call; what the serializer can
\* write it can read; and whoever listens to the end of the transport is told
\* of it by the time the node is closed, or at once if the node was in use by
\* then (buildFeatures, SerializationFeature.init, TransportAdapterFeature).
NodeIsWhole ==
    /\ role # "client" => deaf = {}
    /\ deaf \subseteq {"ask", "tell"}
    /\ status \in {"built", "handed"} => byName = handlers
    /\ transport = "closed" /\ status = "handed" /\ ~late => told = OnClose(role)
    /\ status = "closed" /\ ~late => told = OnClose(role)

=============================================================================
