---------------------------- MODULE H2Transport ----------------------------
(***************************************************************************)
(* Http2ClientTransport and Http2ServerTransport at the two ends of one    *)
(* HTTP/2 session.  A channel is a stream of the session, which only the   *)
(* client can open: a server that wants one sends a signal on the control  *)
(* channel, and gives up after ten seconds.                                *)
(*                                                                         *)
(* Streams are the control stream, those the client opens of itself and    *)
(* those the server asks for.  An end is [state, session, chan, control,   *)
(* handler].  The frames of a session are one ordered queue each way;      *)
(* payloads are left out.  Node's sessions are external: one that is       *)
(* closed accepts no new stream and lives until its last stream is gone.   *)
(***************************************************************************)
EXTENDS Naturals, Sequences, Ends

CONSTANTS
    Ctl,              \* the control stream
    ClientStreams,    \* streams the client's program opens
    ServerStreams,    \* streams the server's program opens
    MaxTroubles       \* bounds closed channels, aborts and lost connections

ASSUME H2Assumption ==
    /\ Ctl \notin ClientStreams \cup ServerStreams
    /\ ClientStreams \cap ServerStreams = {}
    /\ MaxTroubles \in Nat

VARIABLES
    ends,       \* per side, its transport and its half of every stream
    wire,       \* per side, the frames on their way to it
    opening,    \* per server stream, openOutgoingStreamChannel() of the server
    taken,      \* streams the server's handler was given as the client's (history)
    troubles,   \* closed channels, aborts and losses so far
    lost        \* the connection has broken (history)

h2vars == <<ends, wire, opening, taken, troubles, lost>>

Streams == {Ctl} \cup ClientStreams \cup ServerStreams

\* "requested": no response yet; "ending": close() has ended the writable half;
\* "failed": the promise was rejected; "silent": the stream is gone and the
\* promise will never settle
Statuses == {"idle", "requested", "open", "ending", "closed", "failed", "silent"}
Live(status) == status \in {"requested", "open", "ending"}
Frames == [type : {"request", "response", "end", "rst", "signal"}, stream : Streams]
          \cup [type : {"goaway", "goaway-error", "fin"}]
Frame(type, s) == [type |-> type, stream |-> s]

\* openOutgoingStreamChannel() of the server: "waiting" for the control channel,
\* "pending" in pendingOutgoingStreams with its timer
Openings == {"idle", "waiting", "pending", "open", "failed"}

H2TypeOK ==
    /\ ends \in [Sides -> [state   : {"open", "closing", "closed"},
                           session : {"open", "closed", "destroyed"},
                           chan    : [Streams -> Statuses],
                           handler : BOOLEAN]]
    /\ \A x \in Sides : wire[x] \in Seq(Frames)
    /\ opening \in [ServerStreams -> Openings]
    /\ taken \in SUBSET Streams
    /\ troubles \in 0..MaxTroubles
    /\ lost \in BOOLEAN

H2Init ==
    /\ ends \in {[x \in Sides |-> [state   |-> "open",
                                   session |-> "open",
                                   chan    |-> [s \in Streams |-> "idle"],
                                   handler |-> h[x]]] : h \in [Sides -> BOOLEAN]}
    /\ wire = [x \in Sides |-> <<>>]
    /\ opening = [t \in ServerStreams |-> "idle"]
    /\ taken = {}
    /\ troubles = 0
    /\ lost = FALSE

-----------------------------------------------------------------------------
(* The end of a transport. *)

HasStreams(e) == \E s \in Streams : Live(e.chan[s])

\* What is on its way to x after x has taken all but `rest`, and `frames` were sent
\* to the peer; nothing reaches a session that is destroyed.
Exchanged(x, rest, frames) ==
    [y \in Sides |-> IF ends'[y].session = "destroyed" THEN <<>>
                     ELSE IF y = x THEN rest ELSE wire[y] \o frames]

\* Every stream of a session that ends is destroyed.  With an error its 'error'
\* event rejects whoever waits for a response; without, there is only 'close'.
StreamsDestroyed(chan, withError) ==
    [s \in Streams |->
        CASE chan[s] = "requested" -> IF withError THEN "failed" ELSE "silent"
          [] chan[s] \in {"open", "ending"} -> "closed"
          [] OTHER -> chan[s]]

\* performFinalCleanup(reason)
Cleaned(e, withError) ==
    [e EXCEPT !.state   = "closed",
              !.session = "destroyed",
              !.chan    = StreamsDestroyed(@, withError)]

\* Mutant: the cleanup leaves the pending streams to their timers
RejectedNobody(x) == opening

\* What the cleanup of the server rejects: the streams it waits for, and, through
\* the promise of the control channel, those that wait for that.
Rejected(x) ==
    IF x = "client" THEN opening
    ELSE [t \in ServerStreams |->
            IF \/ opening[t] = "pending"
               \/ opening[t] = "waiting" /\ ends["server"].chan[Ctl] = "idle"
            THEN "failed" ELSE opening[t]]

\* the cleanup that an error causes while the session still exists
CleanupWithError(x, rest) ==
    /\ ends' = [ends EXCEPT ![x] = Cleaned(@, TRUE)]
    /\ wire' = Exchanged(x, rest, <<[type |-> "goaway-error"], [type |-> "fin"]>>)
    /\ opening' = Rejected(x)

\* a closed session whose last stream is gone: 'close'
SessionEnds(x) ==
    /\ ends[x].session = "closed"
    /\ ~HasStreams(ends[x])
    /\ ends' = [ends EXCEPT ![x] = Cleaned(@, FALSE)]
    /\ wire' = Exchanged(x, wire[x], <<[type |-> "fin"]>>)
    /\ opening' = Rejected(x)
    /\ UNCHANGED <<taken, troubles, lost>>

\* 'close' of a channel: the loss of the control channel of an open transport is
\* the end of the transport
ChannelCloses(x, s, rest, frames) ==
    IF s = Ctl /\ ends[x].state = "open" /\ ends[x].chan[s] # "requested"
    THEN CleanupWithError(x, rest)
    ELSE /\ ends' = [ends EXCEPT ![x].chan[s] = IF @ = "requested" THEN "failed" ELSE "closed"]
         /\ wire' = Exchanged(x, rest, frames)
         /\ UNCHANGED opening

-----------------------------------------------------------------------------
(* The programs at both ends. *)

\* session.request(), which throws when the session is closed
Request(s) ==
    IF ends["client"].session = "open"
    THEN /\ ends' = [ends EXCEPT !["client"].chan[s] = "requested"]
         /\ wire' = Exchanged("client", wire["client"], <<Frame("request", s)>>)
    ELSE /\ ends' = [ends EXCEPT !["client"].chan[s] = "failed"]
         /\ UNCHANGED wire

\* getControlChannel() of the client: later calls get the same promise
GetControlChannel ==
    /\ ends["client"].state = "open"
    /\ ends["client"].chan[Ctl] = "idle"
    /\ Request(Ctl)
    /\ UNCHANGED <<opening, taken, troubles, lost>>

\* openOutgoingStreamChannel() of the client
OpenFromClient(s) ==
    /\ ends["client"].state = "open"
    /\ ends["client"].chan[s] = "idle"
    /\ Request(s)
    /\ UNCHANGED <<opening, taken, troubles, lost>>

\* openOutgoingStreamChannel() of the server, up to the first await
OpenFromServer(t) ==
    /\ ends["server"].state = "open"
    /\ opening[t] = "idle"
    /\ opening' = [opening EXCEPT ![t] = "waiting"]
    /\ UNCHANGED <<ends, wire, taken, troubles, lost>>

\* ... and after it: the state of the transport is not looked at again
SendSignal(t) ==
    /\ opening[t] = "waiting"
    /\ ends["server"].chan[Ctl] # "idle"
    /\ \/ /\ ends["server"].chan[Ctl] = "closed"
          /\ opening' = [opening EXCEPT ![t] = "failed"]
          /\ UNCHANGED <<ends, wire>>
       \/ /\ ends["server"].chan[Ctl] = "open"
          /\ opening' = [opening EXCEPT ![t] = "pending"]
          /\ UNCHANGED ends
          /\ wire' = Exchanged("server", wire["server"], <<Frame("signal", t)>>)
       \/ /\ ends["server"].chan[Ctl] = "ending"    \* a write after end() is an error
          /\ ChannelCloses("server", Ctl, wire["server"], <<Frame("rst", Ctl)>>)
    /\ UNCHANGED <<taken, troubles, lost>>

\* Mutant: the timer is cleared with the signal
NeverTimesOut(t) == FALSE /\ UNCHANGED h2vars

\* the ten seconds are over
OpenTimesOut(t) ==
    /\ opening[t] = "pending"
    /\ opening' = [opening EXCEPT ![t] = "failed"]
    /\ UNCHANGED <<ends, wire, taken, troubles, lost>>

\* close() of a channel
CloseChannel(x, s) ==
    /\ troubles < MaxTroubles
    /\ troubles' = troubles + 1
    /\ ends[x].chan[s] = "open"
    /\ ends' = [ends EXCEPT ![x].chan[s] = "ending"]
    /\ wire' = Exchanged(x, wire[x], <<Frame("end", s)>>)
    /\ UNCHANGED <<opening, taken, lost>>

\* close() of a transport: nothing ends the streams that are open
Close(x) ==
    /\ ends[x].state = "open"
    /\ ends' = [ends EXCEPT ![x].state = "closing", ![x].session = "closed"]
    /\ wire' = IF ends[x].session = "open"
               THEN Exchanged(x, wire[x], <<[type |-> "goaway"]>>) ELSE wire
    /\ UNCHANGED <<opening, taken, troubles, lost>>

Abort(x) ==
    /\ troubles < MaxTroubles
    /\ troubles' = troubles + 1
    /\ ends[x].state # "closed"
    /\ CleanupWithError(x, wire[x])
    /\ UNCHANGED <<taken, lost>>

-----------------------------------------------------------------------------
(* Frames. *)

Received(x, type) ==
    /\ ends[x].session # "destroyed"
    /\ wire[x] # <<>>
    /\ Head(wire[x]).type = type

Rest(x) == Tail(wire[x])

\* handleControlStream()
AcceptControl(rest) ==
    /\ ends' = [ends EXCEPT !["server"].chan[Ctl] = "open"]
    /\ wire' = Exchanged("server", rest, <<Frame("response", Ctl)>>)
    /\ UNCHANGED <<opening, taken>>

\* handleDataStream() of a stream the server waits for
AcceptPending(s, rest) ==
    /\ ends' = [ends EXCEPT !["server"].chan[s] = "open"]
    /\ wire' = Exchanged("server", rest, <<Frame("response", s)>>)
    /\ opening' = [opening EXCEPT ![s] = "open"]
    /\ UNCHANGED taken

\* handleDataStream() of any other: with no handler it is answered, then refused
AcceptIncoming(s, rest) ==
    /\ UNCHANGED opening
    /\ IF ends["server"].handler
       THEN /\ ends' = [ends EXCEPT !["server"].chan[s] = "open"]
            /\ wire' = Exchanged("server", rest, <<Frame("response", s)>>)
            /\ taken' = taken \cup {s}
       ELSE /\ ends' = [ends EXCEPT !["server"].chan[s] = "closed"]
            /\ wire' = Exchanged("server", rest, <<Frame("response", s), Frame("rst", s)>>)
            /\ UNCHANGED taken

Refuse(s, rest) ==
    /\ UNCHANGED <<ends, opening, taken>>
    /\ wire' = Exchanged("server", rest, <<Frame("rst", s)>>)

IsPending(s) == s \in ServerStreams /\ opening[s] = "pending"

\* handleIncomingStream()
ReceiveRequest ==
    /\ Received("server", "request")
    /\ LET s == Head(wire["server"]).stream
       IN \/ ends["server"].state # "open" /\ Refuse(s, Rest("server"))
          \/ ends["server"].state = "open" /\ s = Ctl /\ AcceptControl(Rest("server"))
          \/ ends["server"].state = "open" /\ s # Ctl /\ IsPending(s) /\ AcceptPending(s, Rest("server"))
          \/ ends["server"].state = "open" /\ s # Ctl /\ ~IsPending(s) /\ AcceptIncoming(s, Rest("server"))
    /\ UNCHANGED <<troubles, lost>>

\* the client's 'response': the channel exists, and a stream the server asked for
\* is handed to the program
ReceiveResponse ==
    /\ Received("client", "response")
    /\ LET s == Head(wire["client"]).stream
       IN ends' = [ends EXCEPT !["client"].chan[s] = IF @ = "requested" THEN "open" ELSE @]
    /\ wire' = Exchanged("client", Rest("client"), <<>>)
    /\ UNCHANGED <<opening, taken, troubles, lost>>

\* handleServerSignal(), handleOpenStreamRequest().  A request that throws
\* destroys the parser of the control channel, and with it the transport.
ReceiveSignal ==
    /\ Received("client", "signal")
    /\ LET t == Head(wire["client"]).stream
           e == ends["client"]
       IN \/ /\ e.state # "open" \/ ~e.handler \/ ~Live(e.chan[Ctl])
             /\ UNCHANGED <<ends, opening>>
             /\ wire' = Exchanged("client", Rest("client"), <<>>)
          \/ /\ e.state = "open" /\ e.handler /\ Live(e.chan[Ctl]) /\ e.session = "open"
             /\ ends' = [ends EXCEPT !["client"].chan[t] = "requested"]
             /\ wire' = Exchanged("client", Rest("client"), <<Frame("request", t)>>)
             /\ UNCHANGED opening
          \/ /\ e.state = "open" /\ e.handler /\ Live(e.chan[Ctl]) /\ e.session = "closed"
             /\ CleanupWithError("client", Rest("client"))
    /\ UNCHANGED <<taken, troubles, lost>>

\* the other side has ended its half: the parser ends, and its 'close' destroys
\* the stream
ReceiveEnd(x) ==
    /\ Received(x, "end")
    /\ LET s == Head(wire[x]).stream
       IN IF Live(ends[x].chan[s])
          THEN ChannelCloses(x, s, Rest(x), <<Frame("rst", s)>>)
          ELSE UNCHANGED <<ends, opening>> /\ wire' = Exchanged(x, Rest(x), <<>>)
    /\ UNCHANGED <<taken, troubles, lost>>

ReceiveReset(x) ==
    /\ Received(x, "rst")
    /\ LET s == Head(wire[x]).stream
       IN IF Live(ends[x].chan[s])
          THEN ChannelCloses(x, s, Rest(x), <<>>)
          ELSE UNCHANGED <<ends, opening>> /\ wire' = Exchanged(x, Rest(x), <<>>)
    /\ UNCHANGED <<taken, troubles, lost>>

\* a GOAWAY without an error is left to the session, which closes; what the peer
\* had not accepted by then it refuses
ReceiveGoaway(x) ==
    /\ Received(x, "goaway")
    /\ ends' = [ends EXCEPT ![x].session = "closed",
                            ![x].chan = [s \in Streams |-> IF @[s] = "requested" THEN "failed" ELSE @[s]]]
    /\ wire' = Exchanged(x, Rest(x), <<>>)
    /\ UNCHANGED <<opening, taken, troubles, lost>>

ReceiveGoawayError(x) ==
    /\ Received(x, "goaway-error")
    /\ CleanupWithError(x, Rest(x))
    /\ UNCHANGED <<taken, troubles, lost>>

\* the connection is gone: 'close' of the session
ReceiveFin(x) ==
    /\ Received(x, "fin")
    /\ ends' = [ends EXCEPT ![x] = Cleaned(@, FALSE)]
    /\ wire' = Exchanged(x, Rest(x), <<[type |-> "fin"]>>)
    /\ opening' = Rejected(x)
    /\ UNCHANGED <<taken, troubles, lost>>

\* the connection breaks, and what is on it is gone
LoseConnection ==
    /\ troubles < MaxTroubles
    /\ troubles' = troubles + 1
    /\ lost' = TRUE
    /\ UNCHANGED <<ends, opening, taken>>
    /\ wire' = [x \in Sides |-> IF ends[x].session = "destroyed" THEN <<>> ELSE <<[type |-> "fin"]>>]

-----------------------------------------------------------------------------
Receive ==
    \/ ReceiveRequest \/ ReceiveResponse \/ ReceiveSignal
    \/ \E x \in Sides : \/ ReceiveEnd(x) \/ ReceiveReset(x) \/ ReceiveFin(x)
                        \/ ReceiveGoaway(x) \/ ReceiveGoawayError(x)

Program ==
    \/ GetControlChannel
    \/ \E s \in ClientStreams : OpenFromClient(s)
    \/ \E t \in ServerStreams : OpenFromServer(t)
    \/ \E x \in Sides : \/ Close(x) \/ Abort(x)
                        \/ \E s \in Streams : CloseChannel(x, s)

H2Next ==
    \/ Program
    \/ Receive
    \/ \E t \in ServerStreams : SendSignal(t) \/ OpenTimesOut(t)
    \/ \E x \in Sides : SessionEnds(x)
    \/ LoseConnection

\* Node delivers, timers fire, promises run; nobody has to open or close anything.
H2Fairness ==
    /\ WF_h2vars(Receive)
    /\ \A t \in ServerStreams : WF_h2vars(SendSignal(t)) /\ WF_h2vars(OpenTimesOut(t))
    /\ \A x \in Sides : WF_h2vars(SessionEnds(x))

-----------------------------------------------------------------------------
(* Properties. *)

\* A stream the server asked for is given to the program that asked, once, or else,
\* if it came after the ten seconds, to the handler of the client's streams; a
\* channel of the client is a stream the server has accepted; nothing waits in the
\* map of a server that is closed; only a broken connection leaves a promise of the
\* client unsettled.
StreamsAreMatched ==
    /\ H2TypeOK
    /\ \A t \in ServerStreams :
        /\ opening[t] = "open" => t \notin taken /\ ends["client"].chan[t] # "idle"
        /\ t \in taken => opening[t] = "failed"
        /\ opening[t] = "pending" => ends["server"].state # "closed"
    /\ \A s \in Streams :
        /\ ends["client"].chan[s] \in {"open", "ending"} => ends["server"].chan[s] # "idle"
        /\ ends["client"].chan[s] = "silent" => lost

\* Who waits for a stream waits no longer than the stream can come: the server is
\* told once it could ask for one or is closed, the client once there is an answer or
\* the session has ended.
OpensSettle ==
    /\ \A t \in ServerStreams :
        (\/ opening[t] = "pending"
         \/ opening[t] = "waiting" /\ (ends["server"].chan[Ctl] # "idle" \/ ends["server"].state = "closed"))
            ~> opening[t] \in {"open", "failed"}
    /\ \A s \in Streams :
        ends["client"].chan[s] = "requested" ~> ends["client"].chan[s] # "requested"

\* A transport that is asked to close does so once its streams are gone, and a
\* transport does not outlive its peer.
ClosingEnds ==
    \A x \in Sides :
        /\ (ends[x].state = "closing" /\ ~HasStreams(ends[x])) ~> ends[x].state = "closed"
        /\ ends[x].state = "closed" ~> ends[Peer(x)].state = "closed"

=============================================================================
