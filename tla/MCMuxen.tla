------------------------------ MODULE MCMuxen ------------------------------
(***************************************************************************)
(* Two transports that open and close channels, or one channel of them     *)
(* over an ordered link: one of the two in each behaviour, since neither   *)
(* adds to what the other does.                                            *)
(***************************************************************************)
EXTENDS MuxenTransport, MuxenOrderedChannel

VARIABLE part

MCInit == part \in { "transport", "channel" } /\ Init /\ OrderedInit

MCNext ==
  \/ part = "transport" /\ Next /\ UNCHANGED << orderedVars, part >>
  \/ part = "channel" /\ OrderedNext /\ UNCHANGED << vars, part >>

\* Microtasks and timers run, and the link delivers while the peer runs.  The
\* timers of a channel need no fairness, since an ordered link loses nothing.
\* What is not chosen owes no step.
TransportFairness ==
  /\ WF_vars(part = "transport" /\ Tick /\ Heartbeat)
  /\ WF_vars(part = "transport" /\ SendPing /\ Heartbeat)
  /\ WF_vars(part = "transport" /\ HandlePong /\ Heartbeat)
  /\ WF_vars(part = "transport" /\ HeartbeatFails)
  /\ \A e \in Ends :
       /\ WF_vars(part = "transport" /\ Receive(e))
       /\ \A id \in Ids : WF_vars(part = "transport" /\ DestroyClosing(e, id))

ChannelFairness ==
  /\ WF_orderedVars(part = "channel" /\ Resume)
  /\ WF_orderedVars(part = "channel" /\ ReceiveAtB)
  /\ WF_orderedVars(part = "channel" /\ ReceiveAtA)

MuxenSpec ==
  /\ MCInit
  /\ [][MCNext]_<< vars, orderedVars, part >>
  /\ TransportFairness
  /\ ChannelFairness

\* Over the ordered links the repository ships a channel is opened and what was
\* sent on it arrives without a timer (muxen/src/sender.ts, receiver.ts).
ChannelTrafficArrives == part = "channel" => TrafficArrives

=============================================================================
