---------------------------- MODULE MCTransports ----------------------------
(***************************************************************************)
(* The transports, one of them in each behaviour: the state space is the   *)
(* sum of theirs, and whatever is not chosen stays as it began.  Parts of  *)
(* a transport that share little are chosen one at a time: the control and *)
(* the stream channels of the memory transport, the control messages and   *)
(* the streams of a tunnel.  With them go the streams that a broadcast     *)
(* hands to several targets, read by them or written.                      *)
(***************************************************************************)
EXTENDS H2Transport, MemTransport, ErpcTunnel, EbusFanout

CONSTANTS FromBridge, FromProxy

VARIABLE scene

allvars == <<h2vars, mvars, tvars, fanvars, scene>>

MCOpenerOf == [i \in Ids |-> "client"]
MCTunneled == {FromBridge, FromProxy}
MCOriginOf == [t \in MCTunneled |-> IF t = FromBridge THEN "bridge" ELSE "proxy"]

Scenes == {"h2", "mem-control", "mem-streams", "tunnel-control", "fan-out", "fan-in"} \cup MCTunneled
Tunnelling == scene \in {"tunnel-control"} \cup MCTunneled

Init ==
    /\ scene \in Scenes
    /\ H2Init
    /\ MemInit
    /\ TunnelInit
    /\ IF scene = "fan-out" THEN OutInit ELSE OutOver
    /\ InInit
    /\ scene # "h2" => \A x \in Sides : ends[x].handler

Next ==
    \/ scene = "h2" /\ H2Next /\ UNCHANGED <<mvars, tvars, fanvars, scene>>
    \/ scene = "mem-control" /\ ControlProgram /\ UNCHANGED <<h2vars, tvars, fanvars, scene>>
    \/ scene = "mem-streams" /\ StreamProgram /\ UNCHANGED <<h2vars, tvars, fanvars, scene>>
    \/ scene \in {"mem-control", "mem-streams"} /\ Closing /\ UNCHANGED <<h2vars, tvars, fanvars, scene>>
    \/ Microtask /\ UNCHANGED <<h2vars, tvars, fanvars, scene>>
    \/ /\ Tunnelling
       /\ TunnelNext
       /\ UNCHANGED <<h2vars, mvars, fanvars, scene>>
       /\ scene # "tunnel-control" => UNCHANGED given
       /\ \A t \in MCTunneled : scene # t => stream'[t].phase = "idle"
    \/ scene = "fan-out" /\ OutNext /\ UNCHANGED <<h2vars, mvars, tvars, scene>>
    \/ scene = "fan-in" /\ InNext /\ UNCHANGED <<h2vars, mvars, tvars, scene>>

Spec == Init /\ [][Next]_allvars /\ H2Fairness /\ TunnelFairness /\ OutFairness /\ InFairness

----------------------------------------------------------------------------

\* In the memory transport and through a tunnel what is sent comes out in its
\* order, at both ends, and a tunnel leaves no hole in a stream.  In memory a message on
\* its way as its channel closes makes another, whose handler may hear it, and the ends
\* are open together unless a handler closed its own as it was announced
\* (MemTransport, ErpcTunnel).
OrderIsKept == MemEndsAgree /\ MemKeepsOrder /\ TunnelKeepsOrder

\* Whatever has begun to end comes to its end: the sessions of HTTP/2, the
\* channels of a tunnel whose host is gone, a stream shared by targets.
EverythingEnds == ClosingEnds /\ TunnelEndsWithHost /\ SharedStreamsEnd

=============================================================================
