----------------------------- MODULE MCLibrary -----------------------------
(* Four parts that do not interact, checked in one run: each from its own   *)
(* initial states, the variables of the others at rest in one state.       *)
EXTENDS ErpcApi, ErpcSerializer, H2Frames, ErpcRuntime

VARIABLE part

MCKeys     == {<<"a">>, <<"b">>, <<"a", "b">>}
MCSubpaths == {<<>>, <<"b">>, <<"a", "b">>}
MCChains   == {<<>>, <<"output", "retry", "input">>, <<"input">>, <<"retry", "output">>}

\* Large interfaces are called without middlewares or metadata.
MCApiInit == ApiInit /\ (\/ Len(api) = 1 /\ Len(api[1].keys) <= 1
                         \/ chain = <<>> /\ route = "server")
ApiRest   == /\ api = <<[keys |-> <<>>, type |-> "ask"]>> /\ chain = <<>> /\ route = "server"
             /\ client = [path |-> <<>>, meta |-> <<>>] /\ call = Unmade
             /\ level = 0 /\ dir = "down" /\ opts = <<>> /\ outcome = "none" /\ retried = FALSE
ValRest   == /\ value = [n \in Nodes |-> [kind |-> IF n = Root THEN "box" ELSE "data", items |-> <<>>]]
             /\ way = "call" /\ ValStart
RunRest   == RunInit /\ role = "server"

LibraryInit ==
    /\ part \in {"api", "value", "frames", "node"}
    /\ IF part = "api" THEN MCApiInit ELSE ApiRest
    /\ IF part = "value" THEN ValInit ELSE ValRest
    /\ IF part = "node" THEN RunInit ELSE RunRest
    /\ FrameInit

allvars == <<apivars, valvars, framevars, runvars>>

LibraryNext ==
    /\ UNCHANGED part
    /\ \/ part = "api" /\ ApiNext /\ (Len(api) = 2 => client'.meta = <<>>) /\ UNCHANGED <<valvars, framevars, runvars>>
       \/ part = "value" /\ ValNext /\ UNCHANGED <<apivars, framevars, runvars>>
       \/ part = "frames" /\ FrameNext /\ UNCHANGED <<apivars, valvars, runvars>>
       \/ part = "node" /\ RunNext /\ UNCHANGED <<apivars, valvars, framevars>>

\* Whatever is put on a wire comes out as it went in: a value through the
\* serializer, with its live objects bound once each (ErpcSerializer), and a
\* row of messages through the frames of an HTTP/2 stream, cut anywhere
\* (H2Frames).
DataArrives == ArrivesAsSent /\ FramesArriveWhole

Spec == LibraryInit /\ [][LibraryNext]_<<allvars, part>>

=============================================================================
