------------------------------- MODULE MCErpc -------------------------------
(***************************************************************************)
(* One stream, or the calls of two connections to one resource manager: in *)
(* each behaviour one of the two.  Of the calls two are made on one        *)
(* connection, so that one may use the object the other brought, and one   *)
(* on the other, to share it.                                              *)
(***************************************************************************)
EXTENDS ErpcStream, ErpcCalls

VARIABLE part

MCClients == { "a", "b" }
MCCalls == { "a1", "a2", "b1" }
MCClientOf == [ c \in MCCalls |-> IF c = "b1" THEN "b" ELSE "a" ]

MCInit == part \in { "stream", "calls" } /\ StreamInit /\ Init

MCNext ==
  \/ part = "stream" /\ StreamNext /\ UNCHANGED << vars, part >>
  \/ part = "calls" /\ Next /\ UNCHANGED << streamVars, part >>

\* Messages arrive, promises run their continuations, and the application
\* reads the stream it was given; nothing makes it write, close, abort or
\* cancel.
StreamFairness ==
  /\ WF_streamVars(part = "stream" /\ ReceiveMessage)
  /\ WF_streamVars(part = "stream" /\ ReceiveAck)
  /\ WF_streamVars(part = "stream" /\ RunAck)
  /\ WF_streamVars(part = "stream" /\ \E t \in tasks : RunClose(t))
  /\ WF_streamVars(part = "stream" /\ CreatePullReader)
  /\ WF_streamVars(part = "stream" /\ Pull)
  /\ WF_streamVars(part = "stream" /\ Read)

ErpcSpec ==
  /\ MCInit
  /\ [][MCNext]_<< streamVars, vars, part >>
  /\ StreamFairness
  /\ Fairness

=============================================================================
