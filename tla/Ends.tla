-------------------------------- MODULE Ends --------------------------------
(***************************************************************************)
(* The two ends of a transport.                                            *)
(***************************************************************************)
Sides == {"client", "server"}
Peer(x) == CHOOSE y \in Sides : y # x

=============================================================================
