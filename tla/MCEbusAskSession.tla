-------------------------- MODULE MCEbusAskSession --------------------------
(* A fork: c below a, and a and b below r; a node on each but a.            *)
EXTENDS EbusAskSession

MCParentOf == [b \in {"a", "b", "c"} |-> IF b = "c" THEN "a" ELSE "r"]
MCHomeOf   == [n \in {"nb", "nc", "nr"} |->
                 CASE n = "nb" -> "b" [] n = "nc" -> "c" [] OTHER -> "r"]

=============================================================================
