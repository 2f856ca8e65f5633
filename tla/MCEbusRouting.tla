--------------------------- MODULE MCEbusRouting ---------------------------
(* A chain of buses, c below a below r.                                    *)
EXTENDS EbusRouting

MCParentOf == [b \in {"a", "c"} |-> IF b = "c" THEN "a" ELSE "r"]
MCPlaces   == { <<"c", "n1">>, <<"a", "n2">> }

=============================================================================
