---------------------------- MODULE MCEbusCalls ----------------------------
EXTENDS EbusCalls
MCParentOf == [b \in {"a", "c"} |-> IF b = "c" THEN "a" ELSE "r"]
MCHomeOf == [n \in {"n1", "n2"} |-> IF n = "n1" THEN "c" ELSE "r"]
MCFirstGroups == [n \in {"n1", "n2"} |-> {"x"}]
Spec == CSpec /\ CFairness
=============================================================================
