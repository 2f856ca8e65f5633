-------------------------- MODULE MCEsysOrchestrator --------------------------
(***************************************************************************)
(* An application that depends on a library, which depends on a base.  The *)
(* newer library takes the newer base and closes a cycle with the          *)
(* application; the older one takes either base, as alternatives.  The     *)
(* newer versions are prereleases.                                         *)
(***************************************************************************)
EXTENDS EsysOrchestrator

MCPlugins == { <<"app", 1>>, <<"lib", 1>>, <<"lib", 2>>, <<"base", 1>>, <<"base", 2>> }

MCRequires ==
    (<<"app", 1>> :> [lib |-> <<{1, 2}>>])
    @@ (<<"lib", 1>> :> [base |-> <<{1}, {2}>>])
    @@ (<<"lib", 2>> :> [base |-> <<{2}>>, app |-> <<{1}>>])
    @@ (<<"base", 1>> :> <<>>)
    @@ (<<"base", 2>> :> <<>>)
===============================================================================
