------------------------------- MODULE MCHost -------------------------------
(* Four parts of the host, one of them in each behaviour: its life, the     *)
(* runs of a plugin, the connection of a page, and a plugin's files.        *)
EXTENDS EsysBoot, ElepPlugins, ElepIpc, ElepResources, TLC

VARIABLE part

MCHomeOf == [p \in BootPlugins |-> CHOOSE c \in Containers : TRUE]

MCTokens == {"@", "/", "2", "r", "d", "s", "x.js", "i.html"}
MCHtml   == {"i.html"}
MCDotted == {"i.html", "x.js"}
MCAsked  == {<<"@">>, <<"@", "/", "x.js">>, <<"@", "2", "/", "x.js">>, <<"/", "@", "/", "r">>,
             <<"@", "/", "i.html", "/", "r">>, <<"d", "/", "i.html", "/", "i.html", "/", "r">>, <<"d", "/", "i.html">>}

At      == <<"/", "@">>
AtDir   == <<"/", "@", "/">>
DistDir == <<"/", "d", "/">>
MCRules == {<<>>, (AtDir :> DistDir) @@ (At :> DistDir), (At :> <<"s">>) @@ (<<"/">> :> DistDir)}
MCSpas  == {[mode |-> "none", entries |-> {}], [mode |-> "smart", entries |-> {}],
            [mode |-> "single", entries |-> {<<"/", "d", "/", "i.html">>}],
            [mode |-> "many", entries |-> {<<"d", "/", "i.html">>, <<"d">>, AtDir}]}
MCProd  == [rewrites : MCRules, spa : MCSpas]
MCDev   == {[rewrites |-> <<>>, hook |-> FALSE], [rewrites |-> AtDir :> <<"/", "s", "/">>, hook |-> TRUE]}

PlugRest == PlugInit /\ kind = "file" /\ devMode
ResRest  == /\ inDevMode = FALSE
            /\ disk = [prod |-> [rewrites |-> <<>>, spa |-> [mode |-> "none", entries |-> {}]],
                       dev |-> [rewrites |-> <<>>, hook |-> FALSE]]
            /\ cache = Nothing /\ copy = Nothing /\ hasRuntime = FALSE
            /\ request = NoRequest /\ served = Unserved

HostInit ==
    /\ part \in {"life", "plugin", "page", "files"}
    /\ BootInit /\ IpcInit
    /\ IF part = "plugin" THEN PlugInit ELSE PlugRest
    /\ IF part = "files" THEN ResInit ELSE ResRest

HostNext ==
    /\ UNCHANGED part
    /\ \/ part = "life" /\ BootNext /\ UNCHANGED <<plugvars, ipcvars, resvars>>
       \/ part = "plugin" /\ PlugNext /\ UNCHANGED <<bootvars, ipcvars, resvars>>
       \/ part = "page" /\ IpcNext /\ UNCHANGED <<bootvars, plugvars, resvars>>
       \/ part = "files" /\ ResNext /\ UNCHANGED <<bootvars, plugvars, ipcvars>>

Spec == HostInit /\ [][HostNext]_<<bootvars, plugvars, ipcvars, resvars, part>> /\ BootFairness

=============================================================================
