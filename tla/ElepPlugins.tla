---------------------------- MODULE ElepPlugins ----------------------------
(***************************************************************************)
(* How a container activates a plugin and stops it: FileContainer and      *)
(* PluginRuntime of packages/elep, with the development server of a plugin *)
(* in development mode, and MemoryContainer of packages/esys.  Every await *)
(* is a step of its own, so that calls of activate, deactivate and close   *)
(* overlap: a shutdown is not kept from a reconcile() that is under way.   *)
(*                                                                         *)
(* A run of a plugin is one call of activate that got past its guard: in   *)
(* a file container, a PluginRuntime.  A stop is a call of the runtime's   *)
(* deactivate.  What nodes are on the bus is shared by all containers; a   *)
(* plugin has one path and one name here.                                  *)
(***************************************************************************)
EXTENDS Naturals, FiniteSets

CONSTANTS Runs,       \* runs of the plugin
          Stops,      \* stops
          NoRun       \* no run

ASSUME NoRunAssumption == NoRun \notin Runs

VARIABLES
    kind,       \* "file" or "memory" container
    devMode,    \* the plugin has a development server, and the container is in devMode
    listed,     \* runtimes or activeNodes: the run that the container lists, or NoRun
    run,        \* of each run: how far activate is
    node,       \* the runs whose node is on the bus: isActive
    held,       \* the runs whose runtime holds its activeDevPlugin
    server,     \* the runs whose development server runs
    stop,       \* of each stop: its run, its step, and who awaits it
    closing,    \* the stops that close() awaits, or none: {}
    closed,     \* close() has been called
    orphans,    \* history: runs whose entry was taken from the list before they were stopped
    failures    \* history: runs, with what failed in them

plugvars == <<kind, devMode, listed, run, node, held, server, stop, closing, closed, orphans, failures>>

Unused == [run |-> NoRun, step |-> "none", for |-> "none"]
\* activate is on its way: it loads, starts the server, joins, publishes, or undoes that.
Underway(r) == run[r] \in {"loading", "starting", "joining", "publishing", "undoing"}
Fails(r, what) == failures' = failures \cup {<<r, what>>}

\* A runtime before activate: no node, no module, no development plugin.
NewRuntimes ==
    /\ run = [r \in Runs |-> "unused"]
    /\ node = {} /\ held = {} /\ server = {}

\* A file container, which has no runtimes yet, and may be in devMode.
FileContainer == kind = "file" /\ devMode \in BOOLEAN /\ listed = NoRun

\* A memory container, without active nodes.
MemoryContainer == kind = "memory" /\ devMode = FALSE /\ listed = NoRun

PlugInit ==
    /\ FileContainer \/ MemoryContainer
    /\ NewRuntimes
    /\ stop = [s \in Stops |-> Unused]
    /\ closing = {} /\ closed = FALSE /\ orphans = {} /\ failures = {}

----------------------------------------------------------------------------
(* activate                                                                *)

Begins(r, step) == run[r] = "unused" /\ listed = NoRun /\ run' = [run EXCEPT ![r] = step]

\* plugins.activate of a file container: what is listed already is left
\* alone; a new runtime is listed before it is activated.
Activate(r) ==
    /\ kind = "file" /\ Begins(r, "loading")
    /\ listed' = r
    /\ UNCHANGED <<kind, devMode, node, held, server, stop, closing, closed, orphans, failures>>

\* Of a memory container: the node is listed when all is done.
ActivateStored(r) ==
    /\ kind = "memory" /\ Begins(r, "joining")
    /\ UNCHANGED <<kind, devMode, listed, node, held, server, stop, closing, closed, orphans, failures>>

Loses(rs) == orphans' = orphans \cup (rs \ {NoRun})

\* activate rejects, and the entry of its path is dropped -- whosever it is.
Drop(r) ==
    /\ run' = [run EXCEPT ![r] = "failed"]
    /\ listed' = IF kind = "file" THEN NoRun ELSE listed
    /\ IF kind = "file" THEN Loses({listed} \ {r}) ELSE UNCHANGED orphans

\* Manifest and configurations are read.
Loaded(r, ok) ==
    /\ run[r] = "loading"
    /\ IF ~ ok THEN Drop(r) /\ UNCHANGED held
       ELSE /\ run' = [run EXCEPT ![r] = IF devMode THEN "starting" ELSE "joining"]
            /\ held' = IF devMode THEN held \cup {r} ELSE held
            /\ UNCHANGED <<listed, orphans>>
    /\ UNCHANGED <<kind, devMode, node, server, stop, closing, closed, failures>>

\* activeDevPlugin.start
DevStarted(r, ok) ==
    /\ run[r] = "starting"
    /\ IF ok THEN /\ server' = server \cup {r}
                  /\ run' = [run EXCEPT ![r] = "joining"]
                  /\ UNCHANGED <<listed, orphans>>
             ELSE Drop(r) /\ UNCHANGED server
    /\ UNCHANGED <<kind, devMode, node, held, stop, closing, closed, failures>>

\* The module is loaded, the node joins under the plugin's name, and the
\* plugin's own activate() is called; its router is given to the node.
\* Whatever fails before the node has joined leaves the server running.
Joined(r, ok) ==
    /\ run[r] = "joining"
    /\ IF ok /\ node = {}
       THEN /\ node' = node \cup {r}
            /\ run' = [run EXCEPT ![r] = "publishing"]
            /\ UNCHANGED <<listed, orphans, failures>>
       ELSE /\ Drop(r)
            /\ failures' = IF r \in server THEN failures \cup {<<r, "after start">>} ELSE failures
            /\ UNCHANGED node
    /\ UNCHANGED <<kind, devMode, held, server, stop, closing, closed>>

\* A stop of a run, up to its first await.  One that is not active is not stopped.
Begin(s, r, for) ==
    stop' = [stop EXCEPT ![s] = [run |-> r, for |-> for,
                                 step |-> IF kind = "memory" /\ for = "activate" THEN "closing" ELSE "hook"]]

\* setApi has announced the router, or the plugin's activate() threw.  Then
\* the runtime is deactivated, and a memory container closes the node.
Published(r, ok) ==
    /\ run[r] = "publishing"
    /\ IF ok
       THEN /\ run' = [run EXCEPT ![r] = "active"]
            /\ listed' = IF kind = "memory" THEN r ELSE listed
            /\ UNCHANGED <<stop, orphans>>
       ELSE IF kind = "memory" \/ r \in node
       THEN /\ \E s \in Stops : stop[s] = Unused /\ Begin(s, r, "activate")
            /\ run' = [run EXCEPT ![r] = "undoing"]
            /\ UNCHANGED <<listed, orphans>>
       ELSE Drop(r) /\ UNCHANGED stop
    /\ UNCHANGED <<kind, devMode, node, held, server, closing, closed, failures>>

----------------------------------------------------------------------------
(* deactivate and close                                                    *)

\* plugins.deactivate.  A runtime that is not active yet is taken from the
\* list nevertheless, and goes on.
Deactivate(s) ==
    /\ listed # NoRun /\ stop[s] = Unused
    /\ IF listed \in node
       THEN Begin(s, listed, "call") /\ UNCHANGED <<listed, orphans>>
       ELSE /\ listed' = NoRun
            /\ Loses({listed})
            /\ UNCHANGED stop
    /\ UNCHANGED <<kind, devMode, run, node, held, server, closing, closed, failures>>

\* Mutant: the server is not stopped.
NextAfterHook(r) == "closing"

\* After the plugin's own deactivate(): the server, if the runtime has one still.
AfterHook(r) == IF r \in held THEN "stopping" ELSE "closing"

\* The plugin's own deactivate().  If it throws, a file container goes on to
\* the node and forgets the server; a memory container gives up.
HookDone(s, ok) ==
    /\ stop[s].step = "hook"
    /\ LET r == stop[s].run IN
       /\ stop' = [stop EXCEPT ![s].step = IF ok THEN AfterHook(r) ELSE IF kind = "file" THEN "closing" ELSE "failed"]
       /\ IF ok THEN UNCHANGED failures ELSE Fails(r, "hook")
    /\ UNCHANGED <<kind, devMode, listed, run, node, held, server, closing, closed, orphans>>

DevStopped(s, ok) ==
    /\ stop[s].step = "stopping"
    /\ LET r == stop[s].run IN
       /\ server' = IF ok THEN server \ {r} ELSE server
       /\ IF ok THEN UNCHANGED failures ELSE Fails(r, "stop")
    /\ stop' = [stop EXCEPT ![s].step = "closing"]
    /\ UNCHANGED <<kind, devMode, listed, run, node, held, closing, closed, orphans>>

\* The node has closed; whoever awaited the stop goes on.
NodeClosed(s) ==
    /\ stop[s].step = "closing"
    /\ LET r == stop[s].run IN
       /\ node' = node \ {r} /\ held' = held \ {r}
       /\ CASE stop[s].for = "activate" -> Drop(r)
            [] OTHER ->
                  /\ run' = [run EXCEPT ![r] = IF @ = "active" THEN "stopped" ELSE @]
                  /\ IF kind = "memory" \/ stop[s].for = "call"
                     THEN listed' = NoRun /\ Loses({listed} \ {r})
                     ELSE UNCHANGED <<listed, orphans>>
    /\ stop' = [stop EXCEPT ![s].step = "done"]
    /\ UNCHANGED <<kind, devMode, server, closing, closed, failures>>

\* close() stops what is listed and active, and awaits it.
Close(s) ==
    /\ ~ closed
    /\ closed' = TRUE
    /\ IF listed # NoRun /\ listed \in node
       THEN stop[s] = Unused /\ Begin(s, listed, "close") /\ closing' = {s}
       ELSE UNCHANGED <<stop, closing>>
    /\ listed' = IF listed \in node THEN listed ELSE NoRun
    /\ Loses({listed} \ node)
    /\ UNCHANGED <<kind, devMode, run, node, held, server, failures>>

\* All have settled, and the list is emptied.
CloseDone ==
    /\ closing # {} /\ \A s \in closing : stop[s].step \in {"done", "failed"}
    /\ closing' = {} /\ listed' = NoRun
    /\ Loses({listed})
    /\ UNCHANGED <<kind, devMode, run, node, held, server, stop, closed, failures>>

PlugNext ==
    \/ \E r \in Runs : Activate(r) \/ ActivateStored(r)
    \/ \E r \in Runs, ok \in BOOLEAN : Loaded(r, ok) \/ DevStarted(r, ok) \/ Joined(r, ok) \/ Published(r, ok)
    \/ \E s \in Stops : Deactivate(s) \/ NodeClosed(s) \/ Close(s)
    \/ \E s \in Stops, ok \in BOOLEAN : HookDone(s, ok) \/ DevStopped(s, ok)
    \/ CloseDone

PlugSpec == PlugInit /\ [][PlugNext]_plugvars

----------------------------------------------------------------------------

Stopped(r) == \E s \in Stops : stop[s].run = r /\ stop[s].step \in {"hook", "stopping", "closing"}

\* Whatever a container has brought up it can still take down.  A node on the
\* bus is listed, or on its way up or down, unless deactivate or close() passed
\* over a run that was not active yet; a development server runs for a node, or
\* on the way to one, unless activation failed after its start, or the plugin's
\* deactivate() or the server's own stop() threw.  And what has failed or
\* stopped does not stay in the list, where it would keep the plugin from
\* being activated again.
NothingIsForgotten ==
    /\ run \in [Runs -> {"unused", "loading", "starting", "joining", "publishing", "undoing", "active", "failed", "stopped"}]
    /\ Cardinality(node) <= 1
    /\ listed # NoRun => run[listed] \notin {"unused", "failed"} /\ (run[listed] = "stopped" => closing # {})
    /\ \A r \in node : listed = r \/ Underway(r) \/ Stopped(r) \/ r \in orphans
    /\ \A r \in server : r \in node \/ Underway(r) \/ \E f \in failures : f[1] = r

=============================================================================
