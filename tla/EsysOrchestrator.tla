--------------------------- MODULE EsysOrchestrator ---------------------------
(***************************************************************************)
(* The plugin system of packages/esys: the registry, which says which      *)
(* plugins are installed and should run, the plugin manager, which changes *)
(* it, and the orchestrator, which brings the containers into line.        *)
(*                                                                         *)
(* The plan is carried out one await at a time, and every operation of the *)
(* plugin manager may come in between.  The resolver awaits nothing but    *)
(* its own promises, so that it is one step with the call of reconcile();  *)
(* a call of reconcile() while one is under way does nothing.  Containers  *)
(* stay mounted, and a plugin's URI stands for one name and version.       *)
(***************************************************************************)
EXTENDS PlexusResolver

CONSTANTS MaxCalls,      \* bound on the calls of the plugin manager
          MaxFailures    \* bound on the hooks of plugins that throw

ASSUME OrchestratorAssumption == MaxCalls \in Nat /\ MaxFailures \in Nat

VARIABLES
    state,      \* registry: is a plugin installed, and should it run
    status,     \* registry: what is known of it
    running,    \* the plugins that the containers have activated
    graph,      \* pluginManager.enabled.graph
    asked,      \* providerCache: the names it holds an answer for,
    cached,     \* and the versions in that answer
    dirty,      \* isDirty
    phase,      \* "idle", or isReconciling: "between" two entries of the plan or "waiting" for a container
    plan,       \* what is left of the plan
    target,     \* newGraph
    verdict,    \* history: how reconcile() ended, if nothing was changed since
    mishaps,    \* history: "plan" was given up, or "disable" stopped halfway
    calls, failures

resolver == <<asked, cached>>
counters == <<calls, failures>>
vars == <<state, status, running, graph, resolver, dirty, phase, plan, target, verdict, mishaps, counters>>

Installed == [n \in Names |-> { v \in Versions : <<n, v>> \in Plugins /\ state[<<n, v>>] # "absent" }]
Enabled   == [n \in Names |-> { v \in Versions : <<n, v>> \in Plugins /\ state[<<n, v>>] = "enable" }]

\* The registry as a provider, read through the resolver's cache.
Known == [n \in Names |-> IF n \in asked THEN cached[n] ELSE Installed[n]]

Init ==
    /\ state \in [Plugins -> {"absent", "disable", "enable"}]
    /\ status = [p \in Plugins |-> "stopped"]
    /\ running = {} /\ graph = <<>>
    /\ asked = {} /\ cached = [n \in Names |-> {}]
    /\ dirty = TRUE /\ phase = "idle" /\ plan = <<>> /\ target = <<>>
    /\ verdict = "none" /\ mishaps = {} /\ calls = 0 /\ failures = 0

----------------------------------------------------------------------------
(* The plugin manager.                                                     *)

Call ==
    /\ calls < MaxCalls
    /\ calls' = calls + 1
    /\ verdict' = "none"
    /\ UNCHANGED <<running, graph, resolver, phase, plan, target, failures>>

Install(p) ==
    /\ Call
    /\ state[p] = "absent"
    /\ state' = [state EXCEPT ![p] = "disable"]
    /\ status' = [status EXCEPT ![p] = "stopped"]
    /\ UNCHANGED <<dirty, mishaps>>

Uninstall(p) ==
    /\ Call
    /\ state[p] = "disable"
    /\ state' = [state EXCEPT ![p] = "absent"]
    /\ UNCHANGED <<status, dirty, mishaps>>

Enable(p) ==
    /\ Call
    /\ state[p] # "absent"
    /\ state' = [state EXCEPT ![p] = "enable"]
    /\ dirty' = TRUE
    /\ UNCHANGED <<status, mishaps>>

\* #findActiveDependents
ActiveDependents(p) ==
    IF p \notin Ids(graph) THEN {}
    ELSE { q \in { Id(graph, m) : m \in AllDependents(graph, p[1]) } \ {p} : state[q] = "enable" }

\* All enabled versions of a name.  A strict call stops at the first one that
\* others depend on; what it has disabled by then stays disabled.
Disable(n, strict) ==
    LET versions == { <<n, v>> : v \in Enabled[n] }
        needed   == { p \in versions : ActiveDependents(p) # {} }
        Off(S)   == state' = [p \in Plugins |-> IF p \in S THEN "disable" ELSE state[p]]
    IN /\ Call
       /\ versions # {}
       /\ \/ /\ ~ strict \/ needed = {}
             /\ Off(versions \cup UNION { ActiveDependents(p) : p \in versions })
             /\ dirty' = TRUE
             /\ UNCHANGED mishaps
          \/ /\ strict /\ needed # {}
             /\ \E S \in SUBSET (versions \ needed) :
                   /\ Off(S)
                   /\ mishaps' = IF S = {} THEN mishaps ELSE mishaps \cup {"disable"}
             /\ UNCHANGED dirty
       /\ UNCHANGED status

----------------------------------------------------------------------------
(* The orchestrator.                                                       *)

\* Of two enabled versions of a name, the one that is found last.
Requirements ==
    { [n \in Names |-> IF Enabled[n] = {} THEN <<>> ELSE <<{pick[n]}>>] :
        pick \in { f \in [Names -> Versions] : \A n \in Names : Enabled[n] # {} => f[n] \in Enabled[n] } }

Remember(names) ==
    /\ asked' = asked \cup names
    /\ cached' = [n \in Names |-> IF n \in names THEN Known[n] ELSE cached[n]]

Reconcile ==
    /\ phase = "idle" /\ dirty
    /\ \E r \in Requirements : \E o \in Outcomes(r, Known, graph) :
          /\ Remember(o.asked)
          /\ IF o.solved /\ IsCompleted(o.graph)
             THEN /\ plan' \in Plans(o.graph, graph)
                  /\ phase' = IF plan' = <<>> THEN "idle" ELSE "between"
                  /\ target' = IF plan' = <<>> THEN <<>> ELSE o.graph
                  /\ verdict' = IF plan' = <<>> THEN "done" ELSE "none"
                  /\ dirty' = FALSE
             ELSE /\ verdict' = IF o.solved THEN "cyclic" ELSE "unsolvable"
                  /\ UNCHANGED <<phase, plan, target, dirty>>
    /\ UNCHANGED <<state, status, running, graph, mishaps, counters>>

Ended(outcome) == phase' = "idle" /\ plan' = <<>> /\ target' = <<>> /\ verdict' = outcome

\* Mutant: the failure does not mark the system dirty.
GiveUpClean == Ended("failed") /\ mishaps' = mishaps \cup {"plan"} /\ UNCHANGED <<graph, dirty>>

\* reconcile() rejects; what the plan has done so far stays done.
GiveUp == Ended("failed") /\ dirty' = TRUE /\ mishaps' = mishaps \cup {"plan"} /\ UNCHANGED graph

\* An entry whose plugin has left the registry ends the plan.
BeginEntry ==
    /\ phase = "between"
    /\ IF state[Head(plan).id] = "absent" THEN GiveUp
       ELSE phase' = "waiting" /\ UNCHANGED <<graph, plan, target, dirty, verdict, mishaps>>
    /\ UNCHANGED <<state, status, running, resolver, counters>>

\* updateStatus does nothing for a plugin that is not registered.
Report(p, s) == status' = IF state[p] = "absent" THEN status ELSE [status EXCEPT ![p] = s]

EntryDone ==
    LET e == Head(plan)
    IN /\ phase = "waiting"
       /\ IF e.op = "start"
          THEN /\ ~ \E q \in running \ {e.id} : q[1] = e.id[1]
               /\ running' = running \cup {e.id}
               /\ Report(e.id, "running")
          ELSE /\ running' = running \ {e.id}
               /\ Report(e.id, "stopped")
       /\ IF Tail(plan) = <<>>
          THEN graph' = target /\ Ended("done")
          ELSE plan' = Tail(plan) /\ phase' = "between" /\ UNCHANGED <<graph, target, verdict>>
       /\ UNCHANGED <<state, resolver, dirty, mishaps, counters>>

\* A hook throws, or the bus already has a node of that name.
EntryFails ==
    LET e == Head(plan)
        taken == e.op = "start" /\ \E q \in running \ {e.id} : q[1] = e.id[1]
    IN /\ phase = "waiting"
       /\ \/ taken /\ UNCHANGED failures
          \/ /\ ~ taken /\ (e.id \in running <=> e.op = "stop")
             /\ failures < MaxFailures
             /\ failures' = failures + 1
       /\ Report(e.id, "error")
       /\ GiveUp
       /\ UNCHANGED <<state, running, resolver, calls>>

Next ==
    \/ \E p \in Plugins : Install(p) \/ Uninstall(p) \/ Enable(p)
    \/ \E n \in Names, strict \in BOOLEAN : Disable(n, strict)
    \/ Reconcile \/ BeginEntry \/ EntryDone \/ EntryFails

Spec == Init /\ [][Next]_vars

\* The loop over the plan goes on, and the hooks of plugins settle.
FairSpec == Spec /\ WF_vars(BeginEntry) /\ WF_vars(EntryDone \/ EntryFails)

----------------------------------------------------------------------------
(* Properties.                                                             *)

\* The plan, the target and the phase go together; the registry, the cache
\* and the graphs are of their kinds.
TypeOK ==
    /\ state \in [Plugins -> {"absent", "disable", "enable"}]
    /\ status \in [Plugins -> {"stopped", "running", "error"}]
    /\ running \subseteq Plugins
    /\ graph \in Graphs /\ target \in Graphs /\ Ids(graph) \cup Ids(target) \subseteq Plugins
    /\ asked \subseteq Names /\ cached \in [Names -> SUBSET Versions]
    /\ dirty \in BOOLEAN /\ mishaps \subseteq {"plan", "disable"}
    /\ phase \in {"idle", "between", "waiting"}
    /\ (phase = "idle") = (plan = <<>>)
    /\ \A i \in DOMAIN plan : plan[i].op \in {"stop", "start"} /\ plan[i].id \in Plugins
    /\ verdict \in {"none", "done", "unsolvable", "cyclic", "failed"}
    /\ calls \in 0 .. MaxCalls /\ failures \in 0 .. MaxFailures

\* Unless a plan was once given up, the plugins that run are the ones of the
\* graph that is called "the actual state of the system" (plugin.manager.ts),
\* whatever the plugin manager is asked while a plan is carried out.
ActualIsGraph == phase = "idle" /\ "plan" \notin mishaps => running = Ids(graph)

\* When nothing is pending, and no disable() has stopped halfway, the graph
\* resolves what the registry enables: an enabled version of each name, every
\* dependency in range, no cycle and nothing that is not needed (reconcile,
\* markDirty).  Where a range with alternatives is on a name, its version may be out
\* of the other ranges, the enabled version included (#intersectRanges).
EnabledIsResolved ==
    phase = "idle" /\ ~ dirty /\ "disable" \notin mishaps =>
        /\ ~ Cyclic(graph)
        /\ \E r \in Requirements :
              /\ SolvesWherePlain(graph, r)
              /\ \A n \in DOMAIN graph : AllDependents(graph, n) \cap Constrained(r) # {}

\* What runs is what is enabled and what that needs, nothing else.
RunsWhatIsEnabled == TypeOK /\ ActualIsGraph /\ EnabledIsResolved

\* A resolution fails only when the versions the resolver knows of, which may be out
\* of date, allow none in which nothing depends on a prerelease: a dependency that is
\* resolved before what depends on it may not be one (the constraint propagation and
\* backtracking of #solve).
ResolutionComplete == verdict = "unsolvable" => \E r \in Requirements : ~ SolvableByReleases(r, Known)

DependsOn(g, p, q) == p \in Ids(g) /\ q \in Ids(g) /\ q[1] \in Needs(p)

\* Unless a plan was once given up, a plugin starts when all it depends on is
\* running, and one that is removed stops after all that depended on it
\* (DiffResult.sort, executePlan).
OrderKept ==
    []["plan" \notin mishaps' =>
        /\ \A p \in running' \ running : \A q \in Ids(target) : DependsOn(target, p, q) => q \in running
        /\ \A p \in running \ running' :
              p \notin Ids(target) => ~ \E q \in running : DependsOn(graph, q, p)]_vars

\* reconcile() always ends, also when a hook throws or a plugin has left the
\* registry, and lets the next call in.
ReconcileEnds == phase # "idle" ~> phase = "idle"

\* A plan is carried out in its order, and to an end.
PlansAreRun == OrderKept /\ ReconcileEnds

===============================================================================
