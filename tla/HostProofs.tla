---------------------------- MODULE HostProofs ----------------------------
(***************************************************************************)
(* Proofs about a host: the plugin containers (ElepPlugins), for any       *)
(* number of runs of a plugin and of stops of them, in whatever order      *)
(* their awaits end; the transport between the processes (ElepIpc), for    *)
(* any number of pages loaded one after another and of packets on their    *)
(* links; a node put together and taken apart feature by feature           *)
(* (ErpcRuntime); and the life of a host from boot to exit (EsysBoot), for *)
(* any finite set of plugins, any containers and any number of starts.     *)
(***************************************************************************)
EXTENDS ElepPlugins, ElepIpc, ElepResources, EsysBoot, ErpcRuntime, DataProofs, FiniteSetTheorems,
        SequenceTheorems, TLAPS

-----------------------------------------------------------------------------
(* Plugin containers. *)

Early == {"loading", "starting", "joining"}
RunStates == {"unused", "loading", "starting", "joining", "publishing", "undoing", "active", "failed", "stopped"}
Active(s) == stop[s].step \in {"hook", "stopping", "closing"}
Failed(fs, r) == \E f \in fs : f[1] = r

(***************************************************************************)
(* The inductive invariant, part by part.                                  *)
(***************************************************************************)

PlugTypeOK ==
    /\ kind \in {"file", "memory"}
    /\ listed \in Runs \cup {NoRun}
    /\ run \in [Runs -> RunStates]
    /\ node \subseteq Runs /\ held \subseteq Runs /\ server \subseteq Runs
    /\ stop \in [Stops -> [run  : Runs \cup {NoRun},
                           step : {"none", "hook", "stopping", "closing", "done", "failed"},
                           for  : {"none", "activate", "call", "close"}]]

\* The bus admits one node of the plugin's name.
OneNode == node = {} \/ \E r \in Runs : node = {r}

ListedRuns ==
    listed # NoRun =>
        /\ run[listed] \notin {"unused", "failed"}
        /\ run[listed] = "stopped" => closing # {}
        /\ kind = "memory" => run[listed] \in {"active", "stopped"}

\* A node is on the bus between join and close; a container knows of it, or
\* has passed over it.
NodesAreKnown ==
    \A r \in node :
        /\ run[r] \in {"publishing", "undoing", "active"}
        /\ \/ kind = "memory" /\ run[r] \in {"publishing", "undoing"}
           \/ listed = r
           \/ r \in orphans

\* A file container lists a run before it begins, a memory container a node
\* that nothing closes before it is listed.
RunsAreKnown ==
    \A r \in Runs :
        /\ kind = "file" /\ run[r] \in Early => listed = r \/ r \in orphans
        /\ kind = "memory" /\ run[r] = "publishing" => r \in node
        /\ run[r] = "starting" => r \in held

\* A stop under way is of a run that has had a node.
StopsHaveRuns ==
    \A s \in Stops :
        Active(s) =>
            /\ stop[s].run \in Runs /\ stop[s].for # "none"
            /\ run[stop[s].run] \notin Early \cup {"unused"}
            /\ stop[s].for = "activate" => run[stop[s].run] = "undoing"
            /\ kind = "memory" /\ stop[s].for # "activate" => run[stop[s].run] \in {"active", "stopped"}

\* activate undoes itself once.
UndoneOnce ==
    \A s, t \in Stops :
        /\ Active(s) /\ stop[s].for = "activate"
        /\ Active(t) /\ stop[t].for = "activate"
        /\ stop[s].run = stop[t].run
        => s = t

\* What close() began, close() awaits.
CloseAwaits ==
    \A s \in Stops :
        stop[s].for = "close" => closed /\ (Active(s) => s \in closing)

\* A server is held by a run that joins or has its node, or something failed;
\* a stop does not pass it by.
ServersAreHeld ==
    /\ kind = "memory" => held = {}
    /\ \A r \in server : Failed(failures, r) \/ (r \in held /\ (run[r] = "joining" \/ r \in node))
    /\ \A s \in Stops : stop[s].step = "closing" /\ stop[s].run \in server => Failed(failures, stop[s].run)

PInv ==
    /\ PlugTypeOK /\ OneNode /\ ListedRuns /\ NodesAreKnown /\ RunsAreKnown
    /\ StopsHaveRuns /\ UndoneOnce /\ CloseAwaits /\ ServersAreHeld
    /\ kind = "memory" => devMode = FALSE

-------------------------------------------------------------------------------

\* The invariant gives the property.
LEMMA PInvImplies == PInv => NothingIsForgotten
<1> SUFFICES ASSUME PInv PROVE NothingIsForgotten  OBVIOUS
<1>1. Cardinality(node) <= 1
    <2>1. CASE node = {}  BY <2>1, FS_EmptySet
    <2>2. CASE \E r \in Runs : node = {r}
        <3>1. Cardinality(node) = 1  BY <2>2, FS_Singleton
        <3> QED  BY <3>1
    <2> QED  BY <2>1, <2>2 DEF PInv, OneNode
<1>2. \A r \in node : listed = r \/ Underway(r) \/ Stopped(r) \/ r \in orphans
    BY DEF PInv, NodesAreKnown, Underway
<1>3. \A r \in server : r \in node \/ Underway(r) \/ \E f \in failures : f[1] = r
    BY DEF PInv, ServersAreHeld, Failed, Underway
<1> QED  BY <1>1, <1>2, <1>3 DEF PInv, PlugTypeOK, RunStates, ListedRuns, NothingIsForgotten

\* It holds at the start.
LEMMA PInvInit == PlugInit => PInv
    BY NoRunAssumption
       DEF PlugInit, FileContainer, MemoryContainer, NewRuntimes, Unused, PInv, PlugTypeOK, RunStates, Early, OneNode,
           ListedRuns, NodesAreKnown, RunsAreKnown, StopsHaveRuns, UndoneOnce, CloseAwaits, ServersAreHeld, Active

\* activate begins.
LEMMA BeginsKeeps == \A r \in Runs : PInv /\ (Activate(r) \/ ActivateStored(r)) => PInv'
<1> SUFFICES ASSUME NEW r \in Runs, PInv, Activate(r) \/ ActivateStored(r) PROVE PInv'  OBVIOUS
<1> USE NoRunAssumption DEF PInv
<1>1. PlugTypeOK' /\ OneNode'  BY DEF PlugTypeOK, OneNode, Activate, ActivateStored, Begins, RunStates
<1>2. ListedRuns' /\ RunsAreKnown'
    BY DEF PlugTypeOK, ListedRuns, RunsAreKnown, Activate, ActivateStored, Begins, Early
<1>3. NodesAreKnown'  BY DEF PlugTypeOK, NodesAreKnown, Activate, ActivateStored, Begins
<1>4. StopsHaveRuns'  BY DEF PlugTypeOK, StopsHaveRuns, Activate, ActivateStored, Begins, Active, Early
<1>5. UndoneOnce' /\ CloseAwaits'  BY DEF UndoneOnce, CloseAwaits, Activate, ActivateStored, Begins, Active
<1>6. ServersAreHeld'  BY DEF PlugTypeOK, ServersAreHeld, Activate, ActivateStored, Begins, Failed
<1> QED  BY <1>1, <1>2, <1>3, <1>4, <1>5, <1>6 DEF Activate, ActivateStored

\* The steps of activate up to the node.
LEMMA LoadedKeeps == \A r \in Runs, ok \in BOOLEAN : PInv /\ Loaded(r, ok) => PInv'
<1> SUFFICES ASSUME NEW r \in Runs, NEW ok \in BOOLEAN, PInv, Loaded(r, ok) PROVE PInv'  OBVIOUS
<1> USE NoRunAssumption DEF PInv, Loaded, Drop, Loses
<1>1. PlugTypeOK' /\ OneNode'  BY DEF PlugTypeOK, OneNode, RunStates
<1>2. ListedRuns' /\ RunsAreKnown'  BY DEF PlugTypeOK, ListedRuns, RunsAreKnown, Early
<1>3. NodesAreKnown'  BY DEF PlugTypeOK, NodesAreKnown
<1>4. StopsHaveRuns'  BY DEF PlugTypeOK, StopsHaveRuns, Active, Early
<1>5. UndoneOnce' /\ CloseAwaits'  BY DEF UndoneOnce, CloseAwaits, Active
<1>6. ServersAreHeld'  BY DEF PlugTypeOK, NodesAreKnown, ServersAreHeld, Failed
<1> QED  BY <1>1, <1>2, <1>3, <1>4, <1>5, <1>6

LEMMA DevStartedKeeps == \A r \in Runs, ok \in BOOLEAN : PInv /\ DevStarted(r, ok) => PInv'
<1> SUFFICES ASSUME NEW r \in Runs, NEW ok \in BOOLEAN, PInv, DevStarted(r, ok) PROVE PInv'  OBVIOUS
<1> USE NoRunAssumption DEF PInv, DevStarted, Drop, Loses
<1>1. PlugTypeOK' /\ OneNode'  BY DEF PlugTypeOK, OneNode, RunStates
<1>2. ListedRuns' /\ RunsAreKnown'  BY DEF PlugTypeOK, ListedRuns, RunsAreKnown, Early
<1>3. NodesAreKnown'  BY DEF PlugTypeOK, NodesAreKnown
<1>4. StopsHaveRuns'  BY DEF PlugTypeOK, StopsHaveRuns, Active, Early
<1>5. UndoneOnce' /\ CloseAwaits'  BY DEF UndoneOnce, CloseAwaits, Active
<1>6. ServersAreHeld'
    BY DEF PlugTypeOK, NodesAreKnown, RunsAreKnown, StopsHaveRuns, ServersAreHeld, Failed, Active, Early
<1> QED  BY <1>1, <1>2, <1>3, <1>4, <1>5, <1>6

LEMMA JoinedKeeps == \A r \in Runs, ok \in BOOLEAN : PInv /\ Joined(r, ok) => PInv'
<1> SUFFICES ASSUME NEW r \in Runs, NEW ok \in BOOLEAN, PInv, Joined(r, ok) PROVE PInv'  OBVIOUS
<1> USE NoRunAssumption DEF PInv, Joined, Drop, Loses
<1>1. PlugTypeOK' /\ OneNode'
  <2>1. PlugTypeOK'
    <3>1. CASE ok /\ node = {}  BY <3>1 DEF PlugTypeOK, RunStates
    <3>2. CASE ~(ok /\ node = {}) /\ kind = "file"  BY <3>2 DEF PlugTypeOK, RunStates
    <3>3. CASE ~(ok /\ node = {}) /\ kind # "file"  BY <3>3 DEF PlugTypeOK, RunStates
    <3> QED  BY <3>1, <3>2, <3>3
  <2>2. OneNode'  BY DEF PlugTypeOK, OneNode, RunStates
  <2> QED  BY <2>1, <2>2
<1>2. ListedRuns' /\ RunsAreKnown'
  <2>1. ListedRuns'  BY DEF PlugTypeOK, ListedRuns
  <2>2. RunsAreKnown'
    <3>1. CASE ok /\ node = {}  BY <3>1 DEF PlugTypeOK, RunsAreKnown, Early
    <3>2. CASE ~(ok /\ node = {})  BY <3>2 DEF PlugTypeOK, RunsAreKnown, Early
    <3> QED  BY <3>1, <3>2
  <2> QED  BY <2>1, <2>2
<1>3. NodesAreKnown'
    <2>1. CASE ok /\ node = {}  BY <2>1 DEF PlugTypeOK, RunsAreKnown, NodesAreKnown, Early
    <2>2. CASE ~(ok /\ node = {})  BY <2>2 DEF PlugTypeOK, NodesAreKnown
    <2> QED  BY <2>1, <2>2
<1>4. StopsHaveRuns'
    <2>1. CASE ok /\ node = {}  BY <2>1 DEF PlugTypeOK, StopsHaveRuns, Active, Early
    <2>2. CASE ~(ok /\ node = {})  BY <2>2 DEF PlugTypeOK, StopsHaveRuns, Active, Early
    <2> QED  BY <2>1, <2>2
<1>5. UndoneOnce' /\ CloseAwaits'  BY DEF UndoneOnce, CloseAwaits, Active
<1>6. ServersAreHeld'
    <2>0. \A q \in Runs : Failed(failures, q) => Failed(failures', q)  BY DEF Failed
    <2>1. CASE ok /\ node = {}  BY <2>0, <2>1 DEF PlugTypeOK, NodesAreKnown, ServersAreHeld
    <2>2. CASE ~(ok /\ node = {})
        <3>1. r \in server => Failed(failures', r)
            <4> SUFFICES ASSUME r \in server PROVE Failed(failures', r)  OBVIOUS
            <4>1. <<r, "after start">> \in failures'  BY <2>2
            <4> QED  BY <4>1 DEF Failed
        <3>2. \A q \in Runs : q # r => run'[q] = run[q]  BY <2>2 DEF PlugTypeOK
        <3> QED  BY <2>0, <2>2, <3>1, <3>2 DEF PlugTypeOK, ServersAreHeld
    <2> QED  BY <2>1, <2>2
<1> QED  BY <1>1, <1>2, <1>3, <1>4, <1>5, <1>6

\* The end of activate, or the beginning of its undoing.
LEMMA PublishedKeeps == \A r \in Runs, ok \in BOOLEAN : PInv /\ Published(r, ok) => PInv'
<1> SUFFICES ASSUME NEW r \in Runs, NEW ok \in BOOLEAN, PInv, Published(r, ok) PROVE PInv'  OBVIOUS
<1> USE NoRunAssumption DEF PInv
<1>1. CASE ok
    <2> USE <1>1 DEF Published
    <2>1. PlugTypeOK' /\ OneNode' /\ ListedRuns'  BY DEF PlugTypeOK, OneNode, ListedRuns, RunStates
    <2>2. NodesAreKnown'  BY DEF PlugTypeOK, OneNode, NodesAreKnown, RunsAreKnown
    <2>3. RunsAreKnown' /\ StopsHaveRuns'  BY DEF PlugTypeOK, RunsAreKnown, StopsHaveRuns, Active, Early
    <2>4. UndoneOnce' /\ CloseAwaits'  BY DEF UndoneOnce, CloseAwaits, Active
    <2>5. ServersAreHeld'  BY DEF PlugTypeOK, ServersAreHeld, Failed
    <2> QED  BY <2>1, <2>2, <2>3, <2>4, <2>5
<1>2. CASE ~ok /\ (kind = "memory" \/ r \in node)
    <2>1. PICK s \in Stops : stop[s] = Unused /\ Begin(s, r, "activate")  BY <1>2 DEF Published
    <2>2. /\ stop' = [stop EXCEPT ![s] = [run |-> r, for |-> "activate",
                                         step |-> IF kind = "memory" THEN "closing" ELSE "hook"]]
          /\ run[r] = "publishing" /\ run' = [run EXCEPT ![r] = "undoing"]
          /\ UNCHANGED <<listed, orphans, kind, devMode, node, held, server, closing, closed, failures>>
        BY <1>2, <2>1 DEF Published, Begin
    <2>3. ~Active(s) /\ stop'[s].run = r /\ stop'[s].for = "activate" /\ Active(s)'
        BY <2>1, <2>2 DEF PlugTypeOK, Unused, Active
    <2>4. \A t \in Stops : t # s => stop'[t] = stop[t] /\ Active(t)' = Active(t)
        BY <2>2 DEF PlugTypeOK, Active
    <2>5. PlugTypeOK' /\ OneNode' /\ ListedRuns'  BY <2>2 DEF PlugTypeOK, OneNode, ListedRuns, RunStates
    <2>6. NodesAreKnown' /\ RunsAreKnown'  BY <2>2 DEF PlugTypeOK, NodesAreKnown, RunsAreKnown, Early
    <2>7. StopsHaveRuns'  BY <2>2, <2>3, <2>4 DEF PlugTypeOK, StopsHaveRuns, Early
    <2>8. UndoneOnce'  BY <2>2, <2>3, <2>4 DEF StopsHaveRuns, UndoneOnce
    <2>9. CloseAwaits'  BY <2>2, <2>3, <2>4 DEF CloseAwaits
    <2>10. ServersAreHeld'  BY <2>2, <2>3, <2>4 DEF ServersAreHeld, Failed, PlugTypeOK
    <2> QED  BY <2>2, <2>5, <2>6, <2>7, <2>8, <2>9, <2>10
<1>3. CASE ~ok /\ ~(kind = "memory" \/ r \in node)
    <2> USE <1>3 DEF Published, Drop, Loses
    <2>1. PlugTypeOK' /\ OneNode' /\ ListedRuns'  BY DEF PlugTypeOK, OneNode, ListedRuns, RunStates
    <2>2. NodesAreKnown'  BY DEF PlugTypeOK, NodesAreKnown
    <2>3. RunsAreKnown'  BY DEF PlugTypeOK, RunsAreKnown, Early
    <2>4. StopsHaveRuns' /\ UndoneOnce' /\ CloseAwaits'
        BY DEF PlugTypeOK, StopsHaveRuns, UndoneOnce, CloseAwaits, Active, Early
    <2>5. ServersAreHeld'  BY DEF PlugTypeOK, ServersAreHeld, Failed
    <2> QED  BY <2>1, <2>2, <2>3, <2>4, <2>5
<1> QED  BY <1>1, <1>2, <1>3

\* A stop begins of the run that is listed and active.
LEMMA BeginKeeps ==
    ASSUME PInv, NEW s \in Stops, stop[s] = Unused, listed \in node, NEW for \in {"call", "close"},
           Begin(s, listed, for), listed' = listed, orphans' = orphans,
           for = "close" => ~closed /\ closed' = TRUE /\ closing' = {s},
           for = "call" => closed' = closed /\ closing' = closing,
           UNCHANGED <<kind, devMode, run, node, held, server, failures>>
    PROVE  PInv'
<1> USE NoRunAssumption DEF PInv
<1>1. stop' = [stop EXCEPT ![s] = [run |-> listed, for |-> for, step |-> "hook"]]  BY DEF Begin
<1>2. /\ stop'[s].run = listed /\ stop'[s].for = for /\ stop'[s].step = "hook" /\ Active(s)'
      /\ ~Active(s) /\ listed \in Runs /\ listed # NoRun
    BY <1>1 DEF PlugTypeOK, Unused, Active
<1>3. \A t \in Stops : t # s => stop'[t] = stop[t] /\ Active(t)' = Active(t)  BY <1>1 DEF PlugTypeOK, Active
<1>4. PlugTypeOK' /\ OneNode'  BY <1>1, <1>2 DEF PlugTypeOK, OneNode
<1>5. ListedRuns' /\ NodesAreKnown' /\ RunsAreKnown'  BY DEF NodesAreKnown, ListedRuns, RunsAreKnown
<1>6. StopsHaveRuns'  BY <1>2, <1>3 DEF NodesAreKnown, ListedRuns, StopsHaveRuns, Early
<1>7. UndoneOnce'  BY <1>2, <1>3 DEF UndoneOnce
<1>8. CloseAwaits'  BY <1>2, <1>3 DEF CloseAwaits
<1>9. ServersAreHeld'  BY <1>2, <1>3 DEF ServersAreHeld, Failed
<1> QED  BY <1>4, <1>5, <1>6, <1>7, <1>8, <1>9

\* A run that is listed and not active is passed over.
LEMMA PassOverKeeps ==
    ASSUME PInv, listed' = NoRun \/ listed' = listed, listed' # listed => Loses({listed}),
           listed' = listed => orphans' \in {orphans, orphans \cup {listed}},
           UNCHANGED <<kind, devMode, run, node, held, server, stop, closing, failures>>,
           closed => closed'
    PROVE  PInv'
<1> USE NoRunAssumption DEF PInv
<1>1. PlugTypeOK' /\ OneNode' /\ ListedRuns'  BY DEF PlugTypeOK, OneNode, ListedRuns
<1>2. \A r \in Runs : (listed = r \/ r \in orphans) => (listed' = r \/ r \in orphans')  BY DEF Loses
<1>3. NodesAreKnown'  BY <1>2 DEF PlugTypeOK, NodesAreKnown
<1>4. RunsAreKnown'  BY <1>2 DEF RunsAreKnown
<1>5. StopsHaveRuns' /\ UndoneOnce'  BY DEF StopsHaveRuns, UndoneOnce, Active
<1>6. CloseAwaits'  BY DEF CloseAwaits, Active
<1>7. ServersAreHeld'  BY DEF ServersAreHeld, Failed
<1> QED  BY <1>1, <1>3, <1>4, <1>5, <1>6, <1>7

LEMMA DeactivateKeeps == \A s \in Stops : PInv /\ Deactivate(s) => PInv'
<1> SUFFICES ASSUME NEW s \in Stops, PInv, Deactivate(s) PROVE PInv'  OBVIOUS
<1>1. CASE listed \in node  BY <1>1, BeginKeeps DEF Deactivate
<1>2. CASE listed \notin node  BY <1>2, PassOverKeeps DEF Deactivate
<1> QED  BY <1>1, <1>2

\* close() begins the stop of what is listed and active.
LEMMA CloseKeeps == \A s \in Stops : PInv /\ Close(s) => PInv'
<1> SUFFICES ASSUME NEW s \in Stops, PInv, Close(s) PROVE PInv'  OBVIOUS
<1> USE NoRunAssumption
<1>1. CASE listed \in node
    <2>1. listed # NoRun  BY <1>1 DEF PInv, PlugTypeOK
    <2>2. /\ stop[s] = Unused /\ Begin(s, listed, "close") /\ listed' = listed
          /\ ~closed /\ closed' = TRUE /\ closing' = {s}
          /\ UNCHANGED <<kind, devMode, run, node, held, server, failures>>
        BY <1>1, <2>1 DEF Close
    <2>3. orphans' = orphans  BY <1>1 DEF Close, Loses
    <2> QED  BY <1>1, <2>2, <2>3, BeginKeeps
<1>2. CASE listed \notin node
    <2>1. /\ listed' = NoRun /\ UNCHANGED <<stop, closing>> /\ closed' = TRUE /\ Loses({listed})
          /\ UNCHANGED <<kind, devMode, run, node, held, server, failures>>
        BY <1>2 DEF Close, Loses
    <2>2. listed = NoRun => orphans' = orphans  BY <2>1 DEF Loses
    <2> QED  BY <2>1, <2>2, PassOverKeeps
<1> QED  BY <1>1, <1>2

\* close() has awaited its stops; what is listed by then is passed over.
LEMMA CloseDoneKeeps == PInv /\ CloseDone => PInv'
<1> SUFFICES ASSUME PInv, CloseDone PROVE PInv'  OBVIOUS
<1> USE NoRunAssumption DEF PInv
<1>1. /\ listed' = NoRun /\ closing' = {} /\ Loses({listed})
      /\ \A s \in closing : ~Active(s)
      /\ UNCHANGED <<kind, devMode, run, node, held, server, stop, closed, failures>>
    BY DEF CloseDone, Active
<1>2. PlugTypeOK' /\ OneNode' /\ ListedRuns'  BY <1>1 DEF PlugTypeOK, OneNode, ListedRuns
<1>3. \A r \in Runs : (listed = r \/ r \in orphans) => r \in orphans'  BY <1>1 DEF Loses
<1>4. NodesAreKnown' /\ RunsAreKnown'  BY <1>1, <1>3 DEF PlugTypeOK, NodesAreKnown, RunsAreKnown
<1>5. StopsHaveRuns' /\ UndoneOnce'  BY <1>1 DEF StopsHaveRuns, UndoneOnce, Active
<1>6. CloseAwaits'  BY <1>1 DEF CloseAwaits, Active
<1>7. ServersAreHeld'  BY <1>1 DEF ServersAreHeld, Failed
<1> QED  BY <1>1, <1>2, <1>4, <1>5, <1>6, <1>7

\* The plugin's own deactivate() has returned or thrown.
LEMMA HookDoneKeeps == \A s \in Stops, ok \in BOOLEAN : PInv /\ HookDone(s, ok) => PInv'
<1> SUFFICES ASSUME NEW s \in Stops, NEW ok \in BOOLEAN, PInv, HookDone(s, ok) PROVE PInv'  OBVIOUS
<1> USE NoRunAssumption DEF PInv
<1> DEFINE r == stop[s].run
           next == IF ok THEN AfterHook(r) ELSE IF kind = "file" THEN "closing" ELSE "failed"
<1>1. /\ stop[s].step = "hook" /\ stop' = [stop EXCEPT ![s].step = next]
      /\ next \in {"stopping", "closing", "failed"}
      /\ IF ok THEN failures' = failures ELSE failures' = failures \cup {<<r, "hook">>}
      /\ UNCHANGED <<kind, devMode, listed, run, node, held, server, closing, closed, orphans>>
    BY DEF HookDone, AfterHook, Fails
<1>2. ok /\ next = "closing" => r \notin held  BY DEF AfterHook
<1> HIDE DEF next
<1>3. /\ stop'[s].run = r /\ stop'[s].for = stop[s].for /\ stop'[s].step = next /\ Active(s)
      /\ \A t \in Stops : t # s => stop'[t] = stop[t]
      /\ stop' \in [Stops -> [run  : Runs \cup {NoRun},
                             step : {"none", "hook", "stopping", "closing", "done", "failed"},
                             for  : {"none", "activate", "call", "close"}]]
    BY <1>1 DEF PlugTypeOK, Active
<1>4. \A t \in Stops : Active(t)' => Active(t) /\ stop'[t].run = stop[t].run /\ stop'[t].for = stop[t].for
    BY <1>3 DEF Active
<1>5. PlugTypeOK' /\ OneNode' /\ ListedRuns'  BY <1>1, <1>3 DEF PlugTypeOK, OneNode, ListedRuns
<1>6. NodesAreKnown' /\ RunsAreKnown'  BY <1>1 DEF NodesAreKnown, RunsAreKnown
<1>7. StopsHaveRuns' /\ UndoneOnce'  BY <1>1, <1>4 DEF StopsHaveRuns, UndoneOnce
<1>8. CloseAwaits'  BY <1>3, <1>1, <1>4 DEF CloseAwaits
<1>9. ServersAreHeld'
    <2>1. \A q \in Runs \cup {NoRun} : Failed(failures, q) => Failed(failures', q)  BY <1>1 DEF Failed
    <2>2. ~ok => Failed(failures', r)
        <3> SUFFICES ASSUME ~ok PROVE Failed(failures', r)  OBVIOUS
        <3>1. <<r, "hook">> \in failures'  BY <1>1
        <3> QED  BY <3>1 DEF Failed
    <2>3. stop'[s].step = "closing" /\ r \in server => Failed(failures', r)
        BY <1>2, <1>3, <2>1, <2>2 DEF PlugTypeOK, ServersAreHeld
    <2>4. \A t \in Stops : stop'[t].step = "closing" /\ stop'[t].run \in server' => Failed(failures', stop'[t].run)
        <3> SUFFICES ASSUME NEW t \in Stops, stop'[t].step = "closing", stop'[t].run \in server'
                     PROVE  Failed(failures', stop'[t].run)
            OBVIOUS
        <3>1. CASE t = s  BY <1>1, <1>3, <2>3, <3>1
        <3>2. CASE t # s  BY <1>1, <1>3, <3>2, <2>1 DEF ServersAreHeld, PlugTypeOK
        <3> QED  BY <3>1, <3>2
    <2> QED  BY <1>1, <2>1, <2>4 DEF PlugTypeOK, ServersAreHeld
<1> QED  BY <1>1, <1>5, <1>6, <1>7, <1>8, <1>9

\* The development server's stop() has returned or thrown.
LEMMA DevStoppedKeeps == \A s \in Stops, ok \in BOOLEAN : PInv /\ DevStopped(s, ok) => PInv'
<1> SUFFICES ASSUME NEW s \in Stops, NEW ok \in BOOLEAN, PInv, DevStopped(s, ok) PROVE PInv'  OBVIOUS
<1> USE NoRunAssumption DEF PInv
<1> DEFINE r == stop[s].run
<1>1. /\ stop[s].step = "stopping" /\ stop' = [stop EXCEPT ![s].step = "closing"]
      /\ IF ok THEN server' = server \ {r} /\ failures' = failures
               ELSE server' = server /\ failures' = failures \cup {<<r, "stop">>}
      /\ UNCHANGED <<kind, devMode, listed, run, node, held, closing, closed, orphans>>
    BY DEF DevStopped, Fails
<1>3. /\ stop'[s].run = r /\ stop'[s].for = stop[s].for /\ Active(s)
      /\ \A t \in Stops : t # s => stop'[t] = stop[t]
      /\ stop' \in [Stops -> [run  : Runs \cup {NoRun},
                             step : {"none", "hook", "stopping", "closing", "done", "failed"},
                             for  : {"none", "activate", "call", "close"}]]
    BY <1>1 DEF PlugTypeOK, Active
<1>4. \A t \in Stops : Active(t)' => Active(t) /\ stop'[t].run = stop[t].run /\ stop'[t].for = stop[t].for
    BY <1>3 DEF Active
<1>5. PlugTypeOK' /\ OneNode' /\ ListedRuns'  BY <1>1, <1>3 DEF PlugTypeOK, OneNode, ListedRuns
<1>6. NodesAreKnown' /\ RunsAreKnown'  BY <1>1 DEF NodesAreKnown, RunsAreKnown
<1>7. StopsHaveRuns' /\ UndoneOnce'  BY <1>1, <1>4 DEF StopsHaveRuns, UndoneOnce
<1>8. CloseAwaits'  BY <1>3, <1>1, <1>4 DEF CloseAwaits
<1>9. ServersAreHeld'
    <2>1. \A q \in Runs \cup {NoRun} : Failed(failures, q) => Failed(failures', q)  BY <1>1 DEF Failed
    <2>2. r \in server' => Failed(failures', r)
        <3> SUFFICES ASSUME r \in server' PROVE Failed(failures', r)  OBVIOUS
        <3>1. <<r, "stop">> \in failures'  BY <1>1
        <3> QED  BY <3>1 DEF Failed
    <2>3. \A t \in Stops : stop'[t].step = "closing" /\ stop'[t].run \in server' => Failed(failures', stop'[t].run)
        <3> SUFFICES ASSUME NEW t \in Stops, stop'[t].step = "closing", stop'[t].run \in server'
                     PROVE  Failed(failures', stop'[t].run)
            OBVIOUS
        <3>1. CASE t = s  BY <1>3, <2>2, <3>1
        <3>2. CASE t # s  BY <1>1, <1>3, <3>2, <2>1 DEF ServersAreHeld, PlugTypeOK
        <3> QED  BY <3>1, <3>2
    <2>4. server' \subseteq server  BY <1>1
    <2> QED  BY <1>1, <2>1, <2>3, <2>4 DEF PlugTypeOK, ServersAreHeld
<1> QED  BY <1>1, <1>5, <1>6, <1>7, <1>8, <1>9

\* The node of a stop has closed: its server is stopped by then, or has failed.
LEMMA NodeClosedKeeps == \A s \in Stops : PInv /\ NodeClosed(s) => PInv'
<1> SUFFICES ASSUME NEW s \in Stops, PInv, NodeClosed(s) PROVE PInv'  OBVIOUS
<1> USE NoRunAssumption DEF PInv
<1>0. PICK r \in Runs : r = stop[s].run  BY DEF NodeClosed, StopsHaveRuns, Active
<1>1. /\ stop[s].step = "closing" /\ stop' = [stop EXCEPT ![s].step = "done"]
      /\ node' = node \ {r} /\ held' = held \ {r}
      /\ UNCHANGED <<kind, devMode, server, closing, closed, failures>>
    BY <1>0 DEF NodeClosed
<1>2. /\ stop[s].for = "activate" => run[r] = "undoing"
      /\ kind = "memory" /\ stop[s].for # "activate" => run[r] \in {"active", "stopped"}
      /\ run[r] \notin Early \cup {"unused"}
      /\ stop[s].for = "close" => closing # {}
    BY <1>0, <1>1 DEF StopsHaveRuns, Active, CloseAwaits
<1>3. /\ Active(s) /\ ~Active(s)'
      /\ \A t \in Stops : stop'[t].for = stop[t].for /\ stop'[t].run = stop[t].run
      /\ \A t \in Stops : t # s => stop'[t] = stop[t] /\ Active(t)' = Active(t)
      /\ stop' \in [Stops -> [run  : Runs \cup {NoRun},
                             step : {"none", "hook", "stopping", "closing", "done", "failed"},
                             for  : {"none", "activate", "call", "close"}]]
    BY <1>1 DEF PlugTypeOK, Active
<1>4. /\ \/ stop[s].for = "activate" /\ run' = [run EXCEPT ![r] = "failed"]
         \/ stop[s].for # "activate" /\ run' = [run EXCEPT ![r] = IF @ = "active" THEN "stopped" ELSE @]
      /\ \/ listed' = NoRun /\ Loses({listed} \ {r})
         \/ /\ listed' = listed /\ orphans' = orphans
            /\ stop[s].for = "activate" => kind = "memory"
            /\ stop[s].for # "activate" => kind = "file" /\ stop[s].for = "close"
    <2>1. CASE stop[s].for = "activate"  BY <1>0, <2>1 DEF NodeClosed, Drop, PlugTypeOK
    <2>2. CASE stop[s].for # "activate"  BY <2>2, <1>3, <1>0 DEF PlugTypeOK, StopsHaveRuns, NodeClosed
    <2> QED  BY <2>1, <2>2
<1>5. /\ run' \in [Runs -> RunStates]
      /\ \A q \in Runs : q # r => run'[q] = run[q]
      /\ run'[r] \notin Early \cup {"unused"}
      /\ run[r] # "publishing" => run'[r] # "publishing"
    BY <1>2, <1>4 DEF PlugTypeOK, RunStates, Early
<1>6. PlugTypeOK' /\ OneNode'  BY <1>1, <1>3, <1>4, <1>5 DEF PlugTypeOK, OneNode
<1>7. ListedRuns'
    <2> SUFFICES ASSUME listed' # NoRun PROVE ListedRuns'  BY DEF ListedRuns
    <2>1. /\ listed' = listed /\ listed \in Runs
          /\ stop[s].for = "activate" => kind = "memory"
          /\ stop[s].for # "activate" => kind = "file" /\ stop[s].for = "close"
        BY <1>4 DEF PlugTypeOK
    <2>2. CASE stop[s].for = "activate"  BY <1>1, <1>2, <1>4, <2>1, <2>2 DEF ListedRuns, PlugTypeOK
    <2>3. CASE stop[s].for # "activate"  BY <1>1, <1>2, <1>4, <2>1, <2>3 DEF ListedRuns, PlugTypeOK
    <2> QED  BY <2>2, <2>3
<1>8. \A q \in Runs : q # r /\ (listed = q \/ q \in orphans) => (listed' = q \/ q \in orphans')
    BY <1>4 DEF Loses
<1>9. NodesAreKnown'  BY <1>1, <1>5, <1>8 DEF PlugTypeOK, NodesAreKnown
<1>10. RunsAreKnown'  BY <1>2, <1>1, <1>5, <1>8 DEF RunsAreKnown, Early
<1>11. StopsHaveRuns'
    <2> SUFFICES ASSUME NEW t \in Stops, Active(t)'
                 PROVE  /\ stop'[t].run \in Runs /\ stop'[t].for # "none"
                        /\ run'[stop'[t].run] \notin Early \cup {"unused"}
                        /\ stop'[t].for = "activate" => run'[stop'[t].run] = "undoing"
                        /\ kind' = "memory" /\ stop'[t].for # "activate" => run'[stop'[t].run] \in {"active", "stopped"}
        BY DEF StopsHaveRuns
    <2>1. t # s /\ Active(t) /\ stop'[t] = stop[t]  BY <1>3
    <2>2. /\ stop[t].run \in Runs /\ stop[t].for # "none"
          /\ run[stop[t].run] \notin Early \cup {"unused"}
          /\ stop[t].for = "activate" => run[stop[t].run] = "undoing"
          /\ kind = "memory" /\ stop[t].for # "activate" => run[stop[t].run] \in {"active", "stopped"}
        BY <2>1 DEF StopsHaveRuns
    <2>3. CASE stop[t].run # r  BY <1>1, <1>5, <2>1, <2>2, <2>3
    <2>4. CASE stop[t].run = r
        <3>1. CASE stop[s].for = "activate"
            <4>1. stop[t].for # "activate"  BY <1>0, <1>3, <2>1, <2>4, <3>1 DEF UndoneOnce
            <4>2. kind # "memory"  BY <1>2, <2>2, <2>4, <3>1, <4>1
            <4> QED  BY <1>1, <1>5, <2>1, <2>2, <2>4, <4>1, <4>2
        <3>2. CASE stop[s].for # "activate"  BY <1>1, <1>4, <1>5, <2>1, <2>2, <2>4, <3>2 DEF PlugTypeOK
        <3> QED  BY <3>1, <3>2
    <2> QED  BY <2>3, <2>4
<1>12. UndoneOnce'  BY <1>3 DEF UndoneOnce
<1>13. CloseAwaits'  BY <1>1, <1>3 DEF CloseAwaits
<1>14. ServersAreHeld'  BY <1>0, <1>1, <1>5, <1>3 DEF ServersAreHeld, PlugTypeOK
<1> QED  BY <1>1, <1>6, <1>7, <1>9, <1>10, <1>11, <1>12, <1>13, <1>14

LEMMA PlugStepKeeps == PInv /\ [PlugNext]_plugvars => PInv'
<1> SUFFICES ASSUME PInv, [PlugNext]_plugvars PROVE PInv'  OBVIOUS
<1>1. CASE \E r \in Runs : Activate(r) \/ ActivateStored(r)  BY <1>1, BeginsKeeps
<1>2. CASE \E r \in Runs, ok \in BOOLEAN : Loaded(r, ok) \/ DevStarted(r, ok) \/ Joined(r, ok) \/ Published(r, ok)
    BY <1>2, LoadedKeeps, DevStartedKeeps, JoinedKeeps, PublishedKeeps
<1>3. CASE \E s \in Stops : Deactivate(s) \/ NodeClosed(s) \/ Close(s)
    BY <1>3, DeactivateKeeps, NodeClosedKeeps, CloseKeeps
<1>4. CASE \E s \in Stops, ok \in BOOLEAN : HookDone(s, ok) \/ DevStopped(s, ok)
    BY <1>4, HookDoneKeeps, DevStoppedKeeps
<1>5. CASE CloseDone  BY <1>5, CloseDoneKeeps
<1>6. CASE UNCHANGED plugvars
    BY <1>6 DEF plugvars, PInv, PlugTypeOK, OneNode, ListedRuns, NodesAreKnown, RunsAreKnown, StopsHaveRuns,
                UndoneOnce, CloseAwaits, ServersAreHeld, Active, Failed
<1> QED  BY <1>1, <1>2, <1>3, <1>4, <1>5, <1>6 DEF PlugNext

-------------------------------------------------------------------------------

\* Whatever a container has brought up it can still take down, in whatever
\* order activate, deactivate and close() overlap (plugin-runtime.ts,
\* file-container.ts, memory-container.ts), but for the ways named in the
\* property.
THEOREM PluginsAreKnown == PlugSpec => []NothingIsForgotten
    BY PInvInit, PlugStepKeeps, PInvImplies, PTL DEF PlugSpec

-----------------------------------------------------------------------------
(* The transport between the processes. *)

Packets == [channel : Pages, n : Nat]
Sender(e) == IF e = "main" THEN "page" ELSE "main"

\* How far an end has heard what was sent to it.
Reach(h) == IF h = <<>> THEN 0 ELSE h[1][2] + Len(h) - 1

\* Packet k of channel c is on the way w.
OnWay(w, c, k) == \E j \in DOMAIN w : w[j].channel = c /\ w[j].n = k

\* Packets of one channel keep their order on the way.
Sorted(w) == \A i, j \in DOMAIN w : i < j /\ w[i].channel = w[j].channel => w[i].n < w[j].n

InOrder(c, h) == \A i \in DOMAIN h : h[i] = <<c, h[1][2] + i - 1>>

(***************************************************************************)
(* The inductive invariant, part by part.                                  *)
(***************************************************************************)

\* One direction of a channel: of s packets sent, h is what was heard; those on
\* the way w are later ones, and after each come all that follow it.
Direction(c, w, s, h) ==
    /\ w \in Seq(Packets) /\ s \in Nat /\ h \in Seq(Pages \X Nat)
    /\ InOrder(c, h)
    /\ Reach(h) \in 0 .. s
    /\ \A i \in DOMAIN w :
          w[i].channel = c =>
              /\ w[i].n \in (Reach(h) + 1) .. s
              /\ \A k \in w[i].n .. s : OnWay(w, c, k)

\* Nothing of what is still to be heard has been lost.
AllOnWay(c, w, s, h) == \A k \in (Reach(h) + 1) .. s : OnWay(w, c, k)

(***************************************************************************)
(* The state.                                                              *)
(***************************************************************************)

IpcTypeOK ==
    /\ window \in {"open", "destroyed"} /\ acceptors \in BOOLEAN
    /\ page \in Pages /\ promise \in {"none", "pending", "given", "rejected"}
    /\ invoked \subseteq Pages /\ callback \subseteq Pages
    /\ mainLink \in [Pages -> {"none", "open", "closed"}]
    /\ pageLink \in {"none", "open", "closed"}
    /\ wire \in [ProcessEnds -> Seq(Packets)]
    /\ sent \in [Pages -> [ProcessEnds -> Nat]]
    /\ heard \in [Pages -> [ProcessEnds -> Seq(Pages \X Nat)]]

RouterKnows ==
    /\ listeners = {c \in Pages : mainLink[c] = "open"}
    /\ window = "destroyed" => listeners = {} /\ ~acceptors /\ pageLink = "none"

\* A page asks for its channel once, and each end opens its link once.
OneHandshake ==
    /\ \A c \in invoked : c <= page /\ mainLink[c] = "none"
    /\ \A c \in callback : c <= page /\ mainLink[c] # "none"
    /\ \A c \in Pages : c > page => mainLink[c] = "none"
    /\ window = "open" =>
          /\ page \in invoked \cup callback => promise = "pending"
          /\ promise = "none" => mainLink[page] = "none"
          /\ promise \in {"none", "pending"} => pageLink = "none"
    /\ pageLink # "none" => mainLink[page] # "none"

\* Nothing is sent before the main process has its link, nor heard before the page has its own.
SilentBefore ==
    /\ \A c \in Pages : mainLink[c] = "none" => sent[c]["page"] = 0 /\ sent[c]["main"] = 0
    /\ \A c \in Pages : c > page => heard[c]["page"] = <<>>
    /\ window = "open" /\ pageLink = "none" => heard[page]["page"] = <<>>

\* What both ends hear of every channel, and what is still to be heard.
WaysAt(ws, ss, hs, links, current, link) ==
    /\ \A e \in ProcessEnds : Sorted(ws[e])
    /\ \A c \in Pages, e \in ProcessEnds : Direction(c, ws[e], ss[c][Sender(e)], hs[c][e])
    /\ \A c \in Pages : links[c] # "closed" => AllOnWay(c, ws["main"], ss[c]["page"], hs[c]["main"])
    /\ \A c \in Pages : hs[c]["main"] # <<>> => hs[c]["main"][1][2] = 1
    /\ link = "open" /\ hs[current]["page"] # <<>> =>
          AllOnWay(current, ws["page"], ss[current]["main"], hs[current]["page"])

Ways == WaysAt(wire, sent, heard, mainLink, page, pageLink)

IpcInv == IpcTypeOK /\ RouterKnows /\ OneHandshake /\ SilentBefore /\ Ways

-------------------------------------------------------------------------------
(* One packet of a direction.                                              *)

LEMMA AppendFacts ==
    ASSUME NEW S, NEW s \in Seq(S), NEW x \in S
    PROVE  /\ Append(s, x) \in Seq(S)
           /\ DOMAIN s = 1 .. Len(s) /\ Len(s) \in Nat
           /\ DOMAIN Append(s, x) = 1 .. (Len(s) + 1)
           /\ \A i \in 1 .. Len(s) : Append(s, x)[i] = s[i]
           /\ Append(s, x)[Len(s) + 1] = x
           /\ Len(Append(s, x)) = Len(s) + 1
OBVIOUS

LEMMA TailFacts ==
    ASSUME NEW S, NEW s \in Seq(S), s # <<>>
    PROVE  /\ Head(s) = s[1] /\ s[1] \in S /\ 1 \in DOMAIN s
           /\ Tail(s) \in Seq(S)
           /\ DOMAIN s = 1 .. Len(s) /\ Len(s) \in Nat /\ Len(s) >= 1
           /\ \A i \in 1 .. Len(s) : s[i] \in S
           /\ DOMAIN Tail(s) = 1 .. (Len(s) - 1)
           /\ \A i \in 1 .. (Len(s) - 1) : Tail(s)[i] = s[i + 1]
OBVIOUS

\* The next packet of a channel is sent: nothing that was on the way is lost.
LEMMA SendingKeeps ==
    ASSUME NEW c \in Pages, NEW w, NEW s, NEW h,
           Direction(c, w, s, h), Sorted(w),
           NEW v, v = Append(w, [channel |-> c, n |-> s + 1])
    PROVE  /\ Direction(c, v, s + 1, h)
           /\ Sorted(v)
           /\ AllOnWay(c, w, s, h) => AllOnWay(c, v, s + 1, h)
<1> DEFINE m == [channel |-> c, n |-> s + 1]
<1>1. m \in Packets /\ m.channel = c /\ m.n = s + 1 /\ w \in Seq(Packets) /\ s \in Nat /\ Reach(h) \in 0 .. s
    BY DEF Direction, Packets
<1>2. /\ v \in Seq(Packets)
      /\ DOMAIN w = 1 .. Len(w) /\ Len(w) \in Nat
      /\ DOMAIN v = 1 .. (Len(w) + 1)
      /\ \A i \in 1 .. Len(w) : v[i] = w[i]
      /\ v[Len(w) + 1] = m
    BY <1>1, AppendFacts
<1> HIDE DEF m
<1>3. \A k : OnWay(w, c, k) => OnWay(v, c, k)  BY <1>2 DEF OnWay
<1>4. OnWay(v, c, s + 1)  BY <1>1, <1>2 DEF OnWay
<1>6. Direction(c, v, s + 1, h)
  <2>1. ASSUME NEW i \in DOMAIN v, v[i].channel = c
        PROVE  /\ v[i].n \in (Reach(h) + 1) .. (s + 1)
               /\ \A k \in v[i].n .. (s + 1) : OnWay(v, c, k)
    <3>1. CASE i \in DOMAIN w  BY <1>2, <2>1, <3>1, <1>1, <1>3, <1>4 DEF Direction
    <3>2. CASE i = Len(w) + 1  BY <1>1, <1>2, <1>4, <3>2
    <3> QED  BY <1>2, <3>1, <3>2
  <2> QED  BY <1>1, <1>2, <2>1 DEF Direction
<1>7. Sorted(v)
  <2> SUFFICES ASSUME NEW i \in DOMAIN v, NEW j \in DOMAIN v, i < j, v[i].channel = v[j].channel
               PROVE  v[i].n < v[j].n
    BY DEF Sorted
  <2>1. CASE j \in DOMAIN w  BY <1>2, <2>1 DEF Sorted
  <2>2. CASE j = Len(w) + 1  BY <1>1, <1>2, <2>2 DEF Direction
  <2> QED  BY <1>2, <2>1, <2>2
<1>8. AllOnWay(c, w, s, h) => AllOnWay(c, v, s + 1, h)  BY <1>1, <1>3, <1>4 DEF AllOnWay
<1> QED  BY <1>6, <1>7, <1>8

\* A packet of another channel is sent.
LEMMA OthersSend ==
    ASSUME NEW c \in Pages, NEW w, NEW s, NEW h,
           Direction(c, w, s, h),
           NEW m \in Packets, m.channel # c
    PROVE  /\ Direction(c, Append(w, m), s, h)
           /\ AllOnWay(c, w, s, h) => AllOnWay(c, Append(w, m), s, h)
<1> DEFINE v == Append(w, m)
<1>1. /\ w \in Seq(Packets) /\ v \in Seq(Packets)
      /\ DOMAIN w = 1 .. Len(w) /\ Len(w) \in Nat
      /\ DOMAIN v = 1 .. (Len(w) + 1)
      /\ \A i \in 1 .. Len(w) : v[i] = w[i]
      /\ v[Len(w) + 1] = m
    BY AppendFacts DEF Direction
<1> HIDE DEF v
<1>2. \A k : OnWay(w, c, k) => OnWay(v, c, k)  BY <1>1 DEF OnWay
<1>3. \A i \in DOMAIN v : v[i].channel = c => i \in DOMAIN w /\ v[i] = w[i]  BY <1>1
<1>4. Direction(c, v, s, h)  BY <1>1, <1>2, <1>3 DEF Direction
<1>5. AllOnWay(c, w, s, h) => AllOnWay(c, v, s, h)  BY <1>2 DEF AllOnWay
<1> QED  BY <1>4, <1>5 DEF v

\* The next packet arrives and is not heard.
LEMMA DroppingKeeps ==
    ASSUME NEW c \in Pages, NEW w, NEW s, NEW h,
           Direction(c, w, s, h), Sorted(w), w # <<>>
    PROVE  /\ Direction(c, Tail(w), s, h)
           /\ Sorted(Tail(w))
           /\ Head(w).channel # c /\ AllOnWay(c, w, s, h) => AllOnWay(c, Tail(w), s, h)
<1> DEFINE v == Tail(w)
<1>1. /\ w \in Seq(Packets) /\ v \in Seq(Packets) /\ Head(w) = w[1] /\ 1 \in DOMAIN w
      /\ DOMAIN w = 1 .. Len(w) /\ Len(w) \in Nat /\ Len(w) >= 1
      /\ \A i \in 1 .. Len(w) : w[i] \in Packets
      /\ DOMAIN v = 1 .. (Len(w) - 1)
      /\ \A i \in 1 .. (Len(w) - 1) : v[i] = w[i + 1]
    BY TailFacts DEF Direction
<1> HIDE DEF v
<1>2. \A i \in DOMAIN w : i = 1 \/ (i - 1 \in DOMAIN v /\ v[i - 1] = w[i])  BY <1>1
<1>3. \A k : OnWay(w, c, k) => OnWay(v, c, k) \/ (w[1].channel = c /\ w[1].n = k)  BY <1>2 DEF OnWay
<1>4. \A i \in DOMAIN v : i + 1 \in DOMAIN w /\ v[i] = w[i + 1] /\ 1 < i + 1 /\ 1 \in DOMAIN w  BY <1>1
<1>6. Direction(c, v, s, h)
  <2>1. ASSUME NEW i \in DOMAIN v, v[i].channel = c
        PROVE  /\ v[i].n \in (Reach(h) + 1) .. s
               /\ \A k \in v[i].n .. s : OnWay(v, c, k)
    <3>1. /\ w[i + 1].n \in (Reach(h) + 1) .. s
          /\ \A k \in w[i + 1].n .. s : OnWay(w, c, k)
      BY <1>4, <2>1 DEF Direction
    <3>2. w[1].channel = c => w[1].n < w[i + 1].n  BY <1>4, <2>1 DEF Sorted
    <3>3. w[1].n \in Nat /\ w[i + 1].n \in Nat  BY <1>1, <1>4 DEF Packets
    <3>4. \A k \in w[i + 1].n .. s : w[1].channel = c => w[1].n # k  BY <3>2, <3>3
    <3> QED  BY <1>3, <1>4, <3>1, <3>4
  <2> QED  BY <1>1, <2>1 DEF Direction
<1>7. Sorted(v)
  <2> SUFFICES ASSUME NEW i \in DOMAIN v, NEW j \in DOMAIN v, i < j, v[i].channel = v[j].channel
               PROVE  v[i].n < v[j].n
    BY DEF Sorted
  <2>1. i + 1 < j + 1  BY <1>1
  <2> QED  BY <1>4, <2>1 DEF Sorted
<1>8. w[1].channel # c /\ AllOnWay(c, w, s, h) => AllOnWay(c, v, s, h)  BY <1>3 DEF AllOnWay
<1> QED  BY <1>1, <1>6, <1>7, <1>8 DEF v

\* The next packet arrives and is heard: it is the one that follows what was
\* heard before, if nothing of that is lost.
\* What is so when a packet at the front of w has been heard.
HeardNext(c, w, s, h, g) ==
    /\ Direction(c, Tail(w), s, g)
    /\ AllOnWay(c, Tail(w), s, g)
    /\ g # <<>> /\ g[1][2] = IF h # <<>> THEN h[1][2] ELSE Head(w).n
    /\ h = <<>> /\ AllOnWay(c, w, s, h) => Head(w).n = 1

LEMMA HearingKeeps ==
    ASSUME NEW c \in Pages, NEW w, NEW s, NEW h,
           Direction(c, w, s, h), Sorted(w), w # <<>>, Head(w).channel = c,
           h = <<>> \/ AllOnWay(c, w, s, h),
           NEW g, g = Append(h, <<c, Head(w).n>>)
    PROVE  HeardNext(c, w, s, h, g)
<1> DEFINE v == Tail(w)
<1> DEFINE x == <<c, Head(w).n>>
<1>1. /\ w \in Seq(Packets) /\ v \in Seq(Packets) /\ Head(w) = w[1] /\ 1 \in DOMAIN w
      /\ DOMAIN w = 1 .. Len(w) /\ Len(w) \in Nat /\ Len(w) >= 1
      /\ \A i \in 1 .. Len(w) : w[i] \in Packets
      /\ DOMAIN v = 1 .. (Len(w) - 1)
      /\ \A i \in 1 .. (Len(w) - 1) : v[i] = w[i + 1]
    BY TailFacts DEF Direction
<1>2. w[1].n \in Nat /\ x \in Pages \X Nat /\ x[1] = c /\ x[2] = w[1].n  BY <1>1 DEF Packets
<1>3. /\ h \in Seq(Pages \X Nat) /\ g \in Seq(Pages \X Nat)
      /\ DOMAIN h = 1 .. Len(h) /\ Len(h) \in Nat
      /\ DOMAIN g = 1 .. (Len(h) + 1) /\ Len(g) = Len(h) + 1
      /\ \A i \in 1 .. Len(h) : g[i] = h[i]
      /\ g[Len(h) + 1] = x
    BY <1>2, AppendFacts DEF Direction
<1> HIDE DEF v, x
<1>4. g # <<>> /\ (h = <<>> <=> Len(h) = 0)  BY <1>3
<1>5. /\ w[1].channel = c
      /\ s \in Nat /\ Reach(h) \in 0 .. s /\ w[1].n \in (Reach(h) + 1) .. s
      /\ \A k \in w[1].n .. s : OnWay(w, c, k)
  BY <1>1 DEF Direction
<1>6. AllOnWay(c, w, s, h) => w[1].n = Reach(h) + 1
  <2> SUFFICES ASSUME AllOnWay(c, w, s, h) PROVE w[1].n <= Reach(h) + 1  BY <1>2, <1>5
  <2>1. PICK j \in DOMAIN w : w[j].channel = c /\ w[j].n = Reach(h) + 1  BY <1>5 DEF AllOnWay, OnWay
  <2>2. CASE j = 1  BY <1>5, <2>1, <2>2
  <2>3. CASE j # 1
    <3>1. 1 \in DOMAIN w /\ 1 < j  BY <1>1, <2>3
    <3> QED  BY <1>5, <2>1, <3>1, <1>2 DEF Sorted
  <2> QED  BY <2>2, <2>3
<1>7. /\ g[1][2] = IF h # <<>> THEN h[1][2] ELSE w[1].n
      /\ Reach(g) = w[1].n
      /\ InOrder(c, g)
  <2>1. CASE h = <<>>  BY <1>3, <1>4, <2>1, <1>2 DEF Reach, InOrder, x
  <2>2. CASE h # <<>>
    <3>1. Len(h) \in Nat \ {0} /\ 1 \in DOMAIN h /\ g[1] = h[1] /\ h[1] \in Pages \X Nat  BY <1>3, <1>4, <2>2
    <3>2. h[1][2] \in Nat  BY <3>1
    <3>3. Reach(h) = h[1][2] + Len(h) - 1 /\ w[1].n = Reach(h) + 1  BY <1>6, <2>2 DEF Reach
    <3>4. w[1].n = h[1][2] + Len(h)  BY <3>1, <3>2, <3>3
    <3>5. Reach(g) = w[1].n  BY <1>3, <1>4, <3>1, <3>2, <3>4 DEF Reach
    <3>6. InOrder(c, g)
      <4> SUFFICES ASSUME NEW i \in DOMAIN g PROVE g[i] = <<c, g[1][2] + i - 1>>  BY DEF InOrder
      <4>1. CASE i \in DOMAIN h  BY <1>3, <3>1, <4>1 DEF Direction, InOrder
      <4>2. CASE i = Len(h) + 1  BY <1>1, <1>3, <3>1, <3>2, <3>4, <4>2 DEF x
      <4> QED  BY <1>3, <4>1, <4>2
    <3> QED  BY <2>2, <3>1, <3>5, <3>6
  <2> QED  BY <2>1, <2>2
<1>8. \A i \in DOMAIN v : i + 1 \in DOMAIN w /\ v[i] = w[i + 1] /\ 1 < i + 1 /\ 1 \in DOMAIN w /\ v[i].n \in Nat
  <2> SUFFICES ASSUME NEW i \in DOMAIN v
               PROVE  i + 1 \in DOMAIN w /\ v[i] = w[i + 1] /\ 1 < i + 1 /\ 1 \in DOMAIN w /\ v[i].n \in Nat
    OBVIOUS
  <2>1. i + 1 \in 1 .. Len(w) /\ v[i] = w[i + 1] /\ 1 < i + 1  BY <1>1
  <2>2. w[i + 1].n \in Nat  BY <1>1, <2>1 DEF Packets
  <2> QED  BY <1>1, <2>1, <2>2
<1>9. \A i \in DOMAIN v : v[i].channel = c => v[i].n \in (w[1].n + 1) .. s /\ \A k \in v[i].n .. s : OnWay(v, c, k)
  <2>1. Direction(c, v, s, h)  BY DroppingKeeps DEF v
  <2> SUFFICES ASSUME NEW i \in DOMAIN v, v[i].channel = c
               PROVE  v[i].n \in (w[1].n + 1) .. s /\ \A k \in v[i].n .. s : OnWay(v, c, k)
    OBVIOUS
  <2>2. w[1].n < v[i].n  BY <1>5, <1>8 DEF Sorted
  <2>3. v[i].n \in (Reach(h) + 1) .. s /\ \A k \in v[i].n .. s : OnWay(v, c, k)  BY <2>1 DEF Direction
  <2> QED  BY <1>2, <1>5, <1>8, <2>2, <2>3
<1>10. Direction(c, v, s, g)
  <2>1. Reach(g) \in 0 .. s  BY <1>2, <1>5, <1>7
  <2> QED  BY <1>1, <1>3, <1>5, <1>7, <1>9, <2>1 DEF Direction
<1>11. AllOnWay(c, v, s, g)
  <2> SUFFICES ASSUME NEW k \in (w[1].n + 1) .. s PROVE OnWay(v, c, k)  BY <1>7 DEF AllOnWay
  <2>1. PICK j \in DOMAIN w : w[j].channel = c /\ w[j].n = k  BY <1>2, <1>5 DEF OnWay
  <2>2. j # 1  BY <1>2, <2>1
  <2>3. j - 1 \in 1 .. (Len(w) - 1) /\ (j - 1) + 1 = j  BY <1>1, <2>2
  <2>4. j - 1 \in DOMAIN v /\ v[j - 1] = w[j]  BY <1>1, <2>3
  <2> QED  BY <2>1, <2>4 DEF OnWay
<1>12. h = <<>> /\ AllOnWay(c, w, s, h) => w[1].n = 1  BY <1>6 DEF Reach
<1> QED  BY <1>1, <1>4, <1>7, <1>10, <1>11, <1>12 DEF v, HeardNext

-------------------------------------------------------------------------------
(* The steps.                                                              *)

\* The state after a step, by its variables.
LEMMA WaysAfter == Ways' <=> WaysAt(wire', sent', heard', mainLink', page', pageLink')
BY DEF Ways, WaysAt, Direction, Sorted, InOrder, Reach, AllOnWay, OnWay, Sender

LEMMA IpcInvImplies == IpcInv => PagesHearTheirOwn
BY DEF IpcInv, RouterKnows, Ways, WaysAt, Direction, InOrder, PagesHearTheirOwn, ProcessEnds

LEMMA IpcInvInit == IpcInit => IpcInv
<1> SUFFICES ASSUME IpcInit PROVE IpcInv  OBVIOUS
<1> USE DEF IpcInit, WindowCreated, FreshPage
<1>1. 1 \in Pages  BY PagesAssumption DEF Pages
<1>2. IpcTypeOK
  <2>1. <<>> \in Seq(Packets) /\ <<>> \in Seq(Pages \X Nat)  OBVIOUS
  <2>2. wire \in [ProcessEnds -> Seq(Packets)]  BY <2>1
  <2>3. [e \in ProcessEnds |-> 0] \in [ProcessEnds -> Nat]  OBVIOUS
  <2>4. [e \in ProcessEnds |-> <<>>] \in [ProcessEnds -> Seq(Pages \X Nat)]  BY <2>1
  <2>5. sent \in [Pages -> [ProcessEnds -> Nat]] /\ heard \in [Pages -> [ProcessEnds -> Seq(Pages \X Nat)]]
    BY <2>3, <2>4
  <2> QED  BY <1>1, <2>2, <2>5 DEF IpcTypeOK
<1>3. RouterKnows /\ OneHandshake /\ SilentBefore
    BY <1>1 DEF RouterKnows, OneHandshake, SilentBefore, Pages, ProcessEnds
<1>4. Ways
  <2>1. \A c \in Pages, e \in ProcessEnds : sent[c][Sender(e)] = 0 /\ heard[c][e] = <<>> /\ wire[e] = <<>>
    BY DEF ProcessEnds, Sender
  <2>2. \A c \in Pages : Direction(c, <<>>, 0, <<>>) /\ AllOnWay(c, <<>>, 0, <<>>) /\ Sorted(<<>>)
    BY DEF Direction, AllOnWay, Sorted, InOrder, Reach
  <2>3. "main" \in ProcessEnds /\ "page" \in ProcessEnds  BY DEF ProcessEnds
  <2> QED  BY <1>1, <2>1, <2>2, <2>3 DEF Ways, WaysAt, Sender
<1> QED  BY <1>2, <1>3, <1>4 DEF IpcInv

\* A step that touches no packet: the main process's links only move from none
\* to open to closed, and the page's link opens before anything is heard.
LEMMA WaysStay ==
    ASSUME IpcInv, UNCHANGED <<wire, sent, heard>>, page' \in Pages,
           \A c \in Pages : mainLink[c] = "closed" => mainLink'[c] = "closed",
           pageLink' = "open" => page' = page /\ (pageLink = "open" \/ heard[page]["page"] = <<>>)
    PROVE  Ways'
BY WaysAfter DEF IpcInv, Ways, WaysAt

LEMMA AcceptKeeps == IpcInv /\ Accept => IpcInv'
<1> SUFFICES ASSUME IpcInv, Accept PROVE IpcInv'  OBVIOUS
<1>1. Ways'  BY WaysStay DEF Accept, IpcInv, IpcTypeOK
<1> QED  BY <1>1 DEF IpcInv, IpcTypeOK, RouterKnows, OneHandshake, SilentBefore, Accept, RegisterAcceptor

LEMMA HandshakeKeeps == ASSUME IpcInv, NEW c \in Pages, Handshake(c) PROVE IpcInv'
<1> USE DEF Handshake, OpenLink, RegisterListener
<1>1. mainLink[c] = "none" /\ mainLink \in [Pages -> {"none", "open", "closed"}] /\ c <= page
    BY DEF IpcInv, OneHandshake, IpcTypeOK
<1>2. mainLink' = mainLink \/ mainLink' = [mainLink EXCEPT ![c] = "open"]  OBVIOUS
<1>3. Ways'  BY <1>1, <1>2, WaysStay DEF IpcInv, IpcTypeOK
<1>4. IpcTypeOK'  BY <1>1 DEF IpcInv, IpcTypeOK
<1>5. RouterKnows'  BY <1>1 DEF IpcInv, RouterKnows
<1>6. OneHandshake'
  <2>1. CASE acceptors
    <3>1. /\ mainLink'[c] = "open" /\ \A d \in Pages : d # c => mainLink'[d] = mainLink[d]
          /\ invoked' = invoked \ {c} /\ callback' = callback \cup {c}
          /\ UNCHANGED <<window, page, promise, pageLink>>
      BY <1>1, <2>1
    <3>2. page \in Pages /\ invoked \subseteq Pages /\ callback \subseteq Pages /\ c \in invoked
      BY DEF IpcInv, IpcTypeOK
    <3>3. ~(c > page)  BY <1>1, <3>2 DEF Pages
    <3>4. window = "open" /\ promise = "none" => c # page  BY <3>2 DEF IpcInv, OneHandshake
    <3> QED  BY <1>1, <3>1, <3>2, <3>3, <3>4 DEF IpcInv, OneHandshake
  <2>2. CASE ~acceptors  BY <2>2 DEF IpcInv, OneHandshake
  <2> QED  BY <2>1, <2>2
<1>7. SilentBefore'  BY <1>1, <1>2 DEF IpcInv, SilentBefore, IpcTypeOK
<1> QED  BY <1>3, <1>4, <1>5, <1>6, <1>7 DEF IpcInv

LEMMA AnswerKeeps == ASSUME IpcInv, NEW c \in Pages, NEW ok \in BOOLEAN, Answer(c, ok) PROVE IpcInv'
<1> USE DEF Answer, CloseLink, RemoveListener, OpenPageLink
<1>1. mainLink[c] # "none" /\ mainLink \in [Pages -> {"none", "open", "closed"}] /\ c <= page
    BY DEF IpcInv, OneHandshake, IpcTypeOK
<1>2. mainLink' = mainLink \/ mainLink' = [mainLink EXCEPT ![c] = "closed"]  OBVIOUS
<1>3. pageLink' = pageLink \/ (pageLink' = "open" /\ c = page /\ window = "open")  OBVIOUS
<1>4. pageLink' # pageLink => pageLink = "none" /\ promise = "pending" /\ heard[page]["page"] = <<>>
    BY <1>3 DEF IpcInv, OneHandshake, SilentBefore
<1>5. Ways'  BY <1>1, <1>2, <1>3, <1>4, WaysStay DEF IpcInv, IpcTypeOK
<1>6. IpcTypeOK'  BY <1>1 DEF IpcInv, IpcTypeOK
<1>7. RouterKnows'  BY <1>1 DEF IpcInv, RouterKnows
<1>8. OneHandshake'  BY <1>1, <1>4 DEF IpcInv, OneHandshake, IpcTypeOK, Pages
<1>9. SilentBefore'  BY <1>1, <1>2, <1>3 DEF IpcInv, SilentBefore, IpcTypeOK
<1> QED  BY <1>5, <1>6, <1>7, <1>8, <1>9 DEF IpcInv

LEMMA CloseMainKeeps == ASSUME IpcInv, NEW c \in Pages, CloseMain(c) PROVE IpcInv'
<1> USE DEF CloseMain, CloseLink, RemoveListener
<1>1. mainLink \in [Pages -> {"none", "open", "closed"}] /\ mainLink' = [mainLink EXCEPT ![c] = "closed"]
    BY DEF IpcInv, IpcTypeOK
<1>2. Ways'  BY <1>1, WaysStay DEF IpcInv, IpcTypeOK
<1>3. IpcTypeOK' /\ RouterKnows' /\ SilentBefore'  BY <1>1 DEF IpcInv, IpcTypeOK, RouterKnows, SilentBefore
<1>4. OneHandshake'  BY <1>1 DEF IpcInv, OneHandshake, IpcTypeOK, Pages
<1> QED  BY <1>2, <1>3, <1>4 DEF IpcInv

LEMMA ClosePageKeeps == IpcInv /\ ClosePage => IpcInv'
<1> SUFFICES ASSUME IpcInv, ClosePage PROVE IpcInv'  OBVIOUS
<1>1. Ways'  BY WaysStay DEF ClosePage, IpcInv, IpcTypeOK
<1> QED  BY <1>1 DEF IpcInv, IpcTypeOK, RouterKnows, OneHandshake, SilentBefore, ClosePage

LEMMA OpenTransportKeeps == IpcInv /\ OpenTransport => IpcInv'
<1> SUFFICES ASSUME IpcInv, OpenTransport PROVE IpcInv'  OBVIOUS
<1>1. Ways'  BY WaysStay DEF OpenTransport, IpcInv, IpcTypeOK
<1>2. page <= page  BY DEF IpcInv, IpcTypeOK, Pages
<1> QED  BY <1>1, <1>2 DEF IpcInv, IpcTypeOK, RouterKnows, OneHandshake, SilentBefore, OpenTransport

LEMMA ReloadKeeps == IpcInv /\ Reload => IpcInv'
<1> SUFFICES ASSUME IpcInv, Reload PROVE IpcInv'  OBVIOUS
<1>1. page \in Pages /\ page' = page + 1 /\ page' \in Pages /\ page' > page
    BY PagesAssumption DEF Reload, IpcInv, IpcTypeOK, Pages
<1>2. Ways'  BY <1>1, WaysStay DEF Reload
<1>3. \A c \in Pages : /\ c <= page => c <= page' /\ c # page'
                       /\ c > page' => c > page
    BY <1>1 DEF Pages
<1>4. mainLink[page'] = "none" /\ heard[page']["page"] = <<>> /\ page' \notin invoked \cup callback
    BY <1>1, <1>3 DEF IpcInv, OneHandshake, SilentBefore, IpcTypeOK
<1>5. IpcTypeOK' /\ RouterKnows'  BY <1>1 DEF IpcInv, IpcTypeOK, RouterKnows, Reload
<1>6. OneHandshake'  BY <1>1, <1>3, <1>4 DEF IpcInv, IpcTypeOK, OneHandshake, Reload
<1>7. SilentBefore'  BY <1>1, <1>3, <1>4 DEF IpcInv, IpcTypeOK, SilentBefore, Reload
<1> QED  BY <1>2, <1>5, <1>6, <1>7 DEF IpcInv

LEMMA DestroyKeeps == IpcInv /\ Destroy => IpcInv'
<1> SUFFICES ASSUME IpcInv, Destroy PROVE IpcInv'  OBVIOUS
<1>1. /\ mainLink' \in [Pages -> {"none", "closed"}]
      /\ \A c \in Pages : /\ mainLink'[c] = "none" <=> mainLink[c] = "none"
                          /\ mainLink[c] = "closed" => mainLink'[c] = "closed"
    BY DEF Destroy, IpcInv, IpcTypeOK
<1>2. /\ wire' \in [ProcessEnds -> Seq(Packets)] /\ wire'["main"] = wire["main"] /\ wire'["page"] = <<>>
    BY DEF Destroy, IpcInv, IpcTypeOK, ProcessEnds
<1>3. IpcTypeOK'  BY <1>1, <1>2 DEF IpcInv, IpcTypeOK, Destroy
<1>4. RouterKnows' /\ OneHandshake' /\ SilentBefore'
    BY <1>1 DEF IpcInv, RouterKnows, OneHandshake, SilentBefore, IpcTypeOK, Destroy
<1>5. WaysAt(wire', sent', heard', mainLink', page', pageLink')
  <2>1. Sorted(<<>>)  BY DEF Sorted
  <2>2. \A c \in Pages : \A s, h : Direction(c, wire["page"], s, h) => Direction(c, <<>>, s, h)
    BY DEF Direction
  <2> QED  BY <1>1, <1>2, <2>1, <2>2 DEF IpcInv, Ways, WaysAt, Destroy, ProcessEnds, Sender
<1> QED  BY <1>3, <1>4, <1>5, WaysAfter DEF IpcInv


\* The packets of one direction change, and of one channel what was sent or heard.
LEMMA WaysChange ==
    ASSUME IpcInv, NEW to \in ProcessEnds, UNCHANGED <<mainLink, page, pageLink>>,
           \A e \in ProcessEnds : e # to => wire'[e] = wire[e],
           Sorted(wire'[to]),
           \A c \in Pages, e \in ProcessEnds :
              e # to => sent'[c][Sender(e)] = sent[c][Sender(e)] /\ heard'[c][e] = heard[c][e],
           \A c \in Pages : Direction(c, wire'[to], sent'[c][Sender(to)], heard'[c][to]),
           to = "main" =>
              \A c \in Pages :
                 /\ mainLink[c] # "closed" => AllOnWay(c, wire'["main"], sent'[c]["page"], heard'[c]["main"])
                 /\ heard'[c]["main"] # <<>> => heard'[c]["main"][1][2] = 1,
           to = "page" /\ pageLink = "open" /\ heard'[page]["page"] # <<>> =>
              AllOnWay(page, wire'["page"], sent'[page]["main"], heard'[page]["page"])
    PROVE  Ways'
<1>1. page \in Pages  BY DEF IpcInv, IpcTypeOK
<1>2. \A e \in ProcessEnds : Sorted(wire'[e])  BY DEF IpcInv, Ways, WaysAt
<1>3. \A c \in Pages, e \in ProcessEnds : Direction(c, wire'[e], sent'[c][Sender(e)], heard'[c][e])
  <2> SUFFICES ASSUME NEW c \in Pages, NEW e \in ProcessEnds
               PROVE  Direction(c, wire'[e], sent'[c][Sender(e)], heard'[c][e])
    OBVIOUS
  <2>1. CASE e = to  BY <2>1
  <2>2. CASE e # to  BY <2>2 DEF IpcInv, Ways, WaysAt
  <2> QED  BY <2>1, <2>2
<1>4. CASE to = "main"
  <2>1. \A c \in Pages : sent'[c]["main"] = sent[c]["main"] /\ heard'[c]["page"] = heard[c]["page"]
    BY <1>4 DEF ProcessEnds, Sender
  <2>2. wire'["page"] = wire["page"]  BY <1>4 DEF ProcessEnds
  <2> QED  BY <1>1, <1>2, <1>3, <1>4, <2>1, <2>2, WaysAfter DEF IpcInv, Ways, WaysAt
<1>5. CASE to = "page"
  <2>1. \A c \in Pages : sent'[c]["page"] = sent[c]["page"] /\ heard'[c]["main"] = heard[c]["main"]
    BY <1>5 DEF ProcessEnds, Sender
  <2>2. wire'["main"] = wire["main"]  BY <1>5 DEF ProcessEnds
  <2> QED  BY <1>1, <1>2, <1>3, <1>5, <2>1, <2>2, WaysAfter DEF IpcInv, Ways, WaysAt
<1> QED  BY <1>4, <1>5 DEF ProcessEnds

LEMMA SendPacketKeeps ==
    ASSUME IpcInv, NEW c \in Pages, NEW e \in ProcessEnds, SendPacket(c, e) PROVE IpcInv'
<1> DEFINE to == IF e = "main" THEN "page" ELSE "main"
<1> DEFINE m == [channel |-> c, n |-> sent[c][e] + 1]
<1>1. /\ to \in ProcessEnds /\ Sender(to) = e
      /\ \A d \in ProcessEnds : d # to => Sender(d) # e /\ Sender(d) \in ProcessEnds
    BY DEF ProcessEnds, Sender
<1>2. m \in Packets /\ m.channel = c  BY DEF IpcInv, IpcTypeOK, Packets
<1>3. /\ wire' \in [ProcessEnds -> Seq(Packets)]
      /\ wire'[to] = Append(wire[to], m)
      /\ \A d \in ProcessEnds : d # to => wire'[d] = wire[d]
  <2>1. wire \in [ProcessEnds -> Seq(Packets)] /\ Append(wire[to], m) \in Seq(Packets)
    BY <1>1, <1>2 DEF IpcInv, IpcTypeOK
  <2>2. wire' = [wire EXCEPT ![to] = Append(wire[to], m)]  BY DEF SendPacket, SendMessage
  <2> HIDE DEF m, to
  <2> QED  BY <1>1, <2>1, <2>2
<1>4. /\ sent' \in [Pages -> [ProcessEnds -> Nat]]
      /\ sent'[c][e] = sent[c][e] + 1
      /\ \A d \in Pages, f \in ProcessEnds : d # c \/ f # e => sent'[d][f] = sent[d][f]
    BY DEF IpcInv, IpcTypeOK, SendPacket
<1>5. /\ UNCHANGED <<window, acceptors, page, promise, invoked, mainLink, listeners, callback, pageLink, heard>>
      /\ mainLink[c] # "none"
    BY DEF SendPacket, IpcInv, OneHandshake
<1> HIDE DEF m, to
<1>6. IpcTypeOK' /\ RouterKnows' /\ OneHandshake'
    BY <1>3, <1>4, <1>5 DEF IpcInv, IpcTypeOK, RouterKnows, OneHandshake
<1>7. SilentBefore'  BY <1>4, <1>5 DEF IpcInv, SilentBefore, ProcessEnds
<1>8. /\ Direction(c, wire'[to], sent'[c][e], heard[c][to])
      /\ Sorted(wire'[to])
      /\ AllOnWay(c, wire[to], sent[c][e], heard[c][to]) => AllOnWay(c, wire'[to], sent'[c][e], heard[c][to])
  <2>1. Direction(c, wire[to], sent[c][e], heard[c][to]) /\ Sorted(wire[to])  BY <1>1 DEF IpcInv, Ways, WaysAt
  <2>2. wire'[to] = Append(wire[to], [channel |-> c, n |-> sent[c][e] + 1])  BY <1>3 DEF m
  <2>3. /\ Direction(c, wire'[to], sent[c][e] + 1, heard[c][to])
        /\ Sorted(wire'[to])
        /\ AllOnWay(c, wire[to], sent[c][e], heard[c][to]) => AllOnWay(c, wire'[to], sent[c][e] + 1, heard[c][to])
    BY <2>1, <2>2, SendingKeeps
  <2> QED  BY <1>4, <2>3
<1>9. ASSUME NEW d \in Pages, d # c
      PROVE  /\ Direction(d, wire'[to], sent'[d][e], heard[d][to])
             /\ AllOnWay(d, wire[to], sent[d][e], heard[d][to]) => AllOnWay(d, wire'[to], sent'[d][e], heard[d][to])
  <2>1. Direction(d, wire[to], sent[d][e], heard[d][to])  BY <1>1 DEF IpcInv, Ways, WaysAt
  <2> QED  BY <1>2, <1>3, <1>4, <1>9, <2>1, OthersSend
<1>10. \A d \in Pages :
          /\ Direction(d, wire'[to], sent'[d][e], heard[d][to])
          /\ AllOnWay(d, wire[to], sent[d][e], heard[d][to]) => AllOnWay(d, wire'[to], sent'[d][e], heard[d][to])
    BY <1>8, <1>9
<1>11. Ways'
  <2>1. \A d \in Pages, f \in ProcessEnds :
           f # to => sent'[d][Sender(f)] = sent[d][Sender(f)] /\ heard'[d][f] = heard[d][f]
    BY <1>1, <1>4, <1>5
  <2>2. \A d \in Pages : Direction(d, wire'[to], sent'[d][Sender(to)], heard'[d][to])  BY <1>1, <1>5, <1>10
  <2>3. to = "main" =>
           \A d \in Pages :
              /\ mainLink[d] # "closed" => AllOnWay(d, wire'["main"], sent'[d]["page"], heard'[d]["main"])
              /\ heard'[d]["main"] # <<>> => heard'[d]["main"][1][2] = 1
    BY <1>1, <1>5, <1>10 DEF IpcInv, Ways, WaysAt, Sender
  <2>4. page \in Pages  BY DEF IpcInv, IpcTypeOK
  <2>5. to = "page" /\ pageLink = "open" /\ heard'[page]["page"] # <<>> =>
           AllOnWay(page, wire'["page"], sent'[page]["main"], heard'[page]["page"])
    BY <1>1, <1>5, <1>10, <2>4 DEF IpcInv, Ways, WaysAt, Sender
  <2> QED  BY <1>1, <1>3, <1>5, <1>8, <2>1, <2>2, <2>3, <2>5, WaysChange
<1> QED  BY <1>6, <1>7, <1>11 DEF IpcInv

\* The packet that comes next.
LEMMA NextPacket ==
    ASSUME IpcInv, NEW e \in ProcessEnds, wire[e] # <<>>
    PROVE  /\ wire[e] \in Seq(Packets) /\ Tail(wire[e]) \in Seq(Packets)
           /\ Head(wire[e]) \in Packets
           /\ Head(wire[e]).channel \in Pages /\ Head(wire[e]).n \in Nat
<1>1. wire[e] \in Seq(Packets)  BY DEF IpcInv, IpcTypeOK
<1>2. Head(wire[e]) \in Packets /\ Tail(wire[e]) \in Seq(Packets)  BY <1>1, TailFacts
<1> QED  BY <1>1, <1>2 DEF Packets

\* A packet that nobody takes: its channel is one that the end does not listen to any more, or not yet.
LEMMA UnheardKeeps ==
    ASSUME IpcInv, NEW e \in ProcessEnds, wire[e] # <<>>, wire' = [wire EXCEPT ![e] = Tail(@)],
           UNCHANGED <<window, acceptors, page, promise, invoked, mainLink, listeners, callback, pageLink, sent, heard>>,
           IF e = "page" THEN ~PageTakes(Head(wire[e])) ELSE ~MainTakes(Head(wire[e]))
    PROVE  IpcInv'
<1> DEFINE m == Head(wire[e])
<1>1. wire[e] \in Seq(Packets) /\ m \in Packets /\ m.channel \in Pages /\ Tail(wire[e]) \in Seq(Packets)
    BY NextPacket
<1>2. /\ wire' \in [ProcessEnds -> Seq(Packets)]
      /\ wire'[e] = Tail(wire[e])
      /\ \A d \in ProcessEnds : d # e => wire'[d] = wire[d]
    BY <1>1 DEF IpcInv, IpcTypeOK
<1>3. IpcTypeOK' /\ RouterKnows' /\ OneHandshake' /\ SilentBefore'
    BY <1>2 DEF IpcInv, IpcTypeOK, RouterKnows, OneHandshake, SilentBefore
<1>4. Sender(e) \in ProcessEnds  BY DEF Sender, ProcessEnds
<1>5. \A c \in Pages :
         /\ Direction(c, wire'[e], sent[c][Sender(e)], heard[c][e])
         /\ m.channel # c /\ AllOnWay(c, wire[e], sent[c][Sender(e)], heard[c][e])
               => AllOnWay(c, wire'[e], sent[c][Sender(e)], heard[c][e])
    BY <1>2, DroppingKeeps DEF IpcInv, Ways, WaysAt
<1>6. Sorted(wire'[e])  BY <1>2, DroppingKeeps DEF IpcInv, IpcTypeOK, Ways, WaysAt
<1>7. e = "main" => mainLink[m.channel] = "closed"
  <2> SUFFICES ASSUME e = "main" PROVE mainLink[m.channel] # "open" /\ mainLink[m.channel] # "none"
    BY <1>1 DEF IpcInv, IpcTypeOK
  <2>1. mainLink[m.channel] # "open"  BY <1>1 DEF MainTakes, IpcInv, RouterKnows
  <2>2. m.n \in 1 .. sent[m.channel]["page"]
    <3>1. Direction(m.channel, wire[e], sent[m.channel]["page"], heard[m.channel][e])
      BY <1>1 DEF IpcInv, Ways, WaysAt, Sender
    <3>2. m = wire[e][1] /\ 1 \in DOMAIN wire[e]  BY <1>1, TailFacts
    <3>3. /\ m.n \in (Reach(heard[m.channel][e]) + 1) .. sent[m.channel]["page"]
          /\ Reach(heard[m.channel][e]) \in 0 .. sent[m.channel]["page"]
          /\ sent[m.channel]["page"] \in Nat
      BY <3>1, <3>2 DEF Direction
    <3> HIDE DEF m
    <3> QED  BY <3>3
  <2>3. sent[m.channel]["page"] # 0  BY <2>2
  <2> QED  BY <1>1, <2>1, <2>3 DEF IpcInv, SilentBefore
<1>8. e = "page" => pageLink # "open" \/ m.channel # page  BY DEF PageTakes
<1> HIDE DEF m
<1>9. Ways'
  <2>1. page \in Pages  BY DEF IpcInv, IpcTypeOK
  <2>2. e = "main" =>
           \A c \in Pages :
              /\ mainLink[c] # "closed" => AllOnWay(c, wire'["main"], sent'[c]["page"], heard'[c]["main"])
              /\ heard'[c]["main"] # <<>> => heard'[c]["main"][1][2] = 1
    BY <1>5, <1>7 DEF IpcInv, Ways, WaysAt, Sender
  <2>3. e = "page" /\ pageLink = "open" /\ heard'[page]["page"] # <<>> =>
           AllOnWay(page, wire'["page"], sent'[page]["main"], heard'[page]["page"])
    BY <1>5, <1>8, <2>1 DEF IpcInv, Ways, WaysAt, Sender
  <2>4. \A c \in Pages : Direction(c, wire'[e], sent'[c][Sender(e)], heard'[c][e])  BY <1>5
  <2> QED  BY <1>2, <1>6, <2>2, <2>3, <2>4, WaysChange
<1> QED  BY <1>3, <1>9 DEF IpcInv

\* A packet that is heard.
LEMMA HeardKeeps ==
    ASSUME IpcInv, NEW e \in ProcessEnds, wire[e] # <<>>, wire' = [wire EXCEPT ![e] = Tail(@)],
           UNCHANGED <<window, acceptors, page, promise, invoked, mainLink, listeners, callback, pageLink, sent>>,
           NEW c \in Pages, c = Head(wire[e]).channel, Hear(c, e, Head(wire[e])),
           IF e = "page" THEN c = page /\ pageLink = "open" ELSE mainLink[c] = "open"
    PROVE  IpcInv'
<1> DEFINE m == Head(wire[e])
<1> DEFINE h == heard[c][e]
<1> DEFINE s == sent[c][Sender(e)]
<1>1. wire[e] \in Seq(Packets) /\ m \in Packets /\ m.n \in Nat /\ Tail(wire[e]) \in Seq(Packets)
    BY NextPacket
<1>2. /\ wire' \in [ProcessEnds -> Seq(Packets)]
      /\ wire'[e] = Tail(wire[e])
      /\ \A d \in ProcessEnds : d # e => wire'[d] = wire[d]
    BY <1>1 DEF IpcInv, IpcTypeOK
<1>3. /\ heard' \in [Pages -> [ProcessEnds -> Seq(Pages \X Nat)]]
      /\ heard'[c][e] = Append(h, <<c, m.n>>)
      /\ \A d \in Pages, f \in ProcessEnds : d # c \/ f # e => heard'[d][f] = heard[d][f]
  <2>1. h \in Seq(Pages \X Nat) /\ <<c, m.n>> \in Pages \X Nat  BY <1>1 DEF IpcInv, IpcTypeOK
  <2>2. Append(h, <<c, m.n>>) \in Seq(Pages \X Nat)  BY <2>1, AppendFacts
  <2>3. heard' = [heard EXCEPT ![c][e] = Append(h, <<c, m.n>>)]  BY DEF Hear
  <2>4. heard \in [Pages -> [ProcessEnds -> Seq(Pages \X Nat)]]  BY DEF IpcInv, IpcTypeOK
  <2> HIDE DEF h, m
  <2> QED  BY <2>2, <2>3, <2>4
<1>4. IpcTypeOK' /\ RouterKnows' /\ OneHandshake'
    BY <1>2, <1>3 DEF IpcInv, IpcTypeOK, RouterKnows, OneHandshake
<1>5. SilentBefore'
  <2>1. page \in Pages /\ (e = "page" => c = page /\ pageLink = "open") /\ ~(page > page)
    BY DEF IpcInv, IpcTypeOK, Pages
  <2> QED  BY <1>3, <2>1 DEF IpcInv, SilentBefore, ProcessEnds
<1>6. Direction(c, wire[e], s, h) /\ Sorted(wire[e])  BY DEF IpcInv, Ways, WaysAt
<1>7. /\ e = "main" => AllOnWay(c, wire[e], s, h)
      /\ e = "page" => h = <<>> \/ AllOnWay(c, wire[e], s, h)
    BY DEF IpcInv, Ways, WaysAt, Sender
<1>8. h = <<>> \/ AllOnWay(c, wire[e], s, h)  BY <1>7 DEF ProcessEnds
<1>9. m.channel = c  OBVIOUS
<1> HIDE DEF m, h, s
<1>10. /\ Direction(c, wire'[e], s, heard'[c][e])
       /\ AllOnWay(c, wire'[e], s, heard'[c][e])
       /\ heard'[c][e] # <<>> /\ heard'[c][e][1][2] = IF h # <<>> THEN h[1][2] ELSE m.n
       /\ h = <<>> /\ AllOnWay(c, wire[e], s, h) => m.n = 1
  <2>1. heard'[c][e] = Append(h, <<c, Head(wire[e]).n>>) /\ Head(wire[e]).channel = c  BY <1>3, <1>9 DEF m
  <2> DEFINE g == heard'[c][e]
  <2>2. g = Append(h, <<c, Head(wire[e]).n>>)  BY <2>1
  <2> HIDE DEF g
  <2>3. HeardNext(c, wire[e], s, h, g)  BY <1>6, <1>8, <2>1, <2>2, HearingKeeps
  <2> QED  BY <1>2, <2>3 DEF m, g, HeardNext
<1>11. ASSUME NEW d \in Pages, d # c
       PROVE  /\ Direction(d, wire'[e], sent[d][Sender(e)], heard'[d][e])
              /\ AllOnWay(d, wire[e], sent[d][Sender(e)], heard[d][e])
                    => AllOnWay(d, wire'[e], sent[d][Sender(e)], heard'[d][e])
  <2>1. Direction(d, wire[e], sent[d][Sender(e)], heard[d][e])  BY DEF IpcInv, Ways, WaysAt
  <2> QED  BY <1>2, <1>3, <1>6, <1>9, <1>11, <2>1, DroppingKeeps DEF m
<1>12. Sorted(wire'[e])  BY <1>2, <1>6, DroppingKeeps
<1>13. Ways'
  <2>1. \A d \in Pages : Direction(d, wire'[e], sent'[d][Sender(e)], heard'[d][e])  BY <1>10, <1>11 DEF s
  <2>2. \A d \in Pages, f \in ProcessEnds :
           f # e => sent'[d][Sender(f)] = sent[d][Sender(f)] /\ heard'[d][f] = heard[d][f]
    BY <1>3
  <2>3. ASSUME e = "main", NEW d \in Pages
        PROVE  /\ mainLink[d] # "closed" => AllOnWay(d, wire'["main"], sent'[d]["page"], heard'[d]["main"])
               /\ heard'[d]["main"] # <<>> => heard'[d]["main"][1][2] = 1
    <3>1. CASE d = c  BY <1>7, <1>10, <2>3, <3>1 DEF s, h, IpcInv, Ways, WaysAt, Sender
    <3>2. CASE d # c  BY <1>3, <1>11, <2>3, <3>2 DEF IpcInv, Ways, WaysAt, Sender
    <3> QED  BY <3>1, <3>2
  <2>4. e = "page" /\ pageLink = "open" /\ heard'[page]["page"] # <<>> =>
           AllOnWay(page, wire'["page"], sent'[page]["main"], heard'[page]["page"])
    BY <1>10 DEF s, Sender
  <2> QED  BY <1>2, <1>12, <2>1, <2>2, <2>3, <2>4, WaysChange
<1> QED  BY <1>4, <1>5, <1>13 DEF IpcInv

LEMMA ArriveKeeps == ASSUME IpcInv, NEW e \in ProcessEnds, Arrive(e) PROVE IpcInv'
<1> DEFINE m == Head(wire[e])
<1>1. wire[e] \in Seq(Packets) /\ wire[e] # <<>> /\ m \in Packets /\ m.channel \in Pages
    BY NextPacket DEF Arrive
<1>2. CASE e = "page" /\ PageTakes(m)  BY <1>2, <1>1, HeardKeeps DEF Arrive, PageTakes
<1>3. CASE e = "main" /\ MainTakes(m)  BY <1>3, <1>1, HeardKeeps DEF Arrive, MainTakes, IpcInv, RouterKnows
<1>4. CASE ~(e = "page" /\ PageTakes(m)) /\ ~(e = "main" /\ MainTakes(m))
  BY <1>4, <1>1, UnheardKeeps DEF Arrive, ProcessEnds
<1> QED  BY <1>2, <1>3, <1>4

-------------------------------------------------------------------------------

\* Whatever pages are loaded, links closed and packets lost between them, an end
\* hears what the other end of its channel sent, in order and without gaps, and
\* the router listens to the open links of the main process alone (ElepIpc).
THEOREM ChannelsAreKept == IpcSpec => []PagesHearTheirOwn
<1>1. IpcInit => IpcInv  BY IpcInvInit
<1>2. IpcInv /\ [IpcNext]_ipcvars => IpcInv'
  <2> SUFFICES ASSUME IpcInv, [IpcNext]_ipcvars PROVE IpcInv'  OBVIOUS
  <2>1. CASE UNCHANGED ipcvars
    <3>1. Ways'  BY <2>1, WaysAfter DEF ipcvars, IpcInv, Ways
    <3> QED  BY <2>1, <3>1 DEF ipcvars, IpcInv, IpcTypeOK, RouterKnows, OneHandshake, SilentBefore
  <2>2. CASE Accept  BY <2>2, AcceptKeeps
  <2>3. CASE ClosePage  BY <2>3, ClosePageKeeps
  <2>4. CASE OpenTransport  BY <2>4, OpenTransportKeeps
  <2>5. CASE Reload  BY <2>5, ReloadKeeps
  <2>6. CASE Destroy  BY <2>6, DestroyKeeps
  <2>7. ASSUME NEW c \in Pages, Handshake(c) \/ CloseMain(c) \/ \E ok \in BOOLEAN : Answer(c, ok)
        PROVE  IpcInv'
    BY <2>7, HandshakeKeeps, CloseMainKeeps, AnswerKeeps
  <2>8. ASSUME NEW c \in Pages, NEW e \in ProcessEnds, SendPacket(c, e) PROVE IpcInv'
    BY <2>8, SendPacketKeeps
  <2>9. ASSUME NEW e \in ProcessEnds, Arrive(e) PROVE IpcInv'  BY <2>9, ArriveKeeps
  <2> QED  BY <2>1, <2>2, <2>3, <2>4, <2>5, <2>6, <2>7, <2>8, <2>9 DEF IpcNext
<1> QED  BY <1>1, <1>2, IpcInvImplies, PTL DEF IpcSpec


-----------------------------------------------------------------------------
(* A node, from its first feature to its last.                             *)

Roles == {"server", "client", "stack"}
AdapterAt(r) == IF r = "client" THEN 8 ELSE 9
Size(r) == Len(Features(r))
FeatureNames ==
    {"error", "pin", "tunnel", "stream", "serialization", "protocol", "calls", "executor", "adapter", "lifecycle"}

\* What the features up to the n-th have registered.
RegisteredBy(n) ==
    (IF n >= 1 THEN {"error", "illegal type error"} ELSE {})
        \cup (IF n >= 2 THEN {"pin"} ELSE {})
        \cup (IF n >= 3 THEN {"transport"} ELSE {})
        \cup (IF n >= 4 THEN {"stream"} ELSE {})

(***************************************************************************)
(* The inductive invariant, part by part.                                  *)
(***************************************************************************)

RunTypeOK ==
    /\ role \in Roles
    /\ position \in 0 .. Size(role)
    /\ status \in {"building", "built", "handed", "failed", "closing", "closed"}
    /\ control \in {"no", "asked", "yes"}
    /\ transport \in {"open", "closed"}

\* A node that is in use has all of its features, and only then are they taken
\* away, from the last one on.
FeaturesInOrder ==
    /\ status \notin {"building", "failed"} => position = Size(role)
    /\ control = "asked" => position + 1 = AdapterAt(role)
    /\ control = "yes" <=> position >= AdapterAt(role)

TakenOff ==
    /\ taken \in Seq(FeatureNames) /\ Len(taken) <= Size(role)
    /\ \A i \in 1 .. Len(taken) : taken[i] = Features(role)[Size(role) - i + 1]
    /\ Len(taken) > 0 => status \in {"closing", "closed"}
    /\ status = "closing" => Len(taken) < Size(role)
    /\ status = "closed" => Len(taken) = Size(role)

\* All handlers are there before the serializer is made.
Handlers ==
    /\ handlers = RegisteredBy(position)
    /\ byName = IF position >= 5 THEN handlers ELSE {}

\* Nobody but those who listen is told, and all of them if the transport
\* closes while they are there.
Told ==
    /\ told \subseteq OnClose(role)
    /\ status \in {"building", "built"} /\ transport = "closed" => late
    /\ status \in {"handed", "closing", "closed"} /\ transport = "closed" /\ ~late => told = OnClose(role)
    /\ Len(taken) > Size(role) - AdapterAt(role) => transport = "closed"

Deaf == deaf \subseteq IF role = "client" THEN {"ask", "tell"} ELSE {}

RunInv == RunTypeOK /\ FeaturesInOrder /\ TakenOff /\ Handlers /\ Told /\ Deaf

-----------------------------------------------------------------------------

LEMMA RegistersNothing ==
  ASSUME NEW f, f \notin {"error", "pin", "tunnel", "stream"}
  PROVE  Registers(f) = {}
BY DEF Registers

LEMMA RegistersSome ==
  /\ Registers("error") = {"error", "illegal type error"}
  /\ Registers("pin") = {"pin"}
  /\ Registers("tunnel") = {"transport"}
  /\ Registers("stream") = {"stream"}
BY DEF Registers

\* The features of a node, in order.
LEMMA FeaturesOf ==
  ASSUME NEW r \in Roles
  PROVE  /\ Size(r) \in Nat /\ Size(r) >= 9 /\ AdapterAt(r) \in {8, 9} /\ AdapterAt(r) <= Size(r)
         /\ Features(r)[1] = "error" /\ Features(r)[2] = "pin" /\ Features(r)[3] = "tunnel"
         /\ Features(r)[4] = "stream" /\ Features(r)[5] = "serialization"
         /\ Features(r)[6] = "protocol" /\ Features(r)[7] = "calls"
         /\ r # "client" => Features(r)[8] = "executor"
         /\ r # "stack" => Features(r)[Size(r)] = "lifecycle"
         /\ r = "stack" => Size(r) = AdapterAt(r)
         /\ \A i \in 1 .. Size(r) : Features(r)[i] \in FeatureNames
         /\ \A i \in 1 .. Size(r) : Features(r)[i] = "protocol" <=> i = 6
         /\ \A i \in 1 .. Size(r) : Features(r)[i] = "adapter" <=> i = AdapterAt(r)
         /\ \A i \in 1 .. Size(r) : Features(r)[i] = "serialization" <=> i = 5
         /\ \A i \in 1 .. Size(r) : i >= 5 => Registers(Features(r)[i]) = {}
<1>1. CASE r = "server"
  <2>1. Features(r) = ServerFeatures  BY <1>1 DEF Features
  <2>2. Size(r) = 10 /\ AdapterAt(r) = 9  BY <1>1, <2>1 DEF ServerFeatures, Size, AdapterAt
  <2>3. /\ Features(r)[1] = "error" /\ Features(r)[2] = "pin" /\ Features(r)[3] = "tunnel" /\ Features(r)[4] = "stream" /\ Features(r)[5] = "serialization"
        /\ Features(r)[6] = "protocol" /\ Features(r)[7] = "calls" /\ Features(r)[8] = "executor" /\ Features(r)[9] = "adapter" /\ Features(r)[10] = "lifecycle"
    BY <2>1 DEF ServerFeatures
  <2>4. \A i \in 1 .. Size(r) : Features(r)[i] = "adapter" <=> i = AdapterAt(r)  BY <2>2, <2>3
  <2>7. \A i \in 1 .. Size(r) : Features(r)[i] = "protocol" <=> i = 6  BY <2>2, <2>3
  <2>8. \A i \in 1 .. Size(r) : Features(r)[i] \in FeatureNames
    <3> TAKE i \in 1 .. Size(r)
    <3>1. i \in 1 .. 10  BY <2>2
    <3> QED  BY <2>2, <2>3, <3>1 DEF FeatureNames
  <2>5. \A i \in 1 .. Size(r) : Features(r)[i] = "serialization" <=> i = 5  BY <2>2, <2>3
  <2>6. \A i \in 1 .. Size(r) : i >= 5 => Registers(Features(r)[i]) = {}  BY <2>2, <2>3, RegistersNothing
  <2> QED  BY <1>1, <2>2, <2>3, <2>4, <2>5, <2>6, <2>7, <2>8
<1>2. CASE r = "client"
  <2>1. Features(r) = ClientFeatures  BY <1>2 DEF Features
  <2>2. Size(r) = 9 /\ AdapterAt(r) = 8  BY <1>2, <2>1 DEF ClientFeatures, Size, AdapterAt
  <2>3. /\ Features(r)[1] = "error" /\ Features(r)[2] = "pin" /\ Features(r)[3] = "tunnel" /\ Features(r)[4] = "stream" /\ Features(r)[5] = "serialization"
        /\ Features(r)[6] = "protocol" /\ Features(r)[7] = "calls" /\ Features(r)[8] = "adapter" /\ Features(r)[9] = "lifecycle"
    BY <2>1 DEF ClientFeatures
  <2>4. \A i \in 1 .. Size(r) : Features(r)[i] = "adapter" <=> i = AdapterAt(r)  BY <2>2, <2>3
  <2>7. \A i \in 1 .. Size(r) : Features(r)[i] = "protocol" <=> i = 6  BY <2>2, <2>3
  <2>8. \A i \in 1 .. Size(r) : Features(r)[i] \in FeatureNames
    <3> TAKE i \in 1 .. Size(r)
    <3>1. i \in 1 .. 10  BY <2>2
    <3> QED  BY <2>2, <2>3, <3>1 DEF FeatureNames
  <2>5. \A i \in 1 .. Size(r) : Features(r)[i] = "serialization" <=> i = 5  BY <2>2, <2>3
  <2>6. \A i \in 1 .. Size(r) : i >= 5 => Registers(Features(r)[i]) = {}  BY <2>2, <2>3, RegistersNothing
  <2> QED  BY <1>2, <2>2, <2>3, <2>4, <2>5, <2>6, <2>7, <2>8
<1>3. CASE r = "stack"
  <2>1. Features(r) = StackFeatures  BY <1>3 DEF Features
  <2>2. Size(r) = 9 /\ AdapterAt(r) = 9  BY <1>3, <2>1 DEF StackFeatures, Size, AdapterAt
  <2>3. /\ Features(r)[1] = "error" /\ Features(r)[2] = "pin" /\ Features(r)[3] = "tunnel" /\ Features(r)[4] = "stream" /\ Features(r)[5] = "serialization"
        /\ Features(r)[6] = "protocol" /\ Features(r)[7] = "calls" /\ Features(r)[8] = "executor" /\ Features(r)[9] = "adapter"
    BY <2>1 DEF StackFeatures
  <2>4. \A i \in 1 .. Size(r) : Features(r)[i] = "adapter" <=> i = AdapterAt(r)  BY <2>2, <2>3
  <2>7. \A i \in 1 .. Size(r) : Features(r)[i] = "protocol" <=> i = 6  BY <2>2, <2>3
  <2>8. \A i \in 1 .. Size(r) : Features(r)[i] \in FeatureNames
    <3> TAKE i \in 1 .. Size(r)
    <3>1. i \in 1 .. 10  BY <2>2
    <3> QED  BY <2>2, <2>3, <3>1 DEF FeatureNames
  <2>5. \A i \in 1 .. Size(r) : Features(r)[i] = "serialization" <=> i = 5  BY <2>2, <2>3
  <2>6. \A i \in 1 .. Size(r) : i >= 5 => Registers(Features(r)[i]) = {}  BY <2>2, <2>3, RegistersNothing
  <2> QED  BY <1>3, <2>2, <2>3, <2>4, <2>5, <2>6, <2>7, <2>8
<1> QED  BY <1>1, <1>2, <1>3 DEF Roles

\* After the stream feature, nothing more is registered.
LEMMA RegisteredAll ==
  ASSUME NEW n \in Nat, n >= 4
  PROVE  RegisteredBy(n + 1) = RegisteredBy(n)
<1>1. n + 1 >= 1 /\ n + 1 >= 2 /\ n + 1 >= 3 /\ n + 1 >= 4 /\ n >= 1 /\ n >= 2 /\ n >= 3  OBVIOUS
<1> QED  BY <1>1 DEF RegisteredBy

\* When n features have been initialized and the next one is, what it registers
\* is what is new.
LEMMA RegisteredNext ==
  ASSUME NEW r \in Roles, NEW n \in 0 .. Size(r) - 1
  PROVE  RegisteredBy(n + 1) = RegisteredBy(n) \cup Registers(Features(r)[n + 1])
<1>f. n \in Nat /\ n + 1 \in 1 .. Size(r)  BY FeaturesOf
<1>1. CASE n = 0
  <2>1. Features(r)[n + 1] = "error"  BY <1>1, FeaturesOf
  <2>2. RegisteredBy(n + 1) = RegisteredBy(n) \cup {"error", "illegal type error"}  BY <1>1 DEF RegisteredBy
  <2> QED  BY <2>1, <2>2, RegistersSome
<1>2. CASE n = 1
  <2>1. Features(r)[n + 1] = "pin"  BY <1>2, FeaturesOf
  <2>2. RegisteredBy(n + 1) = RegisteredBy(n) \cup {"pin"}  BY <1>2 DEF RegisteredBy
  <2> QED  BY <2>1, <2>2, RegistersSome
<1>3. CASE n = 2
  <2>1. Features(r)[n + 1] = "tunnel"  BY <1>3, FeaturesOf
  <2>2. RegisteredBy(n + 1) = RegisteredBy(n) \cup {"transport"}  BY <1>3 DEF RegisteredBy
  <2> QED  BY <2>1, <2>2, RegistersSome
<1>4. CASE n = 3
  <2>1. Features(r)[n + 1] = "stream"  BY <1>4, FeaturesOf
  <2>2. RegisteredBy(n + 1) = RegisteredBy(n) \cup {"stream"}  BY <1>4 DEF RegisteredBy
  <2> QED  BY <2>1, <2>2, RegistersSome
<1>5. CASE n >= 4
  <2>1. Registers(Features(r)[n + 1]) = {}  BY <1>5, <1>f, FeaturesOf
  <2>2. RegisteredBy(n + 1) = RegisteredBy(n)  BY <1>5, <1>f, RegisteredAll
  <2> QED  BY <2>1, <2>2
<1> QED  BY <1>f, <1>1, <1>2, <1>3, <1>4, <1>5

\* While the adapter emits, everyone who listens to the end is ready.
LEMMA AllAreTold ==
  ASSUME RunInv, status \in {"handed", "closing", "closed"}, control = "yes", transport = "open"
  PROVE  Emitted = OnClose(role)
BY FeaturesOf DEF RunInv, RunTypeOK, FeaturesInOrder, OnClose, Ready, Roles, Emitted

LEMMA InvIsWhole == RunInv => NodeIsWhole
<1> SUFFICES ASSUME RunInv PROVE NodeIsWhole  OBVIOUS
<1>1. role \in Roles /\ (role # "client" => deaf = {}) /\ deaf \subseteq {"ask", "tell"}
  BY DEF RunInv, RunTypeOK, Deaf
<1>2. status \in {"built", "handed"} => byName = handlers
  BY <1>1, FeaturesOf DEF RunInv, FeaturesInOrder, Handlers
<1>3. transport = "closed" /\ status = "handed" /\ ~late => told = OnClose(role)  BY DEF RunInv, Told
<1>4. status = "closed" /\ ~late => told = OnClose(role)
  BY <1>1, FeaturesOf DEF RunInv, FeaturesInOrder, TakenOff, Told
<1> QED  BY <1>1, <1>2, <1>3, <1>4 DEF NodeIsWhole

LEMMA RunInitOK == RunInit => RunInv
<1> SUFFICES ASSUME RunInit PROVE RunInv  OBVIOUS
<1>1. role \in Roles /\ position = 0 /\ taken = <<>> /\ Len(taken) = 0  BY DEF RunInit, Roles
<1>f. Size(role) \in Nat /\ Size(role) >= 9 /\ AdapterAt(role) \in {8, 9} /\ AdapterAt(role) <= Size(role)
  BY <1>1, FeaturesOf
<1> USE <1>1, <1>f DEF RunInit
<1>2. RunTypeOK  BY DEF RunTypeOK
<1>3. FeaturesInOrder /\ TakenOff  BY DEF FeaturesInOrder, TakenOff
<1>4. Handlers  BY DEF Handlers, RegisteredBy
<1>5. Told /\ Deaf  BY DEF Told, Deaf
<1> QED  BY <1>2, <1>3, <1>4, <1>5 DEF RunInv

LEMMA RunStep == RunInv /\ [RunNext]_runvars => RunInv'
<1> SUFFICES ASSUME RunInv, [RunNext]_runvars PROVE RunInv'  OBVIOUS
<1>r. role \in Roles  BY DEF RunInv, RunTypeOK
<1>f. /\ Size(role) \in Nat /\ Size(role) >= 9 /\ AdapterAt(role) \in {8, 9} /\ AdapterAt(role) <= Size(role)
      /\ \A i \in 1 .. Size(role) : Features(role)[i] = "adapter" <=> i = AdapterAt(role)
      /\ \A i \in 1 .. Size(role) : Features(role)[i] = "serialization" <=> i = 5
  BY <1>r, FeaturesOf
<1>t. Len(taken) \in Nat /\ taken \in Seq(FeatureNames)  BY DEF RunInv, TakenOff
<1>c. /\ role' = role /\ Size(role)' = Size(role) /\ AdapterAt(role)' = AdapterAt(role)
      /\ OnClose(role)' = OnClose(role) /\ Features(role)' = Features(role)
  <2>1. role' = role
    BY DEF RunNext, InitFeature, AskControl, InitAdapter, BuildFails, Built, Handed, Message, TransportCloses,
           CloseNode, CloseFeature, runvars
  <2> QED  BY <2>1 DEF Size, AdapterAt, OnClose, Features
<1>1. CASE InitFeature
  <2> USE <1>1 DEF InitFeature, Building, Feature
  <2>1. position \in 0 .. Size(role) - 1 /\ position' = position + 1 /\ position + 1 # AdapterAt(role)
    BY <1>f DEF RunInv, RunTypeOK, Size
  <2>2. RunTypeOK'  BY <1>c, <2>1, <1>f DEF RunInv, RunTypeOK
  <2>3. FeaturesInOrder' /\ TakenOff'  BY <1>c, <2>1, <1>f, <1>t DEF RunInv, FeaturesInOrder, TakenOff, Size
  <2>4. Handlers'
    <3>1. handlers' = RegisteredBy(position + 1)
      BY <1>r, <2>1, RegisteredNext DEF RunInv, Handlers, RegisterHandlers
    <3>2. byName' = IF position + 1 >= 5 THEN handlers' ELSE {}
      <4>1. CASE position + 1 = 5
        BY <2>1, <1>f, <4>1, RegisteredAll, <3>1 DEF NewSerializer, RunInv, Handlers
      <4>2. CASE position + 1 < 5  BY <2>1, <1>f, <4>2 DEF RunInv, Handlers
      <4>3. CASE position >= 5
        <5>1. byName' = byName  BY <2>1, <1>f, <4>3
        <5>2. RegisteredBy(position + 1) = RegisteredBy(position)  BY <4>3, <2>1, <1>f, RegisteredAll
        <5> QED  BY <4>3, <2>1, <5>1, <5>2, <3>1 DEF RunInv, Handlers
      <4> QED  BY <2>1, <4>1, <4>2, <4>3
    <3> QED  BY <3>1, <3>2, <2>1 DEF Handlers
  <2>5. Told' /\ Deaf'  BY <1>c, <1>f, <1>t DEF RunInv, Told, Deaf
  <2> QED  BY <2>2, <2>3, <2>4, <2>5 DEF RunInv
<1>2. CASE AskControl
  <2> USE <1>2 DEF AskControl, Building
  <2>1. RunTypeOK'  BY <1>c DEF RunInv, RunTypeOK
  <2>4. position + 1 = AdapterAt(role)  BY <1>f DEF RunInv, RunTypeOK, Feature, Size
  <2>2. FeaturesInOrder' /\ TakenOff'  BY <1>c, <1>f, <1>t, <2>4 DEF RunInv, FeaturesInOrder, TakenOff
  <2>3. Handlers' /\ Told' /\ Deaf'  BY <1>c, <1>f, <1>t DEF RunInv, FeaturesInOrder, Handlers, Told, Deaf
  <2> QED  BY <2>1, <2>2, <2>3 DEF RunInv
<1>3. CASE InitAdapter
  <2> USE <1>3 DEF InitAdapter, Building
  <2>1. position \in 0 .. Size(role) - 1 /\ position' = position + 1 /\ position + 1 = AdapterAt(role)
    BY <1>f DEF RunInv, RunTypeOK, FeaturesInOrder, Size
  <2>2. RunTypeOK'  BY <1>c, <2>1, <1>f DEF RunInv, RunTypeOK
  <2>3. FeaturesInOrder' /\ TakenOff'  BY <1>c, <2>1, <1>f, <1>t DEF RunInv, FeaturesInOrder, Size, TakenOff
  <2>4. Handlers'
    <3>1. RegisteredBy(position + 1) = RegisteredBy(position)
      <4>1. position \in Nat /\ position >= 4  BY <2>1, <1>f
      <4> QED  BY <4>1, RegisteredAll
    <3> QED  BY <2>1, <1>f, <3>1 DEF RunInv, Handlers
  <2>5. Told' /\ Deaf'  BY <1>c, <1>f, <1>t DEF RunInv, FeaturesInOrder, Told, Deaf
  <2> QED  BY <2>2, <2>3, <2>4, <2>5 DEF RunInv
<1>4. CASE BuildFails
  <2> USE <1>4 DEF BuildFails
  <2>1. RunTypeOK'  BY <1>c DEF RunInv, RunTypeOK
  <2>2. FeaturesInOrder' /\ TakenOff'  BY <1>c, <1>f, <1>t DEF RunInv, FeaturesInOrder, TakenOff
  <2>3. Handlers' /\ Told' /\ Deaf'  BY <1>c, <1>f, <1>t DEF RunInv, FeaturesInOrder, Handlers, Told, Deaf
  <2> QED  BY <2>1, <2>2, <2>3 DEF RunInv
<1>5. CASE Built
  <2> USE <1>5 DEF Built
  <2>1. RunTypeOK'  BY <1>c DEF RunInv, RunTypeOK
  <2>2. FeaturesInOrder' /\ TakenOff'  BY <1>c, <1>f, <1>t DEF RunInv, FeaturesInOrder, TakenOff, Size
  <2>3. Handlers' /\ Told' /\ Deaf'  BY <1>c, <1>f, <1>t DEF RunInv, FeaturesInOrder, Handlers, Told, Deaf
  <2> QED  BY <2>1, <2>2, <2>3 DEF RunInv
<1>6. CASE Handed
  <2> USE <1>6 DEF Handed
  <2>1. RunTypeOK'  BY <1>c DEF RunInv, RunTypeOK
  <2>2. FeaturesInOrder' /\ TakenOff'  BY <1>c, <1>f, <1>t DEF RunInv, FeaturesInOrder, TakenOff
  <2>3. Handlers' /\ Told' /\ Deaf'  BY <1>c, <1>f, <1>t DEF RunInv, FeaturesInOrder, Handlers, Told, Deaf
  <2> QED  BY <2>1, <2>2, <2>3 DEF RunInv
<1>7. ASSUME NEW k \in Kinds, Message(k) PROVE RunInv'
  <2> USE <1>7 DEF Message
  <2>1. RunTypeOK'  BY <1>c DEF RunInv, RunTypeOK
  <2>2. FeaturesInOrder' /\ TakenOff' /\ Handlers' /\ Told'
    BY <1>c, <1>f, <1>t DEF RunInv, FeaturesInOrder, TakenOff, Handlers, Told
  <2>3. position \in Nat /\ position >= 8 /\ position >= AdapterAt(role) /\ position <= Size(role)
    BY <1>f DEF RunInv, RunTypeOK, FeaturesInOrder
  <2>4. Len(taken) <= Size(role) - AdapterAt(role)
    <3> SUFFICES ASSUME Len(taken) > Size(role) - AdapterAt(role) PROVE FALSE  BY <1>f, <1>t
    <3> QED  BY <1>f, <1>t DEF RunInv, Told
  <2>5. ~Contains(taken, "protocol")
    <3> SUFFICES ASSUME NEW i \in 1 .. Len(taken), taken[i] = "protocol" PROVE FALSE  BY DEF Contains
    <3>1. Size(role) - i + 1 \in 1 .. Size(role) /\ Size(role) - i + 1 >= AdapterAt(role) + 1
      BY <1>f, <1>t, <2>4
    <3>2. Features(role)[Size(role) - i + 1] = "protocol"  BY DEF RunInv, TakenOff
    <3>3. /\ \A m \in 1 .. Size(role) : Features(role)[m] = "protocol" <=> m = 6
          /\ AdapterAt(role) \in {8, 9} /\ Size(role) \in Nat
      BY <1>r, FeaturesOf
    <3> QED  BY <3>1, <3>2, <3>3
  <2>6. ProtocolListens  BY <1>r, <2>3, <2>5, FeaturesOf DEF ProtocolListens, Ready
  <2>7. Ready(Listener(k)) \/ (role = "client" /\ k \in {"ask", "tell"})
    BY <2>3, <1>r, FeaturesOf DEF Ready, Listener, Kinds
  <2>8. Deaf'  BY <1>c, <2>6, <2>7 DEF RunInv, Deaf
  <2> QED  BY <2>1, <2>2, <2>8 DEF RunInv
<1>8. CASE TransportCloses
  <2> USE <1>8 DEF TransportCloses
  <2>1. RunTypeOK'  BY <1>c DEF RunInv, RunTypeOK
  <2>2. FeaturesInOrder' /\ TakenOff' /\ Handlers' /\ Deaf'
    BY <1>c, <1>f, <1>t DEF RunInv, FeaturesInOrder, TakenOff, Handlers, Deaf
  <2>3. Emitted \subseteq OnClose(role)  BY DEF Emitted
  <2>4. status \in {"handed", "closing", "closed"} => Emitted = OnClose(role)
    BY <1>f, AllAreTold DEF RunInv, FeaturesInOrder
  <2>5. Told'  BY <1>c, <2>3, <2>4 DEF RunInv, Told
  <2> QED  BY <2>1, <2>2, <2>5 DEF RunInv
<1>9. CASE CloseNode
  <2> USE <1>9 DEF CloseNode
  <2>1. RunTypeOK'  BY <1>c DEF RunInv, RunTypeOK
  <2>2. FeaturesInOrder' /\ TakenOff'  BY <1>c, <1>f, <1>t DEF RunInv, FeaturesInOrder, TakenOff
  <2>3. Handlers' /\ Told' /\ Deaf'  BY <1>c, <1>f, <1>t DEF RunInv, FeaturesInOrder, Handlers, Told, Deaf
  <2> QED  BY <2>1, <2>2, <2>3 DEF RunInv
<1>10. CASE CloseFeature
  <2> USE <1>10 DEF CloseFeature
  <2> DEFINE n == Len(taken)
             f == NextToClose
  <2>1. /\ status = "closing" /\ position = Size(role) /\ n < Size(role) /\ n \in Nat
        /\ control = "yes"
    BY <1>f, <1>t DEF RunInv, FeaturesInOrder, TakenOff
  <2>2. taken' = Append(taken, f) /\ f = Features(role)[Size(role) - n] /\ f \in FeatureNames
    BY <1>r, <1>f, <2>1, FeaturesOf DEF NextToClose, Size
  <2>3. status' \in {"closing", "closed"} /\ (status' = "closed" <=> n + 1 = Size(role))  BY <2>1 DEF Size
  <2>4. (f = "adapter") <=> Size(role) - n = AdapterAt(role)  BY <1>f, <2>1, <2>2
  <2>5. f = "adapter" => CloseAdapter  OBVIOUS
  <2>6. f # "adapter" => CloseOther(f)  OBVIOUS
  <2>u. UNCHANGED <<position, control, late, handlers, byName, deaf>>  OBVIOUS
  <2> HIDE DEF f, CloseFeature
  <2>7. Len(taken') = n + 1 /\ taken' \in Seq(FeatureNames)  BY <1>t, <2>2
  <2>8. \A i \in 1 .. n + 1 : taken'[i] = Features(role)[Size(role) - i + 1]
    <3> TAKE i \in 1 .. n + 1
    <3>1. CASE i = n + 1  BY <1>f, <1>t, <2>1, <2>2, <3>1
    <3>2. CASE i # n + 1  BY <1>f, <1>t, <2>1, <2>2, <3>2 DEF RunInv, TakenOff
    <3> QED  BY <3>1, <3>2
  <2>9. TakenOff'  BY <1>c, <1>f, <2>1, <2>3, <2>7, <2>8 DEF TakenOff
  <2>10. FeaturesInOrder' /\ Handlers' /\ Deaf'
    BY <1>c, <2>1, <2>3, <2>u DEF RunInv, FeaturesInOrder, Handlers, Deaf
  <2>11. RunTypeOK'  BY <1>c, <2>3, <2>5, <2>6, <2>u DEF RunInv, RunTypeOK, CloseAdapter, CloseOther
  <2>12. Emitted \subseteq OnClose(role) /\ (transport = "open" => Emitted = OnClose(role))
    BY <2>1, AllAreTold DEF Emitted
  <2>13. ASSUME f = "adapter" PROVE Told'
    <3>1. told' = told \cup Emitted /\ transport' = "closed"  BY <2>5, <2>13 DEF CloseAdapter
    <3>2. transport \in {"open", "closed"} /\ told \subseteq OnClose(role)
          /\ (transport = "closed" /\ ~late => told = OnClose(role))
      BY <2>1 DEF RunInv, RunTypeOK, Told
    <3> QED  BY <1>c, <2>3, <2>12, <2>u, <3>1, <3>2 DEF Told
  <2>14. ASSUME f # "adapter" PROVE Told'
    <3>1. told' = told \cup ({f} \cap OnClose(role)) /\ transport' = transport  BY <2>6, <2>14 DEF CloseOther
    <3>2. n + 1 > Size(role) - AdapterAt(role) => n > Size(role) - AdapterAt(role)  BY <1>f, <2>1, <2>4, <2>14
    <3> QED  BY <1>c, <2>1, <2>3, <2>7, <2>u, <3>1, <3>2 DEF RunInv, Told
  <2> QED  BY <2>9, <2>10, <2>11, <2>13, <2>14 DEF RunInv
<1>11. CASE UNCHANGED runvars
  <2> USE <1>11 DEF runvars
  <2>1. RunTypeOK'  BY <1>c DEF RunInv, RunTypeOK
  <2>2. FeaturesInOrder' /\ TakenOff'  BY <1>c, <1>f, <1>t DEF RunInv, FeaturesInOrder, TakenOff
  <2>3. Handlers' /\ Told' /\ Deaf'  BY <1>c, <1>f, <1>t DEF RunInv, FeaturesInOrder, Handlers, Told, Deaf
  <2> QED  BY <2>1, <2>2, <2>3 DEF RunInv
<1> QED  BY <1>1, <1>2, <1>3, <1>4, <1>5, <1>6, <1>7, <1>8, <1>9, <1>10, <1>11 DEF RunNext

\* No message and no end of a transport falls between two features of a node,
\* nor can it write what it cannot read (NodeIsWhole), in all of its life.
THEOREM NodeIsAlwaysWhole == RunSpec => []NodeIsWhole
BY RunInitOK, RunStep, InvIsWhole, PTL DEF RunSpec


-----------------------------------------------------------------------------
(* The life of the host. *)

Plannable == BootPlugins \X {"stop", "start"}
ShutdownSteps == {"next", "asked", "containers", "bus", "save", "over", "failed"}
AShutdown == [who : {"core", "user"}, plan : Seq(BootPlugins), step : ShutdownSteps, closing : SUBSET BootPlugins]

RangeOf(q) == { q[i] : i \in DOMAIN q }
InPlan(w) == { w.plan[i][1] : i \in DOMAIN w.plan }

\* What the plan under way leads to.
Target(w, on) == IF w.step = "idle" THEN on ELSE w.graph

\* The registry has not been looked at in this run.
Unread == phase \in {"off", "bootstrap", "mount"} \/ (phase = "reconcile" /\ dirty)

\* Somebody's shutdown() has closed the containers.
ClosedBy(ds) == \E s \in DOMAIN ds : ds[s].step \in {"bus", "save", "over"}
OverIn(ds)   == \E s \in DOMAIN ds : ds[s].step = "over"

\* Its home is one of the configuration's containers.
Homed(S, cs) == \A p \in S : HomeOf[p] \in cs

Calm == mishaps \subseteq {"overlap"}

(***************************************************************************)
(* The inductive invariant, part by part.                                  *)
(***************************************************************************)

BootTypeOK ==
    /\ phase \in Phases \cup {"off", "up", "exited"}
    /\ config \in {"user", "default"}
    /\ file \in [BootPlugins -> Entry] /\ entries \in [BootPlugins -> Entry]
    /\ active \subseteq BootPlugins /\ enabled \subseteq BootPlugins
    /\ work \in [plan : Seq(Plannable), graph : SUBSET BootPlugins, step : {"idle", "next", "asked"}]
    /\ work.step = "idle" => work = Idle
    /\ work.step # "idle" => work.plan # <<>>
    /\ shutdowns \in Seq(AShutdown)

\* The second call is the user's, and there is no third.
Calls ==
    /\ Len(shutdowns) <= 2
    /\ Len(shutdowns) = 2 => shutdowns[2].who = "user"
    /\ \A s \in DOMAIN shutdowns : shutdowns[s].step = "asked" => shutdowns[s].plan # <<>>

\* A run begins with nothing.
Beginning ==
    Unread => /\ active = {} /\ enabled = {} /\ work = Idle /\ shutdowns = <<>> /\ mishaps = {}
              /\ phase \in {"off", "bootstrap"} => entries = Fresh /\ mounted = {}

\* What is planned, enabled or recorded has a home, in this run and, by the
\* file, in the next.
Homes ==
    /\ Homed(active, ToMount) /\ Homed(enabled, ToMount)
    /\ Homed(work.graph, ToMount) /\ Homed(InPlan(work), ToMount)
    /\ \A s \in DOMAIN shutdowns : Homed(RangeOf(shutdowns[s].plan), ToMount)
    /\ \A p \in BootPlugins : entries[p] # Fresh[p] => HomeOf[p] \in ToMount
    /\ \A p \in BootPlugins : file[p] # Fresh[p] => HomeOf[p] \in Containers
    /\ phase \in {"reconcile", "run", "up"} => mounted = IF ClosedBy(shutdowns) THEN {} ELSE ToMount

\* A plan leads to its graph, entry by entry.
Planned ==
    /\ \A i \in DOMAIN work.plan : work.plan[i][2] = "start" <=> work.plan[i][1] \in work.graph
    /\ shutdowns = <<>> => mishaps \subseteq {"plan", "unhandled"}
    /\ Running => "unhandled" \notin mishaps

\* Before anything fails or ends, and but for what is still to be done, what is
\* enabled is active and what is active is recorded so.
Truthful ==
    Running /\ "plan" \notin mishaps /\ shutdowns = <<>> =>
        \A p \in BootPlugins :
            /\ p \notin InPlan(work) => (p \in active <=> p \in Target(work, enabled))
            /\ p \notin InPlan(work) \cup stale /\ (Unread => ~ entries[p].on) =>
                  (entries[p].status = "running" <=> p \in active)

\* A shutdown() without a reconcile() stops whatever runs, at the latest with
\* the containers.
AllStopped ==
    Calm =>
        /\ shutdowns # <<>> => work = Idle
        /\ ClosedBy(shutdowns) \/ phase = "exited" => active = {}
        /\ \A s \in DOMAIN shutdowns : shutdowns[s].step = "containers" => active \subseteq shutdowns[s].closing

\* And what it stops it records, and saves last.
Records ==
    /\ \A s \in DOMAIN shutdowns : shutdowns[s].step \in {"save", "over"} => bus = "closed"
    /\ mishaps = {} =>
        /\ Len(shutdowns) = 2 => shutdowns[1].step = "over"
        /\ Len(shutdowns) = 1 => shutdowns[1].step # "failed"
        /\ \A s \in DOMAIN shutdowns, p \in BootPlugins \ stale :
              entries[p].status = "running" => /\ shutdowns[s].step \in {"next", "asked"}
                              /\ p \in RangeOf(shutdowns[s].plan)
        /\ OverIn(shutdowns) /\ config = "user" =>
              \A p \in BootPlugins \ stale : file[p].status # "running" /\ file[p].on = entries[p].on
        /\ phase = "exited" => OverIn(shutdowns)

BootInv ==
    BootTypeOK /\ Calls /\ Beginning /\ Homes /\ Planned /\ Truthful /\ AllStopped /\ Records

-----------------------------------------------------------------------------
(* Plans and orders. *)

LEMMA ToMountIs ==
  /\ ToMount = IF config = "user" THEN Containers ELSE {}
  /\ AppConfig.registry <=> config = "user"
BY DEF ToMount, AppConfig

LEMMA SubsetsAreFinite ==
  ASSUME NEW S, S \subseteq BootPlugins
  PROVE  IsFiniteSet(S) /\ Cardinality(S) \in Nat
BY BootAssumption, FS_Subset, FS_CardinalityType

\* An order has all there is to order.
LEMMA OrdersHaveAll ==
  ASSUME NEW S, S \subseteq BootPlugins, NEW q \in Orders(S)
  PROVE  q \in Seq(BootPlugins) /\ RangeOf(q) = S
<1> DEFINE n == Cardinality(S)
<1>1. IsFiniteSet(S) /\ n \in Nat  BY SubsetsAreFinite
<1>2. q \in [1 .. n -> S] /\ (\A i, j \in 1 .. n : q[i] = q[j] => i = j)  BY DEF Orders, IsInjective
<1>3. q \in Seq(BootPlugins) /\ DOMAIN q = 1 .. n  BY <1>2, <1>1
<1>4. RangeOf(q) \subseteq S  BY <1>2, <1>3 DEF RangeOf
<1>5. q \in Surjection(1 .. n, S)
  <2>1. q \in Injection(1 .. n, S)  BY <1>2 DEF Injection, IsInjective
  <2>2. Cardinality(1 .. n) = n  BY <1>1, FS_Interval
  <2> QED  BY <1>1, <2>1, <2>2, FS_Injection
<1>6. RangeOf(q) = S  BY <1>3, <1>4, <1>5 DEF Surjection, RangeOf
<1> QED  BY <1>3, <1>6

\* A plan stops what is enabled and is not to be, and starts what is to be.
LEMMA PlansLead ==
  ASSUME NEW new, new \subseteq BootPlugins, enabled \subseteq BootPlugins, NEW q \in Plans(new)
  PROVE  /\ q \in Seq(Plannable)
         /\ { q[i][1] : i \in DOMAIN q } = (enabled \ new) \cup (new \ enabled)
         /\ \A i \in DOMAIN q : q[i][2] = "start" <=> q[i][1] \in new
<1> DEFINE S == enabled \ new
           T == new \ enabled
<1>1. PICK a \in Orders(S), b \in Orders(T) : q = Steps(a, b)  BY DEF Plans
<1>2. a \in Seq(BootPlugins) /\ RangeOf(a) = S /\ b \in Seq(BootPlugins) /\ RangeOf(b) = T
  <2>1. S \subseteq BootPlugins /\ T \subseteq BootPlugins  OBVIOUS
  <2> HIDE DEF S, T
  <2> QED  BY <2>1, OrdersHaveAll
<1> DEFINE u == [i \in DOMAIN a |-> <<a[i], "stop">>]
           v == [i \in DOMAIN b |-> <<b[i], "start">>]
<1>3. /\ u \in Seq(Plannable) /\ Len(u) = Len(a) /\ DOMAIN u = 1 .. Len(a)
      /\ v \in Seq(Plannable) /\ Len(v) = Len(b) /\ DOMAIN v = 1 .. Len(b)
      /\ DOMAIN a = 1 .. Len(a) /\ DOMAIN b = 1 .. Len(b) /\ Len(a) \in Nat /\ Len(b) \in Nat
  BY <1>2 DEF Plannable
<1>4. /\ \A i \in 1 .. Len(a) : u[i] = <<a[i], "stop">> /\ a[i] \in S
      /\ \A i \in 1 .. Len(b) : v[i] = <<b[i], "start">> /\ b[i] \in T
  BY <1>2, <1>3 DEF RangeOf
<1>5. q = u \o v  BY <1>1 DEF Steps
<1> HIDE DEF u, v, S, T
<1>6. q \in Seq(Plannable) /\ Len(q) = Len(a) + Len(b) /\ DOMAIN q = 1 .. Len(a) + Len(b)
  <2>1. q \in Seq(Plannable) /\ Len(q) = Len(u) + Len(v)  BY <1>3, <1>5, ConcatProperties
  <2> QED  BY <1>3, <2>1
<1>7. \A i \in DOMAIN q : \/ i \in 1 .. Len(a) /\ q[i] = <<a[i], "stop">>
                          \/ i - Len(a) \in 1 .. Len(b) /\ q[i] = <<b[i - Len(a)], "start">>
  BY <1>3, <1>4, <1>5, <1>6
<1>8. \A i \in DOMAIN q : \/ q[i][1] \in S /\ q[i][2] = "stop"
                          \/ q[i][1] \in T /\ q[i][2] = "start"
  BY <1>4, <1>7
<1>9. ASSUME NEW p \in S PROVE \E i \in DOMAIN q : q[i][1] = p
  <2>1. PICK i \in 1 .. Len(a) : a[i] = p  BY <1>2, <1>3 DEF RangeOf
  <2>2. i \in DOMAIN q /\ q[i] = u[i]  BY <1>3, <1>5, <1>6, ConcatProperties
  <2> QED  BY <1>4, <2>1, <2>2
<1>10. ASSUME NEW p \in T PROVE \E i \in DOMAIN q : q[i][1] = p
  <2>1. PICK i \in 1 .. Len(b) : b[i] = p  BY <1>2, <1>3 DEF RangeOf
  <2>2. Len(a) + i \in DOMAIN q /\ q[Len(a) + i] = v[i]
    <3>1. Len(a) + i \in 1 .. Len(u) + Len(v) /\ ~ (Len(a) + i <= Len(u)) /\ (Len(a) + i) - Len(u) = i
      BY <1>3
    <3>2. (u \o v)[Len(a) + i] = v[(Len(a) + i) - Len(u)]  BY <1>3, <3>1, ConcatProperties
    <3> QED  BY <1>3, <1>5, <1>6, <3>1, <3>2
  <2> QED  BY <1>4, <2>1, <2>2
<1>11. { q[i][1] : i \in DOMAIN q } = S \cup T  BY <1>8, <1>9, <1>10
<1>12. \A i \in DOMAIN q : q[i][2] = "start" <=> q[i][1] \in new  BY <1>8 DEF S, T
<1> QED  BY <1>6, <1>11, <1>12 DEF S, T

LEMMA HeadAndTail ==
  ASSUME NEW S, NEW q \in Seq(S), q # <<>>
  PROVE  /\ Head(q) \in S /\ Head(q) = q[1] /\ 1 \in DOMAIN q
         /\ Tail(q) \in Seq(S)
         /\ \A i \in DOMAIN Tail(q) : i + 1 \in DOMAIN q /\ Tail(q)[i] = q[i + 1]
         /\ \A i \in DOMAIN q : i = 1 \/ (i - 1 \in DOMAIN Tail(q) /\ Tail(q)[i - 1] = q[i])
OBVIOUS

\* What remains to be done once the first of it is.
LEMMA RangeOfTail ==
  ASSUME NEW q \in Seq(BootPlugins), q # <<>>
  PROVE  /\ RangeOf(Tail(q)) \subseteq RangeOf(q)
         /\ RangeOf(q) = RangeOf(Tail(q)) \cup {Head(q)}
<1>1. RangeOf(Tail(q)) \subseteq RangeOf(q)  BY HeadAndTail DEF RangeOf
<1>2. Head(q) \in RangeOf(q)  BY HeadAndTail DEF RangeOf
<1>3. RangeOf(q) \subseteq RangeOf(Tail(q)) \cup {Head(q)}
  <2> SUFFICES ASSUME NEW i \in DOMAIN q, q[i] # Head(q) PROVE q[i] \in RangeOf(Tail(q))  BY DEF RangeOf
  <2>1. i - 1 \in DOMAIN Tail(q) /\ Tail(q)[i - 1] = q[i]  BY HeadAndTail
  <2> QED  BY <2>1 DEF RangeOf
<1> QED  BY <1>1, <1>2, <1>3

-----------------------------------------------------------------------------
(* A start, up to the first plan. *)

LEMMA FreshIsEmpty ==
  /\ Fresh \in [BootPlugins -> Entry]
  /\ \A p \in BootPlugins : Fresh[p].status = "absent" /\ Fresh[p].on = FALSE
BY DEF Fresh, Entry

\* updateStatus, and enabling and disabling.
WithStatus(es, p, st) == [es EXCEPT ![p].status = st]
WithOn(es, p, b)      == [es EXCEPT ![p].on = b]

LEMMA StatusSet ==
  ASSUME NEW es \in [BootPlugins -> Entry], NEW p \in BootPlugins,
         NEW st \in {"running", "stopped", "error", "absent"}
  PROVE  /\ WithStatus(es, p, st) \in [BootPlugins -> Entry]
         /\ \A q \in BootPlugins : q # p => WithStatus(es, p, st)[q] = es[q]
         /\ WithStatus(es, p, st)[p].status = st /\ WithStatus(es, p, st)[p].on = es[p].on
BY DEF WithStatus, Entry

LEMMA OnSet ==
  ASSUME NEW es \in [BootPlugins -> Entry], NEW p \in BootPlugins, NEW b \in BOOLEAN
  PROVE  /\ WithOn(es, p, b) \in [BootPlugins -> Entry]
         /\ \A q \in BootPlugins : q # p => WithOn(es, p, b)[q] = es[q]
         /\ WithOn(es, p, b)[p].on = b /\ WithOn(es, p, b)[p].status = es[p].status
BY DEF WithOn, Entry

LEMMA IdleIsEmpty ==
  /\ Idle \in [plan : Seq(Plannable), graph : SUBSET BootPlugins, step : {"idle", "next", "asked"}]
  /\ Idle.step = "idle" /\ Idle.plan = <<>> /\ Idle.graph = {} /\ InPlan(Idle) = {}
BY DEF Idle, InPlan

LEMMA NothingClosed == ~ ClosedBy(<<>>) /\ ~ OverIn(<<>>)
BY DEF ClosedBy, OverIn

\* What every run begins with.
LEMMA NewRun ==
  ASSUME BootTypeOK, Homes, NewSystem, entries' = Fresh, file' = file, mishaps' = {} \/ mishaps' = {"unhandled"},
         config' \in {"user", "default"},
         \/ phase' = "exited" /\ mishaps' = {"unhandled"}
         \/ phase' \in {"off", "bootstrap"} /\ mishaps' = {}
  PROVE  BootInv'
<1>1. /\ mounted' = {} /\ enabled' = {} /\ work' = Idle /\ active' = {} /\ shutdowns' = <<>>
      /\ DOMAIN shutdowns' = {} /\ Len(shutdowns') = 0
  BY DEF NewSystem, NewContainerManager, NewPluginManager
<1>2. BootTypeOK'  BY <1>1, FreshIsEmpty, IdleIsEmpty DEF BootTypeOK, Phases
<1>3. Calls'  BY <1>1 DEF Calls
<1>4. Beginning'  BY <1>1 DEF Beginning, Unread
<1>5. Homes'  BY <1>1, IdleIsEmpty DEF Homes, Homed
<1>6. Planned'  BY <1>1, IdleIsEmpty DEF Planned, Running, Phases
<1>7. Truthful'  BY <1>1, FreshIsEmpty, IdleIsEmpty DEF Truthful, Target, Running, Phases
<1>8. AllStopped'  BY <1>1, NothingClosed DEF AllStopped, Calm
<1>9. Records'  BY <1>1, NothingClosed DEF Records
<1> QED  BY <1>2, <1>3, <1>4, <1>5, <1>6, <1>7, <1>8, <1>9 DEF BootInv

LEMMA BootInitOK == BootInit => BootInv
<1> SUFFICES ASSUME BootInit PROVE BootInv  OBVIOUS
<1>1. /\ phase = "off" /\ config = "user" /\ file = Fresh /\ entries = Fresh /\ mounted = {} /\ active = {}
      /\ enabled = {} /\ work = Idle /\ shutdowns = <<>> /\ mishaps = {}
      /\ DOMAIN shutdowns = {} /\ Len(shutdowns) = 0
  BY DEF BootInit
<1>2. BootTypeOK  BY <1>1, FreshIsEmpty, IdleIsEmpty DEF BootTypeOK, Phases
<1>3. Calls  BY <1>1 DEF Calls
<1>4. Beginning  BY <1>1 DEF Beginning, Unread
<1>5. Homes  BY <1>1, IdleIsEmpty DEF Homes, Homed
<1>6. Planned  BY <1>1, IdleIsEmpty DEF Planned, Running, Phases
<1>7. Truthful  BY <1>1, FreshIsEmpty, IdleIsEmpty DEF Truthful, Target, Running, Phases
<1>8. AllStopped  BY <1>1, NothingClosed DEF AllStopped, Calm
<1>9. Records  BY <1>1, NothingClosed DEF Records
<1> QED  BY <1>2, <1>3, <1>4, <1>5, <1>6, <1>7, <1>8, <1>9 DEF BootInv

LEMMA StartOK ==
  ASSUME BootInv, NEW source \in {"argument", "file"}, NEW readable \in BOOLEAN, Start(source, readable)
  PROVE  BootInv'
BY NewRun DEF BootInv, Start, ConfigOf, LoadConfigFromFile, BootTypeOK

LEMMA CrashOK ==
  ASSUME BootInv, Crash
  PROVE  BootInv'
BY NewRun DEF BootInv, Crash, BootTypeOK

LEMMA LoadRegistryOK ==
  ASSUME BootInv, LoadRegistry
  PROVE  BootInv'
<1> USE DEF LoadRegistry
<1>1. BootTypeOK /\ Calls /\ Beginning /\ Homes /\ Planned /\ Truthful /\ AllStopped /\ Records
  BY DEF BootInv
<1>2. /\ active = {} /\ enabled = {} /\ work = Idle /\ shutdowns = <<>> /\ mishaps = {} /\ mounted = {}
  BY <1>1 DEF Beginning, Unread
<1>3. /\ active' = {} /\ enabled' = {} /\ work' = Idle /\ shutdowns' = <<>> /\ mishaps' = {} /\ mounted' = {}
      /\ DOMAIN shutdowns' = {} /\ Len(shutdowns') = 0 /\ phase' = "mount" /\ config' = config /\ file' = file
  BY <1>2
<1>4. ToMount' = ToMount  BY <1>3 DEF ToMount, AppConfig
<1>5. entries' = IF config = "user" THEN file ELSE Fresh  BY ToMountIs DEF CreatePersistent, CreateMemory
<1>6. BootTypeOK'  BY <1>1, <1>3, <1>5, FreshIsEmpty, IdleIsEmpty DEF BootTypeOK, Phases
<1>7. Calls' /\ Beginning'  BY <1>3 DEF Calls, Beginning, Unread
<1>8. Homes'  BY <1>1, <1>3, <1>4, <1>5, ToMountIs, IdleIsEmpty DEF Homes, Homed
<1>9. Planned' /\ AllStopped' /\ Records'
  BY <1>3, IdleIsEmpty, NothingClosed DEF Planned, Running, Phases, AllStopped, Records
<1>10. Truthful'  BY <1>3, IdleIsEmpty DEF Truthful, Target, Unread
<1> QED  BY <1>6, <1>7, <1>8, <1>9, <1>10 DEF BootInv

LEMMA MountStepOK ==
  ASSUME BootInv, AttachCore \/ \E c \in Containers : Mount(c)
  PROVE  BootInv'
<1>1. BootTypeOK /\ Calls /\ Beginning /\ Homes /\ Planned /\ Truthful /\ AllStopped /\ Records
  BY DEF BootInv
<1>2. /\ phase = "mount" /\ UNCHANGED <<config, file, entries, active, enabled, work, shutdowns, bus, mishaps, stale>>
      /\ \/ phase' = "mount"
         \/ phase' = "reconcile" /\ dirty' /\ mounted' = ToMount
  BY DEF Mount, AttachCore
<1>3. /\ active' = {} /\ enabled' = {} /\ work' = Idle /\ shutdowns' = <<>> /\ mishaps' = {}
      /\ DOMAIN shutdowns' = {} /\ Len(shutdowns') = 0
  BY <1>1, <1>2 DEF Beginning, Unread
<1>4. ToMount' = ToMount  BY <1>2 DEF ToMount, AppConfig
<1>5. BootTypeOK'  BY <1>1, <1>2, <1>3, IdleIsEmpty DEF BootTypeOK, Phases
<1>6. Calls' /\ Beginning'  BY <1>2, <1>3 DEF Calls, Beginning, Unread
<1>7. Homes'  BY <1>1, <1>2, <1>3, <1>4, IdleIsEmpty, NothingClosed DEF Homes, Homed
<1>8. Planned' /\ AllStopped' /\ Records'
  BY <1>2, <1>3, IdleIsEmpty, NothingClosed DEF Planned, Running, Phases, AllStopped, Records
<1>9. Truthful'  BY <1>1, <1>2, <1>3, IdleIsEmpty DEF Truthful, Target, Unread, Running, Phases, Beginning
<1> QED  BY <1>5, <1>6, <1>7, <1>8, <1>9 DEF BootInv

LEMMA MountOK ==
  ASSUME BootInv, NEW c \in Containers, Mount(c)
  PROVE  BootInv'
BY MountStepOK

LEMMA AttachCoreOK ==
  ASSUME BootInv, AttachCore
  PROVE  BootInv'
BY MountStepOK

-----------------------------------------------------------------------------
(* The orchestrator, and the plugins that ask it to. *)

\* A step that leaves the runs of plugins, their records and the shutdowns
\* alone, in a run that has gone past its beginning.
LEMMA QuietStep ==
  ASSUME BootInv,
         UNCHANGED <<config, entries, mounted, active, enabled, work, shutdowns, bus, stale>>,
         file' = file \/ (file' = IF AppConfig.registry THEN entries ELSE file),
         \/ phase' = phase /\ dirty' = dirty /\ mishaps' = mishaps
         \/ ~ Unread /\ Running /\ phase' \in {"run", "up"} /\ mishaps' = mishaps
         \/ phase' = "exited" /\ mishaps' = mishaps \cup {"unhandled"}
  PROVE  BootInv'
<1>1. BootTypeOK /\ Calls /\ Beginning /\ Homes /\ Planned /\ Truthful /\ AllStopped /\ Records
  BY DEF BootInv
<1>2. ToMount' = ToMount  BY DEF ToMount, AppConfig
<1>3. BootTypeOK'  BY <1>1 DEF BootTypeOK, Phases
<1>4. Calls'  BY <1>1 DEF Calls
<1>5. Beginning'  BY <1>1 DEF Beginning, Unread, Running
<1>6. Homes'  BY <1>1, ToMountIs, <1>2 DEF Homes, Unread, Running, Phases
<1>7. Planned'  BY <1>1 DEF Planned, Running, Phases
<1>8. Truthful'
  <2>1. CASE phase' = phase /\ dirty' = dirty /\ mishaps' = mishaps
    BY <1>1, <2>1 DEF Truthful, Running, Unread
  <2>2. CASE ~ Unread /\ Running /\ mishaps' = mishaps  BY <1>1, <2>2 DEF Truthful
  <2>3. CASE phase' = "exited"  BY <2>3 DEF Truthful, Running, Phases
  <2> QED  BY <2>1, <2>2, <2>3
<1>9. AllStopped'
  <2>1. CASE mishaps' = mishaps /\ (phase' = phase \/ phase' # "exited")  BY <1>1, <2>1 DEF AllStopped, Calm
  <2>2. CASE mishaps' = mishaps \cup {"unhandled"}  BY <2>2 DEF Calm, AllStopped
  <2> QED  BY <2>1, <2>2
<1>10. Records'
  <2>1. CASE mishaps' = mishaps /\ (phase' = phase \/ phase' # "exited")
    <3>1. OverIn(shutdowns) /\ config = "user" /\ mishaps = {} =>
            \A p \in BootPlugins \ stale : file'[p].status # "running" /\ file'[p].on = entries[p].on
      <4>1. CASE file' = file  BY <1>1, <4>1 DEF Records
      <4>2. CASE file' = IF AppConfig.registry THEN entries ELSE file
        <5> SUFFICES ASSUME OverIn(shutdowns), config = "user", mishaps = {}
                     PROVE  \A p \in BootPlugins \ stale : file'[p].status # "running" /\ file'[p].on = entries[p].on
          OBVIOUS
        <5>1. file' = entries  BY <4>2, ToMountIs
        <5>2. PICK s \in DOMAIN shutdowns : shutdowns[s].step = "over"  BY DEF OverIn
        <5> QED  BY <1>1, <5>1, <5>2 DEF Records
      <4> QED  BY <4>1, <4>2
    <3> QED  BY <1>1, <2>1, <3>1 DEF Records
  <2>2. CASE mishaps' = mishaps \cup {"unhandled"}  BY <1>1, <2>2 DEF Records
  <2> QED  BY <2>1, <2>2
<1> QED  BY <1>3, <1>4, <1>5, <1>6, <1>7, <1>8, <1>9, <1>10 DEF BootInv

LEMMA StutterOK ==
  ASSUME BootInv, UNCHANGED bootvars
  PROVE  BootInv'
BY QuietStep DEF bootvars

LEMMA AutoSaveOK ==
  ASSUME BootInv, AutoSave
  PROVE  BootInv'
BY QuietStep DEF AutoSave

LEMMA StartFailsOK ==
  ASSUME BootInv, StartFails
  PROVE  BootInv'
BY QuietStep DEF StartFails

LEMMA ReconciledOK ==
  ASSUME BootInv, Reconciled
  PROVE  BootInv'
BY QuietStep DEF Reconciled, ShouldReconcile, Unread, Running, Phases

\* A plugin is installed, enabled or disabled.
LEMMA ChangeOK ==
  ASSUME BootInv, NEW p \in BootPlugins, Ensure(p) \/ SetState(p)
  PROVE  BootInv'
<1>1. BootTypeOK /\ Calls /\ Beginning /\ Homes /\ Planned /\ Truthful /\ AllStopped /\ Records
  BY DEF BootInv
<1>2. /\ phase \in {"run", "up"} /\ ~ Unread /\ ~ Unread' /\ Running
      /\ UNCHANGED <<phase, config, file, mounted, active, enabled, work, shutdowns, bus, stale>>
      /\ mishaps' = mishaps \/ (mishaps' = mishaps \cup {"race"} /\ shutdowns # <<>>)
      /\ shutdowns # <<>> => mishaps' = mishaps \cup {"race"} \/ active # {}
  BY DEF Ensure, Ensured, SetState, Unread, Running, Phases
<1>3. ToMount' = ToMount  BY <1>2 DEF ToMount, AppConfig
<1>4. /\ entries' \in [BootPlugins -> Entry]
      /\ \A q \in BootPlugins : entries'[q].status = "running" <=> entries[q].status = "running"
      /\ \A q \in BootPlugins : q # p => entries'[q] = entries[q]
  <2>1. entries \in [BootPlugins -> Entry] /\ entries[p] \in Entry  BY <1>1 DEF BootTypeOK
  <2>2. CASE Ensure(p)
    <3> DEFINE es == WithOn(entries, p, TRUE)
               st == IF es[p].status = "absent" THEN "stopped" ELSE es[p].status
    <3>1. entries' = WithStatus(es, p, st)  BY <2>2 DEF Ensure, Ensured, WithOn, WithStatus
    <3>2. /\ es \in [BootPlugins -> Entry] /\ es[p].status = entries[p].status
          /\ \A q \in BootPlugins : q # p => es[q] = entries[q]
      BY <2>1, OnSet
    <3> HIDE DEF es
    <3>3. st \in {"running", "stopped", "error", "absent"}  BY <3>2 DEF Entry
    <3> HIDE DEF st
    <3>4. /\ entries' \in [BootPlugins -> Entry] /\ entries'[p].status = st
          /\ \A q \in BootPlugins : q # p => entries'[q] = es[q]
      BY <3>1, <3>2, <3>3, StatusSet
    <3> QED  BY <3>2, <3>4 DEF st
  <2>3. CASE SetState(p)
    <3> DEFINE b == ~ entries[p].on
    <3>1. entries' = WithOn(entries, p, b)  BY <2>3 DEF SetState, WithOn
    <3>2. b \in BOOLEAN  OBVIOUS
    <3> HIDE DEF b
    <3> QED  BY <2>1, <3>1, <3>2, OnSet
  <2> QED  BY <2>2, <2>3
<1>5. HomeOf[p] \in ToMount
  <2>1. CASE Ensure(p)  BY <1>1, <1>2, <2>1 DEF Ensure, Homes
  <2>2. CASE SetState(p)  BY <1>1, <2>2, FreshIsEmpty DEF SetState, Homes
  <2> QED  BY <2>1, <2>2
<1>6. BootTypeOK' /\ Calls' /\ Beginning'  BY <1>1, <1>2, <1>4 DEF BootTypeOK, Calls, Beginning
<1>7. Homes'  BY <1>1, <1>2, <1>3, <1>4, <1>5 DEF Homes
<1>8. Planned'  BY <1>1, <1>2 DEF Planned, Running
<1>9. Truthful'  BY <1>1, <1>2, <1>4 DEF Truthful
<1>10. AllStopped'  BY <1>1, <1>2 DEF AllStopped, Calm
<1>11. Records'
  <2>1. CASE "race" \in mishaps'  BY <1>1, <1>2, <2>1 DEF Records
  <2>2. CASE "race" \notin mishaps'
    <3>1. mishaps' = mishaps /\ (shutdowns = <<>> \/ active # {})  BY <1>2, <2>2
    <3>2. mishaps = {} => ~ OverIn(shutdowns)
      BY <1>1, <3>1, NothingClosed DEF OverIn, ClosedBy, AllStopped, Calm
    <3> QED  BY <1>1, <1>2, <1>4, <3>1, <3>2 DEF Records, Running, Phases
  <2> QED  BY <2>1, <2>2
<1> QED  BY <1>6, <1>7, <1>8, <1>9, <1>10, <1>11 DEF BootInv

\* reconcile() makes a plan.
LEMMA BeginReconcileOK ==
  ASSUME BootInv, BeginReconcile
  PROVE  BootInv'
<1>1. BootTypeOK /\ Calls /\ Beginning /\ Homes /\ Planned /\ Truthful /\ AllStopped /\ Records
  BY DEF BootInv
<1>2. /\ phase \in {"reconcile", "run", "up"} /\ Running /\ ~ Unread' /\ work = Idle
      /\ UNCHANGED <<phase, config, file, entries, mounted, active, enabled, shutdowns, bus, stale>>
      /\ \/ shutdowns = <<>> /\ mishaps' = mishaps
         \/ shutdowns # <<>> /\ mishaps' = mishaps \cup {"race"}
  BY <1>1 DEF BeginReconcile, BootTypeOK, Running, Unread, Phases
<1>3. PICK q \in Plans(TurnedOn) :
         work' = IF q = <<>> THEN Idle ELSE [plan |-> q, graph |-> TurnedOn, step |-> "next"]
  BY DEF BeginReconcile
<1>4. TurnedOn \subseteq BootPlugins /\ enabled \subseteq BootPlugins  BY <1>1 DEF TurnedOn, BootTypeOK
<1>5. /\ q \in Seq(Plannable)
      /\ { q[i][1] : i \in DOMAIN q } = (enabled \ TurnedOn) \cup (TurnedOn \ enabled)
      /\ \A i \in DOMAIN q : q[i][2] = "start" <=> q[i][1] \in TurnedOn
  <2> HIDE DEF TurnedOn
  <2> QED  BY <1>4, PlansLead
<1>6. /\ work' \in [plan : Seq(Plannable), graph : SUBSET BootPlugins, step : {"idle", "next", "asked"}]
      /\ work'.step = "idle" => work' = Idle
      /\ work'.step # "idle" => work'.plan # <<>>
  BY <1>3, <1>4, <1>5, IdleIsEmpty
<1>7. \/ work' = Idle /\ InPlan(work') = {} /\ Target(work', enabled) = enabled /\ enabled = TurnedOn
      \/ /\ InPlan(work') = (enabled \ TurnedOn) \cup (TurnedOn \ enabled)
         /\ Target(work', enabled) = TurnedOn /\ work'.graph = TurnedOn /\ work'.plan = q
  <2>1. CASE q = <<>>
    <3>1. (enabled \ TurnedOn) \cup (TurnedOn \ enabled) = {}  BY <1>5, <2>1
    <3>2. enabled = TurnedOn  BY <3>1
    <3> QED  BY <1>3, <2>1, <3>2, IdleIsEmpty DEF Target
  <2>2. CASE q # <<>>
    <3>1. work'.plan = q /\ work'.graph = TurnedOn /\ work'.step = "next"  BY <1>3, <2>2
    <3> QED  BY <1>5, <3>1 DEF InPlan, Target
  <2> QED  BY <2>1, <2>2
<1>8. ToMount' = ToMount  BY <1>2 DEF ToMount, AppConfig
<1>9. BootTypeOK' /\ Calls' /\ Beginning'  BY <1>1, <1>2, <1>6 DEF BootTypeOK, Calls, Beginning
<1>10. Homed(TurnedOn, ToMount)  BY <1>1, FreshIsEmpty DEF Homes, Homed, TurnedOn
<1>11. Homes'
  <2>1. Homed(enabled, ToMount)  BY <1>1 DEF Homes
  <2>2. Homed(InPlan(work'), ToMount) /\ Homed(work'.graph, ToMount)
    <3> HIDE DEF TurnedOn
    <3> QED  BY <1>7, <1>10, <2>1, IdleIsEmpty DEF Homed
  <2> QED  BY <1>1, <1>2, <1>8, <2>2 DEF Homes
<1>12. Planned'
  <2>1. \A i \in DOMAIN work'.plan : work'.plan[i][2] = "start" <=> work'.plan[i][1] \in work'.graph
    <3> HIDE DEF TurnedOn
    <3> QED  BY <1>5, <1>7, IdleIsEmpty
  <2> QED  BY <1>1, <1>2, <2>1 DEF Planned, Running
<1>13. Truthful'
  <2> SUFFICES ASSUME "plan" \notin mishaps, shutdowns = <<>>, NEW p \in BootPlugins
               PROVE  /\ p \notin InPlan(work') => (p \in active <=> p \in Target(work', enabled))
                      /\ p \notin InPlan(work') \cup stale => (entries[p].status = "running" <=> p \in active)
    BY <1>2 DEF Truthful
  <2>1. p \in active <=> p \in enabled  BY <1>1, <1>2, IdleIsEmpty DEF Truthful, Target
  <2>2. p \notin stale /\ (Unread => ~ entries[p].on) => (entries[p].status = "running" <=> p \in active)
    BY <1>1, <1>2, IdleIsEmpty DEF Truthful
  <2>3. Unread /\ p \notin InPlan(work') => ~ entries[p].on
    <3> SUFFICES ASSUME Unread, p \notin InPlan(work') PROVE p \notin TurnedOn  BY DEF TurnedOn
    <3>1. enabled = {}  BY <1>1 DEF Beginning
    <3> HIDE DEF TurnedOn
    <3> QED  BY <1>7, <3>1
  <2>4. p \notin InPlan(work') => (p \in enabled <=> p \in Target(work', enabled))
    <3> HIDE DEF TurnedOn
    <3> QED  BY <1>7
  <2> QED  BY <2>1, <2>2, <2>3, <2>4
<1>14. AllStopped'
  <2>1. CASE shutdowns = <<>> /\ mishaps' = mishaps
    BY <1>1, <1>2, <2>1, NothingClosed DEF AllStopped, Calm, Running, Phases
  <2>2. CASE mishaps' = mishaps \cup {"race"}  BY <2>2 DEF Calm, AllStopped
  <2> QED  BY <1>2, <2>1, <2>2
<1>15. Records'  BY <1>1, <1>2 DEF Records
<1> QED  BY <1>9, <1>11, <1>12, <1>13, <1>14, <1>15 DEF BootInv

\* The plan is given up.
LEMMA GiveUpOK ==
  ASSUME BootInv, NEW p \in BootPlugins, HomeOf[p] \in ToMount, GiveUp(p), phase \in {"reconcile", "run", "up"}, ~ Unread,
         UNCHANGED <<config, file, mounted, active, shutdowns, bus, stale>>
  PROVE  BootInv'
<1>1. BootTypeOK /\ Calls /\ Beginning /\ Homes /\ Planned /\ Truthful /\ AllStopped /\ Records
  BY DEF BootInv
<1>2. /\ work' = Idle /\ enabled' = enabled /\ "plan" \in mishaps' /\ mishaps' \subseteq mishaps \cup {"plan", "unhandled"}
      /\ \/ phase' = "exited"
         \/ phase' = phase /\ phase = "up" /\ mishaps' = mishaps \cup {"plan"}
      /\ ~ Calm' /\ ~ Unread'
  BY DEF GiveUp, Calm, Unread
<1>3. ToMount' = ToMount  BY DEF ToMount, AppConfig
<1>4. /\ entries' \in [BootPlugins -> Entry]
      /\ \A q \in BootPlugins : q # p => entries'[q] = entries[q]
  <2>1. entries \in [BootPlugins -> Entry] /\ entries[p] \in Entry  BY <1>1 DEF BootTypeOK
  <2>2. entries' = WithStatus(entries, p, "error")  BY DEF GiveUp, WithStatus
  <2> QED  BY <2>1, <2>2, StatusSet
<1>5. BootTypeOK' /\ Calls' /\ Beginning'  BY <1>1, <1>2, <1>4, IdleIsEmpty DEF BootTypeOK, Calls, Beginning
<1>6. Homes'  BY <1>1, <1>2, <1>3, <1>4, IdleIsEmpty DEF Homes, Homed
<1>7. Planned' /\ Truthful' /\ AllStopped'
  BY <1>1, <1>2, IdleIsEmpty DEF Planned, Truthful, AllStopped, Running, Phases
<1>8. Records'  BY <1>1, <1>2 DEF Records
<1> QED  BY <1>5, <1>6, <1>7, <1>8 DEF BootInv

\* What is said of the first entry of a plan.
LEMMA FirstOfPlan ==
  ASSUME BootInv, Running, work.step # "idle"
  PROVE  /\ work.plan \in Seq(Plannable) /\ work.plan # <<>> /\ Head(work.plan)[1] \in BootPlugins
         /\ HomeOf[Head(work.plan)[1]] \in ToMount
         /\ phase \in {"reconcile", "run", "up"} /\ ~ Unread
         /\ Head(work.plan)[2] = "start" <=> Head(work.plan)[1] \in work.graph
<1>1. BootTypeOK /\ Beginning /\ Homes /\ Planned  BY DEF BootInv
<1>2. work.plan \in Seq(Plannable) /\ work.plan # <<>>  BY <1>1 DEF BootTypeOK
<1>3. Head(work.plan) \in Plannable /\ Head(work.plan) = work.plan[1] /\ 1 \in DOMAIN work.plan
  BY <1>2, HeadAndTail
<1>4. ~ Unread  BY <1>1, IdleIsEmpty DEF Beginning
<1>5. phase \in {"reconcile", "run", "up"}  BY <1>4 DEF Unread, Running, Phases
<1>6. Head(work.plan)[1] \in InPlan(work)  BY <1>3 DEF InPlan
<1> QED  BY <1>1, <1>2, <1>3, <1>4, <1>5, <1>6 DEF Homes, Homed, Planned, Plannable

LEMMA AskContainerOK ==
  ASSUME BootInv, AskContainer
  PROVE  BootInv'
<1>1. BootTypeOK /\ Calls /\ Beginning /\ Homes /\ Planned /\ Truthful /\ AllStopped /\ Records
  BY DEF BootInv
<1> DEFINE p == Head(work.plan)[1]
<1>2. Running /\ work.step = "next" /\ UNCHANGED <<config, file, mounted, active, shutdowns, bus, stale>>
  BY DEF AskContainer
<1>3. CASE HomeOf[p] \in mounted
  <2>1. work' = [work EXCEPT !.step = "asked"] /\ UNCHANGED <<phase, config, entries, dirty, enabled, mishaps>>
    BY <1>3 DEF AskContainer
  <2>2. /\ work' \in [plan : Seq(Plannable), graph : SUBSET BootPlugins, step : {"idle", "next", "asked"}]
        /\ work'.step = "asked" /\ work'.plan = work.plan /\ work'.graph = work.graph
    BY <1>1, <2>1 DEF BootTypeOK
  <2>3. InPlan(work') = InPlan(work) /\ Target(work', enabled) = Target(work, enabled)
    BY <1>2, <2>2 DEF InPlan, Target
  <2>4. ToMount' = ToMount /\ Unread' = Unread /\ Running' = Running
    BY <1>2, <2>1 DEF ToMount, AppConfig, Unread, Running
  <2>5. ~ Unread  BY <1>1, <1>2, IdleIsEmpty DEF Beginning
  <2>6. BootTypeOK' /\ Calls' /\ Beginning'
    BY <1>1, <1>2, <2>1, <2>2, <2>4, <2>5 DEF BootTypeOK, Calls, Beginning
  <2>7. Homes' /\ Planned'  BY <1>1, <1>2, <2>1, <2>2, <2>3, <2>4 DEF Homes, Planned
  <2>8. Truthful'  BY <1>1, <1>2, <2>1, <2>3, <2>4 DEF Truthful
  <2>9. AllStopped' /\ Records'  BY <1>1, <1>2, <2>1, IdleIsEmpty DEF AllStopped, Calm, Records
  <2> QED  BY <2>6, <2>7, <2>8, <2>9 DEF BootInv
<1>4. CASE HomeOf[p] \notin mounted
  <2>1. GiveUp(p)  BY <1>4 DEF AskContainer
  <2> QED  BY <1>2, <2>1, FirstOfPlan, GiveUpOK
<1> QED  BY <1>3, <1>4

LEMMA ContainerAnswersOK ==
  ASSUME BootInv, NEW ok \in BOOLEAN, ContainerAnswers(ok)
  PROVE  BootInv'
<1>1. BootTypeOK /\ Calls /\ Beginning /\ Homes /\ Planned /\ Truthful /\ AllStopped /\ Records
  BY DEF BootInv
<1> DEFINE p    == Head(work.plan)[1]
           on   == Head(work.plan)[2] = "start"
           rest == Tail(work.plan)
<1>2. Running /\ work.step = "asked" /\ UNCHANGED <<config, file, mounted, shutdowns, bus, stale>>
  BY DEF ContainerAnswers
<1>3. /\ work.plan \in Seq(Plannable) /\ work.plan # <<>> /\ p \in BootPlugins /\ HomeOf[p] \in ToMount
      /\ phase \in {"reconcile", "run", "up"} /\ ~ Unread /\ (on <=> p \in work.graph)
  BY <1>2, FirstOfPlan
<1>4. CASE ~ ok
  <2>1. GiveUp(p) /\ UNCHANGED active  BY <1>4 DEF ContainerAnswers
  <2> HIDE DEF p
  <2> QED  BY <1>2, <1>3, <2>1, GiveUpOK
<1>5. CASE ok
  <2>1. /\ active' = IF on THEN active \cup {p} ELSE active \ {p}
        /\ entries' = Recorded(p, on)
        /\ work' = IF rest = <<>> THEN Idle ELSE [work EXCEPT !.plan = rest, !.step = "next"]
        /\ enabled' = IF rest = <<>> THEN work.graph ELSE enabled
        /\ UNCHANGED <<phase, config, dirty, mishaps>>
    BY <1>5 DEF ContainerAnswers
  <2>2. /\ rest \in Seq(Plannable)
        /\ \A i \in DOMAIN rest : i + 1 \in DOMAIN work.plan /\ rest[i] = work.plan[i + 1]
        /\ \A i \in DOMAIN work.plan : i = 1 \/ (i - 1 \in DOMAIN rest /\ rest[i - 1] = work.plan[i])
        /\ Head(work.plan) = work.plan[1]
    BY <1>3, HeadAndTail
  <2> HIDE DEF rest
  <2>3. /\ work' \in [plan : Seq(Plannable), graph : SUBSET BootPlugins, step : {"idle", "next", "asked"}]
        /\ work'.step = "idle" => work' = Idle
        /\ work'.step # "idle" => work'.plan # <<>>
        /\ work'.plan = rest
        /\ Target(work', enabled') = work.graph
        /\ work' = Idle \/ work'.graph = work.graph
    <3>1. CASE rest = <<>>  BY <1>1, <2>1, <3>1, IdleIsEmpty DEF Target
    <3>2. CASE rest # <<>>  BY <1>1, <2>1, <2>2, <3>2 DEF Target, BootTypeOK
    <3> QED  BY <3>1, <3>2
  <2>4. InPlan(work') \subseteq InPlan(work) /\ InPlan(work) \subseteq InPlan(work') \cup {p}
    <3>1. InPlan(work') \subseteq InPlan(work)  BY <2>2, <2>3 DEF InPlan
    <3>2. ASSUME NEW i \in DOMAIN work.plan PROVE work.plan[i][1] \in InPlan(work') \cup {p}
      <4>1. CASE i = 1  BY <2>2, <4>1
      <4>2. CASE i # 1  BY <2>2, <2>3, <4>2 DEF InPlan
      <4> QED  BY <4>1, <4>2
    <3> QED  BY <3>1, <3>2 DEF InPlan
  <2> HIDE DEF p
  <2>5. ToMount' = ToMount /\ ~ Unread' /\ Running'
    BY <1>2, <1>3, <2>1 DEF ToMount, AppConfig, Unread, Running
  <2>6. /\ entries' \in [BootPlugins -> Entry]
        /\ \A q \in BootPlugins : q # p => entries'[q] = entries[q]
        /\ entries'[p].status = IF on THEN "running" ELSE "stopped"
    <3> DEFINE st == IF on THEN "running" ELSE "stopped"
    <3>1. entries' = WithStatus(entries, p, st)  BY <2>1 DEF Recorded, WithStatus
    <3>2. st \in {"running", "stopped", "error", "absent"} /\ entries \in [BootPlugins -> Entry]
      BY <1>1 DEF BootTypeOK
    <3> HIDE DEF st
    <3>3. /\ entries' \in [BootPlugins -> Entry] /\ entries'[p].status = st
          /\ \A q \in BootPlugins : q # p => entries'[q] = entries[q]
      BY <1>3, <3>1, <3>2, StatusSet
    <3> QED  BY <3>3 DEF st
  <2> HIDE DEF on
  <2>7. BootTypeOK' /\ Calls' /\ Beginning'
    <3>1. enabled' \subseteq BootPlugins /\ active' \subseteq BootPlugins  BY <1>1, <1>3, <2>1 DEF BootTypeOK
    <3> QED  BY <1>1, <1>2, <2>1, <2>3, <2>5, <2>6, <3>1 DEF BootTypeOK, Calls, Beginning
  <2>8. Homes'
    <3>1. Homed(active', ToMount) /\ Homed(enabled', ToMount) /\ Homed(work'.graph, ToMount) /\ Homed(InPlan(work'), ToMount)
      BY <1>1, <1>3, <2>1, <2>3, <2>4, IdleIsEmpty DEF Homes, Homed
    <3> QED  BY <1>1, <1>2, <1>3, <2>1, <2>5, <2>6, <3>1 DEF Homes
  <2>9. Planned'  BY <1>1, <2>2, <2>3, IdleIsEmpty, <1>2, <2>1 DEF Planned
  <2>10. Truthful'
    <3> SUFFICES ASSUME "plan" \notin mishaps, shutdowns = <<>>, NEW q \in BootPlugins
                 PROVE  /\ q \notin InPlan(work') => (q \in active' <=> q \in Target(work', enabled'))
                        /\ q \notin InPlan(work') \cup stale => (entries'[q].status = "running" <=> q \in active')
      BY <1>2, <2>1 DEF Truthful
    <3>1. CASE q = p  BY <1>3, <2>1, <2>3, <2>6, <3>1
    <3>2. CASE q # p
      <4>1. /\ q \notin InPlan(work) => (q \in active <=> q \in work.graph)
            /\ q \notin InPlan(work) \cup stale => (entries[q].status = "running" <=> q \in active)
        BY <1>1, <1>2, <1>3 DEF Truthful, Target
      <4> QED  BY <2>1, <2>3, <2>4, <2>6, <3>2, <4>1
    <3> QED  BY <3>1, <3>2
  <2>11. Calm => shutdowns = <<>>  BY <1>1, <1>2, IdleIsEmpty DEF AllStopped
  <2>12. AllStopped'  BY <1>2, <1>3, <2>1, <2>11, NothingClosed DEF AllStopped, Calm
  <2>13. Records'  BY <2>11, <1>1, <1>2, <1>3, <2>1, NothingClosed DEF Calm, Records
  <2> QED  BY <2>7, <2>8, <2>9, <2>10, <2>12, <2>13 DEF BootInv
<1> QED  BY <1>4, <1>5

-----------------------------------------------------------------------------
(* Shutdowns. *)

StepSet(ds, s, st)     == [ds EXCEPT ![s].step = st]
PlanSet(ds, s, q)      == [ds EXCEPT ![s].plan = q]
ClosingSet(ds, s, ps)  == [ds EXCEPT ![s].closing = ps]

\* es is ds but for the call s.
Alike(ds, es, s) ==
    /\ es \in Seq(AShutdown) /\ Len(es) = Len(ds) /\ DOMAIN es = DOMAIN ds
    /\ \A t \in DOMAIN ds : t # s => es[t] = ds[t]
    /\ es[s].who = ds[s].who

LEMMA StepSetIs ==
  ASSUME NEW ds \in Seq(AShutdown), NEW s \in DOMAIN ds, NEW st \in ShutdownSteps
  PROVE  LET es == StepSet(ds, s, st) IN
         Alike(ds, es, s) /\ es[s].step = st /\ es[s].plan = ds[s].plan /\ es[s].closing = ds[s].closing
<1> DEFINE es == StepSet(ds, s, st)
<1>1. ds[s] \in AShutdown /\ s \in 1 .. Len(ds) /\ DOMAIN ds = 1 .. Len(ds) /\ Len(ds) \in Nat  OBVIOUS
<1>2. es \in [1 .. Len(ds) -> AShutdown]
  <2>1. [ds[s] EXCEPT !.step = st] \in AShutdown  BY <1>1 DEF AShutdown
  <2>2. es = [ds EXCEPT ![s] = [ds[s] EXCEPT !.step = st]]  BY DEF StepSet
  <2> HIDE DEF es
  <2> QED  BY <1>1, <2>1, <2>2
<1>3. es \in Seq(AShutdown) /\ Len(es) = Len(ds) /\ DOMAIN es = DOMAIN ds
  <2> HIDE DEF es
  <2> QED  BY <1>1, <1>2
<1>4. /\ \A t \in DOMAIN ds : t # s => es[t] = ds[t]
      /\ es[s].who = ds[s].who /\ es[s].step = st /\ es[s].plan = ds[s].plan /\ es[s].closing = ds[s].closing
  BY <1>1 DEF StepSet, AShutdown
<1> QED  BY <1>3, <1>4 DEF Alike

LEMMA PlanSetIs ==
  ASSUME NEW ds \in Seq(AShutdown), NEW s \in DOMAIN ds, NEW q \in Seq(BootPlugins)
  PROVE  LET es == PlanSet(ds, s, q) IN
         Alike(ds, es, s) /\ es[s].step = ds[s].step /\ es[s].plan = q /\ es[s].closing = ds[s].closing
<1> DEFINE es == PlanSet(ds, s, q)
<1>1. ds[s] \in AShutdown /\ s \in 1 .. Len(ds) /\ DOMAIN ds = 1 .. Len(ds) /\ Len(ds) \in Nat  OBVIOUS
<1>2. es \in [1 .. Len(ds) -> AShutdown]
  <2>1. [ds[s] EXCEPT !.plan = q] \in AShutdown  BY <1>1 DEF AShutdown
  <2>2. es = [ds EXCEPT ![s] = [ds[s] EXCEPT !.plan = q]]  BY DEF PlanSet
  <2> HIDE DEF es
  <2> QED  BY <1>1, <2>1, <2>2
<1>3. es \in Seq(AShutdown) /\ Len(es) = Len(ds) /\ DOMAIN es = DOMAIN ds
  <2> HIDE DEF es
  <2> QED  BY <1>1, <1>2
<1>4. /\ \A t \in DOMAIN ds : t # s => es[t] = ds[t]
      /\ es[s].who = ds[s].who /\ es[s].step = ds[s].step /\ es[s].plan = q /\ es[s].closing = ds[s].closing
  BY <1>1 DEF PlanSet, AShutdown
<1> QED  BY <1>3, <1>4 DEF Alike

LEMMA ClosingSetIs ==
  ASSUME NEW ds \in Seq(AShutdown), NEW s \in DOMAIN ds, NEW ps \in SUBSET BootPlugins
  PROVE  LET es == ClosingSet(ds, s, ps) IN
         Alike(ds, es, s) /\ es[s].step = ds[s].step /\ es[s].plan = ds[s].plan /\ es[s].closing = ps
<1> DEFINE es == ClosingSet(ds, s, ps)
<1>1. ds[s] \in AShutdown /\ s \in 1 .. Len(ds) /\ DOMAIN ds = 1 .. Len(ds) /\ Len(ds) \in Nat  OBVIOUS
<1>2. es \in [1 .. Len(ds) -> AShutdown]
  <2>1. [ds[s] EXCEPT !.closing = ps] \in AShutdown  BY <1>1 DEF AShutdown
  <2>2. es = [ds EXCEPT ![s] = [ds[s] EXCEPT !.closing = ps]]  BY DEF ClosingSet
  <2> HIDE DEF es
  <2> QED  BY <1>1, <2>1, <2>2
<1>3. es \in Seq(AShutdown) /\ Len(es) = Len(ds) /\ DOMAIN es = DOMAIN ds
  <2> HIDE DEF es
  <2> QED  BY <1>1, <1>2
<1>4. /\ \A t \in DOMAIN ds : t # s => es[t] = ds[t]
      /\ es[s].who = ds[s].who /\ es[s].step = ds[s].step /\ es[s].plan = ds[s].plan /\ es[s].closing = ps
  BY <1>1 DEF ClosingSet, AShutdown
<1> QED  BY <1>3, <1>4 DEF Alike

\* A shutdown comes after the beginning of a run.
LEMMA PastBeginning ==
  ASSUME BootInv, Running, NEW s \in DOMAIN shutdowns
  PROVE  /\ ~ Unread /\ phase \in {"reconcile", "run", "up"} /\ shutdowns # <<>>
         /\ mounted = IF ClosedBy(shutdowns) THEN {} ELSE ToMount
         /\ s \in 1 .. 2 /\ s <= Len(shutdowns) /\ Len(shutdowns) \in {1, 2}
         /\ shutdowns \in Seq(AShutdown) /\ shutdowns[s] \in AShutdown
<1>1. BootTypeOK /\ Calls /\ Beginning /\ Homes  BY DEF BootInv
<1>2. shutdowns \in Seq(AShutdown) /\ shutdowns[s] \in AShutdown /\ s \in 1 .. Len(shutdowns) /\ shutdowns # <<>>
  BY <1>1 DEF BootTypeOK
<1>3. Len(shutdowns) \in {1, 2}
  <2>1. Len(shutdowns) \in Nat /\ Len(shutdowns) >= 1  BY <1>2
  <2>2. Len(shutdowns) <= 2  BY <1>1 DEF Calls
  <2>3. \A n \in Nat : n >= 1 /\ n <= 2 => n \in {1, 2}  OBVIOUS
  <2> QED  BY <2>1, <2>2, <2>3
<1>4. ~ Unread  BY <1>1, <1>2 DEF Beginning
<1>5. phase \in {"reconcile", "run", "up"}  BY <1>4 DEF Unread, Running, Phases
<1> QED  BY <1>1, <1>2, <1>3, <1>4, <1>5 DEF Homes

\* Once the process may end, if all went well: nothing runs.
LEMMA NoneRuns ==
  ASSUME BootInv, mishaps = {}, NEW s \in DOMAIN shutdowns,
         shutdowns[s].step \notin {"next", "asked"} \/ shutdowns[s].plan = <<>>,
         NEW p \in BootPlugins \ stale
  PROVE  entries[p].status # "running"
BY DEF BootInv, Records, RangeOf

\* A call moves on, and neither closes the containers nor is over or failed; or
\* it fails, with others having closed the containers before or for all to know.
LEMMA BusClosedOK ==
  ASSUME BootInv, NEW s \in DOMAIN shutdowns, BusClosed(s)
  PROVE  BootInv'
<1>1. BootTypeOK /\ Calls /\ Beginning /\ Homes /\ Planned /\ Truthful /\ AllStopped /\ Records
  BY DEF BootInv
<1>2. /\ Running /\ shutdowns[s].step = "bus" /\ bus' = "closed"
      /\ UNCHANGED <<phase, config, file, entries, mounted, active, enabled, dirty, work, mishaps, stale>>
      /\ shutdowns' = StepSet(shutdowns, s, "save")
  BY DEF BusClosed, Moves, StepSet
<1>3. /\ Alike(shutdowns, shutdowns', s) /\ shutdowns'[s].step = "save" /\ shutdowns'[s].plan = shutdowns[s].plan
      /\ shutdowns'[s].closing = shutdowns[s].closing
  BY <1>1, <1>2, StepSetIs DEF BootTypeOK, ShutdownSteps
<1>4. /\ ~ Unread /\ phase \in {"reconcile", "run", "up"} /\ shutdowns # <<>> /\ Len(shutdowns) \in {1, 2}
      /\ s \in 1 .. 2
  BY <1>2, PastBeginning
<1>5. shutdowns' # <<>> /\ ToMount' = ToMount /\ ~ Unread'
  BY <1>2, <1>3, <1>4 DEF Alike, ToMount, AppConfig, Unread
<1>6. ClosedBy(shutdowns) /\ ClosedBy(shutdowns') /\ (OverIn(shutdowns') <=> OverIn(shutdowns))
  BY <1>2, <1>3 DEF ClosedBy, OverIn, Alike
<1>7. BootTypeOK' /\ Calls' /\ Beginning'
  <2>1. BootTypeOK'  BY <1>1, <1>2, <1>3 DEF BootTypeOK, Alike
  <2>2. Calls'  BY <1>1, <1>2, <1>3, <1>4 DEF Calls, Alike
  <2>3. Beginning'  BY <1>5 DEF Beginning
  <2> QED  BY <2>1, <2>2, <2>3
<1>8. Homes'  BY <1>1, <1>2, <1>3, <1>5, <1>6 DEF Homes, Alike
<1>9. Planned' /\ Truthful'  BY <1>1, <1>2, <1>4, <1>5 DEF Planned, Truthful, Running
<1>10. AllStopped'  BY <1>1, <1>2, <1>3, <1>4, <1>6 DEF AllStopped, Calm, Alike
<1>11. Records'
  <2>1. \A t \in DOMAIN shutdowns : shutdowns'[t].step \in {"save", "over"} => bus' = "closed"
    BY <1>1, <1>2, <1>3 DEF Records, Alike
  <2>2. mishaps = {} => /\ Len(shutdowns) = 2 => shutdowns'[1].step = "over"
                        /\ Len(shutdowns) = 1 => shutdowns'[1].step # "failed"
    BY <1>1, <1>2, <1>3, <1>4 DEF Records, Alike
  <2>3. ASSUME mishaps = {}, NEW p \in BootPlugins \ stale PROVE entries[p].status # "running"
    BY <1>2, <2>3, NoneRuns
  <2> QED  BY <1>1, <1>2, <1>3, <1>4, <1>6, <2>1, <2>2, <2>3 DEF Records, Alike
<1> QED  BY <1>7, <1>8, <1>9, <1>10, <1>11 DEF BootInv

LEMMA ContainersClosedOK ==
  ASSUME BootInv, NEW s \in DOMAIN shutdowns, ContainersClosed(s)
  PROVE  BootInv'
<1>1. BootTypeOK /\ Calls /\ Beginning /\ Homes /\ Planned /\ Truthful /\ AllStopped /\ Records
  BY DEF BootInv
<1>2. /\ Running /\ shutdowns[s].step = "containers" /\ active' = active \ shutdowns[s].closing /\ mounted' = {}
      /\ UNCHANGED <<phase, config, file, entries, enabled, dirty, work, bus, mishaps, stale>>
      /\ shutdowns' = StepSet(shutdowns, s, "bus")
  BY DEF ContainersClosed, Moves, StepSet
<1>3. /\ Alike(shutdowns, shutdowns', s) /\ shutdowns'[s].step = "bus" /\ shutdowns'[s].plan = shutdowns[s].plan
      /\ shutdowns'[s].closing = shutdowns[s].closing
  BY <1>1, <1>2, StepSetIs DEF BootTypeOK, ShutdownSteps
<1>4. /\ ~ Unread /\ phase \in {"reconcile", "run", "up"} /\ shutdowns # <<>> /\ Len(shutdowns) \in {1, 2}
      /\ s \in 1 .. 2
  BY <1>2, PastBeginning
<1>5. shutdowns' # <<>> /\ ToMount' = ToMount /\ ~ Unread'
  BY <1>2, <1>3, <1>4 DEF Alike, ToMount, AppConfig, Unread
<1>6. ClosedBy(shutdowns') /\ (OverIn(shutdowns') <=> OverIn(shutdowns))
  BY <1>2, <1>3 DEF ClosedBy, OverIn, Alike
<1>7. BootTypeOK' /\ Calls' /\ Beginning'
  <2>1. BootTypeOK'  BY <1>1, <1>2, <1>3 DEF BootTypeOK, Alike
  <2>2. Calls'  BY <1>1, <1>2, <1>3, <1>4 DEF Calls, Alike
  <2>3. Beginning'  BY <1>5 DEF Beginning
  <2> QED  BY <2>1, <2>2, <2>3
<1>8. Homes'  BY <1>1, <1>2, <1>3, <1>5, <1>6 DEF Homes, Homed, Alike
<1>9. Planned' /\ Truthful'  BY <1>1, <1>2, <1>4, <1>5 DEF Planned, Truthful, Running
<1>10. AllStopped'  BY <1>1, <1>2, <1>3, <1>4, <1>6 DEF AllStopped, Calm, Alike
<1>11. Records'
  <2>1. \A t \in DOMAIN shutdowns : shutdowns'[t].step \in {"save", "over"} => bus' = "closed"
    BY <1>1, <1>2, <1>3 DEF Records, Alike
  <2>2. mishaps = {} => /\ Len(shutdowns) = 2 => shutdowns'[1].step = "over"
                        /\ Len(shutdowns) = 1 => shutdowns'[1].step # "failed"
    BY <1>1, <1>2, <1>3, <1>4 DEF Records, Alike
  <2>3. ASSUME mishaps = {}, NEW p \in BootPlugins \ stale PROVE entries[p].status # "running"
    BY <1>2, <2>3, NoneRuns
  <2> QED  BY <1>1, <1>2, <1>3, <1>4, <1>6, <2>1, <2>2, <2>3 DEF Records, Alike
<1> QED  BY <1>7, <1>8, <1>9, <1>10, <1>11 DEF BootInv

\* A call asks the container of the next plugin, or is through with its plan.
LEMMA ShutdownGoesOn ==
  ASSUME BootInv, NEW s \in DOMAIN shutdowns, ShutdownNext(s),
         shutdowns[s].plan = <<>> \/ HomeOf[Head(shutdowns[s].plan)] \in mounted
  PROVE  BootInv'
<1>1. BootTypeOK /\ Calls /\ Beginning /\ Homes /\ Planned /\ Truthful /\ AllStopped /\ Records
  BY DEF BootInv
<1>2. /\ Running /\ shutdowns[s].step = "next"
      /\ UNCHANGED <<phase, config, file, entries, mounted, active, enabled, dirty, work, bus, mishaps, stale>>
  BY DEF ShutdownNext
<1>4. /\ ~ Unread /\ phase \in {"reconcile", "run", "up"} /\ shutdowns # <<>> /\ Len(shutdowns) \in {1, 2}
      /\ s \in 1 .. 2 /\ mounted = IF ClosedBy(shutdowns) THEN {} ELSE ToMount
      /\ shutdowns \in Seq(AShutdown)
  BY <1>2, PastBeginning
<1> DEFINE C == { p \in active : HomeOf[p] \in mounted }
<1>3. /\ Alike(shutdowns, shutdowns', s) /\ shutdowns'[s].plan = shutdowns[s].plan
      /\ \/ shutdowns[s].plan = <<>> /\ shutdowns'[s].step = "containers" /\ shutdowns'[s].closing = C
         \/ shutdowns[s].plan # <<>> /\ shutdowns'[s].step = "asked"
  <2>1. CASE shutdowns[s].plan = <<>>
    <3> DEFINE ds == StepSet(shutdowns, s, "containers")
    <3>1. shutdowns' = ClosingSet(ds, s, C)  BY <2>1 DEF ShutdownNext, StepSet, ClosingSet
    <3>2. Alike(shutdowns, ds, s) /\ ds[s].step = "containers" /\ ds[s].plan = shutdowns[s].plan
      BY <1>4, StepSetIs DEF ShutdownSteps
    <3>3. C \in SUBSET BootPlugins  BY <1>1 DEF BootTypeOK
    <3> HIDE DEF ds, C
    <3>4. /\ Alike(ds, shutdowns', s) /\ shutdowns'[s].step = "containers" /\ shutdowns'[s].closing = C
          /\ shutdowns'[s].plan = ds[s].plan
      BY <3>1, <3>2, <3>3, ClosingSetIs DEF Alike
    <3> QED  BY <2>1, <3>2, <3>4 DEF Alike
  <2>2. CASE shutdowns[s].plan # <<>>
    <3>1. shutdowns' = StepSet(shutdowns, s, "asked")  BY <2>2 DEF ShutdownNext, Moves, StepSet
    <3> QED  BY <1>4, <2>2, <3>1, StepSetIs DEF ShutdownSteps
  <2> QED  BY <2>1, <2>2
<1>5. shutdowns' # <<>> /\ ToMount' = ToMount /\ ~ Unread'
  BY <1>2, <1>3, <1>4 DEF Alike, ToMount, AppConfig, Unread
<1>6. (ClosedBy(shutdowns') <=> ClosedBy(shutdowns)) /\ (OverIn(shutdowns') <=> OverIn(shutdowns))
  BY <1>2, <1>3 DEF ClosedBy, OverIn, Alike
<1>7. BootTypeOK' /\ Calls' /\ Beginning'
  <2>1. BootTypeOK'  BY <1>1, <1>2, <1>3 DEF BootTypeOK, Alike
  <2>2. Calls'  BY <1>1, <1>2, <1>3, <1>4 DEF Calls, Alike
  <2>3. Beginning'  BY <1>5 DEF Beginning
  <2> QED  BY <2>1, <2>2, <2>3
<1>8. Homes'  BY <1>1, <1>2, <1>3, <1>5, <1>6 DEF Homes, Alike
<1>9. Planned' /\ Truthful'  BY <1>1, <1>2, <1>4, <1>5 DEF Planned, Truthful, Running
<1>10. AllStopped'
  <2>1. Calm => active \subseteq C  BY <1>1, <1>4 DEF AllStopped, Homes, Homed
  <2> HIDE DEF C
  <2> QED  BY <1>1, <1>2, <1>3, <1>4, <1>6, <2>1 DEF AllStopped, Calm, Alike
<1>11. Records'
  <2>1. \A t \in DOMAIN shutdowns : shutdowns'[t].step \in {"save", "over"} => bus' = "closed"
    BY <1>1, <1>2, <1>3 DEF Records, Alike
  <2>2. mishaps = {} => /\ Len(shutdowns) = 2 => shutdowns'[1].step = "over"
                        /\ Len(shutdowns) = 1 => shutdowns'[1].step # "failed"
    BY <1>1, <1>2, <1>3, <1>4 DEF Records, Alike
  <2>3. ASSUME mishaps = {}, NEW t \in DOMAIN shutdowns, NEW p \in BootPlugins \ stale, entries[p].status = "running"
        PROVE  shutdowns'[t].step \in {"next", "asked"} /\ p \in RangeOf(shutdowns'[t].plan)
    <3>1. shutdowns[t].step \in {"next", "asked"} /\ shutdowns[t].plan # <<>> /\ p \in RangeOf(shutdowns[t].plan)
      BY <1>1, <2>3, NoneRuns DEF Records
    <3> HIDE DEF C
    <3> QED  BY <1>3, <3>1 DEF Alike
  <2> QED  BY <1>1, <1>2, <1>3, <1>4, <1>6, <2>1, <2>2, <2>3 DEF Records, Alike
<1> QED  BY <1>7, <1>8, <1>9, <1>10, <1>11 DEF BootInv

\* A call fails.  If nothing else has gone wrong, then because another had
\* closed the containers.
LEMMA CallFails ==
  ASSUME BootInv, Running, NEW s \in DOMAIN shutdowns, shutdowns[s].step \in {"next", "asked"},
         NEW p \in BootPlugins, HomeOf[p] \in ToMount, p \in RangeOf(shutdowns[s].plan),
         entries' = WithStatus(entries, p, "error"), Settles(s, "failed"),
         UNCHANGED <<config, file, mounted, active, enabled, dirty, work, bus, stale>>,
         \/ mishaps' = mishaps \cup {"shutdown"}
         \/ mishaps' = mishaps /\ Len(shutdowns) # 1 /\ HomeOf[p] \notin mounted
  PROVE  BootInv'
<1>1. BootTypeOK /\ Calls /\ Beginning /\ Homes /\ Planned /\ Truthful /\ AllStopped /\ Records
  BY DEF BootInv
<1>4. /\ ~ Unread /\ phase \in {"reconcile", "run", "up"} /\ shutdowns # <<>> /\ Len(shutdowns) \in {1, 2}
      /\ s \in 1 .. 2 /\ mounted = IF ClosedBy(shutdowns) THEN {} ELSE ToMount
      /\ shutdowns \in Seq(AShutdown)
  BY PastBeginning
<1>2. /\ phase' = phase \/ phase' = "exited"
      /\ shutdowns' = StepSet(shutdowns, s, "failed")
  BY DEF Settles, Exits, Moves, StepSet
<1>3. /\ Alike(shutdowns, shutdowns', s) /\ shutdowns'[s].step = "failed" /\ shutdowns'[s].plan = shutdowns[s].plan
      /\ shutdowns'[s].closing = shutdowns[s].closing
  BY <1>2, <1>4, StepSetIs DEF ShutdownSteps
<1>5. shutdowns' # <<>> /\ ToMount' = ToMount /\ ~ Unread'
  BY <1>2, <1>3, <1>4 DEF Alike, ToMount, AppConfig, Unread
<1>6. (ClosedBy(shutdowns') <=> ClosedBy(shutdowns)) /\ (OverIn(shutdowns') <=> OverIn(shutdowns))
  BY <1>3 DEF ClosedBy, OverIn, Alike
<1>e. /\ entries' \in [BootPlugins -> Entry] /\ entries'[p].status = "error" /\ entries'[p].on = entries[p].on
      /\ \A q \in BootPlugins : q # p => entries'[q] = entries[q]
  BY <1>1, StatusSet DEF BootTypeOK
<1>7. BootTypeOK' /\ Calls' /\ Beginning'
  <2>1. BootTypeOK'  BY <1>1, <1>2, <1>3, <1>e DEF BootTypeOK, Alike
  <2>2. Calls'  BY <1>1, <1>3, <1>4 DEF Calls, Alike
  <2>3. Beginning'  BY <1>5 DEF Beginning
  <2> QED  BY <2>1, <2>2, <2>3
<1>8. Homes'
  <2>1. \A t \in DOMAIN shutdowns' : Homed(RangeOf(shutdowns'[t].plan), ToMount')
    BY <1>1, <1>3, <1>5 DEF Homes, Alike
  <2>2. /\ Homed(active', ToMount') /\ Homed(enabled', ToMount')
        /\ Homed(work'.graph, ToMount') /\ Homed(InPlan(work'), ToMount')
    BY <1>1, <1>2, <1>5 DEF Homes, InPlan
  <2>3. /\ \A q \in BootPlugins : entries'[q] # Fresh[q] => HomeOf[q] \in ToMount'
        /\ \A q \in BootPlugins : file'[q] # Fresh[q] => HomeOf[q] \in Containers
    BY <1>1, <1>2, <1>5, <1>e DEF Homes
  <2>4. phase' \in {"reconcile", "run", "up"} => mounted' = IF ClosedBy(shutdowns)' THEN {} ELSE ToMount'
    BY <1>1, <1>2, <1>3, <1>5, <1>6 DEF Homes, Alike
  <2> QED  BY <2>1, <2>2, <2>3, <2>4 DEF Homes
<1>9. Planned' /\ Truthful'
  <2>1. Planned'  BY <1>1, <1>2, <1>4, <1>5 DEF Planned, Running, Phases
  <2>2. Truthful'  BY <1>5 DEF Truthful
  <2> QED  BY <2>1, <2>2
<1>10. Calm' => Calm /\ mishaps' = mishaps /\ ClosedBy(shutdowns)
  <2>1. CASE mishaps' = mishaps \cup {"shutdown"}  BY <2>1 DEF Calm
  <2>2. CASE mishaps' = mishaps /\ HomeOf[p] \notin mounted  BY <1>4, <2>2 DEF Calm
  <2> QED  BY <2>1, <2>2
<1>11. AllStopped'  BY <1>1, <1>2, <1>3, <1>4, <1>6, <1>10 DEF AllStopped, Alike
<1>12. Records'
  <2>1. \A t \in DOMAIN shutdowns : shutdowns'[t].step \in {"save", "over"} => bus' = "closed"
    BY <1>1, <1>3 DEF Records, Alike
  <2> SUFFICES ASSUME mishaps' = {}
               PROVE  /\ Len(shutdowns') = 2 => shutdowns'[1].step = "over"
                      /\ Len(shutdowns') = 1 => shutdowns'[1].step # "failed"
                      /\ \A q \in BootPlugins \ stale : entries'[q].status # "running"
                      /\ OverIn(shutdowns')
                      /\ config = "user" =>
                           \A q \in BootPlugins \ stale : file[q].status # "running" /\ file[q].on = entries'[q].on
    BY <1>3, <2>1 DEF Records, Alike
  <2>2. mishaps = {} /\ Len(shutdowns) = 2  BY <1>4
  <2>3. 1 \in DOMAIN shutdowns /\ shutdowns[1].step = "over" /\ s # 1  BY <1>1, <1>4, <2>2 DEF Records
  <2>4. \A q \in BootPlugins \ stale : entries[q].status # "running"  BY <2>2, <2>3, NoneRuns
  <2>5. OverIn(shutdowns) /\ OverIn(shutdowns')  BY <1>6, <2>3 DEF OverIn
  <2>6. config = "user" => \A q \in BootPlugins \ stale : file[q].status # "running" /\ file[q].on = entries[q].on
    BY <1>1, <2>2, <2>5 DEF Records
  <2>7. shutdowns'[1].step = "over" /\ Len(shutdowns') = 2  BY <1>3, <2>2, <2>3 DEF Alike
  <2> QED  BY <1>e, <2>4, <2>5, <2>6, <2>7
<1> QED  BY <1>7, <1>8, <1>9, <1>11, <1>12 DEF BootInv

\* The next plugin of a call's plan has a home.
LEMMA NextOfCall ==
  ASSUME BootInv, Running, NEW s \in DOMAIN shutdowns, shutdowns[s].plan # <<>>
  PROVE  LET p == Head(shutdowns[s].plan) IN
         /\ p \in BootPlugins /\ HomeOf[p] \in ToMount /\ p \in RangeOf(shutdowns[s].plan)
         /\ shutdowns[s].plan \in Seq(BootPlugins)
BY PastBeginning, HeadAndTail, RangeOfTail DEF AShutdown, BootInv, Homes, Homed

LEMMA ShutdownNextOK ==
  ASSUME BootInv, NEW s \in DOMAIN shutdowns, ShutdownNext(s)
  PROVE  BootInv'
<1> DEFINE p == Head(shutdowns[s].plan)
<1>1. CASE shutdowns[s].plan = <<>> \/ HomeOf[p] \in mounted  BY <1>1, ShutdownGoesOn
<1>2. CASE shutdowns[s].plan # <<>> /\ HomeOf[p] \notin mounted
  <2>1. /\ Running /\ shutdowns[s].step = "next" /\ Settles(s, "failed")
        /\ UNCHANGED <<config, file, mounted, active, enabled, dirty, work, bus, stale>>
        /\ mishaps' = IF Len(shutdowns) = 1 THEN mishaps \cup {"shutdown"} ELSE mishaps
    BY <1>2 DEF ShutdownNext
  <2>2. entries' = WithStatus(entries, p, "error")  BY <1>2 DEF ShutdownNext, WithStatus
  <2>3. p \in BootPlugins /\ HomeOf[p] \in ToMount /\ p \in RangeOf(shutdowns[s].plan)
    BY <1>2, <2>1, NextOfCall
  <2> HIDE DEF p
  <2> QED  BY <1>2, <2>1, <2>2, <2>3, CallFails
<1> QED  BY <1>1, <1>2

\* A plugin has stopped.
LEMMA PluginStopped ==
  ASSUME BootInv, NEW s \in DOMAIN shutdowns, ShutdownAnswer(s, TRUE)
  PROVE  BootInv'
<1>1. BootTypeOK /\ Calls /\ Beginning /\ Homes /\ Planned /\ Truthful /\ AllStopped /\ Records
  BY DEF BootInv
<1> DEFINE p == Head(shutdowns[s].plan)
           rest == Tail(shutdowns[s].plan)
<1>2. /\ Running /\ shutdowns[s].step = "asked" /\ active' = active \ {p}
      /\ UNCHANGED <<phase, config, file, mounted, enabled, dirty, work, bus, mishaps, stale>>
  BY DEF ShutdownAnswer
<1>p. shutdowns[s].plan # <<>>  BY <1>1, <1>2 DEF Calls
<1>4. /\ ~ Unread /\ phase \in {"reconcile", "run", "up"} /\ shutdowns # <<>> /\ Len(shutdowns) \in {1, 2}
      /\ s \in 1 .. 2 /\ mounted = IF ClosedBy(shutdowns) THEN {} ELSE ToMount
      /\ shutdowns \in Seq(AShutdown)
  BY <1>2, PastBeginning
<1>h. p \in BootPlugins /\ HomeOf[p] \in ToMount /\ shutdowns[s].plan \in Seq(BootPlugins)
  BY <1>2, <1>p, NextOfCall
<1>r. /\ rest \in Seq(BootPlugins) /\ RangeOf(rest) \subseteq RangeOf(shutdowns[s].plan)
      /\ RangeOf(shutdowns[s].plan) = RangeOf(rest) \cup {p}
  BY <1>p, <1>h, HeadAndTail, RangeOfTail
<1>e. /\ entries' \in [BootPlugins -> Entry] /\ entries'[p].status = "stopped" /\ entries'[p].on = entries[p].on
      /\ \A q \in BootPlugins : q # p => entries'[q] = entries[q]
  <2>1. entries' = WithStatus(entries, p, "stopped")  BY DEF ShutdownAnswer, Recorded, WithStatus
  <2> HIDE DEF p
  <2> QED  BY <1>1, <1>h, <2>1, StatusSet DEF BootTypeOK
<1>3. /\ Alike(shutdowns, shutdowns', s) /\ shutdowns'[s].step = "next" /\ shutdowns'[s].plan = rest
  <2> DEFINE ds == PlanSet(shutdowns, s, rest)
  <2>1. shutdowns' = StepSet(ds, s, "next")  BY DEF ShutdownAnswer, StepSet, PlanSet
  <2> HIDE DEF rest
  <2>2. Alike(shutdowns, ds, s) /\ ds[s].plan = rest  BY <1>4, <1>r, PlanSetIs
  <2> HIDE DEF ds
  <2>3. Alike(ds, shutdowns', s) /\ shutdowns'[s].step = "next" /\ shutdowns'[s].plan = ds[s].plan
    <3>1. ds \in Seq(AShutdown) /\ s \in DOMAIN ds /\ "next" \in ShutdownSteps
      BY <2>2 DEF Alike, ShutdownSteps
    <3> QED  BY <2>1, <3>1, StepSetIs
  <2> QED  BY <2>2, <2>3 DEF Alike
<1> HIDE DEF p, rest
<1>5. shutdowns' # <<>> /\ ToMount' = ToMount /\ ~ Unread'
  BY <1>2, <1>3, <1>4 DEF Alike, ToMount, AppConfig, Unread
<1>6. (ClosedBy(shutdowns') <=> ClosedBy(shutdowns)) /\ (OverIn(shutdowns') <=> OverIn(shutdowns))
  BY <1>2, <1>3 DEF ClosedBy, OverIn, Alike
<1>7. BootTypeOK' /\ Calls' /\ Beginning'
  <2>1. BootTypeOK'  BY <1>1, <1>2, <1>3, <1>e DEF BootTypeOK, Alike
  <2>2. Calls'  BY <1>1, <1>2, <1>3, <1>4 DEF Calls, Alike
  <2>3. Beginning'  BY <1>5 DEF Beginning
  <2> QED  BY <2>1, <2>2, <2>3
<1>8. Homes'
  <2>1. \A t \in DOMAIN shutdowns : Homed(RangeOf(shutdowns'[t].plan), ToMount)
    BY <1>1, <1>3, <1>r DEF Homes, Homed, Alike
  <2>2. Homed(active', ToMount)  BY <1>1, <1>2 DEF Homes, Homed
  <2> QED  BY <1>1, <1>2, <1>3, <1>5, <1>6, <1>e, <1>h, <2>1, <2>2 DEF Homes, Alike
<1>9. Planned' /\ Truthful'  BY <1>1, <1>2, <1>4, <1>5 DEF Planned, Truthful, Running
<1>10. AllStopped'  BY <1>1, <1>2, <1>3, <1>4, <1>6 DEF AllStopped, Calm, Alike
<1>11. Records'
  <2>1. \A t \in DOMAIN shutdowns : shutdowns'[t].step \in {"save", "over"} => bus' = "closed"
    BY <1>1, <1>2, <1>3 DEF Records, Alike
  <2> SUFFICES ASSUME mishaps = {}
               PROVE  /\ Len(shutdowns') = 2 => shutdowns'[1].step = "over"
                      /\ Len(shutdowns') = 1 => shutdowns'[1].step # "failed"
                      /\ \A t \in DOMAIN shutdowns, q \in BootPlugins \ stale : entries'[q].status = "running" =>
                            shutdowns'[t].step \in {"next", "asked"} /\ q \in RangeOf(shutdowns'[t].plan)
                      /\ OverIn(shutdowns') /\ config = "user" =>
                           \A q \in BootPlugins \ stale : file[q].status # "running" /\ file[q].on = entries'[q].on
    BY <1>2, <1>3, <1>4, <2>1 DEF Records, Alike
  <2>2. /\ Len(shutdowns') = 2 => shutdowns'[1].step = "over"
        /\ Len(shutdowns') = 1 => shutdowns'[1].step # "failed"
    BY <1>1, <1>2, <1>3, <1>4 DEF Records, Alike
  <2>3. ASSUME NEW t \in DOMAIN shutdowns, NEW q \in BootPlugins \ stale, entries'[q].status = "running"
        PROVE  shutdowns'[t].step \in {"next", "asked"} /\ q \in RangeOf(shutdowns'[t].plan)
    BY <1>e, <2>3, <1>1, <1>3, <1>r DEF Records, Alike
  <2>4. OverIn(shutdowns') /\ config = "user" =>
            \A q \in BootPlugins \ stale : file[q].status # "running" /\ file[q].on = entries'[q].on
    BY <1>1, <1>6, <1>e DEF Records
  <2> QED  BY <2>2, <2>3, <2>4
<1> QED  BY <1>7, <1>8, <1>9, <1>10, <1>11 DEF BootInv

LEMMA ShutdownAnswerOK ==
  ASSUME BootInv, NEW s \in DOMAIN shutdowns, NEW ok \in BOOLEAN, ShutdownAnswer(s, ok)
  PROVE  BootInv'
<1>1. CASE ok  BY <1>1, PluginStopped DEF ShutdownAnswer
<1>2. CASE ~ ok
  <2> DEFINE p == Head(shutdowns[s].plan)
  <2>1. /\ Running /\ shutdowns[s].step = "asked" /\ Settles(s, "failed")
        /\ UNCHANGED <<config, file, mounted, active, enabled, dirty, work, bus, stale>>
        /\ mishaps' = mishaps \cup {"shutdown"}
    BY <1>2 DEF ShutdownAnswer
  <2>2. entries' = WithStatus(entries, p, "error")  BY <1>2 DEF ShutdownAnswer, WithStatus
  <2>3. shutdowns[s].plan # <<>>  BY <2>1 DEF BootInv, Calls
  <2>4. p \in BootPlugins /\ HomeOf[p] \in ToMount /\ p \in RangeOf(shutdowns[s].plan)
    BY <2>1, <2>3, NextOfCall
  <2> HIDE DEF p
  <2> QED  BY <2>1, <2>2, <2>4, CallFails
<1> QED  BY <1>1, <1>2

LEMMA LastOfAppended ==
  ASSUME NEW S, NEW q \in Seq(S), NEW e \in S
  PROVE  Append(q, e)[Len(q) + 1] = e
OBVIOUS

LEMMA SecondOfTwo ==
  ASSUME NEW S, NEW q \in Seq(S), Len(q) = 1, NEW e \in S
  PROVE  /\ Append(q, e) \in Seq(S) /\ Len(Append(q, e)) = 2
         /\ DOMAIN Append(q, e) = 1 .. 2 /\ DOMAIN q = 1 .. 1
         /\ Append(q, e)[1] = q[1] /\ Append(q, e)[2] = e
<1>1. Append(q, e) \in Seq(S)  OBVIOUS
<1>2. Len(Append(q, e)) = 2  OBVIOUS
<1>3. DOMAIN Append(q, e) = 1 .. Len(Append(q, e)) /\ DOMAIN q = 1 .. Len(q)  BY <1>1
<1>4. \A i \in 1 .. Len(q) : Append(q, e)[i] = q[i]  OBVIOUS
<1>5. Append(q, e)[Len(q) + 1] = e  BY LastOfAppended, Zenon
<1>6. 1 \in 1 .. Len(q) /\ Len(q) + 1 = 2  OBVIOUS
<1> QED  BY <1>1, <1>2, <1>3, <1>4, <1>5, <1>6

\* Saving is the last thing that shutdown() does; then ECore.quit goes on to
\* another call.
LEMMA SavedOK ==
  ASSUME BootInv, NEW s \in DOMAIN shutdowns, Saved(s)
  PROVE  BootInv'
<1>1. BootTypeOK /\ Calls /\ Beginning /\ Homes /\ Planned /\ Truthful /\ AllStopped /\ Records
  BY DEF BootInv
<1>2. /\ Running /\ shutdowns[s].step = "save" /\ Settles(s, "over")
      /\ UNCHANGED <<config, entries, mounted, active, enabled, dirty, work, bus, mishaps, stale>>
      /\ file' = IF AppConfig.registry THEN entries ELSE file
  BY DEF Saved
<1>4. /\ ~ Unread /\ phase \in {"reconcile", "run", "up"} /\ shutdowns # <<>> /\ Len(shutdowns) \in {1, 2}
      /\ s \in 1 .. 2 /\ mounted = IF ClosedBy(shutdowns) THEN {} ELSE ToMount
      /\ shutdowns \in Seq(AShutdown)
  BY <1>2, PastBeginning
<1> DEFINE ds == StepSet(shutdowns, s, "over")
<1>3. /\ Alike(shutdowns, ds, s) /\ ds[s].step = "over" /\ ds[s].plan = shutdowns[s].plan
      /\ ds[s].closing = shutdowns[s].closing
  BY <1>4, StepSetIs DEF ShutdownSteps
<1>5. \/ shutdowns' = ds
      \/ /\ Len(shutdowns) = 1 /\ shutdowns[1].who = "core"
         /\ \E order \in Orders(enabled) : shutdowns' = Append(ds, Shutdown("user", order))
  <2>1. CASE shutdowns[s].who = "core" /\ phase = "up" /\ Len(shutdowns) = 1
    BY <1>4, <2>1, <1>2 DEF Settles, StepSet
  <2>2. CASE ~ (shutdowns[s].who = "core" /\ phase = "up" /\ Len(shutdowns) = 1)
    BY <1>2, <2>2 DEF Settles, Moves, StepSet
  <2> QED  BY <2>1, <2>2
<1> HIDE DEF ds
<1>6. /\ phase' = phase \/ phase' = "exited"
      /\ ToMount' = ToMount /\ ~ Unread'
  BY <1>2, <1>4 DEF Settles, Exits, ToMount, AppConfig, Unread
<1>7. /\ shutdowns' \in Seq(AShutdown) /\ DOMAIN ds \subseteq DOMAIN shutdowns' /\ Len(shutdowns') \in {1, 2}
      /\ Len(ds) = Len(shutdowns) /\ DOMAIN ds = DOMAIN shutdowns
      /\ \A t \in DOMAIN ds : shutdowns'[t] = ds[t]
      /\ \A t \in DOMAIN shutdowns' : t \notin DOMAIN ds =>
            /\ Len(shutdowns) = 1 /\ t = 2 /\ shutdowns'[t].who = "user"
            /\ shutdowns'[t].step = "next" /\ RangeOf(shutdowns'[t].plan) = enabled
  <2>1. ds \in Seq(AShutdown) /\ Len(ds) = Len(shutdowns) /\ DOMAIN ds = DOMAIN shutdowns  BY <1>3 DEF Alike
  <2>2. CASE shutdowns' = ds  BY <1>4, <2>1, <2>2
  <2>3. CASE shutdowns' # ds
    <3>1. Len(shutdowns) = 1 /\ shutdowns[1].who = "core"  BY <1>5, <2>3
    <3>2. PICK order \in Orders(enabled) : shutdowns' = Append(ds, Shutdown("user", order))  BY <1>5, <2>3
    <3>3. order \in Seq(BootPlugins) /\ RangeOf(order) = enabled  BY <1>1, OrdersHaveAll DEF BootTypeOK
    <3> DEFINE new == Shutdown("user", order)
    <3>4. new \in AShutdown /\ new.who = "user" /\ new.step = "next" /\ new.plan = order
      BY <3>3 DEF Shutdown, AShutdown, ShutdownSteps
    <3> HIDE DEF new
    <3>5. /\ shutdowns' \in Seq(AShutdown) /\ Len(shutdowns') = 2 /\ DOMAIN shutdowns' = 1 .. 2 /\ DOMAIN ds = 1 .. 1
          /\ shutdowns'[1] = ds[1] /\ shutdowns'[2] = new
      BY <3>2, <2>1, <3>1, <3>4, SecondOfTwo DEF new
    <3>6. \A t \in 1 .. 2 : t \notin 1 .. 1 => t = 2  OBVIOUS
    <3>7. \A t \in 1 .. 1 : t = 1  OBVIOUS
    <3> QED  BY <2>1, <3>1, <3>3, <3>4, <3>5, <3>6, <3>7
  <2> QED  BY <2>2, <2>3
<1>8. ClosedBy(shutdowns) /\ ClosedBy(shutdowns') /\ OverIn(shutdowns')
  BY <1>2, <1>3, <1>7 DEF ClosedBy, OverIn
<1>9. BootTypeOK' /\ Calls' /\ Beginning'
  <2>1. file' \in [BootPlugins -> Entry]  BY <1>1, <1>2 DEF BootTypeOK
  <2>2. BootTypeOK'  BY <1>1, <1>2, <1>6, <1>7, <2>1 DEF BootTypeOK
  <2>3. Calls'
    <3>1. \A t \in DOMAIN shutdowns' : shutdowns'[t].step = "asked" => shutdowns'[t].plan # <<>>
      BY <1>1, <1>3, <1>7 DEF Calls, Alike
    <3>2. Len(shutdowns') = 2 => shutdowns'[2].who = "user"
      <4>1. CASE Len(shutdowns) = 2  BY <1>4, <4>1, <1>1, <1>3, <1>7 DEF Calls, Alike
      <4>2. CASE Len(shutdowns) = 1 /\ Len(shutdowns') = 2  BY <1>4, <1>7, <4>2, <1>3 DEF Alike
      <4> QED  BY <1>4, <4>1, <4>2
    <3> QED  BY <1>7, <3>1, <3>2 DEF Calls
  <2>4. Beginning'  BY <1>6 DEF Beginning
  <2> QED  BY <2>2, <2>3, <2>4
<1>10. Homes'
  <2>1. \A t \in DOMAIN shutdowns' : Homed(RangeOf(shutdowns'[t].plan), ToMount)
    <3> TAKE t \in DOMAIN shutdowns'
    <3>1. CASE t \in DOMAIN ds  BY <1>1, <1>3, <1>7, <3>1 DEF Homes, Alike
    <3>2. CASE t \notin DOMAIN ds  BY <1>1, <1>7, <3>2 DEF Homes
    <3> QED  BY <3>1, <3>2
  <2>2. \A p \in BootPlugins : file'[p] # Fresh[p] => HomeOf[p] \in Containers
    BY <1>1, <1>2, ToMountIs DEF Homes
  <2> QED  BY <1>1, <1>2, <1>4, <1>6, <1>8, <2>1, <2>2 DEF Homes
<1>11. Planned' /\ Truthful'
  <2>1. shutdowns' # <<>>  BY <1>7
  <2> QED  BY <1>1, <1>2, <1>4, <1>6, <2>1 DEF Planned, Truthful, Running, Phases
<1>12. AllStopped'
  <2>1. \A t \in DOMAIN shutdowns' : shutdowns'[t].step = "containers" =>
           t \in DOMAIN shutdowns /\ shutdowns[t].step = "containers" /\ shutdowns[t].closing = shutdowns'[t].closing
    BY <1>3, <1>7 DEF Alike
  <2>2. Calm => active = {}  BY <1>1, <1>8 DEF AllStopped
  <2> QED  BY <1>1, <1>2, <1>4, <2>1, <2>2 DEF AllStopped, Calm
<1>13. Records'
  <2>1. bus = "closed"  BY <1>1, <1>2 DEF Records
  <2> SUFFICES ASSUME mishaps = {}
               PROVE  /\ Len(shutdowns') = 2 => shutdowns'[1].step = "over"
                      /\ Len(shutdowns') = 1 => shutdowns'[1].step # "failed"
                      /\ \A q \in BootPlugins \ stale : entries[q].status # "running"
                      /\ config = "user" =>
                           \A q \in BootPlugins \ stale : file'[q].status # "running" /\ file'[q].on = entries[q].on
    BY <1>2, <1>8, <2>1 DEF Records
  <2>2. \A q \in BootPlugins \ stale : entries[q].status # "running"  BY <1>2, NoneRuns
  <2>3. config = "user" => file' = entries  BY <1>2, ToMountIs
  <2>4. 1 \in DOMAIN shutdowns /\ shutdowns'[1].step = "over"
    <3>1. 1 \in DOMAIN shutdowns  BY <1>4
    <3>2. CASE s = 1  BY <1>3, <1>7, <3>1, <3>2
    <3>3. CASE s # 1  BY <1>4, <3>3, <1>1, <1>3, <1>7, <3>1 DEF Records, Alike
    <3> QED  BY <3>2, <3>3
  <2> QED  BY <2>2, <2>3, <2>4
<1> QED  BY <1>9, <1>10, <1>11, <1>12, <1>13 DEF BootInv

\* A call of shutdown(), the first or the user's after one of a plugin.
LEMMA BeginShutdownOK ==
  ASSUME BootInv, NEW who \in {"core", "user"}, BeginShutdown(who), Running, ~ Unread,
         shutdowns = <<>> \/ (Len(shutdowns) = 1 /\ who = "user"),
         UNCHANGED <<phase, config, file, entries, mounted, active, enabled, dirty, work, bus, stale>>
  PROVE  BootInv'
<1>1. BootTypeOK /\ Calls /\ Beginning /\ Homes /\ Planned /\ Truthful /\ AllStopped /\ Records
  BY DEF BootInv
<1>2. PICK order \in Orders(enabled) : shutdowns' = Append(shutdowns, Shutdown(who, order))
  BY DEF BeginShutdown
<1>3. order \in Seq(BootPlugins) /\ RangeOf(order) = enabled  BY <1>1, OrdersHaveAll DEF BootTypeOK
<1> DEFINE new == Shutdown(who, order)
           n == Len(shutdowns)
<1>4. new \in AShutdown /\ new.who = who /\ new.step = "next" /\ new.plan = order
  BY <1>3 DEF Shutdown, AShutdown, ShutdownSteps
<1>5. shutdowns' = Append(shutdowns, new)  BY <1>2
<1> HIDE DEF new
<1>6. /\ shutdowns' \in Seq(AShutdown) /\ n \in {0, 1} /\ Len(shutdowns') = n + 1
      /\ DOMAIN shutdowns = 1 .. n /\ DOMAIN shutdowns' = 1 .. n + 1 /\ shutdowns'[n + 1] = new
      /\ \A t \in 1 .. n : shutdowns'[t] = shutdowns[t]
  BY <1>1, <1>4, <1>5 DEF BootTypeOK
<1>7. shutdowns' # <<>> /\ (n = 1 => shutdowns'[1] = shutdowns[1]) /\ \A t \in 1 .. n + 1 : t \in 1 .. n \/ t = n + 1
  BY <1>6
<1>8. /\ ToMount' = ToMount /\ ~ Unread' /\ Running'
      /\ (ClosedBy(shutdowns') <=> ClosedBy(shutdowns)) /\ (OverIn(shutdowns') <=> OverIn(shutdowns))
  <2>1. ToMount' = ToMount /\ ~ Unread' /\ Running'  BY DEF ToMount, AppConfig, Unread, Running
  <2>2. 1 .. n \subseteq 1 .. n + 1  BY <1>6
  <2> HIDE DEF n
  <2> QED  BY <1>4, <1>6, <1>7, <2>1, <2>2 DEF ClosedBy, OverIn
<1>m. mishaps' = mishaps \cup (IF work.step # "idle" THEN {"race"} ELSE {})
                         \cup (IF Stopping # {} THEN {"overlap"} ELSE {})
  BY DEF BeginShutdown
<1>9. BootTypeOK' /\ Calls' /\ Beginning'  BY <1>1, <1>6, <1>4, <1>7, <1>8 DEF BootTypeOK, Calls, Beginning
<1>10. Homes'  BY <1>1, <1>3, <1>4, <1>6, <1>7, <1>8 DEF Homes
<1>11. Planned' /\ Truthful'  BY <1>1, <1>m, <1>7, <1>8 DEF Planned, Truthful
<1>12. Calm' => Calm /\ work = Idle  BY <1>m, <1>1 DEF Calm, BootTypeOK
<1>13. AllStopped'  BY <1>1, <1>4, <1>6, <1>7, <1>8, <1>12 DEF AllStopped
<1>14. Records'
  <2>1. \A t \in DOMAIN shutdowns' : shutdowns'[t].step \in {"save", "over"} => bus' = "closed"
    BY <1>1, <1>4, <1>6, <1>7 DEF Records
  <2> SUFFICES ASSUME mishaps' = {}
               PROVE  /\ Len(shutdowns') = 2 => shutdowns'[1].step = "over"
                      /\ Len(shutdowns') = 1 => shutdowns'[1].step # "failed"
                      /\ \A t \in DOMAIN shutdowns', q \in BootPlugins \ stale : entries[q].status = "running" =>
                            shutdowns'[t].step \in {"next", "asked"} /\ q \in RangeOf(shutdowns'[t].plan)
                      /\ OverIn(shutdowns') /\ config = "user" =>
                           \A q \in BootPlugins \ stale : file[q].status # "running" /\ file[q].on = entries[q].on
                      /\ phase # "exited"
    BY <2>1 DEF Records
  <2>2. mishaps = {} /\ Stopping = {} /\ work = Idle  BY <1>m, <1>12 DEF Calm
  <2>3. phase # "exited"  BY DEF Running, Phases
  <2>4. OverIn(shutdowns') /\ config = "user" =>
            \A q \in BootPlugins \ stale : file[q].status # "running" /\ file[q].on = entries[q].on
    BY <1>1, <1>8, <2>2 DEF Records
  <2>5. CASE shutdowns = <<>>
    <3>1. n = 0 /\ DOMAIN shutdowns' = 1 .. 1 /\ shutdowns'[1] = new  BY <1>6, <2>5
    <3>2. \A q \in BootPlugins \ stale : entries[q].status = "running" => q \in enabled
      BY <1>1, <2>2, <2>5, IdleIsEmpty DEF Truthful, Target
    <3>3. \A t \in 1 .. 1 : t = 1  OBVIOUS
    <3> QED  BY <1>3, <1>4, <1>6, <2>3, <2>4, <3>1, <3>2, <3>3
  <2>6. CASE n = 1
    <3>1. 1 \in DOMAIN shutdowns /\ shutdowns'[1] = shutdowns[1] /\ Len(shutdowns') = 2  BY <1>6, <2>6
    <3>2. shutdowns[1].step \in {"over", "failed"}  BY <2>2, <3>1 DEF Stopping
    <3>3. shutdowns[1].step = "over"  BY <1>1, <2>2, <2>6, <3>2 DEF Records
    <3>4. \A q \in BootPlugins \ stale : entries[q].status # "running"  BY <2>2, <3>1, <3>3, NoneRuns
    <3> QED  BY <2>3, <2>4, <3>1, <3>3, <3>4
  <2> QED  BY <2>5, <2>6
<1> QED  BY <1>9, <1>10, <1>11, <1>13, <1>14 DEF BootInv

LEMMA QuitOK ==
  ASSUME BootInv, Quit
  PROVE  BootInv'
<1>1. ~ Unread /\ shutdowns = <<>>  BY DEF Quit, BootInv, BootTypeOK, Beginning
<1> QED  BY <1>1, BeginShutdownOK DEF Quit

LEMMA BeforeQuitOK ==
  ASSUME BootInv, BeforeQuit
  PROVE  BootInv'
<1>1. CASE phase = "up"
  <2>1. ~ Unread  BY <1>1 DEF Unread
  <2>2. shutdowns = <<>> \/ Len(shutdowns) = 1
    <3>1. shutdowns \in Seq(AShutdown) /\ Len(shutdowns) \in Nat  BY DEF BootInv, BootTypeOK
    <3>2. Len(shutdowns) < 2  BY DEF BeforeQuit
    <3>3. \A n \in Nat : n < 2 => n = 0 \/ n = 1  OBVIOUS
    <3>4. CASE Len(shutdowns) = 0  BY <3>1, <3>4
    <3> QED  BY <3>1, <3>2, <3>3, <3>4
  <2> QED  BY <1>1, <2>1, <2>2, BeginShutdownOK DEF BeforeQuit
<1>2. CASE phase # "up"  BY <1>2, QuietStep DEF BeforeQuit, Running, Phases
<1> QED  BY <1>1, <1>2

-----------------------------------------------------------------------------

LEMMA BootStep == BootInv /\ [BootNext]_bootvars => BootInv'
<1> SUFFICES ASSUME BootInv, [BootNext]_bootvars PROVE BootInv'  OBVIOUS
<1>1. ASSUME NEW source \in {"argument", "file"}, NEW readable \in BOOLEAN, Start(source, readable) PROVE BootInv'
  BY <1>1, StartOK
<1>2. CASE LoadRegistry  BY <1>2, LoadRegistryOK
<1>3. ASSUME NEW c \in Containers, Mount(c) PROVE BootInv'  BY <1>3, MountOK
<1>4. CASE AttachCore  BY <1>4, AttachCoreOK
<1>5. CASE Reconciled  BY <1>5, ReconciledOK
<1>6. CASE StartFails  BY <1>6, StartFailsOK
<1>7. ASSUME NEW p \in BootPlugins, Ensure(p) \/ SetState(p) PROVE BootInv'  BY <1>7, ChangeOK
<1>8. CASE BeginReconcile  BY <1>8, BeginReconcileOK
<1>9. CASE AskContainer  BY <1>9, AskContainerOK
<1>10. ASSUME NEW ok \in BOOLEAN, ContainerAnswers(ok) PROVE BootInv'  BY <1>10, ContainerAnswersOK
<1>11. CASE Quit  BY <1>11, QuitOK
<1>12. CASE BeforeQuit  BY <1>12, BeforeQuitOK
<1>13. CASE AutoSave  BY <1>13, AutoSaveOK
<1>14. CASE Crash  BY <1>14, CrashOK
<1>15. ASSUME NEW s \in DOMAIN shutdowns, ShutdownStep(s) \/ ShutdownAnswer(s, FALSE) PROVE BootInv'
  <2>1. CASE ShutdownNext(s)  BY <2>1, ShutdownNextOK
  <2>2. CASE ShutdownAnswer(s, TRUE) \/ ShutdownAnswer(s, FALSE)  BY <2>2, ShutdownAnswerOK
  <2>3. CASE ContainersClosed(s)  BY <2>3, ContainersClosedOK
  <2>4. CASE BusClosed(s)  BY <2>4, BusClosedOK
  <2>5. CASE Saved(s)  BY <2>5, SavedOK
  <2> QED  BY <1>15, <2>1, <2>2, <2>3, <2>4, <2>5 DEF ShutdownStep
<1>16. CASE UNCHANGED bootvars  BY <1>16, StutterOK
<1> QED
  BY <1>1, <1>2, <1>3, <1>4, <1>5, <1>6, <1>7, <1>8, <1>9, <1>10, <1>11, <1>12, <1>13, <1>14, <1>15, <1>16 DEF BootNext

LEMMA InvIsTrue == BootInv => RegistryIsTrue
<1> SUFFICES ASSUME BootInv PROVE RegistryIsTrue  OBVIOUS
<1>1. BootTypeOK /\ Truthful /\ AllStopped /\ Records  BY DEF BootInv
<1>2. entries \in [BootPlugins -> Entry] /\ active \subseteq BootPlugins  BY <1>1 DEF BootTypeOK
<1>3. ASSUME AtRest, "plan" \notin mishaps
      PROVE  \A p \in BootPlugins \ stale : (entries[p].status = "running") <=> (p \in active)
  BY <1>1, <1>3, IdleIsEmpty DEF AtRest, Running, Unread, BootTypeOK, Truthful
<1>4. phase = "exited" /\ mishaps \subseteq {"overlap"} => active = {}  BY <1>1 DEF AllStopped, Calm
<1>5. ASSUME phase = "exited", mishaps = {}
      PROVE  /\ bus = "closed"
             /\ config = "user" =>
                   \A p \in BootPlugins \ stale : file[p].status # "running" /\ file[p].on = entries[p].on
  BY <1>1, <1>5 DEF Records, OverIn
<1> QED  BY <1>2, <1>3, <1>4, <1>5 DEF RegistryIsTrue

\* The registry can be believed at rest, at the end of a process that was shut
\* down, and so by the next (RegistryIsTrue), for any number of plugins,
\* containers, starts and crashes.
THEOREM RegistryIsAlwaysTrue == BootSpec => []RegistryIsTrue
BY BootInitOK, BootStep, InvIsTrue, PTL DEF BootSpec

-----------------------------------------------------------------------------
(* The files of a plugin: rules and pages.                                 *)

Texts == Seq(Tokens)

LEMMA TextsAre ==
  ASSUME NEW s \in Texts, NEW t \in Texts
  PROVE  /\ Len(s) \in Nat /\ Len(t) \in Nat /\ DOMAIN s = 1 .. Len(s)
         /\ IsPrefix(s, t) <=> Len(s) <= Len(t) /\ \A i \in 1 .. Len(s) : s[i] = t[i]
<1>1. Len(s) \in Nat /\ Len(t) \in Nat /\ DOMAIN s = 1 .. Len(s)  BY DEF Texts
<1>2. ASSUME Len(s) <= Len(t)
      PROVE  SubSeq(s, 1, Len(s)) = SubSeq(t, 1, Len(s)) <=> \A i \in 1 .. Len(s) : s[i] = t[i]
  BY <1>1, <1>2 DEF Texts
<1> QED  BY <1>1, <1>2 DEF IsPrefix

\* Of two prefixes of a text the shorter is one of the longer.
LEMMA PrefixesNest ==
  ASSUME NEW s \in Texts, NEW u \in Texts, NEW t \in Texts, IsPrefix(s, t), IsPrefix(u, t), Len(s) <= Len(u)
  PROVE  IsPrefix(s, u)
BY TextsAre

LEMMA PrefixesEqual ==
  ASSUME NEW s \in Texts, NEW u \in Texts, IsPrefix(s, u), IsPrefix(u, s)
  PROVE  s = u
BY TextsAre DEF Texts

\* Texts can be put in order, the longest first.
KeysInOrder(s, S, n) ==
    /\ s \in [1 .. n -> S] /\ IsInjective(s)
    /\ \A i, j \in 1 .. n : i < j => Len(s[i]) >= Len(s[j])

LEMMA LastInOrder ==
  ASSUME NEW n \in Nat, NEW S, S \subseteq Texts, NEW x \in S, NEW q, KeysInOrder(q, S \ {x}, n),
         \A t \in S : Len(x) <= Len(t)
  PROVE  \E s : KeysInOrder(s, S, n + 1)
<1> DEFINE s == [i \in 1 .. n + 1 |-> IF i = n + 1 THEN x ELSE q[i]]
<1>1. /\ \A i \in 1 .. n : q[i] \in S /\ q[i] # x
      /\ \A i, j \in 1 .. n : q[i] = q[j] => i = j
      /\ \A i, j \in 1 .. n : i < j => Len(q[i]) >= Len(q[j])
  BY DEF KeysInOrder, IsInjective
<1>2. \A i \in 1 .. n + 1 : i = n + 1 \/ i \in 1 .. n  OBVIOUS
<1>3. \A t \in S : Len(t) \in Nat  BY DEF Texts
<1>4. s[n + 1] = x /\ \A i \in 1 .. n : s[i] = q[i]  OBVIOUS
<1>5. s \in [1 .. n + 1 -> S] /\ DOMAIN s = 1 .. n + 1  BY <1>1, <1>2
<1> HIDE DEF s
<1>6. ASSUME NEW i \in 1 .. n + 1, NEW j \in 1 .. n + 1, s[i] = s[j] PROVE i = j  BY <1>1, <1>2, <1>4, <1>6
<1>7. ASSUME NEW i \in 1 .. n + 1, NEW j \in 1 .. n + 1, i < j PROVE Len(s[i]) >= Len(s[j])
  <2>1. i \in 1 .. n  BY <1>7
  <2>2. CASE j = n + 1  BY <1>1, <1>3, <1>4, <2>1, <2>2
  <2>3. CASE j \in 1 .. n  BY <1>1, <1>4, <1>7, <2>1, <2>3
  <2> QED  BY <1>2, <2>2, <2>3
<1> QED  BY <1>5, <1>6, <1>7 DEF KeysInOrder, IsInjective

LEMMA Sortable ==
  ASSUME NEW S, S \subseteq Texts, IsFiniteSet(S)
  PROVE  \E s : KeysInOrder(s, S, Cardinality(S))
<1> DEFINE N == {n \in Nat : \A T \in SUBSET S : Cardinality(T) = n => \E s : KeysInOrder(s, T, n)}
<1>1. 0 \in N
  <2> SUFFICES ASSUME NEW T \in SUBSET S, Cardinality(T) = 0 PROVE \E s : KeysInOrder(s, T, 0)  OBVIOUS
  <2>1. KeysInOrder(<<>>, T, 0)  BY DEF KeysInOrder, IsInjective
  <2> QED  BY <2>1
<1>2. ASSUME NEW n \in Nat, n \in N PROVE n + 1 \in N
  <2> SUFFICES ASSUME NEW T \in SUBSET S, Cardinality(T) = n + 1 PROVE \E s : KeysInOrder(s, T, n + 1)
    OBVIOUS
  <2>1. IsFiniteSet(T)  BY FS_Subset
  <2>2. T # {}  BY FS_EmptySet
  <2>3. PICK x \in T : \A t \in T : Len(x) <= Len(t)
    <3> DEFINE L == {Len(t) : t \in T}
    <3>1. L \subseteq Nat /\ L # {}
      <4>1. \A t \in T : Len(t) \in Nat  BY DEF Texts
      <4> QED  BY <2>2, <4>1
    <3>2. PICK k \in L : \A l \in L : k <= l
      <4> HIDE DEF L
      <4> QED  BY <3>1, LeastNumber
    <3> QED  BY <3>2
  <2>4. Cardinality(T \ {x}) = n
    <3>1. Cardinality(T \ {x}) = Cardinality(T) - 1  BY <2>1, <2>3, FS_RemoveElement
    <3> HIDE DEF N
    <3> QED  BY <3>1
  <2>5. PICK q : KeysInOrder(q, T \ {x}, n)  BY <1>2, <2>4
  <2> HIDE DEF N
  <2> QED  BY <2>3, <2>5, LastInOrder
<1> HIDE DEF N
<1>3. \A n \in Nat : n \in N  BY <1>1, <1>2, NumberInduction
<1>4. Cardinality(S) \in Nat  BY FS_CardinalityType
<1> QED  BY <1>3, <1>4 DEF N

LEMMA KeysAre ==
  ASSUME NEW r, IsRules(r)
  PROVE  /\ DOMAIN SortedKeys(r) = 1 .. Cardinality(DOMAIN r) /\ Cardinality(DOMAIN r) \in Nat
         /\ \A i \in DOMAIN SortedKeys(r) : SortedKeys(r)[i] \in DOMAIN r /\ SortedKeys(r)[i] \in Texts
         /\ \A k \in DOMAIN r : \E i \in DOMAIN SortedKeys(r) : SortedKeys(r)[i] = k
         /\ \A i, j \in DOMAIN SortedKeys(r) : i < j => Len(SortedKeys(r)[i]) >= Len(SortedKeys(r)[j])
<1> DEFINE K == DOMAIN r
           n == Cardinality(K)
           s == SortedKeys(r)
<1>1. K \subseteq Texts /\ IsFiniteSet(K) /\ n \in Nat  BY FS_CardinalityType DEF IsRules, Texts
<1>2. \E t : KeysInOrder(t, K, n)  BY <1>1, Sortable
<1>3. KeysInOrder(s, K, n)  BY <1>2 DEF KeysInOrder, SortedKeys
<1> HIDE DEF K, n, s
<1>4. s \in Surjection(1 .. n, K)
  <2>1. s \in Injection(1 .. n, K)  BY <1>3 DEF KeysInOrder, Injection, IsInjective
  <2>2. IsFiniteSet(1 .. n) /\ Cardinality(1 .. n) = n  BY <1>1, FS_Interval
  <2> QED  BY <1>1, <2>1, <2>2, FS_Injection DEF n
<1>5. DOMAIN s = 1 .. n /\ \A i \in 1 .. n : s[i] \in K  BY <1>3 DEF KeysInOrder
<1>6. \A k \in K : \E i \in 1 .. n : s[i] = k  BY <1>4, <1>5 DEF Surjection
<1>7. \A i, j \in 1 .. n : i < j => Len(s[i]) >= Len(s[j])  BY <1>3 DEF KeysInOrder
<1>8. \A i \in DOMAIN s : s[i] \in K /\ s[i] \in Texts  BY <1>1, <1>5
<1>9. DOMAIN s = 1 .. n /\ n \in Nat /\ (\A k \in K : \E i \in DOMAIN s : s[i] = k)
      /\ \A i, j \in DOMAIN s : i < j => Len(s[i]) >= Len(s[j])
  BY <1>1, <1>5, <1>6, <1>7
<1> QED  BY <1>8, <1>9 DEF K, n, s

\* The two configurations together are rules.
LEMMA MergedIs ==
  ASSUME NEW prod, NEW dev, IsRules(prod), IsRules(dev)
  PROVE  /\ IsRules(Merged(prod, dev)) /\ DOMAIN Merged(prod, dev) = DOMAIN dev \cup DOMAIN prod
         /\ \A k \in DOMAIN dev \cup DOMAIN prod :
              Merged(prod, dev)[k] = IF k \in DOMAIN dev THEN dev[k] ELSE prod[k]
<1>1. DOMAIN Merged(prod, dev) = DOMAIN dev \cup DOMAIN prod  BY DEF Merged
<1>2. \A k \in DOMAIN dev \cup DOMAIN prod :
        Merged(prod, dev)[k] = IF k \in DOMAIN dev THEN dev[k] ELSE prod[k]
  BY DEF Merged
<1>3. IsFiniteSet(DOMAIN dev \cup DOMAIN prod)  BY FS_Union DEF IsRules
<1>4. DOMAIN dev \cup DOMAIN prod \subseteq Seq(Tokens)  BY DEF IsRules
<1>5. ASSUME NEW k \in DOMAIN dev \cup DOMAIN prod PROVE Merged(prod, dev)[k] \in Seq(Tokens)
  BY <1>2 DEF IsRules
<1> QED  BY <1>1, <1>2, <1>3, <1>4, <1>5 DEF IsRules

LEMMA OneLong ==
  ASSUME NEW S, NEW e \in S
  PROVE  <<e>> \in Seq(S) /\ Len(<<e>>) = 1 /\ <<e>>[1] = e
<1>1. <<e>> \in Seq(S)  OBVIOUS
<1>2. Len(<<e>>) = 1  OBVIOUS
<1>3. <<e>>[1] = e  OBVIOUS
<1> QED  BY ONLY <1>1, <1>2, <1>3

LEMMA JoinedTyped ==
  ASSUME NEW p \in Texts, NEW q \in Texts
  PROVE  /\ p \o q \in Texts /\ Len(p \o q) = Len(p) + Len(q) /\ Len(p) \in Nat /\ Len(q) \in Nat
         /\ \A k \in 1 .. Len(p) : (p \o q)[k] = p[k]
         /\ \A k \in 1 .. Len(q) : (p \o q)[Len(p) + k] = q[k]
  BY DEF Texts

Slash == <<"/">>

LEMMA SlashTyped == Slash \in Texts /\ Len(Slash) = 1 /\ Slash[1] = "/"
BY ResAssumption, OneLong DEF ResAssumption, Slash, Texts

LEMMA RootedTyped ==
  ASSUME NEW p \in Texts
  PROVE  Rooted(p) \in Texts
BY SlashTyped, JoinedTyped DEF Rooted, Slash

LEMMA UnrootedTyped ==
  ASSUME NEW p \in Texts
  PROVE  Unrooted(p) \in Texts
BY DEF Texts, Unrooted

\* The first key that fits is the most specific.
PromisedOf(p, prod, dev) ==
    LET fits == { k \in DOMAIN dev \cup DOMAIN prod : IsPrefix(k, Rooted(p)) }
        best == CHOOSE k \in fits : \A l \in fits : IsPrefix(l, k)
        to   == IF best \in DOMAIN dev THEN dev[best] ELSE prod[best]
    IN IF fits = {} THEN p ELSE Unrooted(to \o SubSeq(Rooted(p), Len(best) + 1, Len(Rooted(p))))

LEMMA PromiseIsKept ==
  ASSUME NEW p \in Texts, NEW prod, NEW dev, IsRules(prod), IsRules(dev)
  PROVE  Rewritten(p, Merged(prod, dev)) = PromisedOf(p, prod, dev) /\ PromisedOf(p, prod, dev) \in Texts
<1> DEFINE r == Merged(prod, dev)
           R == Rooted(p)
           s == SortedKeys(r)
           at == {i \in DOMAIN s : IsPrefix(s[i], R)}
           fits == {k \in DOMAIN dev \cup DOMAIN prod : IsPrefix(k, R)}
           first == CHOOSE i \in at : \A j \in at : i <= j
           best == CHOOSE k \in fits : \A l \in fits : IsPrefix(l, k)
           to == IF best \in DOMAIN dev THEN dev[best] ELSE prod[best]
<1>1. /\ IsRules(r) /\ DOMAIN r = DOMAIN dev \cup DOMAIN prod
      /\ \A k \in DOMAIN r : r[k] = IF k \in DOMAIN dev THEN dev[k] ELSE prod[k]
  <2>1. IsRules(r) /\ DOMAIN r = DOMAIN dev \cup DOMAIN prod  BY ONLY MergedIs, IsRules(prod), IsRules(dev)
  <2>2. \A k \in DOMAIN dev \cup DOMAIN prod : r[k] = IF k \in DOMAIN dev THEN dev[k] ELSE prod[k]
    BY ONLY MergedIs, IsRules(prod), IsRules(dev)
  <2> HIDE DEF r
  <2> QED  BY ONLY <2>1, <2>2
<1>2. R \in Texts  BY RootedTyped
<1> HIDE DEF r, R
<1>3. /\ DOMAIN s \subseteq Nat
      /\ \A i \in DOMAIN s : s[i] \in DOMAIN r /\ s[i] \in Texts
      /\ \A k \in DOMAIN r : \E i \in DOMAIN s : s[i] = k
      /\ \A i, j \in DOMAIN s : i < j => Len(s[i]) >= Len(s[j])
  <2> HIDE DEF s
  <2>1. /\ DOMAIN s = 1 .. Cardinality(DOMAIN r) /\ Cardinality(DOMAIN r) \in Nat
        /\ \A i \in DOMAIN s : s[i] \in DOMAIN r /\ s[i] \in Texts
        /\ \A k \in DOMAIN r : \E i \in DOMAIN s : s[i] = k
        /\ \A i, j \in DOMAIN s : i < j => Len(s[i]) >= Len(s[j])
    BY <1>1, KeysAre DEF s
  <2>2. DOMAIN s \subseteq Nat  BY ONLY <2>1
  <2> QED  BY <2>1, <2>2
<1> HIDE DEF s
<1>4. \A i \in at : i \in Nat /\ s[i] \in fits  BY <1>1, <1>3
<1>5. \A k \in fits : \E i \in at : s[i] = k  BY <1>1, <1>3
<1>6. \A k \in fits : k \in DOMAIN r /\ k \in Texts /\ IsPrefix(k, R) /\ Len(k) \in Nat
  BY <1>1 DEF IsRules, Texts
<1>7. CASE at = {}  BY <1>5, <1>7 DEF Rewritten, PromisedOf, r, R, s
<1>8. CASE at # {}
  <2>1. first \in at /\ \A j \in at : first <= j
    <3>1. at \subseteq Nat  BY <1>4
    <3>2. \E i \in at : \A j \in at : i <= j
      <4> HIDE DEF at
      <4> QED  BY <1>8, <3>1, LeastNumber
    <3> QED  BY <3>2
  <2> DEFINE k == s[first]
  <2>2. k \in fits  BY <1>4, <2>1
  <2>3. ASSUME NEW l \in fits PROVE IsPrefix(l, k)
    <3>1. PICK i \in at : s[i] = l  BY <1>5
    <3>2. Len(k) >= Len(l)
      <4>1. first \in Nat /\ i \in Nat /\ first <= i /\ i \in DOMAIN s /\ first \in DOMAIN s
        BY <1>4, <2>1, <3>1
      <4>2. Len(s[i]) \in Nat  BY <1>6, <3>1
      <4> QED  BY <1>3, <3>1, <4>1, <4>2
    <3>3. l \in Texts /\ k \in Texts /\ IsPrefix(l, R) /\ IsPrefix(k, R) /\ Len(l) \in Nat /\ Len(k) \in Nat
      BY <1>6, <2>2
    <3> HIDE DEF k, fits, at, first
    <3> QED  BY <1>2, <3>2, <3>3, PrefixesNest
  <2>4. best \in fits /\ \A l \in fits : IsPrefix(l, best)
    <3> HIDE DEF fits, k
    <3>1. \E b \in fits : \A l \in fits : IsPrefix(l, b)  BY <2>2, <2>3
    <3> QED  BY <3>1
  <2>5. best = k
    <3>1. best \in Texts /\ k \in Texts /\ IsPrefix(best, k) /\ IsPrefix(k, best)  BY <1>6, <2>2, <2>3, <2>4
    <3> HIDE DEF best, k
    <3> QED  BY <3>1, PrefixesEqual
  <2>6. best \in DOMAIN r /\ r[best] = to /\ r[best] \in Texts
    <3>1. best \in DOMAIN r  BY <1>6, <2>4
    <3> HIDE DEF best
    <3> QED  BY <1>1, <3>1 DEF IsRules, Texts
  <2>7. fits # {}  BY <2>2
  <2>8. Rewritten(p, r) = Unrooted(r[k] \o SubSeq(R, Len(k) + 1, Len(R)))  BY <1>8 DEF Rewritten, R, s
  <2>9. PromisedOf(p, prod, dev) = Unrooted(to \o SubSeq(R, Len(best) + 1, Len(R)))  BY <2>7 DEF PromisedOf, R
  <2>10. r[best] \o SubSeq(R, Len(best) + 1, Len(R)) \in Texts
    <3>1. Len(best) \in Nat /\ Len(R) \in Nat  BY <1>2, <1>6, <2>4 DEF Texts
    <3> DEFINE a == r[best]
               b == SubSeq(R, Len(best) + 1, Len(R))
    <3>2. b \in Texts
      <4> HIDE DEF best
      <4> QED  BY <1>2, <3>1 DEF Texts
    <3>3. a \in Texts  BY <2>6
    <3> HIDE DEF a, b
    <3>4. a \o b \in Texts  BY <3>2, <3>3 DEF Texts
    <3> QED  BY <3>4 DEF a, b
  <2> HIDE DEF best, k, to
  <2> QED  BY <2>5, <2>6, <2>8, <2>9, <2>10, UnrootedTyped DEF r
<1> QED  BY <1>7, <1>8

\* Where a page is served for a path that names no file.
Departs(r, t, spa) ==
    /\ ~ IsAsset(t)
    /\ CASE spa.mode = "none" -> FALSE
         [] spa.mode = "smart" ->
              /\ IsPrefix(r \o <<"/">>, t)
              /\ Last(r) \in Html
              /\ \A i \in Len(r) + 2 .. Len(t) : t[i] \in Html => i < Len(t) /\ t[i + 1] # "/"
         [] spa.mode = "many" ->
              /\ r \in spa.entries /\ IsPrefix(r, t)
              /\ \A e \in spa.entries : IsPrefix(e, t) => IsPrefix(e, r)
         [] spa.mode = "single" -> r \in { Unrooted(e) : e \in spa.entries }

SpaOK(spa) ==
    /\ spa.mode \in {"none", "smart", "single", "many"} /\ spa.entries \subseteq Texts
    /\ spa.mode = "single" => spa.entries # {}

LEMMA HighestNumber ==
  ASSUME NEW N \in Nat, NEW S, S \subseteq 0 .. N, S # {}
  PROVE  \E x \in S : \A y \in S : y <= x
<1> DEFINE T == {N - x : x \in S}
<1>1. T \subseteq Nat /\ T # {}
  <2>1. \A x \in S : N - x \in Nat  OBVIOUS
  <2> QED  BY <2>1
<1>2. PICK y \in T : \A z \in T : y <= z
  <2> HIDE DEF T
  <2> QED  BY <1>1, LeastNumber
<1>3. PICK x \in S : y = N - x  BY <1>2
<1>4. \A z \in S : z <= x
  <2> TAKE z \in S
  <2>1. y <= N - z  BY <1>2
  <2>2. z \in Nat /\ x \in Nat  OBVIOUS
  <2> QED  BY <1>3, <2>1, <2>2
<1> QED  BY <1>4

LEMMA SmartIs ==
  ASSUME NEW t \in Texts, NEW spa, spa.mode = "smart", ~ IsAsset(t)
  PROVE  Fallback(t, spa) = t \/ Departs(Fallback(t, spa), t, spa)
<1> DEFINE P == PageEnds(t)
           i == CHOOSE x \in P : \A j \in P : j <= x
           r == SubSeq(t, 1, i)
<1>1. Fallback(t, spa) = IF P = {} THEN t ELSE r  BY DEF Fallback
<1>2. CASE P = {}  BY <1>1, <1>2
<1>3. CASE P # {}
  <2>1. Len(t) \in Nat /\ DOMAIN t = 1 .. Len(t)  BY DEF Texts
  <2>2. P \subseteq 0 .. Len(t)  BY <2>1 DEF PageEnds
  <2>3. i \in P /\ \A j \in P : j <= i
    <3>1. \E x \in P : \A j \in P : j <= x
      <4> HIDE DEF P
      <4> QED  BY <1>3, <2>1, <2>2, HighestNumber
    <3> HIDE DEF P
    <3> QED  BY <3>1
  <2> HIDE DEF i
  <2>4. i \in 1 .. Len(t) /\ t[i] \in Html /\ (i < Len(t) => t[i + 1] = "/")  BY <2>1, <2>3 DEF PageEnds
  <2>5. r \in Texts /\ Len(r) = i /\ \A k \in 1 .. i : r[k] = t[k]  BY <2>1, <2>4 DEF Texts
  <2>6. CASE i = Len(t)  BY <2>6, <1>1, <1>3 DEF Texts
  <2>7. CASE i # Len(t)
    <3>1. i < Len(t) /\ t[i + 1] = "/" /\ i \in Nat /\ i + 1 <= Len(t)
      <4> DEFINE n == Len(t)
      <4>1. n \in Nat /\ i \in 1 .. n /\ i # n  BY ONLY <2>1, <2>4, <2>7
      <4> HIDE DEF n
      <4>2. i < n /\ i \in Nat /\ i + 1 <= n  BY ONLY <4>1
      <4>3. i < Len(t) /\ i + 1 <= Len(t)  BY ONLY <4>2 DEF n
      <4> QED  BY ONLY <2>4, <4>2, <4>3
    <3> DEFINE w == r \o <<"/">>
    <3> HIDE DEF r
    <3>2. w \in Texts /\ Len(w) = i + 1 /\ w[i + 1] = "/" /\ \A k \in 1 .. i : w[k] = r[k]
      <4>1. r \o Slash \in Texts /\ Len(r \o Slash) = i + 1 /\ (r \o Slash)[i + 1] = Slash[1]
            /\ \A k \in 1 .. i : (r \o Slash)[k] = r[k]
        <5>1. r \in Texts /\ Len(r) = i /\ Slash \in Texts /\ Len(Slash) = 1  BY ONLY <2>5, SlashTyped
        <5>2. /\ r \o Slash \in Texts /\ Len(r \o Slash) = Len(r) + Len(Slash)
              /\ \A k \in 1 .. Len(r) : (r \o Slash)[k] = r[k]
              /\ \A k \in 1 .. Len(Slash) : (r \o Slash)[Len(r) + k] = Slash[k]
          BY ONLY <5>1, JoinedTyped
        <5> QED  BY ONLY <5>1, <5>2, <3>1
      <4> QED  BY <4>1, SlashTyped DEF Slash
    <3> HIDE DEF w
    <3>3. \A k \in 1 .. i + 1 : w[k] = t[k]
      <4> TAKE k \in 1 .. i + 1
      <4>1. k = i + 1 \/ k \in 1 .. i  BY <3>1
      <4> QED  BY <2>5, <3>1, <3>2, <4>1
    <3>4. IsPrefix(w, t)  BY <3>1, <3>2, <3>3, TextsAre
    <3>5. Last(r) \in Html  BY <2>4, <2>5 DEF Last
    <3>6. \A k \in Len(r) + 2 .. Len(t) : t[k] \in Html => k < Len(t) /\ t[k + 1] # "/"
      <4> SUFFICES ASSUME NEW k \in i + 2 .. Len(t), t[k] \in Html, ~(k < Len(t) /\ t[k + 1] # "/") PROVE FALSE
        BY <2>5
      <4>1. k \in 1 .. Len(t) /\ k > i /\ k \in Nat  BY <2>1, <3>1
      <4>2. k \in P  BY <2>1, <4>1 DEF PageEnds
      <4> HIDE DEF P
      <4> QED  BY <2>3, <3>1, <4>1, <4>2
    <3>7. Departs(r, t, spa)  BY <3>4, <3>5, <3>6 DEF Departs, w
    <3> QED  BY <1>1, <1>3, <3>7 DEF r
  <2> QED  BY <2>6, <2>7
<1> QED  BY <1>2, <1>3

LEMMA ManyIs ==
  ASSUME NEW t \in Texts, NEW spa, SpaOK(spa), spa.mode = "many", ~ IsAsset(t)
  PROVE  Fallback(t, spa) = t \/ Departs(Fallback(t, spa), t, spa)
<1> DEFINE E == {e \in spa.entries : IsPrefix(e, t)}
           b == CHOOSE e \in E : \A f \in E : Len(f) <= Len(e)
<1>1. Fallback(t, spa) = IF E = {} THEN t ELSE b  BY DEF Fallback
<1>2. CASE E = {}  BY <1>1, <1>2
<1>3. CASE E # {}
  <2>1. \A e \in E : e \in Texts /\ e \in spa.entries /\ IsPrefix(e, t)  BY DEF SpaOK
  <2> HIDE DEF E
  <2>2. Len(t) \in Nat  BY DEF Texts
  <2>3. \A e \in E : Len(e) \in 0 .. Len(t)
    <3> TAKE e \in E
    <3>1. Len(e) \in Nat /\ Len(e) <= Len(t)  BY <2>1, TextsAre
    <3> QED  BY <2>2, <3>1
  <2>4. \E e \in E : \A f \in E : Len(f) <= Len(e)
    <3> DEFINE L == {Len(e) : e \in E}
    <3>1. L \subseteq 0 .. Len(t) /\ L # {}  BY <1>3, <2>3
    <3>2. PICK k \in L : \A l \in L : l <= k
      <4> HIDE DEF L
      <4> QED  BY <2>2, <3>1, HighestNumber
    <3> QED  BY <3>2
  <2>5. b \in E /\ \A f \in E : Len(f) <= Len(b)  BY <2>4
  <2> HIDE DEF b
  <2>6. ASSUME NEW e \in spa.entries, IsPrefix(e, t) PROVE IsPrefix(e, b)
    BY <2>6, <2>1, <2>5, PrefixesNest DEF E
  <2>7. Departs(b, t, spa)  BY <2>1, <2>5, <2>6 DEF Departs
  <2> QED  BY <1>1, <1>3, <2>7
<1> QED  BY <1>2, <1>3

LEMMA FallbackIs ==
  ASSUME NEW t \in Texts, NEW spa, SpaOK(spa)
  PROVE  Fallback(t, spa) = t \/ Departs(Fallback(t, spa), t, spa)
<1>1. CASE spa.mode = "none" \/ IsAsset(t)  BY <1>1 DEF Fallback
<1>2. CASE spa.mode = "smart" /\ ~ IsAsset(t)  BY <1>2, SmartIs
<1>3. CASE spa.mode = "many" /\ ~ IsAsset(t)  BY <1>3, ManyIs
<1>4. CASE spa.mode = "single" /\ ~ IsAsset(t)  BY <1>4 DEF Fallback, SpaOK, Departs
<1> QED  BY <1>1, <1>2, <1>3, <1>4 DEF SpaOK

-----------------------------------------------------------------------------
(* What a request is served.                                               *)

\* What a loader has, or has not, read.
Read(C) == {<<>>} \cup {<<c>> : c \in C}

ResTypeOK ==
    /\ inDevMode \in BOOLEAN
    /\ disk.prod \in ProdConfigs /\ disk.dev \in DevConfigs
    /\ cache.prod \in Read(ProdConfigs) /\ cache.dev \in Read(DevConfigs)
    /\ request.path \in Texts

ConfigsAreRead == cache.prod # <<>> /\ (inDevMode => cache.dev # <<>>)

\* What a path stands for by the configurations that were read.
LeadsBy(prod, rules, op, p) ==
    LET t == Rewritten(p, Merged(prod.rewrites, rules))
    IN IF op = "get" THEN Fallback(t, prod.spa) ELSE t

DevRules == IF inDevMode THEN cache.dev[1].rewrites ELSE <<>>
Leads == LeadsBy(cache.prod[1], DevRules, request.op, request.path)

ResInv ==
    /\ ResTypeOK
    /\ request.step \in {"hook", "storage", "done"} =>
          ConfigsAreRead /\ request.target = Leads
    /\ served # Unserved => request.step = "done" /\ served.path = request.target

LEMMA NoRules == IsRules(<<>>) /\ DOMAIN <<>> = {}
  BY FS_EmptySet DEF IsRules

LEMMA ResInvImplies == ResInv => ServesOneFile
<1> SUFFICES ASSUME ResInv, served # Unserved PROVE ServesOneFile  BY DEF ServesOneFile
<1> DEFINE prod == cache.prod[1].rewrites
           dev == IF inDevMode THEN cache.dev[1].rewrites ELSE <<>>
           spa == cache.prod[1].spa
           p == request.path
           goal == Promised(p)
<1>1. ConfigsAreRead /\ served.path = Leads  BY DEF ResInv
<1>2. IsRules(prod) /\ SpaOK(spa)
  <2>1. PICK c \in ProdConfigs : cache.prod = <<c>>  BY <1>1 DEF ResInv, ResTypeOK, ConfigsAreRead, Read
  <2>2. cache.prod[1] = c  BY <2>1
  <2>3. IsRules(c.rewrites) /\ SpaOK(c.spa)  BY ResAssumption DEF SpaOK, Texts
  <2> QED  BY <2>2, <2>3
<1>3. IsRules(dev)
  <2>1. CASE inDevMode
    <3>1. PICK c \in DevConfigs : cache.dev = <<c>>  BY <1>1, <2>1 DEF ResInv, ResTypeOK, ConfigsAreRead, Read
    <3>2. cache.dev[1] = c  BY <3>1
    <3> QED  BY <2>1, <3>2, ResAssumption
  <2>2. CASE ~inDevMode  BY <2>2, NoRules
  <2> QED  BY <2>1, <2>2
<1>4. p \in Texts  BY DEF ResInv, ResTypeOK
<1>5. goal = PromisedOf(p, prod, dev)  BY DEF Promised, PromisedOf
<1> HIDE DEF p, prod, dev, spa
<1>6. Rewritten(p, Merged(prod, dev)) = goal /\ goal \in Texts  BY <1>2, <1>3, <1>4, <1>5, PromiseIsKept
<1> HIDE DEF goal
<1>7. served.path = IF request.op = "get" THEN Fallback(goal, spa) ELSE goal
  BY <1>1, <1>6 DEF Leads, LeadsBy, DevRules, p, prod, dev, spa
<1>8. served.path = goal \/ (request.op = "get" /\ Departs(served.path, goal, spa))
  BY <1>2, <1>6, <1>7, FallbackIs
<1> QED  BY <1>8 DEF ServesOneFile, Departs, spa, goal, p

LEMMA ResInitOK == ResInit => ResInv
<1> SUFFICES ASSUME ResInit PROVE ResInv  OBVIOUS
<1>1. disk.prod \in ProdConfigs /\ disk.dev \in DevConfigs /\ inDevMode \in BOOLEAN  BY DEF ResInit
<1>2. cache.prod = <<>> /\ cache.dev = <<>>  BY DEF ResInit, NewLoader, Nothing
<1>3. request.step = "none" /\ request.path = <<>> /\ served = Unserved  BY DEF ResInit, NoRequest
<1>4. <<>> \in Texts  BY DEF Texts
<1> QED  BY <1>1, <1>2, <1>3, <1>4 DEF ResInv, ResTypeOK, Read

\* What was read once stays, and a path stands for what it stood for.
LEMMA ReadOnce ==
  ASSUME ResInv, LoadConfigs, inDevMode' = inDevMode
  PROVE  /\ cache'.prod \in Read(ProdConfigs) /\ cache'.dev \in Read(DevConfigs)
         /\ ConfigsAreRead'
         /\ ConfigsAreRead => cache'.prod = cache.prod /\ DevRules' = DevRules
         /\ copy' = cache'
<1>1. /\ cache'.prod = LoadConfig("prod")
      /\ cache'.dev = IF inDevMode THEN LoadConfig("dev") ELSE cache.dev
      /\ copy' = cache'
  BY DEF LoadConfigs
<1>2. /\ LoadConfig("prod") = IF cache.prod = <<>> THEN <<disk.prod>> ELSE cache.prod
      /\ LoadConfig("dev") = IF cache.dev = <<>> THEN <<disk.dev>> ELSE cache.dev
  BY DEF LoadConfig, ConfigFile
<1>3. disk.prod \in ProdConfigs /\ disk.dev \in DevConfigs /\ cache.prod \in Read(ProdConfigs) /\ cache.dev \in Read(DevConfigs)
  BY DEF ResInv, ResTypeOK
<1>4. cache'.prod \in Read(ProdConfigs) /\ cache'.dev \in Read(DevConfigs)  BY <1>1, <1>2, <1>3 DEF Read
<1>5. cache'.prod # <<>> /\ (inDevMode => cache'.dev # <<>>)  BY <1>1, <1>2
<1>6. ASSUME ConfigsAreRead PROVE cache'.prod = cache.prod /\ DevRules' = DevRules
  BY <1>1, <1>2, <1>6 DEF ConfigsAreRead, DevRules
<1> QED  BY <1>1, <1>4, <1>5, <1>6 DEF ConfigsAreRead

LEMMA ResKeeps ==
  ASSUME ResInv, cache' = cache, inDevMode' = inDevMode,
         disk'.prod \in ProdConfigs, disk'.dev \in DevConfigs, request'.path \in Texts,
         request'.step \in {"hook", "storage", "done"} =>
            /\ request.step \in {"hook", "storage", "done"}
            /\ request'.target = request.target /\ request'.op = request.op /\ request'.path = request.path,
         served' # Unserved => request'.step = "done" /\ served'.path = request'.target
  PROVE  ResInv'
BY DEF ResInv, ResTypeOK, ConfigsAreRead, DevRules, Leads

LEMMA ResStepOK == ResInv /\ [ResNext]_resvars => ResInv'
<1> SUFFICES ASSUME ResInv, [ResNext]_resvars PROVE ResInv'  OBVIOUS
<1>0. /\ disk.prod \in ProdConfigs /\ disk.dev \in DevConfigs /\ request.path \in Texts
      /\ served # Unserved => request.step = "done" /\ served.path = request.target
  BY DEF ResInv, ResTypeOK
<1>1. CASE PluginStarts  BY <1>1, ReadOnce, <1>0 DEF PluginStarts, ResInv, ResTypeOK, Leads
<1>2. CASE PluginStops  BY <1>2, <1>0, ResKeeps DEF PluginStops
<1>3. CASE Edit  BY <1>3, <1>0, ResKeeps DEF Edit
<1>4. CASE Resolve
  <2>1. request.step = "resolve" /\ LoadConfigs /\ UNCHANGED <<inDevMode, disk, served>>  BY <1>4 DEF Resolve
  <2>2. /\ cache'.prod \in Read(ProdConfigs) /\ cache'.dev \in Read(DevConfigs)
        /\ ConfigsAreRead' /\ copy' = cache'
    BY <2>1, ReadOnce
  <2>3. served' = Unserved  BY <1>0, <2>1
  <2>4. request'.op = request.op /\ request'.path = request.path  BY <1>4 DEF Resolve
  <2>5. request'.target = Leads'
    <3> DEFINE t == Rewritten(request.path, Rules)
               z == IF request.op = "get" THEN Fallback(t, copy'.prod[1].spa) ELSE t
    <3>1. request'.target = z  BY <1>4 DEF Resolve
    <3>2. Rules = Merged(cache'.prod[1].rewrites, IF inDevMode' THEN cache'.dev[1].rewrites ELSE <<>>)
      BY <2>1, <2>2 DEF Rules
    <3> QED  BY <2>2, <2>4, <3>1, <3>2 DEF Leads, LeadsBy, DevRules
  <2>6. ResTypeOK'  BY <2>1, <2>2, <2>4 DEF ResInv, ResTypeOK
  <2> QED  BY <2>2, <2>3, <2>5, <2>6 DEF ResInv
<1>5. CASE \E p \in Asked : Get(p) \/ Put(p) \/ List(p)
  <2>1. PICK p \in Asked, op \in {"get", "put", "list"} : Request(op, p)  BY <1>5 DEF Get, Put, List
  <2>2. /\ request'.step = "resolve" /\ request'.path = p /\ request = NoRequest
        /\ UNCHANGED <<inDevMode, disk, cache, served>>
    BY <2>1 DEF Request
  <2>3. p \in Texts  BY ResAssumption DEF Texts
  <2>4. served' = Unserved  BY <1>0, <2>2 DEF NoRequest
  <2> QED  BY <1>0, <2>2, <2>3, <2>4, ResKeeps
<1>6. CASE \E ok \in BOOLEAN : DevAnswers(ok)
  <2>1. PICK ok \in BOOLEAN : DevAnswers(ok)  BY <1>6
  <2>2. /\ request.step = "hook" /\ request'.step = (IF ok THEN "done" ELSE "storage")
        /\ request'.target = request.target /\ request'.op = request.op
        /\ request'.path = request.path /\ UNCHANGED <<inDevMode, disk, cache>>
        /\ served' = IF ok THEN Response("server") ELSE served
    BY <2>1 DEF DevAnswers
  <2>3. served' # Unserved => request'.step = "done" /\ served'.path = request'.target
    BY <1>0, <2>2 DEF Response
  <2> QED  BY <1>0, <2>2, <2>3, ResKeeps
<1>7. CASE \E ok \in BOOLEAN : Stored(ok)
  <2>1. PICK ok \in BOOLEAN : Stored(ok)  BY <1>7
  <2>2. /\ request.step = "storage" /\ request'.step = "done"
        /\ request'.target = request.target /\ request'.op = request.op
        /\ request'.path = request.path /\ UNCHANGED <<inDevMode, disk, cache>>
        /\ served'.path = request.target
    BY <2>1 DEF Stored, StoredResource, Response
  <2> QED  BY <1>0, <2>2, ResKeeps
<1>8. CASE UNCHANGED resvars  BY <1>0, <1>8, ResKeeps DEF resvars
<1> QED  BY <1>1, <1>2, <1>3, <1>4, <1>5, <1>6, <1>7, <1>8 DEF ResNext

\* A uri of a plugin stands for one file, whatever is edited, restarted or asked, and
\* a get departs from it only for a page of the application.
THEOREM UrisServeOneFile == ResSpec => []ServesOneFile
BY ResInitOK, ResStepOK, ResInvImplies, PTL DEF ResSpec

=============================================================================
