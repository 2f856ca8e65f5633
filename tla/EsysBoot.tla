------------------------------ MODULE EsysBoot ------------------------------
(***************************************************************************)
(* The life of the host (packages/esys: Bootloader, RegistryLoader,        *)
(* ContainerManager, System; packages/elep-boot: bootstrap; ECore.quit):   *)
(* it starts phase by phase, brings up the plugins of its registry, and is *)
(* shut down by its user, by a plugin, or by a crash.  The registry is     *)
(* kept in a file, written every few seconds and by shutdown(); a start    *)
(* finds what the last run left there.  What reconcile() plans is reduced  *)
(* to which plugins stop and start: module EsysOrchestrator has the rest.  *)
(***************************************************************************)
EXTENDS Naturals, Sequences, FiniteSets, SequencesExt

CONSTANTS BootPlugins,   \* the plugins of the configuration
          Containers,    \* its containers
          HomeOf,        \* the container of a plugin
          MaxStarts,     \* bound on the starts of the process
          MaxChanges     \* bound on enable() and disable() by plugins, and on failures

\* A configuration is a list.
ASSUME BootAssumption == IsFiniteSet(BootPlugins)

VARIABLES
    phase,      \* of the bootloader, or "off", "up", "exited"
    config,     \* "user", or "default" if the user's could not be read
    file,       \* the registry as it is on disk
    entries,    \* the registry in memory: state and status of each plugin
    mounted,    \* the containers in the container manager
    active,     \* the plugins that run
    enabled,    \* plugins.enabled.graph: the plugins of the last plan
    dirty,
    work,       \* what is left of the plan of reconcile(), and the graph it leads to
    shutdowns,  \* the calls of shutdown()
    bus,        \* "none", "open", "closed"
    mishaps,    \* history of a run: "plan", "shutdown", "race", "overlap", "unhandled"
    stale,      \* history: what the file said was running though it is disabled
    starts, changes

bootvars == <<phase, config, file, entries, mounted, active, enabled, dirty, work, shutdowns, bus, mishaps, stale, starts, changes>>

Entry == [on : BOOLEAN, status : {"running", "stopped", "error", "absent"}]

\* A registry without entries.
Fresh == [p \in BootPlugins |-> [on |-> FALSE, status |-> "absent"]]
Idle  == [plan |-> <<>>, graph |-> {}, step |-> "idle"]

\* The phases of a start, of which ATTACH_CORE is one step here; "up" is what
\* comes after the last.
Phases == {"bootstrap", "mount", "reconcile", "run"}
Running == phase \in Phases \cup {"up"}
ShouldReconcile == dirty
TurnedOn == { p \in BootPlugins : entries[p].on }

BootInit ==
    /\ phase = "off" /\ config = "user" /\ file = Fresh /\ entries = Fresh /\ mounted = {} /\ active = {}
    /\ enabled = {} /\ dirty = FALSE /\ work = Idle /\ shutdowns = <<>> /\ bus = "none"
    /\ mishaps = {} /\ stale = {} /\ starts = 0 /\ changes = 0

----------------------------------------------------------------------------
(* Starting: Bootloader.start and the callbacks that bootstrap() installs. *)

\* getConfig: the argument itself, or a file, which need not be there.  A
\* file that cannot be read means the default configuration: no containers,
\* no plugins, a registry in memory.
LoadConfigFromFile(readable) == IF readable THEN "user" ELSE "error"

ConfigOf(source, readable) ==
    CASE source = "argument" -> IF readable THEN "user" ELSE "invalid"
      [] source = "file" -> IF LoadConfigFromFile(readable) = "error" THEN "default" ELSE "user"

\* What the configuration says; registry, if there is a file for it.
AppConfig ==
    IF config = "user" THEN [registry |-> TRUE, containers |-> Containers, plugins |-> BootPlugins]
                       ELSE [registry |-> FALSE, containers |-> {}, plugins |-> {}]

NewContainerManager == mounted' = {}
NewPluginManager    == enabled' = {}

\* A System, with its managers: nothing runs, and nothing is planned.
NewSystem ==
    /\ NewContainerManager /\ NewPluginManager
    /\ dirty' = FALSE /\ work' = Idle
    /\ active' = {} /\ shutdowns' = <<>> /\ stale' = {}

Start(source, readable) ==
    /\ phase = "off" /\ starts < MaxStarts
    /\ starts' = starts + 1
    /\ IF ConfigOf(source, readable) = "invalid"
       THEN phase' = "exited" /\ mishaps' = {"unhandled"} /\ UNCHANGED <<config, bus>>
       ELSE phase' = "bootstrap" /\ mishaps' = {} /\ config' = ConfigOf(source, readable) /\ bus' = "open"
    /\ entries' = Fresh
    /\ NewSystem
    /\ UNCHANGED <<file, changes>>

\* A registry in memory, and one that is kept in a file.
CreateMemory     == Fresh
CreatePersistent == file

\* registryLoader.load(registry), once in a start.
LoadRegistry ==
    /\ phase = "bootstrap"
    /\ phase' = "mount"
    /\ entries' = IF AppConfig.registry THEN CreatePersistent ELSE CreateMemory
    /\ stale' = { p \in BootPlugins : entries'[p].status = "running" /\ ~ entries'[p].on }
    /\ UNCHANGED <<config, file, mounted, active, enabled, dirty, work, shutdowns, bus, mishaps, starts, changes>>

ToMount == AppConfig.containers

Mount(c) ==
    /\ phase = "mount" /\ c \in ToMount \ mounted
    /\ mounted' = mounted \cup {c}
    /\ UNCHANGED <<phase, config, file, entries, active, enabled, dirty, work, shutdowns, bus, mishaps, stale, starts, changes>>

\* The kernel's node joins the bus; then the system is marked dirty.
AttachCore ==
    /\ phase = "mount" /\ mounted = ToMount
    /\ phase' = "reconcile" /\ dirty' = TRUE
    /\ UNCHANGED <<config, file, entries, mounted, active, enabled, work, shutdowns, bus, mishaps, stale, starts, changes>>

\* The first reconcile() of the start, and the one after ensuring, are awaited.
Reconciled ==
    /\ work.step = "idle" /\ ~ ShouldReconcile
    /\ \/ phase = "reconcile" /\ phase' = "run"
       \/ phase = "run" /\ phase' = "up"
    /\ UNCHANGED <<config, file, entries, mounted, active, enabled, dirty, work, shutdowns, bus, mishaps, stale, starts, changes>>

\* ensure(): installed if the registry does not know it, and enabled.
Ensured(p) ==
    /\ entries' = [entries EXCEPT ![p].on = TRUE, ![p].status = IF @ = "absent" THEN "stopped" ELSE @]
    /\ dirty' = TRUE

\* The RUN phase ensures each plugin of the configuration.
Ensure(p) ==
    /\ phase = "run" /\ ~ entries[p].on /\ work.step = "idle"
    /\ p \in AppConfig.plugins /\ HomeOf[p] \in mounted
    /\ Ensured(p)
    /\ mishaps' = IF shutdowns # <<>> THEN mishaps \cup {"race"} ELSE mishaps
    /\ UNCHANGED <<phase, config, file, mounted, active, enabled, work, shutdowns, bus, stale, starts, changes>>

\* main(): whatever rejects before the system is up ends the process.
StartFails ==
    /\ phase \in {"bootstrap", "mount"} /\ changes < MaxChanges
    /\ phase' = "exited" /\ changes' = changes + 1 /\ mishaps' = mishaps \cup {"unhandled"}
    /\ UNCHANGED <<config, file, entries, mounted, active, enabled, dirty, work, shutdowns, bus, stale, starts>>

----------------------------------------------------------------------------
(* What the orchestrator does, and the plugins that ask it to.             *)

Stopping == { s \in DOMAIN shutdowns : shutdowns[s].step \notin {"over", "failed"} }

\* enable() or disable(), by a plugin through the kernel's api.
SetState(p) ==
    /\ phase = "up" /\ active # {} /\ changes < MaxChanges /\ entries[p].status # "absent"
    /\ entries' = [entries EXCEPT ![p].on = ~ @]
    /\ dirty' = TRUE /\ changes' = changes + 1
    /\ UNCHANGED <<phase, config, file, mounted, active, enabled, work, shutdowns, bus, mishaps, stale, starts>>

Orders(S) == { q \in [1 .. Cardinality(S) -> S] : IsInjective(q) }

Steps(a, b) == [i \in DOMAIN a |-> <<a[i], "stop">>] \o [i \in DOMAIN b |-> <<b[i], "start">>]
Plans(new)  == { Steps(a, b) : a \in Orders(enabled \ new), b \in Orders(new \ enabled) }

BeginReconcile ==
    /\ phase \in {"reconcile", "run", "up"} /\ ShouldReconcile /\ work.step = "idle"
    /\ dirty' = FALSE
    /\ \E q \in Plans(TurnedOn) :
          work' = IF q = <<>> THEN Idle ELSE [plan |-> q, graph |-> TurnedOn, step |-> "next"]
    /\ mishaps' = IF shutdowns # <<>> THEN mishaps \cup {"race"} ELSE mishaps
    /\ UNCHANGED <<phase, config, file, entries, mounted, active, enabled, shutdowns, bus, stale, starts, changes>>

\* The plan is given up: reconcile() rejects, and with it a start.
GiveUp(p) ==
    /\ entries' = [entries EXCEPT ![p].status = "error"]
    /\ work' = Idle /\ dirty' = TRUE
    /\ mishaps' = mishaps \cup {"plan"} \cup IF phase = "up" THEN {} ELSE {"unhandled"}
    /\ phase' = IF phase = "up" THEN phase ELSE "exited"
    /\ UNCHANGED enabled

\* updateStatus
Recorded(p, on) == [entries EXCEPT ![p].status = IF on THEN "running" ELSE "stopped"]

\* One entry of the plan: the container is asked, and answers later.
AskContainer ==
    /\ Running /\ work.step = "next"
    /\ LET p == Head(work.plan)[1] IN
       IF HomeOf[p] \in mounted
       THEN work' = [work EXCEPT !.step = "asked"] /\ UNCHANGED <<phase, config, entries, dirty, enabled, mishaps>>
       ELSE GiveUp(p)
    /\ UNCHANGED <<config, file, mounted, active, shutdowns, bus, stale, starts, changes>>

ContainerAnswers(ok) ==
    /\ Running /\ work.step = "asked"
    /\ LET p    == Head(work.plan)[1]
           on   == Head(work.plan)[2] = "start"
           rest == Tail(work.plan)
       IN IF ok
          THEN /\ active' = IF on THEN active \cup {p} ELSE active \ {p}
               /\ entries' = Recorded(p, on)
               /\ work' = IF rest = <<>> THEN Idle ELSE [work EXCEPT !.plan = rest, !.step = "next"]
               /\ enabled' = IF rest = <<>> THEN work.graph ELSE enabled
               /\ UNCHANGED <<phase, config, dirty, mishaps, changes>>
          ELSE /\ changes < MaxChanges /\ changes' = changes + 1
               /\ GiveUp(p) /\ UNCHANGED active
    /\ UNCHANGED <<config, file, mounted, shutdowns, bus, stale, starts>>

----------------------------------------------------------------------------
(* Stopping: System.shutdown, before-quit, ECore.quit.                     *)

\* Mutant: nothing is planned, and the containers are left to stop their plugins.
ShutdownUnplanned(who, order) == [who |-> who, plan |-> <<>>, step |-> "next", closing |-> {}]

\* A call of shutdown() up to its first await: its plan stops all that is
\* enabled.  A reconcile() under way is not waited for.
Shutdown(who, order) == [who |-> who, plan |-> order, step |-> "next", closing |-> {}]

BeginShutdown(who) ==
    /\ \E order \in Orders(enabled) : shutdowns' = Append(shutdowns, Shutdown(who, order))
    /\ mishaps' = mishaps \cup (IF work.step # "idle" THEN {"race"} ELSE {})
                          \cup (IF Stopping # {} THEN {"overlap"} ELSE {})

\* ECore.quit, called by a plugin that runs.
Quit ==
    /\ Running /\ active # {} /\ Len(shutdowns) = 0
    /\ BeginShutdown("core")
    /\ UNCHANGED <<phase, config, file, entries, mounted, active, enabled, dirty, work, bus, stale, starts, changes>>

\* The user quits, or the last window is closed, or both in turn: the handler,
\* which is installed when bootstrap() is through, does not look whether it has
\* been called before.  Two calls of shutdown() are the bound.
BeforeQuit ==
    /\ Running /\ Len(shutdowns) < 2
    /\ IF phase = "up"
       THEN BeginShutdown("user") /\ UNCHANGED phase
       ELSE phase' = "exited" /\ mishaps' = mishaps \cup {"unhandled"} /\ UNCHANGED shutdowns
    /\ UNCHANGED <<config, file, entries, mounted, active, enabled, dirty, work, bus, stale, starts, changes>>

Moves(s, step) == shutdowns' = [shutdowns EXCEPT ![s].step = step]

\* Mutant: the process ends only if shutdown() went through.
ExitsIfDone(s, step) ==
    phase' = IF step = "over" /\ (shutdowns[s].who = "user" \/ phase # "up") THEN "exited" ELSE phase

\* finally { app.exit() }; app.quit() before there is a handler.
Exits(s, step) ==
    phase' = IF \/ step \in {"over", "failed"} /\ shutdowns[s].who = "user"
                \/ step = "over" /\ phase # "up"
             THEN "exited" ELSE phase

\* shutdown() settles.  ECore.quit goes on to app.quit(), and so to
\* before-quit and a shutdown() of the same system once more.
Settles(s, step) ==
    /\ Exits(s, step)
    /\ IF step = "over" /\ shutdowns[s].who = "core" /\ phase = "up" /\ Len(shutdowns) = 1
       THEN \E order \in Orders(enabled) :
               shutdowns' = Append([shutdowns EXCEPT ![s].step = step], Shutdown("user", order))
       ELSE Moves(s, step)

\* The next entry of its plan; or, past the last, the containers are closed,
\* each of which stops what it runs.
ShutdownNext(s) ==
    /\ Running /\ s \in Stopping /\ shutdowns[s].step = "next"
    /\ IF shutdowns[s].plan = <<>>
       THEN /\ shutdowns' = [shutdowns EXCEPT ![s].step = "containers",
                                              ![s].closing = { p \in active : HomeOf[p] \in mounted }]
            /\ UNCHANGED <<phase, config, entries, mishaps>>
       ELSE LET p == Head(shutdowns[s].plan) IN
            IF HomeOf[p] \in mounted
            THEN Moves(s, "asked") /\ UNCHANGED <<phase, config, entries, mishaps>>
            ELSE /\ entries' = [entries EXCEPT ![p].status = "error"]
                 /\ Settles(s, "failed")
                 /\ mishaps' = IF Len(shutdowns) = 1 THEN mishaps \cup {"shutdown"} ELSE mishaps
    /\ UNCHANGED <<config, file, mounted, active, enabled, dirty, work, bus, stale, starts, changes>>

\* A plugin has stopped, or its container failed to stop it.
ShutdownAnswer(s, ok) ==
    /\ Running /\ s \in Stopping /\ shutdowns[s].step = "asked"
    /\ LET p == Head(shutdowns[s].plan) IN
       IF ok
       THEN /\ active' = active \ {p}
            /\ entries' = Recorded(p, FALSE)
            /\ shutdowns' = [shutdowns EXCEPT ![s].plan = Tail(@), ![s].step = "next"]
            /\ UNCHANGED <<phase, config, mishaps, changes>>
       ELSE /\ changes < MaxChanges /\ changes' = changes + 1
            /\ entries' = [entries EXCEPT ![p].status = "error"]
            /\ Settles(s, "failed")
            /\ mishaps' = mishaps \cup {"shutdown"}
            /\ UNCHANGED active
    /\ UNCHANGED <<config, file, mounted, enabled, dirty, work, bus, stale, starts>>

\* Promise.allSettled: a plugin that does not stop is not noticed.
ContainersClosed(s) ==
    /\ Running /\ s \in Stopping /\ shutdowns[s].step = "containers"
    /\ active' = active \ shutdowns[s].closing
    /\ mounted' = {}
    /\ Moves(s, "bus")
    /\ UNCHANGED <<phase, config, file, entries, enabled, dirty, work, bus, mishaps, stale, starts, changes>>

BusClosed(s) ==
    /\ Running /\ s \in Stopping /\ shutdowns[s].step = "bus"
    /\ bus' = "closed"
    /\ Moves(s, "save")
    /\ UNCHANGED <<phase, config, file, entries, mounted, active, enabled, dirty, work, mishaps, stale, starts, changes>>

\* registry.save() is the last thing that shutdown() does.
Saved(s) ==
    /\ Running /\ s \in Stopping /\ shutdowns[s].step = "save"
    /\ file' = IF AppConfig.registry THEN entries ELSE file
    /\ Settles(s, "over")
    /\ UNCHANGED <<config, entries, mounted, active, enabled, dirty, work, bus, mishaps, stale, starts, changes>>

\* autosaveInterval
AutoSave ==
    /\ Running /\ phase # "bootstrap"
    /\ file' = IF AppConfig.registry THEN entries ELSE file
    /\ UNCHANGED <<phase, config, entries, mounted, active, enabled, dirty, work, shutdowns, bus, mishaps, stale, starts, changes>>

\* The process is killed; or, having exited, it is gone.
Crash ==
    /\ phase # "off" /\ starts < MaxStarts
    /\ phase' = "off" /\ entries' = Fresh /\ bus' = "none" /\ mishaps' = {}
    /\ NewSystem
    /\ UNCHANGED <<config, file, starts, changes>>

ShutdownStep(s) ==
    \/ ShutdownNext(s)
    \/ ShutdownAnswer(s, TRUE)
    \/ ContainersClosed(s)
    \/ BusClosed(s)
    \/ Saved(s)

BootNext ==
    \/ \E source \in {"argument", "file"}, readable \in BOOLEAN : Start(source, readable)
    \/ LoadRegistry \/ AttachCore \/ Reconciled \/ StartFails
    \/ \E c \in Containers : Mount(c)
    \/ \E p \in BootPlugins : Ensure(p) \/ SetState(p)
    \/ BeginReconcile \/ AskContainer \/ \E ok \in BOOLEAN : ContainerAnswers(ok)
    \/ Quit \/ BeforeQuit \/ AutoSave \/ Crash
    \/ \E s \in DOMAIN shutdowns : ShutdownStep(s) \/ ShutdownAnswer(s, FALSE)

BootSpec == BootInit /\ [][BootNext]_bootvars

\* A container that is asked to stop a plugin answers, and so do files.
BootFairness == \A s \in 1 .. 2 : WF_bootvars(s \in DOMAIN shutdowns /\ ShutdownStep(s))

----------------------------------------------------------------------------

AtRest == phase = "up" /\ ~ dirty /\ work.step = "idle" /\ shutdowns = <<>>

\* The registry can be believed across runs of the process.  At rest, what it
\* calls running runs, whatever the last run left in the file -- except an
\* entry that was disabled and not yet stopped when the process was killed.
\* A process that ends by shutdown() has stopped every plugin and closed the
\* bus, and its file has every change and says of nothing that it runs; so
\* also when ECore.quit is followed by the shutdown() of before-quit.  If a
\* call comes before the first is done, only the plugins are sure to have
\* stopped: one fails as soon as the containers are gone, and the process ends
\* before the other has closed the bus and saved.  No promise when a plan
\* failed before, a plugin failed to stop, or a reconcile() was under way.
RegistryIsTrue ==
    /\ entries \in [BootPlugins -> Entry] /\ active \subseteq BootPlugins
    /\ AtRest /\ "plan" \notin mishaps =>
          \A p \in BootPlugins \ stale : (entries[p].status = "running") <=> (p \in active)
    /\ phase = "exited" /\ mishaps \subseteq {"overlap"} => active = {}
    /\ phase = "exited" /\ mishaps = {} =>
          /\ bus = "closed"
          /\ config = "user" =>
                \A p \in BootPlugins \ stale : file[p].status # "running" /\ file[p].on = entries[p].on

\* A user who quits is rid of the process, whatever fails on the way.
QuitEnds ==
    (\E s \in DOMAIN shutdowns : shutdowns[s].who = "user") ~> ~Running

=============================================================================
