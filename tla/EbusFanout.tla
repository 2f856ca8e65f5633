----------------------------- MODULE EbusFanout -----------------------------
(***************************************************************************)
(* One argument of a broadcast for many targets (packages/ebus: dispatch,  *)
(* stream and pin dispatch).  Data is copied; a readable stream is read    *)
(* once and every chunk of it handed to all targets; what the targets      *)
(* write to their writable streams is gathered in the original one.        *)
(***************************************************************************)
EXTENDS Naturals, Sequences, FiniteSets, SequencesExt

CONSTANTS
    Targets,     \* the nodes and buses a broadcast goes to
    MaxChunks,   \* bound: chunks of the readable stream
    MaxWrites    \* bound: chunks each target writes

ASSUME TargetsAssumption == IsFiniteSet(Targets)

VARIABLES
    state,        \* of the multicaster
    source,       \* the original readable stream: chunks given, and how it ended
    read,         \* the pending read: "none", "waiting", or what it resolved to
    controllers,  \* the targets that chunks go to
    consumer,     \* the streams they were handed
    contributor,  \* the writable streams handed to the targets
    writer,       \* the original writable stream: its queue, what it took, its state
    active,       \* activeContributors
    terminated,   \* isTerminated: "no", or what it was terminated by
    completion    \* the promise all contributors share

outvars == <<state, source, read, controllers, consumer>>
invars  == <<contributor, writer, active, terminated, completion>>
fanvars == <<outvars, invars>>

----------------------------------------------------------------------------
(* Fan-out.                                                                *)

\* All proxy streams are made at once, and the first starts the reading.
OutInit ==
    /\ state = "pulling" /\ read = "waiting"
    /\ source = [given |-> 0, ended |-> "no"]
    /\ controllers = Targets
    /\ consumer = [t \in Targets |-> [queue |-> <<>>, taken |-> 0, state |-> "readable"]]

\* All of it is over.
OutOver ==
    /\ state = "closed" /\ read = "none"
    /\ source = [given |-> 0, ended |-> "done"]
    /\ controllers = {}
    /\ consumer = [t \in Targets |-> [queue |-> <<>>, taken |-> 0, state |-> "closed"]]

\* The read that is pending resolves.
SourceGives ==
    /\ read = "waiting" /\ source.ended = "no" /\ source.given < MaxChunks
    /\ source' = [source EXCEPT !.given = @ + 1]
    /\ read' = "chunk"
    /\ UNCHANGED <<state, controllers, consumer, invars>>

SourceEnds(how) ==
    /\ read = "waiting" /\ source.ended = "no"
    /\ source' = [source EXCEPT !.ended = how]
    /\ read' = how
    /\ UNCHANGED <<state, controllers, consumer, invars>>

\* controller.close(): what is queued can still be read.
Closed(c)  == [c EXCEPT !.state = IF @ # "readable" THEN @ ELSE IF c.queue = <<>> THEN "closed" ELSE "closing"]
\* controller.error(): what is queued is lost.
Errored(c) == IF c.state = "readable" THEN [c EXCEPT !.state = "errored", !.queue = <<>>] ELSE c
Ended(End(_), ts) == [t \in Targets |-> IF t \in ts THEN End(consumer[t]) ELSE consumer[t]]

\* Every target is given a copy, however much it has not read yet.
Enqueued(n) ==
    [t \in Targets |-> IF t \in controllers THEN [consumer[t] EXCEPT !.queue = Append(@, n)] ELSE consumer[t]]

\* The loop of pullFromSource goes on with what was read.
PullChunk ==
    /\ read = "chunk"
    /\ consumer' = IF controllers = {} THEN consumer ELSE Enqueued(source.given)
    /\ read' = IF state = "pulling" THEN "waiting" ELSE "none"
    /\ UNCHANGED <<state, source, controllers, invars>>

PullEnd ==
    /\ read \in {"done", "failed"}
    /\ state' = IF read = "done" THEN "closed" ELSE "errored"
    /\ consumer' = IF read = "done" THEN Ended(Closed, controllers) ELSE Ended(Errored, controllers)
    /\ controllers' = {} /\ read' = "none"
    /\ UNCHANGED <<source, invars>>

\* A target reads.
Take(t) ==
    LET c == consumer[t]
    IN /\ c.queue # <<>>
       /\ consumer' = [consumer EXCEPT ![t] =
              [queue |-> Tail(c.queue), taken |-> Head(c.queue),
               state |-> IF c.state = "closing" /\ Len(c.queue) = 1 THEN "closed" ELSE c.state]]
       /\ UNCHANGED <<state, source, read, controllers, invars>>

\* A target cancels, and all others fail with it.  The source is locked by the
\* multicaster's own reader, so that its cancel() is refused and it is not told.
Cancel(t) ==
    /\ consumer[t].state \in {"readable", "closing"}
    /\ state' = IF state = "pulling" THEN "errored" ELSE state
    /\ controllers' = IF state = "pulling" THEN {} ELSE controllers
    /\ consumer' = [IF state = "pulling" THEN Ended(Errored, controllers) ELSE consumer
                    EXCEPT ![t].state = "cancelled", ![t].queue = <<>>]
    /\ UNCHANGED <<source, read, invars>>

OutNext ==
    \/ SourceGives
    \/ \E how \in {"done", "failed"} : SourceEnds(how)
    \/ PullChunk \/ PullEnd
    \/ \E t \in Targets : Take(t) \/ Cancel(t)

OutFairness == WF_fanvars(SourceGives) /\ WF_fanvars(SourceEnds("done")) /\ WF_fanvars(PullChunk \/ PullEnd)
               /\ \A t \in Targets : WF_fanvars(Take(t))

----------------------------------------------------------------------------
(* Fan-in.                                                                 *)

InInit ==
    /\ contributor = [t \in Targets |-> [state |-> "open", wrote |-> 0, acked |-> 0, aborts |-> "no"]]
    /\ writer = [queue |-> <<>>, took |-> <<>>, state |-> "writable"]
    /\ active = Cardinality(Targets)
    /\ terminated = "no" /\ completion = "pending"

\* The contributors whose write is in the queue of the original.
Writing == {t \in Targets : contributor[t].state = "writing"}

\* A write is handed to the original; after the end it is refused.
Write(t) ==
    /\ contributor[t].state = "open" /\ contributor[t].wrote < MaxWrites
    /\ IF terminated # "no"
       THEN /\ contributor' = [contributor EXCEPT ![t].state = "errored"]
            /\ UNCHANGED writer
       ELSE /\ contributor' = [contributor EXCEPT ![t].state = "writing", ![t].wrote = @ + 1]
            /\ writer' = [writer EXCEPT !.queue = Append(@, [from |-> t, n |-> contributor[t].wrote + 1])]
    /\ UNCHANGED <<active, terminated, completion, outvars>>

\* Mutant: the original is closed when the first contributor is.
TerminateAny(left) == left < Cardinality(Targets)
\* The last contributor to close ends the original.
TerminateNow(left) == left = 0

CloseContributor(t) ==
    LET left == IF terminated = "no" THEN active - 1 ELSE active
        ends == terminated = "no" /\ TerminateNow(left)
    IN /\ contributor[t].state = "open"
       /\ contributor' = [contributor EXCEPT ![t].state = "closing"]
       /\ active' = left
       /\ terminated' = IF ends THEN "close" ELSE terminated
       /\ writer' = IF ends THEN [writer EXCEPT !.state = "closing"] ELSE writer
       /\ UNCHANGED <<completion, outvars>>

\* abort() runs when no write is under way; without a reason, terminate() takes
\* it for the end.
AbortNow(t, why, c) ==
    LET how == IF why = "reason" THEN "abort" ELSE "close"
    IN /\ contributor' = [c EXCEPT ![t].state = "closing"]
       /\ terminated' = IF terminated = "no" THEN how ELSE terminated
       /\ writer' = IF terminated # "no" THEN writer
                    ELSE [writer EXCEPT !.state = IF how = "abort" THEN "aborting" ELSE "closing"]

AbortContributor(t, why) ==
    /\ contributor[t].state = "open"
    /\ AbortNow(t, why, [contributor EXCEPT ![t].aborts = why])
    /\ UNCHANGED <<active, completion, outvars>>

AbortLater(t, why) ==
    /\ contributor[t].state = "writing" /\ contributor[t].aborts = "no"
    /\ contributor' = [contributor EXCEPT ![t].aborts = why]
    /\ UNCHANGED <<writer, active, terminated, completion, outvars>>

\* The original takes the next chunk, and the write that brought it ends.
Takes ==
    LET w == Head(writer.queue)
    IN /\ writer.queue # <<>> /\ writer.state \in {"writable", "closing"}
       /\ writer' = [writer EXCEPT !.queue = Tail(@), !.took = Append(@, w)]
       /\ contributor' = [contributor EXCEPT ![w.from].acked = w.n,
              ![w.from].state = IF contributor[w.from].aborts = "no" THEN "open" ELSE "interrupted"]
       /\ UNCHANGED <<active, terminated, completion, outvars>>

\* An abort that waited for its write.
AbortGoesOn(t) ==
    /\ contributor[t].state = "interrupted"
    /\ AbortNow(t, contributor[t].aborts, contributor)
    /\ UNCHANGED <<active, completion, outvars>>

\* What is left in the queue of an original that failed is refused, and the
\* contributor whose write was the first to be ends it all.
WritersErrored(c) == [t \in Targets |-> IF t \in Writing THEN [c[t] EXCEPT !.state = "errored"] ELSE c[t]]

\* The original refuses a chunk.
Fails ==
    /\ writer.queue # <<>> /\ writer.state \in {"writable", "closing"}
    /\ writer' = [writer EXCEPT !.queue = <<>>, !.state = "errored"]
    /\ contributor' = WritersErrored(contributor)
    /\ terminated' = IF terminated = "no" THEN "failed" ELSE terminated
    /\ completion' = "rejected"
    /\ UNCHANGED <<active, outvars>>

\* terminate() has closed or aborted the original: the promise settles.
Completes ==
    /\ \/ /\ writer.state = "closing" /\ writer.queue = <<>>
          /\ writer' = [writer EXCEPT !.state = "closed"]
          /\ completion' = "resolved"
          /\ UNCHANGED contributor
       \/ /\ writer.state = "aborting"
          /\ writer' = [writer EXCEPT !.state = "errored", !.queue = <<>>]
          /\ completion' = "rejected"
          /\ contributor' = WritersErrored(contributor)
    /\ UNCHANGED <<active, terminated, outvars>>

Told(t) == completion # "pending"

\* close() and abort() of a contributor end as the promise does.
Settles(t) ==
    /\ contributor[t].state = "closing" /\ Told(t)
    /\ contributor' = [contributor EXCEPT ![t].state = IF completion = "resolved" THEN "closed" ELSE "errored"]
    /\ UNCHANGED <<writer, active, terminated, completion, outvars>>

InNext ==
    \/ \E t \in Targets : \/ Write(t) \/ CloseContributor(t) \/ AbortGoesOn(t) \/ Settles(t)
                          \/ \E why \in {"reason", "none"} : AbortContributor(t, why) \/ AbortLater(t, why)
    \/ Takes \/ Fails \/ Completes

InFairness == /\ WF_fanvars(Takes) /\ WF_fanvars(Completes)
              /\ \A t \in Targets : WF_fanvars(AbortGoesOn(t)) /\ WF_fanvars(Settles(t))

\* Both arguments, each on its own.
FanSpec == OutInit /\ InInit /\ [][OutNext \/ InNext]_fanvars

----------------------------------------------------------------------------
(* Properties.                                                             *)

\* A target that has not failed or cancelled has read, or has yet to read,
\* every chunk the source gave, in order; its stream closes only after the
\* last; and none is left reading once another has cancelled
\* (createMulticaster).
FanoutGivesAll ==
    \A t \in Targets :
        LET c == consumer[t]
            handled == source.given - (IF read = "chunk" THEN 1 ELSE 0)
        IN /\ c.state \in {"readable", "closing", "closed"} =>
                c.queue = [i \in 1 .. handled - c.taken |-> c.taken + i]
           /\ c.state \in {"closing", "closed"} => source.ended = "done"
           /\ c.state = "readable" => \A s \in Targets : consumer[s].state \notin {"errored", "cancelled"}

\* The original has closed only if every contributor closed, or one aborted and
\* gave no reason; it has taken every chunk whose write was said to have
\* succeeded, each contributor's in order (WritableStreamDispatchHandler).
FaninTakesAll ==
    /\ writer.state = "closed" =>
         \/ \A t \in Targets : contributor[t].state \in {"closing", "closed"} /\ contributor[t].aborts = "no"
         \/ \E t \in Targets : contributor[t].aborts = "none"
    /\ \A t \in Targets :
          { w.n : w \in { x \in Range(writer.took) : x.from = t } } = 1 .. contributor[t].acked
    /\ \A i, j \in DOMAIN writer.took :
          i < j /\ writer.took[i].from = writer.took[j].from => writer.took[i].n < writer.took[j].n

\* A stream given to several targets is whole at each, and one that several
\* targets write to ends the way they did.
SharedStreamsAgree == FanoutGivesAll /\ FaninTakesAll

\* Every target's readable stream ends, if the source does; a contributor that
\* closes or aborts is told how it ended, unless others stay open.
SharedStreamsEnd == \A t \in Targets :
    /\ <>(consumer[t].state \in {"closed", "errored", "cancelled"})
    /\ contributor[t].state = "closing" ~>
           \/ contributor[t].state # "closing"
           \/ \E s \in Targets : contributor[s].state \in {"open", "writing"}

=============================================================================
