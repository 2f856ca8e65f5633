---------------------------- MODULE EbusAskSession ----------------------------
(***************************************************************************)
(* One broadcast `ask` over a tree of buses (packages/ebus).  The bus of   *)
(* the publisher and every bus that relays the ask keep an AskSession,     *)
(* which counts what its own subscribers and each neighbouring bus still   *)
(* owe and passes every result towards the publisher.  A branch ends with  *)
(* an `ack_fin` that states how many results it sent; when all branches    *)
(* have ended the session sends its own `ack_fin` to its source, or closes *)
(* the publisher's iterator, and is removed from its SessionManager.       *)
(*                                                                         *)
(* Links are FIFO: forwardMessage is a `tell`, which serialises and sends  *)
(* synchronously on the ordered control channel of the link.  A link may   *)
(* break, a bus may close and the consumer may abandon the iterator.  The  *)
(* routing tables hold their state at the time of the ask: a bus whose     *)
(* subtree has a subscriber is in its parent's table, and one whose last   *)
(* subscription has just been cancelled may still be (`stale`).            *)
(***************************************************************************)
EXTENDS Naturals, Sequences, FiniteSets, FiniteSetsExt, SequencesExt

CONSTANTS
    Buses, Root,     \* the tree of buses and its root
    ParentOf,        \* the parent of each bus but the root
    Nodes, HomeOf,   \* the nodes and the bus each has joined
    MaxTroubles      \* bound: strangers, denied buses, stale routes, links that
                     \* break and buses that close, all together

Children(b) == { c \in Buses \ {Root} : ParentOf[c] = b }
Parents(b)  == IF b = Root THEN {} ELSE { ParentOf[b] }
Links       == { l \in Buses \X Buses :
                   l[2] \in Children(l[1]) \cup Parents(l[1]) }

\* The buses from b up to the root: those in every set that holds b and, with a bus,
\* its parent.
Upward(S) == \A c \in S \ {Root} : ParentOf[c] \in S
Above == [b \in Buses |-> { c \in Buses :
              \A S \in SUBSET Buses : b \in S /\ Upward(S) => c \in S }]

ASSUME AskAssumption ==
    /\ IsFiniteSet(Buses) /\ Root \in Buses
    /\ ParentOf \in [Buses \ {Root} -> Buses]
    /\ \A c \in Buses \ {Root} : Root \in Above[c] /\ c \notin Above[ParentOf[c]]
    /\ IsFiniteSet(Nodes) /\ HomeOf \in [Nodes -> Buses]
    /\ MaxTroubles \in Nat

VARIABLES
    publisher,    \* the node that asks
    loopback,     \* whether it is asked too
    subscribers,  \* localNodeSubscriptions of all buses, for the topic asked
    strangers,    \* subscribers that share no group with the publisher
    denied,       \* child buses whose bridge rejects the publisher's groups
    hops,         \* remoteTopicHops: child buses their parent sends the ask to
    open,         \* <<b, c>>: b holds a peer stack for its neighbour c
    alive,        \* links whose transport works, in both directions
    session,      \* the AskSession each bus manages, if any
    link,         \* messages under way
    executing,    \* nodes running the procedure
    asked,        \* the ask has been made
    iterator,     \* the publisher's result queue
    consumer,     \* "idle", "waiting" in next(), or "ended"
    consumed,     \* results next() has returned
    silent,       \* history: where the ask arrived and no answer will come from
    troubles      \* what MaxTroubles bounds, so far

setup == <<publisher, loopback, subscribers, strangers, denied>>
vars  == <<setup, hops, open, alive, session, link, executing, asked,
           iterator, consumer, consumed, silent, troubles>>

----------------------------------------------------------------------------
(* Messages and the books of a session.                                    *)

Ask       == [type |-> "ask"]
Result(n) == [type |-> "result", node |-> n]
Fin(k)    == [type |-> "fin", total |-> k]
Message   == {Ask} \cup { Result(n) : n \in Nodes } \cup { Fin(k) : k \in 0 .. Cardinality(Nodes) }

Books     == [status : {"pending", "fin_received"},
              expected : 0 .. Cardinality(Nodes), received : 0 .. Cardinality(Nodes)]
Pending   == [status |-> "pending", expected |-> 0, received |-> 0]
NoSession == [source |-> "none"]

\* `source` is the bus the ask came from, the bus itself for the publisher's.
NewSession(source, remotes, locals) ==
    [source |-> source,
     branch |-> [d \in remotes |-> Pending],
     local  |-> [status |-> "fin_received", expected |-> Cardinality(locals), received |-> 0]]

Settled(books) == books.status = "fin_received" /\ books.received >= books.expected

\* Mutant: complete as soon as one branch has ended (`some` for `every`).
CompleteTooEarly(s) ==
    /\ Settled(s.local)
    /\ DOMAIN s.branch = {} \/ \E d \in DOMAIN s.branch : Settled(s.branch[d])

Complete(s) == Settled(s.local) /\ \A d \in DOMAIN s.branch : Settled(s.branch[d])

\* Mutant: a total that leaves out the bus's own subscribers.
TotalResultsRemote(s) ==
    MapThenSumSet(LAMBDA d : s.branch[d].expected, DOMAIN s.branch)

TotalResults(s) ==
    s.local.expected
        + MapThenSumSet(LAMBDA d : s.branch[d].expected, DOMAIN s.branch)

\* A result from branch d; one from a bus that is no branch is not counted.
CountResult(s, d) ==
    IF d \in DOMAIN s.branch
    THEN [s EXCEPT !.branch[d].received = @ + 1] ELSE s

\* Mutant: a disconnect is not taken for the end of the branch.
EndBranchNotEmpty(s, d, total) ==
    IF d \in DOMAIN s.branch /\ total > 0
    THEN [s EXCEPT !.branch[d].status = "fin_received", !.branch[d].expected = total]
    ELSE s

EndBranch(s, d, total) ==
    IF d \in DOMAIN s.branch
    THEN [s EXCEPT !.branch[d].status = "fin_received", !.branch[d].expected = total]
    ELSE s

----------------------------------------------------------------------------
(* The iterator of the publisher, the links.                               *)

NewIterator == [queue |-> <<>>, state |-> "open"]

\* What the network still holds once `message` has been taken off link l.
Without(l) == [link EXCEPT ![l] = Tail(@)]

\* sendToParent and sendToChild return silently when the peer stack is gone;
\* what is written to a broken transport is lost.
Transmit(network, l, messages) ==
    IF l \in open \cap alive THEN [network EXCEPT ![l] = @ \o messages] ELSE network

Queued(results) ==
    IF consumer = "waiting" THEN iterator.queue ELSE iterator.queue \o results

(***************************************************************************)
(* processResult and checkCompletion: bus b, whose session is now s,       *)
(* passes `results` (none or one) to its source and, when every branch has *)
(* ended, ends the session.  A result that arrives while next() waits is   *)
(* handed to it, so the waiting consumer resumes even if the session ends. *)
(***************************************************************************)
Advance(network, b, s, results) ==
    /\ session' = [session EXCEPT ![b] = IF Complete(s) THEN NoSession ELSE s]
    /\ IF s.source # b
       THEN /\ link' = Transmit(network, <<b, s.source>>,
                           [i \in 1 .. Len(results) |-> Result(results[i])]
                           \o IF Complete(s) THEN <<Fin(TotalResults(s))>> ELSE <<>>)
            /\ UNCHANGED <<iterator, consumer, consumed>>
       ELSE LET woken == consumer = "waiting" /\ results # <<>>
                over  == consumer = "waiting" /\ results = <<>> /\ Complete(s)
            IN /\ link' = network
               /\ iterator' = [queue |-> Queued(results),
                               state |-> IF Complete(s) THEN "closed" ELSE iterator.state]
               /\ consumer' = IF woken THEN "idle" ELSE IF over THEN "ended" ELSE consumer
               /\ consumed' = IF woken THEN consumed \o results ELSE consumed

----------------------------------------------------------------------------
(* dispatchBroadcast: the ask reaches bus b from `source`, b itself when   *)
(* the publisher is a node of b.                                           *)

\* _checkGroupPermissions of a parent's bridge to its child c.
Permits(c) == c \notin denied

LocalTargets(b, source) ==
    { n \in subscribers : HomeOf[n] = b /\ (source = b /\ ~loopback => n # publisher) }

\* getBroadcastDownstream, then filterDownstreamChildren.
RemoteTargets(b, source) ==
    { c \in hops \cap Children(b) : c # source /\ <<b, c>> \in open /\ Permits(c) }
    \cup { p \in Parents(b) : p # source /\ <<b, p>> \in open }

\* executeBroadcastProcedure: the procedure of a node runs if it shares a group
\* with the publisher; otherwise the answer is `undefined` at once.
Executes(n) == n \notin strangers

(***************************************************************************)
(* With nothing to ask b keeps no session, and sends no ack_fin; the       *)
(* publisher gets an empty iterator.  Otherwise it registers a session,    *)
(* sends the ask on, and calls its subscribers; a stranger's procedure     *)
(* answers `undefined` at once, which is ignored.                          *)
(***************************************************************************)
Dispatch(network, b, source) ==
    LET remotes == RemoteTargets(b, source)
        locals  == LocalTargets(b, source)
        idle    == remotes = {} /\ locals = {}
    IN /\ session' = IF idle THEN session
                     ELSE [session EXCEPT ![b] = NewSession(source, remotes, locals)]
       /\ link' = [l \in Links |->
              IF l[1] = b /\ l[2] \in remotes /\ l \in alive
              THEN Append(network[l], Ask) ELSE network[l]]
       /\ executing' = executing \cup { n \in locals : Executes(n) }
       /\ silent' = silent \cup { <<b, n>> : n \in { m \in locals : ~Executes(m) } }
                           \cup IF idle /\ source # b THEN {<<source, b>>} ELSE {}
       /\ iterator' = IF idle /\ source = b THEN [iterator EXCEPT !.state = "closed"] ELSE iterator
       /\ UNCHANGED <<setup, hops, open, alive, consumer, consumed, troubles>>

Publish ==
    /\ ~asked
    /\ asked' = TRUE
    /\ Dispatch(link, HomeOf[publisher], HomeOf[publisher])

----------------------------------------------------------------------------
(* What a bus does with a message.                                         *)

Arrived(l, type) == link[l] # <<>> /\ Head(link[l]).type = type

\* The gateway: a parent drops a broadcast its bridge to that child rejects.
DropAsk(l) ==
    /\ Arrived(l, "ask")
    /\ l[1] \in Children(l[2]) /\ ~Permits(l[1])
    /\ link' = Without(l)
    /\ silent' = silent \cup {l}
    /\ UNCHANGED <<setup, hops, open, alive, session, executing, asked, iterator,
                   consumer, consumed, troubles>>

RelayAsk(l) ==
    /\ Arrived(l, "ask")
    /\ l[1] \in Children(l[2]) => Permits(l[1])
    /\ Dispatch(Without(l), l[2], l[1])
    /\ UNCHANGED asked

\* update(): an answer for a session this bus manages.
UpdateSession(l) ==
    LET b == l[2]
        m == Head(link[l])
    IN /\ Arrived(l, "result") \/ Arrived(l, "fin")
       /\ session[b] # NoSession
       /\ IF m.type = "result"
          THEN Advance(Without(l), b, CountResult(session[b], l[1]), <<m.node>>)
          ELSE Advance(Without(l), b, EndBranch(session[b], l[1], m.total), <<>>)
       /\ UNCHANGED <<setup, hops, open, alive, executing, asked, silent, troubles>>

\* routeP2PMessage: no session, and "upstream" is no node, so the answer goes
\* to the parent if there is one.
RouteUpstream(l) ==
    LET b == l[2]
    IN /\ Arrived(l, "result") \/ Arrived(l, "fin")
       /\ session[b] = NoSession
       /\ link' = [m \in Links |->
              IF m[1] = b /\ m[2] \in Parents(b)
              THEN Transmit(Without(l), m, <<Head(link[l])>>)[m] ELSE Without(l)[m]]
       /\ UNCHANGED <<setup, hops, open, alive, session, executing, asked, iterator,
                      consumer, consumed, silent, troubles>>

Receive(l) == DropAsk(l) \/ RelayAsk(l) \/ UpdateSession(l) \/ RouteUpstream(l)

\* executeLocalAsk: a node answers; without a session its result is dropped.
Answer(n) ==
    LET b == HomeOf[n]
    IN /\ n \in executing
       /\ executing' = executing \ {n}
       /\ IF session[b] = NoSession
          THEN UNCHANGED <<session, link, iterator, consumer, consumed>>
          ELSE Advance(link, b, [session[b] EXCEPT !.local.received = @ + 1], <<n>>)
       /\ UNCHANGED <<setup, hops, open, alive, asked, silent, troubles>>

----------------------------------------------------------------------------
(* The consumer: next(), and return() when it leaves the loop.             *)

TakeResult ==
    /\ iterator.state # "failed" /\ iterator.queue # <<>>
    /\ consumed' = Append(consumed, Head(iterator.queue))
    /\ iterator' = [iterator EXCEPT !.queue = Tail(@)]
    /\ UNCHANGED consumer

\* A failed iterator throws before it hands out what is queued.
FindNothing ==
    /\ iterator.state = "failed" \/ iterator.queue = <<>>
    /\ consumer' = IF iterator.state = "open" THEN "waiting" ELSE "ended"
    /\ UNCHANGED <<iterator, consumed>>

CallNext ==
    /\ asked /\ consumer = "idle"
    /\ TakeResult \/ FindNothing
    /\ UNCHANGED <<setup, hops, open, alive, session, link, executing, asked, silent, troubles>>

\* terminate(error), wrapped by the SessionManager: nothing unless still managed.
Abandon(b) ==
    IF session[b] = NoSession \/ session[b].source # b
    THEN UNCHANGED iterator ELSE iterator' = [iterator EXCEPT !.state = "failed"]

CallReturn ==
    LET b == HomeOf[publisher]
    IN /\ asked /\ consumer = "idle"
       /\ consumer' = "ended"
       /\ Abandon(b)
       /\ session' = [session EXCEPT ![b] = NoSession]
       /\ UNCHANGED <<setup, hops, open, alive, link, executing, asked, consumed, silent, troubles>>

----------------------------------------------------------------------------
(* Failures.                                                               *)

Ends(c) == { <<c, ParentOf[c]>>, <<ParentOf[c], c>> }

Break(links) ==
    /\ alive' = alive \ links
    /\ link' = [l \in Links |-> IF l \in links THEN <<>> ELSE link[l]]
    /\ troubles < MaxTroubles
    /\ troubles' = troubles + 1

LinkBreaks(c) ==
    /\ Ends(c) \subseteq alive
    /\ Break(Ends(c))
    /\ UNCHANGED <<setup, hops, open, session, executing, asked, iterator,
                   consumer, consumed, silent>>

\* close(): every session ends with an error and the peer stacks close.
CloseBus(b) ==
    /\ asked
    /\ Break({ l \in Links : b \in {l[1], l[2]} })
    /\ Abandon(b)
    /\ session' = [session EXCEPT ![b] = NoSession]
    /\ consumer' = IF consumer = "waiting" /\ iterator' # iterator THEN "ended" ELSE consumer
    /\ UNCHANGED <<setup, hops, open, executing, asked, consumed, silent>>

\* connectionDropped: the branch counts as ended with no results, and the
\* routing table forgets a child.
NoticeDrop(l) ==
    LET b == l[1]
    IN /\ l \in open \ alive
       /\ open' = open \ {l}
       /\ hops' = hops \ ({l[2]} \cap Children(b))
       /\ IF session[b] = NoSession \/ l[2] \notin DOMAIN session[b].branch
          THEN UNCHANGED <<session, link, iterator, consumer, consumed>>
          ELSE Advance(link, b, EndBranch(session[b], l[2], 0), <<>>)
       /\ UNCHANGED <<setup, alive, executing, asked, silent, troubles>>

----------------------------------------------------------------------------

\* Child buses with a subscriber in their subtree.
Interested(subs) == { c \in Buses \ {Root} : \E n \in subs : c \in Above[HomeOf[n]] }

Init ==
    /\ publisher \in Nodes
    /\ subscribers \in SUBSET Nodes
    /\ loopback \in IF publisher \in subscribers THEN BOOLEAN ELSE {TRUE}
    /\ strangers \in SUBSET (subscribers \ {publisher})
    /\ denied \in SUBSET (Buses \ {Root})
    /\ \E stale \in SUBSET (Buses \ ({Root} \cup Interested(subscribers))) :
          /\ hops = Interested(subscribers) \cup stale
          /\ troubles = Cardinality(strangers) + Cardinality(denied) + Cardinality(stale)
    /\ troubles <= MaxTroubles
    /\ open = Links /\ alive = Links
    /\ session = [b \in Buses |-> NoSession]
    /\ link = [l \in Links |-> <<>>]
    /\ executing = {} /\ asked = FALSE
    /\ iterator = NewIterator
    /\ consumer = "idle" /\ consumed = <<>>
    /\ silent = {}

Deliver == \E l \in Links : Receive(l)
Notice  == \E l \in Links : NoticeDrop(l)

Next ==
    \/ Publish
    \/ Deliver
    \/ \E n \in Nodes : Answer(n)
    \/ CallNext
    \/ CallReturn
    \/ \E c \in Buses \ {Root} : LinkBreaks(c)
    \/ \E b \in Buses : CloseBus(b)
    \/ Notice

Spec == Init /\ [][Next]_vars

\* Links deliver, procedures return, and a broken transport is reported to
\* both its ends; nobody has to ask, to consume, to fail or to close.
FairSpec ==
    /\ Spec
    /\ \A l \in Links : WF_vars(Receive(l)) /\ WF_vars(NoticeDrop(l))
    /\ \A n \in Nodes : WF_vars(Answer(n))

----------------------------------------------------------------------------
(* Properties.                                                             *)

SessionOK(b, s) ==
    \/ s = NoSession
    \/ /\ s.source \in {b} \cup Children(b) \cup Parents(b)
       /\ DOMAIN s.branch \subseteq (Children(b) \cup Parents(b)) \ {s.source}
       /\ \A d \in DOMAIN s.branch : s.branch[d] \in Books
       /\ s.local \in Books

\* Types; a session's branches are neighbours other than its source, and no
\* branch is owed or credited more results than there are nodes.
TypeOK ==
    /\ publisher \in Nodes /\ loopback \in BOOLEAN /\ subscribers \subseteq Nodes
    /\ strangers \subseteq subscribers /\ denied \subseteq Buses /\ hops \subseteq Buses
    /\ alive \subseteq Links /\ open \subseteq Links
    /\ \A b \in Buses : SessionOK(b, session[b])
    /\ link \in [Links -> Seq(Message)]
    /\ executing \subseteq subscribers \ strangers /\ asked \in BOOLEAN
    /\ iterator.queue \in Seq(Nodes) /\ iterator.state \in {"open", "closed", "failed"}
    /\ consumer \in {"idle", "waiting", "ended"} /\ consumed \in Seq(Nodes)
    /\ silent \subseteq Buses \X (Buses \cup Nodes) /\ troubles \in 0 .. MaxTroubles

\* Results the publisher has, or will have by calling next().
Yielded == ToSet(consumed) \cup ToSet(iterator.queue)

\* The buses whose link to their parent the ask crosses to reach node n, up
\* from the publisher's bus and down to n's.
Up(n)   == Above[HomeOf[publisher]] \ Above[HomeOf[n]]
Down(n) == Above[HomeOf[n]] \ Above[HomeOf[publisher]]

\* n is to be asked: it subscribes, shares a group, and no policy of a bridge
\* on the way and no broken link keeps the ask or the answer from passing.
Owed(n) ==
    /\ n \in subscribers \ strangers
    /\ loopback \/ n # publisher
    /\ \A c \in Up(n) \cup Down(n) : c \notin denied /\ Ends(c) \subseteq alive

\* No subscriber's result reaches the publisher twice.
NoResultTwice == IsInjective(consumed \o iterator.queue)

\* An iterator that ends normally has delivered the result of every subscriber
\* that was to be asked, once, whatever breaks elsewhere (AskSession.checkCompletion).
CompleteMeansAll ==
    /\ NoResultTwice
    /\ asked /\ iterator.state = "closed" => \A n \in Nodes : Owed(n) => n \in Yielded

\* An ack_fin comes after the results it counts, and while nothing has failed
\* it counts every result its branch has passed on
\* (RpcAckFinPayload.totalResults).
ResultsAddUp ==
    /\ TypeOK
    /\ \A b \in Buses : session[b] # NoSession =>
         \A d \in DOMAIN session[b].branch :
             LET books == session[b].branch[d]
             IN books.status = "fin_received" =>
                   /\ books.received >= books.expected
                   /\ alive = Links => books.received = books.expected

\* The publisher's iterator ends once every subscriber that runs the
\* procedure has answered, even when links break or buses close on the way,
\* unless the ask reached a bus or a node that never answers.
AskCompletes == asked ~> (iterator.state # "open" \/ silent # {})

\* Answers that arrive after their session has ended do not circulate for ever.
LinksDrain == <>[]((\A l \in Links : link[l] = <<>>) \/ silent # {})

\* An ask comes to rest: at the publisher, and on every link.
AskSettles == AskCompletes /\ LinksDrain

\* Every ask ends: the loop over `.all()` in packages/ebus/README.md ends when
\* all subscribers have responded.
AskAlwaysCompletes == asked ~> iterator.state # "open"

=============================================================================
