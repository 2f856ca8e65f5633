----------------------------- MODULE EbusRouting -----------------------------
(***************************************************************************)
(* How the buses of a tree learn where the nodes are and which subtrees    *)
(* want a topic (packages/ebus: the routing, local-node-manager, api and   *)
(* protocol-coordinator features).  Nodes join, leave, subscribe to one    *)
(* topic and cancel.  Each change is applied to the tables of the bus and  *)
(* announced to its parent, which admits it, applies it, announces it      *)
(* further up and acknowledges it once it has been acknowledged itself; a  *)
(* bus whose announcement fails puts its tables back.  Buses connect to    *)
(* their parent, and push what they know; links break, and an answer that  *)
(* cannot come any more is given up by a timeout.                          *)
(***************************************************************************)
EXTENDS Naturals, Sequences, FiniteSets, FiniteSetsExt, SequencesExt

CONSTANTS
    Buses, Root,   \* the tree of buses and its root
    ParentOf,      \* the parent of each bus but the root
    Nodes,         \* node ids
    Places,        \* <<bus, node>>: where the program may join which node
    MaxCalls,      \* bound: calls of join, close, subscribe and cancel
    MaxTroubles    \* bound: links that break and nodes that bridges refuse

Children(b) == { c \in Buses \ {Root} : ParentOf[c] = b }
Parents(b)  == IF b = Root THEN {} ELSE { ParentOf[b] }
Links       == { l \in Buses \X Buses :
                   l[2] \in Children(l[1]) \cup Parents(l[1]) }

VARIABLES
    place,      \* LocalNodeManager: what has become of each node at each bus
    handlers,   \* nodes of a bus with a handler for the topic
    routes,     \* nodeRoutes: "none", "local" or the child bus that leads to a node
    kids,       \* childBusNodeMap: nodes announced by a child bus
    subs,       \* localNodeSubscriptions for the topic
    hops,       \* remoteTopicHops: child buses interested in the topic
    pending,    \* PendingAckManager: requests to the parent awaiting an answer
    link,       \* messages under way
    open,       \* <<b, c>>: b holds a peer stack for its neighbour c
    alive,      \* links whose transport works
    refused,    \* <<c, n>>: the bridge to child bus c refuses node n
    calls,      \* calls made so far
    troubles,   \* links broken and nodes refused so far
    mishaps     \* history: "timeout" and "push", requests that failed for such a reason

tables == <<routes, kids, subs, hops>>
vars == <<place, handlers, tables, pending, link, open, alive, refused, calls, troubles, mishaps>>

----------------------------------------------------------------------------
(* Requests to the parent.  A request carries announcements of nodes or    *)
(* the interest in the topic; `then` is what the bus does with the answer. *)

Up(n)   == [node |-> n, available |-> TRUE]
Down(n) == [node |-> n, available |-> FALSE]

NodesRequest(anns, then) == [body |-> [type |-> "nodes", anns |-> anns], then |-> then]
TopicRequest(on, then)   == [body |-> [type |-> "topic", on |-> on], then |-> then]

Connected(b) == \E p \in Parents(b) : <<b, p>> \in open

\* Correlation ids are unique: one is not used again while any trace is left.
LastId(b) ==
    Max({0} \cup { p.id : p \in pending[b] }
            \cup UNION { { link[l][i].id : i \in DOMAIN link[l] } : l \in { m \in Links : b \in {m[1], m[2]} } }
            \cup UNION { { p.then.id : p \in { q \in pending[c] : q.then.op \in {"nodes", "topic"} /\ q.then.from = b } } :
                           c \in Parents(b) })

\* What bus b sends to its parent, and what it then waits for.
Envelopes(b, requests) ==
    [i \in DOMAIN requests |-> [id |-> LastId(b) + i, body |-> requests[i].body]]
Remembered(b, requests) ==
    [pending EXCEPT ![b] = @ \cup { [id |-> LastId(b) + i, then |-> requests[i].then] : i \in DOMAIN requests }]

\* A message to a neighbour whose peer stack is gone is silently dropped.
Transmit(network, l, messages) ==
    IF l \in open \cap alive THEN [network EXCEPT ![l] = @ \o messages] ELSE network

\* propagateNodeChangeUpstream, propagateSubscriptionChangeUpstream.
Propagate(network, b, requests) ==
    IF Connected(b)
    THEN /\ link' = Transmit(network, <<b, ParentOf[b]>>, Envelopes(b, requests))
         /\ pending' = Remembered(b, requests)
    ELSE link' = network /\ UNCHANGED pending

Answer(network, b, c, id, ok) ==
    Transmit(network, <<b, c>>, <<[id |-> id, body |-> [type |-> "answer", ok |-> ok]]>>)

Without(l) == [link EXCEPT ![l] = Tail(@)]

Interested(subscribers, remotes) == subscribers # {} \/ remotes # {}

\* The announcement of a change of interest in the topic, if there is one.
InterestChange(b, subscribers, remotes, then) ==
    LET now == Interested(subscribers, remotes)
    IN IF now = Interested(subs[b], hops[b]) THEN <<>> ELSE <<TopicRequest(now, then)>>

----------------------------------------------------------------------------
(* Calls of the program on one of its nodes.  It awaits each of them       *)
(* before it makes the next one about the same node.                       *)

Call ==
    /\ calls < MaxCalls
    /\ calls' = calls + 1
    /\ UNCHANGED <<open, alive, refused, troubles, mishaps>>

AtRest(b, n) ==
    /\ place[<<b, n>>] = "in"
    /\ ~ \E p \in pending[b] : p.then.op \in {"subscribe", "cancel"} /\ p.then.node = n

\* registerNode, then announceNode.
Join(b, n) ==
    /\ Call
    /\ place[<<b, n>>] = "out"
    /\ place' = [place EXCEPT ![<<b, n>>] = IF Connected(b) THEN "joining" ELSE "in"]
    /\ routes' = [routes EXCEPT ![b][n] = "local"]
    /\ Propagate(link, b, <<NodesRequest(<<Up(n)>>, [op |-> "join", node |-> n])>>)
    /\ UNCHANGED <<handlers, kids, subs, hops>>

AddSubscription(b, n) == handlers' = [handlers EXCEPT ![b] = @ \cup {n}]

\* addSubscription, then updateLocalSubscription.
Subscribe(b, n) ==
    /\ Call
    /\ AtRest(b, n)
    /\ AddSubscription(b, n)
    /\ subs' = [subs EXCEPT ![b] = @ \cup {n}]
    /\ Propagate(link, b, InterestChange(b, subs[b] \cup {n}, hops[b], [op |-> "subscribe", node |-> n]))
    /\ UNCHANGED <<place, routes, kids, hops>>

\* updateLocalSubscription; the handler goes once that is acknowledged.
Cancel(b, n) ==
    LET change == InterestChange(b, subs[b] \ {n}, hops[b], [op |-> "cancel", node |-> n])
    IN /\ Call
       /\ AtRest(b, n)
       /\ n \in handlers[b]
       /\ subs' = [subs EXCEPT ![b] = @ \ {n}]
       /\ handlers' = IF Connected(b) /\ change # <<>> THEN handlers
                      ELSE [handlers EXCEPT ![b] = @ \ {n}]
       /\ Propagate(link, b, change)
       /\ UNCHANGED <<place, routes, kids, hops>>

\* closeNode: everything is withdrawn, and when both announcements have
\* settled, however, the node is removed.
Close(b, n) ==
    LET leave == [op |-> "leave", node |-> n]
    IN /\ Call
       /\ AtRest(b, n)
       /\ subs' = [subs EXCEPT ![b] = @ \ {n}]
       /\ routes' = [routes EXCEPT ![b][n] = "none"]
       /\ place' = [place EXCEPT ![<<b, n>>] = IF Connected(b) THEN "closing" ELSE "out"]
       /\ handlers' = IF Connected(b) THEN handlers ELSE [handlers EXCEPT ![b] = @ \ {n}]
       /\ Propagate(link, b, InterestChange(b, subs[b] \ {n}, hops[b], leave)
                             \o <<NodesRequest(<<Down(n)>>, leave)>>)
       /\ UNCHANGED <<kids, hops>>

----------------------------------------------------------------------------
(* A bus handles an announcement of child c.                               *)

\* One announcement, checked against the bridge's policy and the routes; a
\* node that is not admitted ends the loop and what was done stays.
AdmitOne(c, book, a) ==
    CASE ~ book.ok -> book
      [] book.ok /\ a.available ->
           IF <<c, a.node>> \in refused \/ book.routes[a.node] \notin {"none", c}
           THEN [book EXCEPT !.ok = FALSE]
           ELSE [ok |-> TRUE, routes |-> [book.routes EXCEPT ![a.node] = c],
                 kids |-> book.kids \cup {a.node},
                 undo |-> Append(book.undo, [node |-> a.node, previous |-> book.routes[a.node]])]
      [] book.ok /\ ~ a.available ->
           IF book.routes[a.node] # c THEN book
           ELSE [ok |-> TRUE, routes |-> [book.routes EXCEPT ![a.node] = "none"],
                 kids |-> book.kids \ {a.node},
                 undo |-> Append(book.undo, [node |-> a.node, previous |-> c])]

Admit(b, c, anns) ==
    FoldLeft(LAMBDA book, a : AdmitOne(c, book, a),
             [ok |-> TRUE, routes |-> routes[b], kids |-> kids[c], undo |-> <<>>], anns)

Arrived(l, type) == link[l] # <<>> /\ Head(link[l]).body.type = type

\* Common to HandleNodes and its mutants.
Admitted(l, book) ==
    /\ Arrived(l, "nodes")
    /\ routes' = [routes EXCEPT ![l[2]] = book.routes]
    /\ kids' = [kids EXCEPT ![l[1]] = book.kids]
    /\ UNCHANGED <<place, handlers, subs, hops, open, alive, refused, calls, troubles, mishaps>>

\* Mutants: the child is answered before the parent has answered; a refusal
\* is not answered.
HandleNodesEarly(l) ==
    LET m == Head(link[l])
        book == Admit(l[2], l[1], m.body.anns)
    IN /\ Admitted(l, book)
       /\ Propagate(Answer(Without(l), l[2], l[1], m.id, book.ok), l[2],
                    IF book.ok THEN <<NodesRequest(m.body.anns, [op |-> "purge"])>> ELSE <<>>)

HandleNodesSilently(l) ==
    LET c == l[1]
        b == l[2]
        m == Head(link[l])
        book == Admit(b, c, m.body.anns)
        then == [op |-> "nodes", from |-> c, id |-> m.id, undo |-> book.undo]
    IN /\ Admitted(l, book)
       /\ IF book.ok /\ Connected(b)
          THEN Propagate(Without(l), b, <<NodesRequest(m.body.anns, then)>>)
          ELSE /\ link' = IF book.ok THEN Answer(Without(l), b, c, m.id, TRUE) ELSE Without(l)
               /\ UNCHANGED pending

HandleNodes(l) ==
    LET c == l[1]
        b == l[2]
        m == Head(link[l])
        book == Admit(b, c, m.body.anns)
        then == [op |-> "nodes", from |-> c, id |-> m.id, undo |-> book.undo]
    IN /\ Admitted(l, book)
       /\ IF book.ok /\ Connected(b)
          THEN Propagate(Without(l), b, <<NodesRequest(m.body.anns, then)>>)
          ELSE link' = Answer(Without(l), b, c, m.id, book.ok) /\ UNCHANGED pending

HandleTopic(l) ==
    LET c == l[1]
        b == l[2]
        m == Head(link[l])
        remotes == IF m.body.on THEN hops[b] \cup {c} ELSE hops[b] \ {c}
        then    == [op |-> "topic", from |-> c, id |-> m.id, previous |-> c \in hops[b]]
        change  == InterestChange(b, subs[b], remotes, then)
    IN /\ Arrived(l, "topic")
       /\ hops' = [hops EXCEPT ![b] = remotes]
       /\ IF change # <<>> /\ Connected(b)
          THEN Propagate(Without(l), b, change)
          ELSE link' = Answer(Without(l), b, c, m.id, TRUE) /\ UNCHANGED pending
       /\ UNCHANGED <<place, handlers, routes, kids, subs, open, alive, refused, calls, troubles, mishaps>>

----------------------------------------------------------------------------
(* A request of bus b settles: acknowledged, refused or timed out.         *)

\* Mutant: nothing is put back.
RevertedNothing(row, undo) == row

Reverted(row, undo) ==
    [n \in Nodes |-> IF \E i \in DOMAIN undo : undo[i].node = n
                     THEN undo[CHOOSE i \in DOMAIN undo : undo[i].node = n].previous
                     ELSE row[n]]

Withdrawn(undo, previous) == { undo[i].node : i \in { j \in DOMAIN undo : undo[j].previous = previous } }

SettleOwn(network, b, p, ok) ==
    LET n    == p.then.node
        gone == \/ p.then.op = "cancel"
                \/ p.then.op = "leave" /\ ~ \E q \in pending[b] \ {p} : q.then = p.then
    IN /\ place' = CASE p.then.op = "join" -> [place EXCEPT ![<<b, n>>] = IF ok THEN "in" ELSE "failed"]
                     [] p.then.op = "leave" /\ gone -> [place EXCEPT ![<<b, n>>] = "out"]
                     [] OTHER -> place
       /\ handlers' = IF gone /\ (ok \/ p.then.op = "leave")
                      THEN [handlers EXCEPT ![b] = @ \ {n}] ELSE handlers
       /\ link' = network
       /\ UNCHANGED tables

\* The request was made for child c: b answers c, after putting back its
\* tables if the request failed.
SettleNodes(network, b, t, ok) ==
    /\ routes' = IF ok THEN routes ELSE [routes EXCEPT ![b] = Reverted(@, t.undo)]
    /\ kids' = IF ok THEN kids
               ELSE [kids EXCEPT ![t.from] =
                        (@ \cup IF <<b, t.from>> \in open THEN Withdrawn(t.undo, t.from) ELSE {})
                        \ Withdrawn(t.undo, "none")]
    /\ link' = Answer(network, b, t.from, t.id, ok)
    /\ UNCHANGED <<place, handlers, subs, hops>>

SettleTopic(network, b, t, ok) ==
    /\ hops' = IF ok THEN hops
               ELSE [hops EXCEPT ![b] = IF t.previous THEN @ \cup {t.from} ELSE @ \ {t.from}]
    /\ link' = Answer(network, b, t.from, t.id, ok)
    /\ UNCHANGED <<place, handlers, routes, kids, subs>>

Settle(network, b, p, ok) ==
    /\ pending' = [pending EXCEPT ![b] = @ \ {p}]
    /\ CASE p.then.op = "nodes" -> SettleNodes(network, b, p.then, ok)
         [] p.then.op = "topic" -> SettleTopic(network, b, p.then, ok)
         [] p.then.op \in {"push", "purge"} -> link' = network /\ UNCHANGED <<place, handlers, tables>>
         [] OTHER -> SettleOwn(network, b, p, ok)
    /\ UNCHANGED <<open, alive, refused, calls, troubles>>

\* An answer to a request that has been given up is ignored.
HandleAnswer(l) ==
    LET b == l[2]
        m == Head(link[l])
    IN /\ Arrived(l, "answer")
       /\ IF \E p \in pending[b] : p.id = m.id
          THEN \E p \in pending[b] :
                  /\ p.id = m.id
                  /\ Settle(Without(l), b, p, m.body.ok)
                  /\ mishaps' = mishaps \cup
                        IF p.then.op = "push" /\ ~ m.body.ok THEN {"push"} ELSE {}
          ELSE /\ link' = Without(l)
               /\ UNCHANGED <<place, handlers, tables, pending, open, alive, refused, calls, troubles, mishaps>>

Receive(l) == HandleNodes(l) \/ HandleTopic(l) \/ HandleAnswer(l)

\* The buses from b up to the root.
Above[b \in Buses] == IF b = Root THEN {b} ELSE {b} \cup Above[ParentOf[b]]
Ends(c) == { <<c, ParentOf[c]>>, <<ParentOf[c], c>> }

\* Answers are prompt, so the timer fires only when one cannot come any
\* more: a link on the way to the root has broken.
Timeout(b) ==
    /\ \E c \in Above[b] \ {Root} : ~ (Ends(c) \subseteq alive)
    /\ \E p \in pending[b] : Settle(link, b, p, FALSE)
    /\ mishaps' = mishaps \cup {"timeout"}

----------------------------------------------------------------------------
(* Connections.                                                            *)

Orders(S) == { f \in [1 .. Cardinality(S) -> S] : IsInjective(f) }

Known(b) == { n \in Nodes : routes[b][n] # "none" \/ (<<b, n>> \in Places /\ place[<<b, n>>] # "out") }

\* propagateFullStateUpstream: the child pushes all it knows, the nodes in the given
\* order, and leaves the answers alone.
FullState(c, order) ==
    LET push == [op |-> "push"]
    IN (IF order = <<>> THEN <<>>
        ELSE <<NodesRequest([i \in DOMAIN order |-> Up(order[i])], push)>>)
       \o (IF Interested(subs[c], hops[c]) THEN <<TopicRequest(TRUE, push)>> ELSE <<>>)

\* Both ends have their peer stacks.
Connect(c) ==
    /\ Ends(c) \subseteq alive /\ Ends(c) \cap open = {}
    /\ open' = open \cup Ends(c)
    /\ \E order \in Orders(Known(c)) :
          /\ link' = [link EXCEPT ![<<c, ParentOf[c]>>] = @ \o Envelopes(c, FullState(c, order))]
          /\ pending' = Remembered(c, FullState(c, order))
    /\ UNCHANGED <<place, handlers, tables, alive, refused, calls, troubles, mishaps>>

LinkBreaks(c) ==
    /\ troubles < MaxTroubles
    /\ troubles' = troubles + 1
    /\ Ends(c) \subseteq alive \cap open
    /\ alive' = alive \ Ends(c)
    /\ link' = [l \in Links |-> IF l \in Ends(c) THEN <<>> ELSE link[l]]
    /\ UNCHANGED <<place, handlers, tables, pending, open, refused, calls, mishaps>>

\* purgeEntriesForSource: a parent forgets what it knew through the child,
\* and says so further up.  A child has nothing to forget.
NoticeDrop(l) ==
    LET b == l[1]
        c == l[2]
        purge == [op |-> "purge"]
        downs == SetToSeq({ Down(n) : n \in kids[c] })
    IN /\ l \in open \ alive
       /\ open' = open \ {l}
       /\ IF c \in Parents(b) THEN UNCHANGED <<tables, link, pending>>
          ELSE /\ routes' = [routes EXCEPT ![b] = [n \in Nodes |-> IF n \in kids[c] THEN "none" ELSE @[n]]]
               /\ kids' = [kids EXCEPT ![c] = {}]
               /\ hops' = [hops EXCEPT ![b] = @ \ {c}]
               /\ Propagate(link, b,
                     (IF downs = <<>> THEN <<>> ELSE <<NodesRequest(downs, purge)>>)
                     \o InterestChange(b, subs[b], hops[b] \ {c}, purge))
               /\ UNCHANGED subs
       /\ UNCHANGED <<place, handlers, alive, refused, calls, troubles, mishaps>>

----------------------------------------------------------------------------

Init ==
    /\ place = [x \in Places |-> "out"]
    /\ handlers = [b \in Buses |-> {}] /\ subs = [b \in Buses |-> {}] /\ hops = [b \in Buses |-> {}]
    /\ routes = [b \in Buses |-> [n \in Nodes |-> "none"]]
    /\ kids = [c \in Buses \ {Root} |-> {}]
    /\ pending = [b \in Buses |-> {}]
    /\ link = [l \in Links |-> <<>>]
    /\ \E C \in SUBSET (Buses \ {Root}) : open = UNION { Ends(c) : c \in C }
    /\ alive = Links
    /\ refused \in SUBSET ((Buses \ {Root}) \X Nodes)
    /\ troubles = Cardinality(refused) /\ troubles <= MaxTroubles
    /\ calls = 0 /\ mishaps = {}

Next ==
    \/ \E x \in Places : \/ Join(x[1], x[2]) \/ Subscribe(x[1], x[2])
                         \/ Cancel(x[1], x[2]) \/ Close(x[1], x[2])
    \/ \E l \in Links : Receive(l) \/ NoticeDrop(l)
    \/ \E b \in Buses : Timeout(b)
    \/ \E c \in Buses \ {Root} : Connect(c) \/ LinkBreaks(c)

Spec == Init /\ [][Next]_vars

\* Links deliver, broken transports are reported, timers fire.
FairSpec ==
    /\ Spec
    /\ \A l \in Links : WF_vars(Receive(l)) /\ WF_vars(NoticeDrop(l))
    /\ \A b \in Buses : WF_vars(Timeout(b))

----------------------------------------------------------------------------
(* Properties.                                                             *)

TypeOK ==
    /\ place \in [Places -> {"out", "joining", "in", "closing", "failed"}]
    /\ handlers \in [Buses -> SUBSET Nodes] /\ subs \in [Buses -> SUBSET Nodes]
    /\ \A b \in Buses :
          /\ hops[b] \subseteq Children(b)
          /\ routes[b] \in [Nodes -> {"none", "local"} \cup Children(b)]
    /\ kids \in [Buses \ {Root} -> SUBSET Nodes]
    /\ \A b \in Buses : \A p \in pending[b] : p.id > 0 /\ Cardinality({ q \in pending[b] : q.id = p.id }) = 1
    /\ open \subseteq Links /\ alive \subseteq Links
    /\ calls \in 0 .. MaxCalls /\ troubles \in 0 .. MaxTroubles /\ mishaps \subseteq {"timeout", "push"}

\* A node listed for broadcasts has a handler, without which an ask counts
\* on an answer that never comes (addSubscription, removeSubscription).
SubscribersHaveHandlers == \A b \in Buses : subs[b] \subseteq handlers[b]

Linked(c) == Ends(c) \subseteq open \cap alive

Quiet ==
    /\ \A l \in Links : link[l] = <<>>
    /\ \A b \in Buses : pending[b] = {}
    /\ open \subseteq alive

JoinFailed(n) == \E x \in Places : x[2] = n /\ place[x] = "failed"

\* Once every announcement has been answered, a bus routes to a child exactly
\* the nodes that child knows; a node whose join has failed is known to its
\* own bus only (handleNodeAnnouncementMessage and its rollback).
RoutesAgree ==
    Quiet /\ mishaps = {} =>
        \A c \in Buses \ {Root} : Linked(c) =>
            \A n \in Nodes : routes[ParentOf[c]][n] = c <=> routes[c][n] # "none" /\ ~ JoinFailed(n)

\* ... and sends broadcasts to exactly the children that want them.
InterestAgrees ==
    Quiet /\ "timeout" \notin mishaps =>
        \A c \in Buses \ {Root} : Linked(c) =>
            (c \in hops[ParentOf[c]] <=> subs[c] # {} \/ hops[c] # {})

\* The nodes routed to a child are those the bus will purge when the child's
\* link drops (childBusNodeMap).
IndexMatches ==
    mishaps = {} =>
        \A c \in Buses \ {Root} : kids[c] = { n \in Nodes : routes[ParentOf[c]][n] = c }

\* The tables agree: those of a bus with each other, and those of neighbours in
\* routes, interest and the child index.
TablesAgree == TypeOK /\ SubscribersHaveHandlers /\ RoutesAgree /\ InterestAgrees /\ IndexMatches

\* When join() succeeds every bus above that is connected routes to the node,
\* unless one of them is just being connected or a request has gone wrong.
JoinTellsAll ==
    [][\A x \in Places : place[x] = "joining" /\ place'[x] = "in" =>
          \/ mishaps # {} \/ \E b \in Buses : \E p \in pending[b] : p.then.op = "push"
          \/ \A c \in Above[x[1]] \ {Root} :
                (\A d \in Above[x[1]] : c \in Above[d] => Linked(d)) =>
                    routes[ParentOf[c]][x[2]] = c]_vars

\* Every call settles, and so does every request made on the way.
CallsSettle == \A b \in Buses : <>[](pending[b] = {})

=============================================================================
