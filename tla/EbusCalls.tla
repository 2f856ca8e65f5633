------------------------------ MODULE EbusCalls ------------------------------
(***************************************************************************)
(* Calls from node to node over a tree of buses (packages/ebus: the p2p    *)
(* feature, with the local node manager that executes them and the bridge  *)
(* manager that carries them).  A message goes to the bus its route names, *)
(* to the parent when there is none; the answer finds its way back in the  *)
(* same manner.  Meanwhile nodes join and leave with other groups, links   *)
(* break and buses close.  The tables of routes change as EbusRouting has  *)
(* it: a bus learns and forgets a node after the bus below, and one that   *)
(* cannot pass on that a node has left puts its route back.                *)
(***************************************************************************)
EXTENDS Naturals, Sequences, FiniteSets, SequencesExt

CONSTANTS
    Buses, Root, ParentOf,   \* the tree of buses
    Nodes, HomeOf,           \* node ids, and the bus where each may join
    GroupSets, FirstGroups,  \* the sets of groups a node may join with, and those it has at first
    Calls,                   \* bound: asks and tells that may be made
    MaxJoins,                \* bound: calls of join()
    MaxTroubles              \* bound: links that break and buses that close

Unknown == {"?"}    \* no route, hence no groups

\* The buses from b up to the root: those in every set that holds b and, with a bus,
\* its parent.
Upward(S) == \A c \in S \ {Root} : ParentOf[c] \in S
Above == [b \in Buses |-> { c \in Buses :
              \A S \in SUBSET Buses : b \in S /\ Upward(S) => c \in S }]

ASSUME TreeAssumption ==
    /\ Root \in Buses /\ {"local", "none"} \cap Buses = {}
    /\ ParentOf \in [Buses \ {Root} -> Buses]
    /\ \A c \in Buses \ {Root} : Root \in Above[c] /\ c \notin Above[ParentOf[c]]
    /\ IsFiniteSet(Nodes) /\ HomeOf \in [Nodes -> Buses]
    /\ FirstGroups \in [Nodes -> GroupSets] /\ Unknown \notin GroupSets
    /\ MaxJoins \in Nat /\ MaxTroubles \in Nat

VARIABLES
    node,       \* LocalNodeManager: what has become of each node at its home
    groups,     \* the groups it joined with
    ready,      \* nodes that have a P2P api
    known,      \* per bus, the groups of the nodes it routes to a child
    undo,       \* routes whose withdrawal the buses above have not confirmed
    stack,      \* <<b, c>>: b holds a peer stack for its neighbour c
    alive,      \* links whose transport works
    wire,       \* P2P messages, and announcements of nodes that have left, under way
    clients,    \* <<source, target>>: clients the program has been given
    pending,    \* per bus, pendingCalls
    outcome,    \* of each call: "idle", "told", "asked" or how it settled
    running,    \* asks being executed, and those refused at once
    ran,        \* history: how often each call was executed
    steady,     \* history: asks between nodes that share a group and stay
    lost,       \* history: calls dropped with a link, or with a caller that left
    restored,   \* history: whether a route was put back
    joins, troubles

nodeVars  == <<node, groups, ready, joins>>
routeVars == <<known, undo, restored>>
linkVars  == <<stack, alive, troubles>>
callVars  == <<wire, pending, outcome, running, ran, lost>>
cvars == <<nodeVars, routeVars, linkVars, callVars, clients, steady>>

Lives   == {"joining", "in", "leaving", "closing"}
Results == {"data", "error", "refused", "notFound", "closed"}

Children(b) == {c \in Buses \ {Root} : ParentOf[c] = b}
Parents(b)  == IF b = Root THEN {} ELSE {ParentOf[b]}
Links       == {l \in Buses \X Buses : l[2] \in Children(l[1]) \cup Parents(l[1])}
Ends(c)     == {<<c, ParentOf[c]>>, <<ParentOf[c], c>>}

\* The buses above a node's, and the child of b on the way to node n.
Over(n)     == Above[HomeOf[n]] \ {HomeOf[n]}
Below(b, n) == CHOOSE c \in Children(b) : c \in Above[HomeOf[n]]

HasNode(b, n) == HomeOf[n] = b /\ node[n] \in Lives
HasParent(b)  == \E p \in Parents(b) : <<b, p>> \in stack

CInit ==
    /\ node = [n \in Nodes |-> "in"] /\ ready = Nodes
    /\ groups = FirstGroups
    /\ known = [b \in Buses |-> [n \in Nodes |-> IF b \in Over(n) THEN groups[n] ELSE Unknown]]
    /\ undo = {} /\ restored = FALSE
    /\ stack = Links /\ alive = Links
    /\ wire = [l \in Links |-> <<>>]
    /\ clients = {} /\ pending = [b \in Buses |-> {}] /\ outcome = [c \in Calls |-> "idle"] /\ running = {}
    /\ ran = [c \in Calls |-> 0]
    /\ joins = 0 /\ troubles = 0 /\ lost = {} /\ steady = {}

----------------------------------------------------------------------------
(* Routing a message: what it makes of s, the calls as they are when it is *)
(* routed.                                                                 *)

Now == [wire |-> wire, pending |-> pending, outcome |-> outcome, running |-> running,
        ran |-> ran, lost |-> lost]
Become(s) == /\ wire' = s.wire /\ pending' = s.pending /\ outcome' = s.outcome
             /\ running' = s.running /\ ran' = s.ran /\ lost' = s.lost

Lost(m, s) == [s EXCEPT !.lost = @ \cup {m.call}]

\* visited: how often the message was sent on from each bus, counted as far as
\* the properties go.
Message(type, c, s, d) ==
    [type |-> type, call |-> c, source |-> s, groups |-> groups[s], dest |-> d,
     result |-> "none", visited |-> [b \in Buses |-> 0]]

AnswerTo(m, result) ==
    [m EXCEPT !.type = "answer", !.source = m.dest, !.dest = m.source, !.result = result,
              !.visited = [b \in Buses |-> 0]]

\* sendToParent, sendToChild: without a peer stack nothing is sent.
Send(b, to, m, s) ==
    IF <<b, to>> \in stack \cap alive
    THEN [s EXCEPT !.wire[<<b, to>>] =
             Append(@, IF m.visited[b] > 2 * (MaxJoins + 1) THEN m ELSE [m EXCEPT !.visited[b] = @ + 1])]
    ELSE Lost(m, s)

\* The parent, if there is one, is told that nodes have left.
Announce(b, gone, s) ==
    IF HasParent(b) /\ <<b, ParentOf[b]>> \in alive
    THEN [s EXCEPT !.wire[<<b, ParentOf[b]>>] = @ \o SetToSeq({[type |-> "gone", dest |-> n] : n \in gone})]
    ELSE s

\* getNextHop.
NextHop(b, n) ==
    CASE HasNode(b, n) -> "local"
      [] ~HasNode(b, n) /\ known[b][n] # Unknown -> Below(b, n)
      [] ~HasNode(b, n) /\ known[b][n] = Unknown /\ HasParent(b) -> ParentOf[b]
      [] OTHER -> "none"

\* An answer settles the pending call it is for; one without a way back is lost.
RouteAnswer(b, m, s) ==
    LET hop == NextHop(b, m.dest)
    IN CASE hop \in Buses -> Send(b, hop, m, s)
         [] hop = "none" -> Lost(m, s)
         [] hop = "local" /\ m.call \in s.pending[b] ->
               [s EXCEPT !.pending[b] = @ \ {m.call}, !.outcome[m.call] = m.result]
         [] OTHER -> s

\* executeP2PProcedure: a closing node, one without an api and one that has no
\* group in common with the caller, as it was when it called, refuse.
Refused(m) == node[m.dest] = "closing" \/ m.dest \notin ready \/ m.groups \cap groups[m.dest] = {}

\* Mutant: a refused call is executed all the same.
ExecuteAnyway(m, s) ==
    [s EXCEPT !.ran[m.call] = @ + 1,
              !.running = IF m.type # "ask" THEN @
                          ELSE @ \cup {[m EXCEPT !.result = IF Refused(m) THEN "refused" ELSE "none"]}]

Execute(m, s) ==
    [s EXCEPT !.ran[m.call] = IF Refused(m) THEN @ ELSE @ + 1,
              !.running = IF m.type # "ask" THEN @
                          ELSE @ \cup {[m EXCEPT !.result = IF Refused(m) THEN "refused" ELSE "none"]}]

\* Mutant: an ask that has no route is dropped like a tell.
RouteNowhereSilently(b, m, s) == s

\* No route: an ask is told so, a tell is dropped.
RouteNowhere(b, m, s) ==
    IF m.type = "ask" THEN RouteAnswer(b, AnswerTo(m, "notFound"), s) ELSE Lost(m, s)

\* routeP2PMessage.
RouteP2P(b, m, s) ==
    LET hop == NextHop(b, m.dest)
    IN CASE m.type = "answer" -> RouteAnswer(b, m, s)
         [] m.type # "answer" /\ hop = "local" -> Execute(m, s)
         [] m.type # "answer" /\ hop = "none"  -> RouteNowhere(b, m, s)
         [] m.type # "answer" /\ hop \in Buses -> Send(b, hop, m, s)

----------------------------------------------------------------------------
(* The programs' calls.                                                    *)

\* What a bus knows of a node's groups (getNodeGroups).
GroupsSeen(b, n) == IF HasNode(b, n) THEN groups[n] ELSE known[b][n]

\* createP2PClient: fails at once for a node no bus can know of, or known to
\* have no group in common.
ConnectTo(s, d) ==
    LET seen == GroupsSeen(HomeOf[s], d)
    IN /\ node[s] = "in" /\ s # d /\ <<s, d>> \notin clients
       /\ \E c \in Calls : outcome[c] = "idle"
       /\ NextHop(HomeOf[s], d) # "none"
       /\ seen # Unknown => groups[s] \cap seen # {}
       /\ clients' = clients \cup {<<s, d>>}
       /\ UNCHANGED <<nodeVars, routeVars, linkVars, callVars, steady>>

MayCall(c, s, d) == outcome[c] = "idle" /\ <<s, d>> \in clients /\ node[s] = "in"

\* The call is pending before it is routed.
Ask(c, s, d) ==
    /\ MayCall(c, s, d)
    /\ Become(RouteP2P(HomeOf[s], Message("ask", c, s, d),
                       [Now EXCEPT !.pending[HomeOf[s]] = @ \cup {c}, !.outcome[c] = "asked"]))
    /\ steady' = IF troubles = 0 /\ node[d] = "in" /\ d \in ready /\ groups[s] \cap groups[d] # {}
                 THEN steady \cup {[call |-> c, from |-> s, to |-> d]} ELSE steady
    /\ UNCHANGED <<nodeVars, routeVars, linkVars, clients>>

Tell(c, s, d) ==
    /\ MayCall(c, s, d)
    /\ Become(RouteP2P(HomeOf[s], Message("tell", c, s, d), [Now EXCEPT !.outcome[c] = "told"]))
    /\ UNCHANGED <<nodeVars, routeVars, linkVars, clients, steady>>

\* A neighbour's forwardMessage arrives.
Receive(l) ==
    /\ wire[l] # <<>> /\ Head(wire[l]).type # "gone"
    /\ Become(RouteP2P(l[2], Head(wire[l]), [Now EXCEPT !.wire[l] = Tail(@)]))
    /\ UNCHANGED <<nodeVars, routeVars, linkVars, clients, steady>>

\* A procedure ends, or the refusal of an ask is known: the result is routed.
Returns(m) ==
    /\ m \in running
    /\ \E result \in IF m.result = "none" THEN {"data", "error"} ELSE {m.result} :
          Become(RouteAnswer(HomeOf[m.dest], AnswerTo(m, result), [Now EXCEPT !.running = @ \ {m}]))
    /\ UNCHANGED <<nodeVars, routeVars, linkVars, clients, steady>>

----------------------------------------------------------------------------
(* Nodes come and go.                                                      *)

\* Bound: nodes and links change as long as there is a call they may matter to.
CallsLeft == \/ running # {}
             \/ \E c \in Calls \ lost : outcome[c] \in {"idle", "asked"}

Unsteady(n) == {a \in steady : n \notin {a.from, a.to}}

\* Every bus that may hear of n.
Reachable(n) == {b \in Over(n) : \A c \in Above[HomeOf[n]] : b \in Above[c] \ {c} => Ends(c) \subseteq stack \cap alive}
CutOff(n)    == Reachable(n) # Over(n)

\* registerNode and announceNode.
Join(n, g, api) ==
    /\ joins < MaxJoins /\ joins' = joins + 1 /\ CallsLeft
    /\ node[n] = "out" /\ \A b \in Buses : <<b, n>> \notin {<<u.at, u.node>> : u \in undo}
    /\ node' = [node EXCEPT ![n] = "joining"]
    /\ groups' = [groups EXCEPT ![n] = g]
    /\ ready' = IF api THEN ready \cup {n} ELSE ready
    /\ UNCHANGED <<routeVars, linkVars, callVars, clients, steady>>

Joined(n) ==
    /\ node[n] = "joining"
    /\ \A b \in Reachable(n) : known[b][n] # Unknown
    /\ node' = [node EXCEPT ![n] = "in"]
    /\ UNCHANGED <<groups, ready, joins, routeVars, linkVars, callVars, clients, steady>>

SetApi(n) ==
    /\ node[n] = "in" /\ n \notin ready /\ CallsLeft
    /\ ready' = ready \cup {n}
    /\ UNCHANGED <<node, groups, joins, routeVars, linkVars, callVars, clients, steady>>

\* closeNode begins: the node is announced as gone, and serves calls until
\* the announcement has settled.
Leave(n) ==
    /\ node[n] = "in" /\ CallsLeft
    /\ node' = [node EXCEPT ![n] = "leaving"]
    /\ steady' = Unsteady(n)
    /\ Become(Announce(HomeOf[n], {n}, Now))
    /\ UNCHANGED <<groups, ready, joins, routeVars, linkVars, clients>>

\* All have heard of it, or the announcement failed.
MarkAsClosing(n) ==
    /\ node[n] = "leaving"
    /\ (\A b \in Reachable(n) : known[b][n] = Unknown) \/ CutOff(n)
    /\ node' = [node EXCEPT ![n] = "closing"]
    /\ UNCHANGED <<groups, ready, joins, routeVars, linkVars, callVars, clients, steady>>

RemoveNode(n) ==
    /\ node[n] = "closing"
    /\ node' = [node EXCEPT ![n] = "out"]
    /\ ready' = ready \ {n}
    /\ UNCHANGED <<groups, joins, routeVars, linkVars, callVars, clients, steady>>

\* The bus below knows the node.
KnownBelow(b, n) ==
    LET c == Below(b, n) IN IF c = HomeOf[n] THEN node[n] = "joining" ELSE known[c][n] # Unknown

\* A bus hears that a node has joined,
Learn(b, n) ==
    /\ node[n] = "joining" /\ b \in Reachable(n)
    /\ known[b][n] = Unknown /\ KnownBelow(b, n)
    /\ known' = [known EXCEPT ![b][n] = groups[n]]
    /\ UNCHANGED <<undo, restored, nodeVars, linkVars, callVars, clients, steady>>

\* Mutant: the bus keeps to itself that the node has left.
ForgetOnly(l) ==
    /\ wire[l] # <<>> /\ Head(wire[l]).type = "gone"
    /\ known' = [known EXCEPT ![l[2]][Head(wire[l]).dest] = Unknown]
    /\ wire' = [wire EXCEPT ![l] = Tail(@)]
    /\ UNCHANGED <<undo, restored, pending, outcome, running, ran, lost, nodeVars, linkVars, clients, steady>>

\* or that it has left, and passes it on; the top confirms at once to all below.
Forget(l) ==
    LET c == l[1]
        b == l[2]
        n == Head(wire[l]).dest
    IN /\ wire[l] # <<>> /\ Head(wire[l]).type = "gone"
       /\ known' = [known EXCEPT ![b][n] = Unknown]
       /\ undo' = IF HasParent(b)
                  THEN undo \cup {u \in {[at |-> b, node |-> n, groups |-> known[b][n]]} : u.groups # Unknown}
                  ELSE {u \in undo : u.node # n \/ b \notin Above[u.at]}
       /\ Become(Announce(b, {n}, [Now EXCEPT !.wire[l] = Tail(@)]))
       /\ UNCHANGED <<restored, nodeVars, linkVars, clients, steady>>

\* The confirmation cannot come any more; after a while the route is put back.
PutBack(u) ==
    /\ u \in undo
    /\ \E c \in Above[u.at] \ {Root} : ~ (Ends(c) \subseteq alive)
    /\ undo' = undo \ {u}
    /\ known' = [known EXCEPT ![u.at][u.node] = u.groups]
    /\ restored' = TRUE
    /\ UNCHANGED <<nodeVars, linkVars, callVars, clients, steady>>

----------------------------------------------------------------------------
(* Links break and buses close.                                            *)

InWire(L) == {m.call : m \in {x \in UNION {Range(wire[l]) : l \in L} : x.type # "gone"}}

Break(L) ==
    /\ troubles < MaxTroubles /\ troubles' = troubles + 1 /\ CallsLeft
    /\ alive' = alive \ L
    /\ wire' = [l \in Links |-> IF l \in L THEN <<>> ELSE wire[l]]
    /\ steady' = {}

LinkBreaks(c) ==
    /\ Ends(c) \subseteq alive
    /\ Break(Ends(c))
    /\ lost' = lost \cup InWire(Ends(c))
    /\ UNCHANGED <<nodeVars, routeVars, stack, pending, outcome, running, ran, clients>>

\* connectionDropped: a parent purges what it knew through the child.
NoticeDrop(l) ==
    LET b == l[1]
        c == l[2]
    IN /\ l \in stack \ alive
       /\ stack' = stack \ {l}
       /\ IF c \in Parents(b) THEN UNCHANGED <<known, callVars>>
          ELSE LET gone == {n \in Nodes : known[b][n] # Unknown /\ c \in Above[HomeOf[n]]}
               IN /\ known' = [known EXCEPT ![b] = [n \in Nodes |-> IF n \in gone THEN Unknown ELSE @[n]]]
                  /\ Become(Announce(b, gone, Now))
       /\ UNCHANGED <<undo, restored, alive, troubles, nodeVars, clients, steady>>

\* P2PHandlerFeature.close.
RejectPendingCalls(b) == outcome' = [c \in Calls |-> IF c \in pending[b] THEN "closed" ELSE outcome[c]]

CloseBus(b) ==
    LET ends == UNION {Ends(c) : c \in (Children(b) \cup {b}) \ {Root}}
        gone == {n \in Nodes : HomeOf[n] = b}
    IN /\ \E l \in stack : l[1] = b
       /\ RejectPendingCalls(b)
       /\ pending' = [pending EXCEPT ![b] = {}]
       /\ node' = [n \in Nodes |-> IF n \in gone THEN "out" ELSE node[n]]
       /\ ready' = ready \ gone
       /\ known' = [known EXCEPT ![b] = [n \in Nodes |-> Unknown]]
       /\ undo' = {u \in undo : u.at # b}
       /\ Break(ends)
       /\ stack' = {l \in stack : l[1] # b}
       /\ lost' = lost \cup InWire(ends)
       /\ UNCHANGED <<groups, joins, restored, running, ran, clients>>

----------------------------------------------------------------------------

CNext ==
    \/ \E c \in Calls, s, d \in Nodes : Ask(c, s, d) \/ Tell(c, s, d)
    \/ \E s, d \in Nodes : ConnectTo(s, d)
    \/ \E l \in Links : Receive(l) \/ Forget(l) \/ NoticeDrop(l)
    \/ \E m \in running : Returns(m)
    \/ \E n \in Nodes : \/ \E g \in GroupSets, api \in BOOLEAN : Join(n, g, api)
                        \/ Joined(n) \/ SetApi(n) \/ Leave(n) \/ MarkAsClosing(n) \/ RemoveNode(n)
    \/ \E b \in Buses, n \in Nodes : Learn(b, n)
    \/ \E u \in undo : PutBack(u)
    \/ \E c \in Buses \ {Root} : LinkBreaks(c)
    \/ \E b \in Buses : CloseBus(b)

CSpec == CInit /\ [][CNext]_cvars

\* Links deliver, procedures end, broken links are noticed.
CFairness ==
    WF_cvars(\/ \E l \in Links : Receive(l) \/ Forget(l) \/ NoticeDrop(l)
             \/ \E m \in running : Returns(m))

----------------------------------------------------------------------------
(* Properties.                                                             *)

Messages == [type : {"ask", "tell", "answer"}, call : Calls, source : Nodes, dest : Nodes,
             groups : GroupSets \cup {{}}, result : Results \cup {"none"}, visited : [Buses -> 0 .. 2 * MaxJoins + 3]]

CTypeOK ==
    /\ node \in [Nodes -> Lives \cup {"out"}] /\ groups \in [Nodes -> GroupSets \cup {{}}]
    /\ ready \subseteq Nodes
    /\ known \in [Buses -> [Nodes -> GroupSets \cup {Unknown}]]
    /\ stack \subseteq Links /\ alive \subseteq Links
    /\ wire \in [Links -> Seq(Messages \cup [type : {"gone"}, dest : Nodes])] /\ running \subseteq Messages
    /\ clients \subseteq Nodes \X Nodes
    /\ pending \in [Buses -> SUBSET Calls] /\ lost \subseteq Calls
    /\ outcome \in [Calls -> {"idle", "told", "asked"} \cup Results]
    /\ ran \in [Calls -> 0 .. 1]
    /\ joins \in 0 .. MaxJoins /\ troubles \in 0 .. MaxTroubles

\* An ask settles once, with what happened: a result when its procedure was
\* run, once, and anything else when it was not run at all, unless its bus
\* closed; and between nodes that share a group and stay, over links that
\* hold, it settles with a result (executeP2PProcedure, routeP2PMessage).
AnswersAreTrue ==
    /\ CTypeOK
    /\ \A c \in Calls : /\ outcome[c] \in {"data", "error"} => ran[c] = 1
                        /\ outcome[c] \in {"refused", "notFound"} => ran[c] = 0
    /\ \A a \in steady : outcome[a.call] \in {"asked", "data", "error"}

\* No message is sent on twice by one bus more than once on its way up and
\* once on its way down, whatever nodes leave meanwhile, unless a route to a
\* node that has left was put back (getNextHop's default route).
NothingGoesInCircles ==
    restored \/ \A l \in Links : \A m \in Range(wire[l]) \cap Messages : \A b \in Buses : m.visited[b] <= 2 * (joins + 1)

\* Every ask settles, unless it or its answer was dropped.
AsksSettle == \A c \in Calls : <>[](outcome[c] = "asked" => c \in lost \/ restored)

=============================================================================
