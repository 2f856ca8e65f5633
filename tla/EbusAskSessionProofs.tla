------------------------ MODULE EbusAskSessionProofs ------------------------
(***************************************************************************)
(* An iterator that ends normally has delivered every result it owes, each *)
(* once, whatever the tree of buses, the nodes on it and what goes wrong.  *)
(*                                                                         *)
(* A link leads away from the publisher's bus or towards it, and each cuts *)
(* the tree in two.  An ask is on a link that leads away, and beyond it    *)
(* nothing has happened yet (AsksAreFresh).  A result is in one place      *)
(* (OnePlace).  And for a node that is owed one, the ask is on the way to  *)
(* it, or it runs, or its result is on the way back, and every bus between *)
(* there and the publisher has a session that waits for that branch        *)
(* (StillToCome): the fin that would end the branch is behind the result.  *)
(*                                                                         *)
(* And the books of every session add up (SumInv).  What a session has     *)
(* counted, its source has received or will receive (Flow): the results    *)
(* under way are as many as the difference, each before the ack_fin, whose *)
(* total is what has been counted, or less if a branch was cut off.        *)
(***************************************************************************)
EXTENDS EbusAskSession, DataProofs, FiniteSetTheorems, SequenceTheorems, TLAPS

-----------------------------------------------------------------------------
(* The tree, cut at a link: the side of its far end. *)

Back(l) == <<l[2], l[1]>>
Side(l) == IF l[2] \in Children(l[1]) THEN { x \in Buses : l[2] \in Above[x] }
           ELSE { x \in Buses : l[1] \notin Above[x] }

Home    == HomeOf[publisher]
Away(l) == Home \notin Side(l)

\* The links the ask crosses to reach n.
Path(n) == { l \in Links : Away(l) /\ HomeOf[n] \in Side(l) }

-----------------------------------------------------------------------------
(* The inductive invariant, part by part. *)

IsSeq(q) == q \in Seq({ q[i] : i \in DOMAIN q })
IsMessage(m) == m = Ask \/ (\E n \in Nodes : m = Result(n)) \/ m.type = "fin"

StateOK ==
    /\ publisher \in Nodes /\ subscribers \subseteq Nodes /\ loopback \in BOOLEAN
    /\ alive \subseteq open /\ open \subseteq Links
    /\ session = [b \in Buses |-> session[b]]
    /\ link = [l \in Links |-> link[l]]
    /\ \A l \in Links : IsSeq(link[l]) /\ \A i \in DOMAIN link[l] : IsMessage(link[l][i])
    /\ executing \subseteq Nodes /\ asked \in BOOLEAN
    /\ iterator = [queue |-> iterator.queue, state |-> iterator.state]
    /\ iterator.state \in {"open", "closed", "failed"}
    /\ iterator.queue \in Seq(Nodes) /\ consumed \in Seq(Nodes)
    /\ consumer = "waiting" => iterator.queue = <<>>

\* A subscriber keeps its parents' routes to it, as long as they hold.
RoutesHold ==
    \A n \in subscribers : \A c \in Above[HomeOf[n]] \ {Root} :
        <<ParentOf[c], c>> \in alive => c \in hops

Running(b) == { n \in executing : HomeOf[n] = b }
IsBooks(k) == k = [status |-> k.status, expected |-> k.expected, received |-> k.received]

\* A session answers towards the publisher and waits for neighbours farther away; its
\* own subscribers that still run have not been counted.
SessionFits(b, s) ==
    /\ s = [source |-> s.source, branch |-> s.branch, local |-> s.local]
    /\ s.branch = [d \in DOMAIN s.branch |-> s.branch[d]]
    /\ \A d \in DOMAIN s.branch : IsBooks(s.branch[d]) /\ <<b, d>> \in Links /\ d # s.source
    /\ IF b = Home THEN s.source = b ELSE <<s.source, b>> \in Links /\ Away(<<s.source, b>>)
    /\ IsBooks(s.local) /\ s.local.expected \in Nat /\ s.local.received \in Nat

Has(b) == session[b] # NoSession

SessionsFit ==
    \A b \in Buses : Has(b) =>
        /\ SessionFits(b, session[b])
        /\ session[b].local.received + Cardinality(Running(b)) <= session[b].local.expected

\* The iterator is open while the publisher's bus has the session.
IteratorFits == asked => (iterator.state = "open" <=> Has(Home))

Delivered == consumed \o iterator.queue
OffLinks(net, n) == \A l \in Links : \A i \in DOMAIN net[l] : net[l][i] # Result(n)

\* A result is in one place: the node runs, or it is on one link, or delivered.
OnePlace(n, net, running, delivered) ==
    /\ \A l, m \in Links : \A i \in DOMAIN net[l], j \in DOMAIN net[m] :
         net[l][i] = Result(n) /\ net[m][j] = Result(n) => l = m /\ i = j
    /\ n \in running => OffLinks(net, n)
    /\ \A i \in DOMAIN delivered : delivered[i] = n =>
         /\ n \notin running /\ OffLinks(net, n)
         /\ \A j \in DOMAIN delivered : delivered[j] = n => i = j

ResultsAreOnce == \A n \in Nodes : OnePlace(n, link, executing, Delivered)

\* Nothing has happened at the buses S.
Nowhere(n) ==
    /\ n \notin executing /\ OffLinks(link, n)
    /\ \A i \in DOMAIN Delivered : Delivered[i] # n
Fresh(S) ==
    /\ \A b \in S : ~Has(b)
    /\ \A n \in Nodes : HomeOf[n] \in S => Nowhere(n)
    /\ \A l \in Links : l[1] \in S => link[l] = <<>>

AsksAreFresh ==
    /\ ~asked => Fresh(Buses) /\ iterator.state = "open"
    /\ \A l \in Links : \A i \in DOMAIN link[l] : link[l][i] = Ask =>
         i = 1 /\ Away(l) /\ Fresh(Side(l))

\* The bus at the near end of l waits for the far end.
Awaits(l) ==
    /\ Has(l[1]) /\ l[2] \in DOMAIN session[l[1]].branch
    /\ session[l[1]].branch[l[2]].status = "pending"
NoFin(q) == \A i \in DOMAIN q : q[i].type # "fin"
Held(l) == Awaits(l) /\ NoFin(link[Back(l)])

\* The result of n is in q, in front of any fin.
Comes(n, q) == \E i \in DOMAIN q :
    q[i] = Result(n) /\ \A j \in DOMAIN q : j <= i => q[j].type # "fin"

\* The links of the way to n up to l.
UpTo(n, l) == { m \in Path(n) : Side(l) \subseteq Side(m) }

AskUnderWay(n) == \E l \in Path(n) :
    /\ \E i \in DOMAIN link[l] : link[l][i] = Ask
    /\ \A m \in UpTo(n, l) : Held(m)
Runs(n) == n \in executing /\ Has(HomeOf[n]) /\ \A m \in Path(n) : Held(m)
ResultUnderWay(n) == \E l \in Path(n) :
    /\ Comes(n, link[Back(l)]) /\ Awaits(l)
    /\ \A m \in UpTo(n, l) \ {l} : Held(m)

StillToCome(n) == AskUnderWay(n) \/ Runs(n) \/ ResultUnderWay(n)

IsDelivered(n) == \E i \in DOMAIN Delivered : Delivered[i] = n

NobodyIsMissed ==
    asked => \A n \in Nodes : Owed(n) =>
        IsDelivered(n) \/ iterator.state = "failed" \/ StillToCome(n)

AskInv ==
    /\ StateOK /\ RoutesHold /\ SessionsFit /\ IteratorFits
    /\ ResultsAreOnce /\ AsksAreFresh /\ NobodyIsMissed

-----------------------------------------------------------------------------
(* The tree. *)

LEMMA AboveFacts ==
    ASSUME NEW b \in Buses
    PROVE  /\ Above[b] \subseteq Buses /\ b \in Above[b]
           /\ \A c \in Above[b] \ {Root} : ParentOf[c] \in Above[b]
           /\ \A S \in SUBSET Buses : b \in S /\ Upward(S) => Above[b] \subseteq S
BY AskAssumption DEF Above, Upward

LEMMA AboveAbove ==
    ASSUME NEW b \in Buses, NEW c \in Above[b]
    PROVE  c \in Buses /\ Above[c] \subseteq Above[b]
BY AboveFacts DEF Upward

LEMMA AboveStep ==
    ASSUME NEW b \in Buses \ {Root}
    PROVE  ParentOf[b] \in Buses /\ Above[b] = {b} \cup Above[ParentOf[b]]
<1>1. ParentOf[b] \in Buses  BY AskAssumption
<1> DEFINE S == {b} \cup Above[ParentOf[b]]
<1>2. S \in SUBSET Buses /\ b \in S /\ Upward(S)  BY <1>1, AboveFacts DEF Upward
<1> HIDE DEF S
<1>3. Above[b] \subseteq S  BY <1>2, AboveFacts
<1>4. S \subseteq Above[b]  BY AboveFacts, AboveAbove DEF S
<1> QED  BY <1>1, <1>3, <1>4 DEF S

LEMMA AboveRoot == Above[Root] = {Root}
BY AskAssumption, AboveFacts DEF Upward

\* The buses above one are in a row.
LEMMA AboveInRow ==
    ASSUME NEW x \in Buses, NEW b \in Above[x], NEW c \in Above[x]
    PROVE  b \in Above[c] \/ c \in Above[b]
<1> DEFINE S == { d \in Above[x] : \A e \in Above[x] : e \in Above[d] \/ d \in Above[e] }
<1>1. S \in SUBSET Buses /\ x \in S  BY AboveFacts
<1>2. ASSUME NEW d \in S \ {Root}  PROVE ParentOf[d] \in S
  <2>1. d \in Above[x] /\ d \in Buses /\ ParentOf[d] \in Above[x]  BY AboveFacts
  <2>2. ASSUME NEW e \in Above[x]  PROVE e \in Above[ParentOf[d]] \/ ParentOf[d] \in Above[e]
    <3>1. e \in Buses  BY AboveFacts
    <3>2. CASE e \in Above[d]  BY <2>1, <3>2, AboveStep, AboveFacts
    <3>3. CASE d \in Above[e]  BY <3>1, <3>3, AboveFacts
    <3> QED  BY <3>2, <3>3
  <2> QED  BY <2>1, <2>2
<1>3. Upward(S)  BY <1>2 DEF Upward
<1> HIDE DEF S
<1>4. b \in S  BY <1>1, <1>3, AboveFacts
<1> QED  BY <1>4 DEF S

\* On the way up from x there is a child of every bus but x itself.
LEMMA AboveChild ==
    ASSUME NEW x \in Buses, NEW b \in Above[x], b # x
    PROVE  \E c \in Above[x] \ {Root} : ParentOf[c] = b
<1> DEFINE S == { d \in Above[x] : d = x \/ \E c \in Above[x] \ {Root} : ParentOf[c] = d }
<1>1. S \in SUBSET Buses /\ x \in S  BY AboveFacts
<1>2. Upward(S)  BY AboveFacts DEF Upward
<1> HIDE DEF S
<1>3. b \in S  BY <1>1, <1>2, AboveFacts
<1> QED  BY <1>3 DEF S

\* A link is to a child or to a parent.
LEMMA LinkKinds ==
    ASSUME NEW l \in Links
    PROVE  /\ l[1] \in Buses /\ l[2] \in Buses /\ l = <<l[1], l[2]>> /\ l[1] # l[2]
           /\ Back(l) \in Links /\ Back(Back(l)) = l
           /\ \/ /\ l[2] \in Buses \ {Root} /\ ParentOf[l[2]] = l[1]
                 /\ l[2] \in Children(l[1])
                 /\ Side(l) = { x \in Buses : l[2] \in Above[x] }
                 /\ Above[l[2]] = {l[2]} \cup Above[l[1]] /\ l[2] \notin Above[l[1]]
              \/ /\ l[1] \in Buses \ {Root} /\ ParentOf[l[1]] = l[2]
                 /\ l[2] \notin Children(l[1])
                 /\ Side(l) = { x \in Buses : l[1] \notin Above[x] }
                 /\ Above[l[1]] = {l[1]} \cup Above[l[2]] /\ l[1] \notin Above[l[2]]
<1>1. /\ l[1] \in Buses /\ l[2] \in Buses /\ l = <<l[1], l[2]>>
      /\ l[2] \in Children(l[1]) \/ l[2] \in Parents(l[1])
  BY DEF Links
<1>2. ASSUME l[2] \in Children(l[1])
      PROVE  /\ l[2] \in Buses \ {Root} /\ ParentOf[l[2]] = l[1]
             /\ Above[l[2]] = {l[2]} \cup Above[l[1]] /\ l[2] \notin Above[l[1]]
             /\ l[1] # l[2] /\ Back(l) \in Links
  <2>1. l[2] \in Buses \ {Root} /\ ParentOf[l[2]] = l[1]  BY <1>2 DEF Children
  <2>2. Above[l[2]] = {l[2]} \cup Above[l[1]] /\ l[2] \notin Above[l[1]]  BY <2>1, AboveStep, AskAssumption
  <2>3. l[1] # l[2]  BY <1>1, <2>2, AboveFacts
  <2>4. Back(l) \in Links  BY <1>1, <2>1 DEF Links, Back, Parents
  <2> QED  BY <2>1, <2>2, <2>3, <2>4
<1>3. ASSUME l[2] \notin Children(l[1])
      PROVE  /\ l[1] \in Buses \ {Root} /\ ParentOf[l[1]] = l[2]
             /\ Above[l[1]] = {l[1]} \cup Above[l[2]] /\ l[1] \notin Above[l[2]]
             /\ l[1] # l[2] /\ Back(l) \in Links
  <2>1. l[1] \in Buses \ {Root} /\ ParentOf[l[1]] = l[2]  BY <1>1, <1>3 DEF Parents
  <2>2. Above[l[1]] = {l[1]} \cup Above[l[2]] /\ l[1] \notin Above[l[2]]  BY <2>1, AboveStep, AskAssumption
  <2>3. l[1] # l[2]  BY <1>1, <2>2, AboveFacts
  <2>4. Back(l) \in Links  BY <1>1, <2>1 DEF Links, Back, Children
  <2> QED  BY <2>1, <2>2, <2>3, <2>4
<1>4. Back(Back(l)) = l  BY <1>1 DEF Back
<1> QED  BY <1>1, <1>2, <1>3, <1>4 DEF Side

\* A link has its ends on either side.
LEMMA SideEnds ==
    ASSUME NEW l \in Links
    PROVE  /\ Side(l) \subseteq Buses /\ l[2] \in Side(l) /\ l[1] \notin Side(l)
           /\ Side(Back(l)) = Buses \ Side(l)
<1>1. /\ Back(l)[1] = l[2] /\ Back(l)[2] = l[1] /\ Back(l) \in Links  BY LinkKinds DEF Back
<1>2. CASE l[2] \in Children(l[1])
  <2>1. /\ Side(l) = { x \in Buses : l[2] \in Above[x] } /\ l[2] \notin Above[l[1]]
        /\ ParentOf[l[2]] = l[1] /\ l[2] \in Buses
    BY <1>2, LinkKinds
  <2>2. l[2] \in Above[l[2]]  BY <2>1, AboveFacts
  <2>3. l[1] \notin Children(l[2])
    <3>1. SUFFICES ASSUME l[1] \in Children(l[2])  PROVE FALSE  OBVIOUS
    <3>2. l[2] \in Above[l[1]]  BY <2>1, <3>1, AboveFacts DEF Children
    <3> QED  BY <2>1, <3>2
  <2>4. Side(Back(l)) = { x \in Buses : l[2] \notin Above[x] }  BY <1>1, <2>3 DEF Side
  <2> QED  BY <2>1, <2>2, <2>4
<1>3. CASE l[2] \notin Children(l[1])  BY <1>3, LinkKinds, AboveFacts, <1>1 DEF Children, Side
<1> QED  BY <1>2, <1>3

\* Only l crosses into its side.
LEMMA Crossing ==
    ASSUME NEW l \in Links, NEW m \in Links, m[1] \notin Side(l), m[2] \in Side(l)
    PROVE  m = l
<1>1. m[1] \in Buses /\ m[2] \in Buses /\ m = <<m[1], m[2]>> /\ l = <<l[1], l[2]>>  BY LinkKinds
<1>2. \/ Above[m[2]] = {m[2]} \cup Above[m[1]] /\ ParentOf[m[2]] = m[1]
      \/ Above[m[1]] = {m[1]} \cup Above[m[2]] /\ ParentOf[m[1]] = m[2]
  BY LinkKinds
<1>3. CASE l[2] \in Children(l[1])  BY <1>3, LinkKinds, <1>1, <1>2
<1>4. CASE l[2] \notin Children(l[1])  BY <1>4, LinkKinds, <1>1, <1>2
<1> QED  BY <1>3, <1>4

\* Of two children of a bus, neither is above the other, nor both above a third.
LEMMA Siblings ==
    ASSUME NEW b \in Buses \ {Root}, NEW c \in Buses \ {Root}, b # c, ParentOf[b] = ParentOf[c],
           NEW x \in Buses, b \in Above[x]
    PROVE  c \notin Above[x]
<1>1. SUFFICES ASSUME c \in Above[x]  PROVE FALSE  OBVIOUS
<1>2. b \in Above[c] \/ c \in Above[b]  BY <1>1, AboveInRow
<1>3. b \in Above[ParentOf[b]] \/ c \in Above[ParentOf[c]]  BY <1>2, AboveStep
<1> QED  BY <1>3, AskAssumption

\* Each link on the way away has less before it.
LEMMA Farther ==
    ASSUME NEW l \in Links, NEW m \in Links, m[1] = l[2], m[2] # l[1]
    PROVE  Side(m) \subseteq Side(l)
<1>1. SUFFICES ASSUME NEW x \in Side(m)  PROVE x \in Side(l)  OBVIOUS
<1>2. x \in Buses  BY <1>1, SideEnds
<1>3. CASE l[2] \in Children(l[1])  BY <1>3, LinkKinds, <1>1, <1>2, AboveFacts
<1>4. CASE l[2] \notin Children(l[1])
  <2>1. /\ Side(l) = { y \in Buses : l[1] \notin Above[y] } /\ ParentOf[l[1]] = l[2]
        /\ l[1] \in Buses \ {Root}
    BY <1>4, LinkKinds
  <2>2. CASE m[2] \in Children(m[1])  BY <1>1, <2>2, LinkKinds, <1>2, <2>1, Siblings
  <2>3. CASE m[2] \notin Children(m[1])  BY <1>1, <2>3, LinkKinds, <1>2, <2>1, AboveFacts
  <2> QED  BY <2>2, <2>3
<1> QED  BY <1>3, <1>4

\* From a bus there is a link on the way to every other.
LEMMA NextLink ==
    ASSUME NEW b \in Buses, NEW x \in Buses, x # b
    PROVE  \E m \in Links : m[1] = b /\ x \in Side(m)
<1>1. CASE b \in Above[x]
  <2>1. PICK c \in Above[x] \ {Root} : ParentOf[c] = b  BY <1>1, AboveChild
  <2>2. c \in Buses /\ c \in Children(b)  BY <2>1, AboveFacts DEF Children
  <2> DEFINE m == <<b, c>>
  <2>3. m \in Links /\ m[1] = b /\ m[2] = c  BY <2>2 DEF Links
  <2>4. x \in Side(m)  BY <2>1, <2>2, <2>3 DEF Side
  <2> QED  BY <2>3, <2>4
<1>2. CASE b \notin Above[x]
  <2>1. b # Root  BY AskAssumption, AboveFacts, <1>2
  <2> DEFINE m == <<b, ParentOf[b]>>
  <2>2. m \in Links /\ m[1] = b /\ m[2] = ParentOf[b]  BY <2>1, AskAssumption DEF Links, Parents
  <2>3. ParentOf[b] \notin Children(b)  BY <2>1, <2>2, LinkKinds, AboveFacts DEF Children
  <2>4. x \in Side(m)  BY <1>2, <2>2, <2>3 DEF Side
  <2> QED  BY <2>2, <2>4
<1> QED  BY <1>1, <1>2

\* Two sides that share a bus and leave out another are one within the other.
LEMMA Nested ==
    ASSUME NEW l \in Links, NEW m \in Links, NEW h \in Buses, NEW x \in Buses,
           h \notin Side(l), h \notin Side(m), x \in Side(l), x \in Side(m)
    PROVE  Side(l) \subseteq Side(m) \/ Side(m) \subseteq Side(l)
<1>1. ASSUME NEW b \in Buses, NEW c \in Buses, b \in Above[c],
             NEW y \in Buses, c \in Above[y]
      PROVE  b \in Above[y]
  BY <1>1, AboveAbove
<1>2. \/ l[2] \in Buses /\ Side(l) = { y \in Buses : l[2] \in Above[y] }
      \/ l[1] \in Buses /\ Side(l) = { y \in Buses : l[1] \notin Above[y] }
  BY LinkKinds
<1>3. \/ m[2] \in Buses /\ Side(m) = { y \in Buses : m[2] \in Above[y] }
      \/ m[1] \in Buses /\ Side(m) = { y \in Buses : m[1] \notin Above[y] }
  BY LinkKinds
<1>4. ASSUME NEW b \in Buses, NEW c \in Buses, NEW y \in Buses, b \in Above[y], c \in Above[y]
      PROVE  b \in Above[c] \/ c \in Above[b]
  BY <1>4, AboveInRow
<1>5. CASE /\ l[2] \in Buses /\ Side(l) = { y \in Buses : l[2] \in Above[y] }
           /\ m[2] \in Buses /\ Side(m) = { y \in Buses : m[2] \in Above[y] }
  BY <1>1, <1>4, <1>5
<1>6. CASE /\ l[1] \in Buses /\ Side(l) = { y \in Buses : l[1] \notin Above[y] }
           /\ m[1] \in Buses /\ Side(m) = { y \in Buses : m[1] \notin Above[y] }
  BY <1>1, <1>4, <1>6
<1>7. CASE /\ l[2] \in Buses /\ Side(l) = { y \in Buses : l[2] \in Above[y] }
           /\ m[1] \in Buses /\ Side(m) = { y \in Buses : m[1] \notin Above[y] }
  BY <1>1, <1>4, <1>7
<1>8. CASE /\ l[1] \in Buses /\ Side(l) = { y \in Buses : l[1] \notin Above[y] }
           /\ m[2] \in Buses /\ Side(m) = { y \in Buses : m[2] \in Above[y] }
  BY <1>1, <1>4, <1>8
<1> QED  BY <1>2, <1>3, <1>5, <1>6, <1>7, <1>8

-----------------------------------------------------------------------------
(* Away from the publisher. *)

LEMMA Homes ==
    ASSUME StateOK
    PROVE  Home \in Buses /\ \A n \in Nodes : HomeOf[n] \in Buses
BY AskAssumption DEF StateOK, Home

\* One link leads away to each bus.
LEMMA OneWayIn ==
    ASSUME StateOK, NEW k \in Links, NEW l \in Links, Away(k), Away(l), k[2] = l[2]
    PROVE  k = l
<1>1. SUFFICES ASSUME k[1] # l[1]  PROVE FALSE  BY LinkKinds
<1> DEFINE m == Back(l)
<1>2. m \in Links /\ m[1] = k[2] /\ m[2] # k[1] /\ Side(m) = Buses \ Side(l)
  BY <1>1, LinkKinds, SideEnds DEF Back
<1> HIDE DEF m
<1>3. Side(m) \subseteq Side(k)  BY <1>2, Farther
<1> QED  BY <1>2, <1>3, Homes DEF Away

\* Where a session may send the ask on, nothing is reached another way.
LEMMA BranchAway ==
    ASSUME StateOK, NEW l \in Links,
           l[1] = Home \/ \E s \in Buses : /\ <<s, l[1]>> \in Links /\ Away(<<s, l[1]>>)
                                           /\ l[2] # s
    PROVE  Away(l)
<1>1. CASE l[1] = Home  BY <1>1, SideEnds DEF Away
<1>2. ASSUME NEW s \in Buses, <<s, l[1]>> \in Links, Away(<<s, l[1]>>), l[2] # s  PROVE Away(l)
  <2> DEFINE k == <<s, l[1]>>
  <2>1. k \in Links /\ k[2] = l[1] /\ k[1] = s /\ Away(k)  BY <1>2
  <2> HIDE DEF k
  <2> QED  BY <1>2, <2>1, Farther DEF Away
<1> QED  BY <1>1, <1>2

LEMMA PathFacts ==
    ASSUME StateOK, NEW n \in Nodes, NEW l \in Path(n)
    PROVE  /\ l \in Links /\ Away(l) /\ HomeOf[n] \in Side(l) /\ l[2] # Home
           /\ l \in UpTo(n, l) /\ Back(l) \in Links
BY SideEnds, LinkKinds DEF Path, UpTo, Away

\* A bus the ask reaches on its way to n, but for n's own, has a next link.
LEMMA PathNext ==
    ASSUME StateOK, NEW n \in Nodes, NEW b \in Buses, HomeOf[n] # b,
           b = Home \/ \E l \in Path(n) : l[2] = b
    PROVE  \E m \in Path(n) : /\ m[1] = b
                              /\ \A l \in Path(n) : l[2] = b => m[2] # l[1] /\ Side(m) \subseteq Side(l)
<1>1. HomeOf[n] \in Buses  BY Homes
<1>2. PICK m \in Links : m[1] = b /\ HomeOf[n] \in Side(m)  BY <1>1, NextLink
<1>3. ASSUME NEW l \in Path(n), l[2] = b  PROVE m[2] # l[1] /\ Side(m) \subseteq Side(l) /\ Away(m)
  <2>1. l \in Links /\ Away(l) /\ HomeOf[n] \in Side(l)  BY PathFacts
  <2>2. m[2] # l[1]
    <3>1. SUFFICES ASSUME m[2] = l[1]  PROVE FALSE  OBVIOUS
    <3>2. m = Back(l)  BY LinkKinds, <1>2, <1>3, <3>1 DEF Back
    <3> QED  BY <1>2, <2>1, <3>2, SideEnds
  <2> QED  BY <1>2, <1>3, <2>1, <2>2, Farther DEF Away
<1>4. Away(m)  BY <1>2, SideEnds, <1>3 DEF Away
<1> QED  BY <1>2, <1>3, <1>4 DEF Path

\* ... and, but for the publisher's, a link before.
LEMMA PathBefore ==
    ASSUME StateOK, NEW n \in Nodes, NEW l \in Path(n), NEW k \in Links, k[2] = l[1], Away(k)
    PROVE  k \in Path(n) /\ Side(l) \subseteq Side(k)
<1>1. l \in Links /\ Away(l) /\ HomeOf[n] \in Side(l)  BY PathFacts
<1>2. l[2] # k[1]
  <2>1. SUFFICES ASSUME l[2] = k[1]  PROVE FALSE  OBVIOUS
  <2>2. l = Back(k)  BY <1>1, <2>1, LinkKinds DEF Back
  <2> QED  BY <1>1, <2>2, SideEnds, Homes DEF Away
<1>3. Side(l) \subseteq Side(k)  BY <1>1, <1>2, Farther
<1> QED  BY <1>1, <1>3 DEF Path

LEMMA UpToNested ==
    ASSUME StateOK, NEW n \in Nodes, NEW l \in Path(n), NEW m \in Path(n)
    PROVE  Side(l) \subseteq Side(m) \/ Side(m) \subseteq Side(l)
BY PathFacts, Homes, Nested DEF Away

\* The link behind l adds itself.
LEMMA UpToNext ==
    ASSUME StateOK, NEW n \in Nodes, NEW l \in Path(n), NEW m \in Path(n), m[1] = l[2]
    PROVE  /\ UpTo(n, m) = UpTo(n, l) \cup {m} /\ m \notin UpTo(n, l)
           /\ Side(m) \subseteq Side(l)
<1>1. l \in Links /\ m \in Links /\ Away(l) /\ Away(m)  BY PathFacts
<1>2. Side(m) \subseteq Side(l)  BY <1>1, PathBefore
<1>3. ASSUME NEW k \in Path(n), Side(m) \subseteq Side(k), k # m
      PROVE  Side(l) \subseteq Side(k)
  <2>1. k \in Links  BY PathFacts
  <2>2. SUFFICES ASSUME Side(k) \subseteq Side(l)  PROVE Side(l) \subseteq Side(k)  BY UpToNested
  <2>3. m[1] \in Side(k)  BY <1>1, <1>3, <2>1, SideEnds, Crossing
  <2>4. l = k  BY <1>1, <2>1, <2>2, <2>3, SideEnds, Crossing
  <2> QED  BY <2>4
<1>4. m \notin UpTo(n, l)  BY <1>1, SideEnds DEF UpTo
<1> QED  BY <1>2, <1>3, <1>4 DEF UpTo

\* All links of the way lead up to the one that enters n's bus.
LEMMA UpToLast ==
    ASSUME StateOK, NEW n \in Nodes, NEW l \in Path(n), l[2] = HomeOf[n]
    PROVE  UpTo(n, l) = Path(n)
<1>1. ASSUME NEW m \in Path(n)  PROVE Side(l) \subseteq Side(m)
  <2>1. l \in Links /\ m \in Links /\ HomeOf[n] \in Side(m)  BY PathFacts
  <2>2. SUFFICES ASSUME Side(m) \subseteq Side(l)  PROVE Side(l) \subseteq Side(m)  BY UpToNested
  <2>3. l = m  BY <2>1, <2>2, SideEnds, Crossing
  <2> QED  BY <2>3
<1> QED  BY <1>1 DEF UpTo

\* Behind every link before l there is another, up to l.
LEMMA UpToInner ==
    ASSUME StateOK, NEW n \in Nodes, NEW l \in Path(n), NEW m \in UpTo(n, l), m # l
    PROVE  m[2] \notin Side(l) /\ \E k \in UpTo(n, l) : k[1] = m[2]
<1>1. m \in Path(n) /\ m \in Links /\ l \in Links /\ Side(l) \subseteq Side(m) /\ HomeOf[n] \in Side(l)
      /\ m[2] \in Buses
  BY PathFacts, LinkKinds DEF UpTo
<1>2. m[2] \notin Side(l)  BY <1>1, SideEnds, Crossing
<1>3. PICK k \in Path(n) : k[1] = m[2]  BY <1>1, <1>2, PathNext
<1>4. Side(l) \subseteq Side(k)
  <2>1. SUFFICES ASSUME Side(k) \subseteq Side(l)  PROVE Side(l) \subseteq Side(k)  BY UpToNested
  <2>2. k \in Links /\ k[2] \in Side(k)  BY PathFacts, SideEnds
  <2>3. k = l  BY <1>1, <1>2, <1>3, <2>1, <2>2, Crossing
  <2> QED  BY <2>3
<1> QED  BY <1>2, <1>3, <1>4 DEF UpTo

\* What is owed passes: the links of the way work, and no bridge denies it.
LEMMA PathClear ==
    ASSUME StateOK, NEW n \in Nodes, Owed(n), NEW l \in Path(n)
    PROVE  /\ l \in alive /\ Back(l) \in alive
           /\ l[2] \in Children(l[1]) => Permits(l[2]) /\ l[2] \in Above[HomeOf[n]] \ {Root}
           /\ l[1] \in Children(l[2]) => Permits(l[1])
<1>1. l \in Links /\ Home \notin Side(l) /\ HomeOf[n] \in Side(l) /\ l = <<l[1], l[2]>>
      /\ Home \in Buses /\ HomeOf[n] \in Buses
  BY PathFacts, Homes, LinkKinds DEF Away
<1>2. CASE l[2] \in Children(l[1])
  <2>1. /\ Side(l) = { y \in Buses : l[2] \in Above[y] } /\ ParentOf[l[2]] = l[1]
        /\ l[2] \in Buses \ {Root} /\ l[2] \notin Above[l[1]]
    BY <1>1, <1>2, LinkKinds
  <2>2. l[2] \in Down(n)  BY <1>1, <2>1 DEF Down, Home
  <2>3. l[2] \notin denied /\ Ends(l[2]) \subseteq alive  BY <2>2 DEF Owed
  <2>4. l[1] \notin Children(l[2])  BY <2>1, AboveFacts DEF Children
  <2> QED  BY <1>1, <2>1, <2>3, <2>4 DEF Ends, Permits, Back
<1>3. CASE l[2] \notin Children(l[1])
  <2>1. /\ Side(l) = { y \in Buses : l[1] \notin Above[y] } /\ ParentOf[l[1]] = l[2]
        /\ l[1] \in Buses \ {Root}
    BY <1>1, <1>3, LinkKinds
  <2>2. l[1] \in Up(n)  BY <1>1, <2>1 DEF Up, Home
  <2>3. l[1] \notin denied /\ Ends(l[1]) \subseteq alive  BY <2>2 DEF Owed
  <2> QED  BY <1>1, <1>3, <2>1, <2>3 DEF Ends, Permits, Back
<1> QED  BY <1>2, <1>3

-----------------------------------------------------------------------------
(* Sequences of messages, and what a step does to those of the network. *)

LEMMA SeqTyped ==
    ASSUME NEW S, NEW q \in Seq(S)
    PROVE  /\ IsSeq(q) /\ Len(q) \in Nat /\ DOMAIN q = 1 .. Len(q)
           /\ \A i \in DOMAIN q : q[i] \in S
BY IsASeq DEF IsSeq

LEMMA SeqFacts ==
    ASSUME NEW q, IsSeq(q)
    PROVE  Len(q) \in Nat /\ DOMAIN q = 1 .. Len(q) /\ (q # <<>> => 1 \in DOMAIN q)
<1>1. q \in Seq({ q[i] : i \in DOMAIN q })  BY DEF IsSeq
<1> HIDE DEF IsSeq
<1> DEFINE S == { q[i] : i \in DOMAIN q }
<1> HIDE DEF S
<1>2. q \in Seq(S)  BY <1>1 DEF S
<1>3. Len(q) \in Nat /\ DOMAIN q = 1 .. Len(q) /\ (q # <<>> => Len(q) > 0)  BY <1>2
<1> QED  BY <1>3

LEMMA SeqTail ==
    ASSUME NEW q, IsSeq(q), q # <<>>
    PROVE  /\ IsSeq(Tail(q)) /\ Head(q) = q[1] /\ 1 \in DOMAIN q
           /\ \A i \in DOMAIN Tail(q) : i \in Nat /\ i + 1 \in DOMAIN q /\ Tail(q)[i] = q[i + 1]
           /\ \A i \in DOMAIN q : i # 1 => i - 1 \in DOMAIN Tail(q) /\ Tail(q)[i - 1] = q[i]
           /\ \A i \in DOMAIN q : i \in Nat /\ i >= 1
           /\ DOMAIN Tail(q) \subseteq DOMAIN q
<1> DEFINE S == { q[i] : i \in DOMAIN q }  n == Len(q)  r == Tail(q)
<1>1. q \in Seq(S)  BY DEF IsSeq
<1> HIDE DEF S
<1>2. n \in Nat /\ n >= 1 /\ DOMAIN q = 1 .. n /\ Head(q) = q[1]  BY <1>1
<1>3. r \in Seq(S) /\ DOMAIN r = 1 .. (n - 1) /\ \A i \in 1 .. (n - 1) : r[i] = q[i + 1]  BY <1>1
<1>4. IsSeq(r)  BY <1>3, SeqTyped
<1> HIDE DEF n, r
<1>5. \A i \in DOMAIN r : i \in Nat /\ i + 1 \in DOMAIN q /\ r[i] = q[i + 1]  BY <1>2, <1>3
<1>6. ASSUME NEW i \in DOMAIN q, i # 1  PROVE i - 1 \in DOMAIN r /\ r[i - 1] = q[i]  BY <1>2, <1>6, <1>3
<1>7. \A i \in DOMAIN q : i \in Nat /\ i >= 1  BY <1>2
<1>8. DOMAIN r \subseteq DOMAIN q /\ 1 \in DOMAIN q  BY <1>2, <1>3
<1> QED  BY <1>2, <1>4, <1>5, <1>6, <1>7, <1>8 DEF r

LEMMA SeqJoin ==
    ASSUME NEW q, IsSeq(q), NEW r, IsSeq(r)
    PROVE  /\ IsSeq(q \o r) /\ Len(q) \in Nat
           /\ \A i \in DOMAIN q : i \in Nat /\ i >= 1 /\ i <= Len(q) /\ i \in DOMAIN (q \o r) /\ (q \o r)[i] = q[i]
           /\ \A i \in DOMAIN r : i \in Nat /\ i >= 1 /\ Len(q) + i \in DOMAIN (q \o r) /\ (q \o r)[Len(q) + i] = r[i]
           /\ \A i \in DOMAIN (q \o r) :
                i \in DOMAIN q \/ (i > Len(q) /\ i - Len(q) \in DOMAIN r)
           /\ \A i \in DOMAIN (q \o r) : i \in Nat /\ i >= 1
<1> DEFINE S == { q[i] : i \in DOMAIN q } \cup { r[i] : i \in DOMAIN r }  n == Len(q)  m == Len(r)  v == q \o r
<1>1. q \in Seq({ q[i] : i \in DOMAIN q }) /\ r \in Seq({ r[i] : i \in DOMAIN r })  BY DEF IsSeq
<1>2. n \in Nat /\ DOMAIN q = 1 .. n /\ m \in Nat /\ DOMAIN r = 1 .. m  BY SeqFacts
<1>3. q \in Seq(S) /\ r \in Seq(S)
  <2>1. \A i \in 1 .. n : q[i] \in S  BY <1>2
  <2>2. \A i \in 1 .. m : r[i] \in S  BY <1>2
  <2> HIDE DEF S
  <2>3. q \in Seq(S)  BY <1>1, <1>2, <2>1, IsASeq
  <2>4. r \in Seq(S)  BY <1>1, <1>2, <2>2, IsASeq
  <2> QED  BY <2>3, <2>4
<1> HIDE DEF S
<1>4. v \in Seq(S) /\ Len(v) = n + m  BY <1>3
<1>5. DOMAIN v = 1 .. (n + m)  BY <1>4
<1>6. \A i \in 1 .. (n + m) : v[i] = IF i <= n THEN q[i] ELSE r[i - n]  BY <1>3
<1>7. IsSeq(v)  BY <1>4, SeqTyped
<1> HIDE DEF v, n, m
<1>8. \A i \in DOMAIN q : i \in Nat /\ i >= 1 /\ i <= n /\ i \in DOMAIN v /\ v[i] = q[i]  BY <1>2, <1>5, <1>6
<1>9. ASSUME NEW i \in DOMAIN r  PROVE i \in Nat /\ i >= 1 /\ n + i \in DOMAIN v /\ v[n + i] = r[i]
  BY <1>2, <1>5, <1>6
<1>10. \A i \in DOMAIN v : i \in Nat /\ i >= 1 /\ (i \in DOMAIN q \/ (i > n /\ i - n \in DOMAIN r))
  BY <1>2, <1>5
<1> QED  BY <1>2, <1>7, <1>8, <1>9, <1>10 DEF v, n

LEMMA JoinFrom ==
    ASSUME NEW q, IsSeq(q), NEW r, IsSeq(r), NEW i \in DOMAIN (q \o r)
    PROVE  \/ i \in DOMAIN q /\ (q \o r)[i] = q[i]
           \/ /\ i \in Nat /\ Len(q) \in Nat /\ i > Len(q) /\ i - Len(q) \in DOMAIN r
              /\ (q \o r)[i] = r[i - Len(q)]
<1> DEFINE v == q \o r  k == Len(q)
<1>0. /\ IsSeq(q \o r) /\ Len(q) \in Nat
      /\ \A j \in DOMAIN q : j \in Nat /\ j >= 1 /\ j <= Len(q) /\ j \in DOMAIN (q \o r) /\ (q \o r)[j] = q[j]
      /\ \A j \in DOMAIN r : j \in Nat /\ j >= 1 /\ Len(q) + j \in DOMAIN (q \o r) /\ (q \o r)[Len(q) + j] = r[j]
      /\ \A j \in DOMAIN (q \o r) :
           j \in DOMAIN q \/ (j > Len(q) /\ j - Len(q) \in DOMAIN r)
      /\ \A j \in DOMAIN (q \o r) : j \in Nat /\ j >= 1
  BY SeqJoin
<1>1. /\ \A j \in DOMAIN q : v[j] = q[j]
      /\ \A j \in DOMAIN r : v[k + j] = r[j]
      /\ k \in Nat /\ i \in Nat
      /\ i \in DOMAIN q \/ (i > k /\ i - k \in DOMAIN r)
  BY <1>0
<1> HIDE DEF v, k
<1>2. CASE i \in DOMAIN q  BY <1>1, <1>2 DEF v
<1>3. CASE i > k /\ i - k \in DOMAIN r  BY <1>1, <1>3 DEF v, k
<1> QED  BY <1>1, <1>2, <1>3

\* At most the first message is taken off each link, or all of them are lost ...
Thinner(net) ==
    \A m \in Links : \/ net[m] = link[m] \/ net[m] = <<>>
                     \/ link[m] # <<>> /\ net[m] = Tail(link[m])

\* ... and then more are sent.
Sent(net, out) == [m \in Links |-> net[m] \o out[m]]

LEMMA NoMessages == IsSeq(<<>>) /\ DOMAIN <<>> = {}
<1>1. <<>> \in Seq({})  OBVIOUS
<1>2. IsSeq(<<>>)  BY <1>1, SeqTyped
<1> QED  BY <1>2

LEMMA OneSeq ==
    ASSUME NEW e
    PROVE  IsSeq(<<e>>) /\ DOMAIN <<e>> = {1} /\ <<e>>[1] = e
<1>1. <<e>> \in Seq({e}) /\ DOMAIN <<e>> = 1 .. 1 /\ <<e>>[1] = e  OBVIOUS
<1>2. IsSeq(<<e>>)  BY <1>1, SeqTyped
<1> QED  BY <1>1, <1>2

LEMMA ThinnerIs ==
    ASSUME StateOK, NEW net, Thinner(net), NEW m \in Links
    PROVE  /\ IsSeq(net[m])
           /\ \A i \in DOMAIN net[m] : IsMessage(net[m][i])
           /\ \E s \in {0, 1} : \A i \in DOMAIN net[m] :
                i \in Nat /\ i >= 1 /\ i + s \in DOMAIN link[m] /\ net[m][i] = link[m][i + s]
<1>1. IsSeq(link[m]) /\ \A i \in DOMAIN link[m] : IsMessage(link[m][i])  BY DEF StateOK
<1>2. CASE net[m] = link[m]  BY <1>1, SeqFacts, <1>2
<1>3. CASE net[m] = <<>>  BY <1>3, NoMessages
<1>4. CASE link[m] # <<>> /\ net[m] = Tail(link[m])  BY <1>1, <1>4, SeqTail
<1> QED  BY <1>2, <1>3, <1>4 DEF Thinner

LEMMA ThinnerPlace ==
    ASSUME StateOK, NEW net, Thinner(net), NEW n,
           NEW running, NEW delivered, OnePlace(n, link, running, delivered),
           NEW run2, n \in run2 => n \in running
    PROVE  OnePlace(n, net, run2, delivered)
<1>1. OffLinks(link, n) => OffLinks(net, n)  BY ThinnerIs DEF OffLinks
<1>2. ASSUME NEW l \in Links, NEW m \in Links, NEW i \in DOMAIN net[l], NEW j \in DOMAIN net[m],
             net[l][i] = Result(n), net[m][j] = Result(n)
      PROVE  l = m /\ i = j
  <2>1. PICK s \in {0, 1} : \A e \in DOMAIN net[l] :
          e \in Nat /\ e >= 1 /\ e + s \in DOMAIN link[l] /\ net[l][e] = link[l][e + s]
    BY ThinnerIs
  <2>2. PICK t \in {0, 1} : \A e \in DOMAIN net[m] :
          e \in Nat /\ e >= 1 /\ e + t \in DOMAIN link[m] /\ net[m][e] = link[m][e + t]
    BY ThinnerIs
  <2>3. l = m /\ i + s = j + t  BY <1>2, <2>1, <2>2 DEF OnePlace
  <2>4. i \in Nat /\ j \in Nat /\ i \in DOMAIN net[m]  BY <2>1, <2>2, <2>3
  <2>5. i + t \in DOMAIN link[m] /\ link[m][i + t] = Result(n) /\ link[m][j + t] = Result(n)
        /\ j + t \in DOMAIN link[m]
    BY <1>2, <2>2, <2>3, <2>4
  <2>6. i + t = j + t  BY <2>5 DEF OnePlace
  <2> QED  BY <2>3, <2>4, <2>6
<1> QED  BY <1>1, <1>2 DEF OnePlace

LEMMA SentSeq ==
    ASSUME NEW net, NEW out, NEW m \in Links, IsSeq(net[m]), IsSeq(out[m])
    PROVE  IsSeq(Sent(net, out)[m])
<1> DEFINE q == net[m]  r == out[m]
<1>1. Sent(net, out)[m] = q \o r  BY DEF Sent
<1>2. IsSeq(q) /\ IsSeq(r)  OBVIOUS
<1> HIDE DEF q, r
<1> QED  BY <1>1, <1>2, SeqJoin

LEMMA SentFrom ==
    ASSUME NEW net, NEW out, NEW m \in Links, IsSeq(net[m]), IsSeq(out[m]),
           NEW i \in DOMAIN Sent(net, out)[m]
    PROVE  \/ i \in DOMAIN net[m] /\ Sent(net, out)[m][i] = net[m][i]
           \/ /\ i \notin DOMAIN net[m] /\ Len(net[m]) \in Nat /\ i \in Nat /\ i > Len(net[m])
              /\ i - Len(net[m]) \in DOMAIN out[m]
              /\ Sent(net, out)[m][i] = out[m][i - Len(net[m])]
<1> DEFINE q == net[m]  r == out[m]
<1>1. Sent(net, out)[m] = q \o r /\ IsSeq(q) /\ IsSeq(r)  BY DEF Sent
<1> HIDE DEF q, r
<1>2. \/ i \in DOMAIN q /\ (q \o r)[i] = q[i]
      \/ /\ i \in Nat /\ Len(q) \in Nat /\ i > Len(q) /\ i - Len(q) \in DOMAIN r
         /\ (q \o r)[i] = r[i - Len(q)]
  BY <1>1, JoinFrom
<1>3. Len(q) \in Nat /\ DOMAIN q = 1 .. Len(q)  BY <1>1, SeqFacts
<1>4. i > Len(q) => i \notin DOMAIN q  BY <1>2, <1>3
<1> QED  BY <1>1, <1>2, <1>4 DEF q, r

LEMMA SentNone ==
    ASSUME NEW net, NEW out, NEW m \in Links, IsSeq(net[m]), out[m] = <<>>
    PROVE  Sent(net, out)[m] = net[m]
<1> DEFINE q == net[m]
<1>1. Sent(net, out)[m] = q \o <<>>  BY DEF Sent
<1>2. q \in Seq({ q[i] : i \in DOMAIN q })  BY DEF IsSeq
<1> HIDE DEF q
<1>3. q \o <<>> = q  BY <1>2
<1> QED  BY <1>1, <1>3 DEF q

\* Of what is not sent, nothing more is on the links ...
LEMMA SentOther ==
    ASSUME NEW net, NEW out, \A m \in Links : IsSeq(net[m]) /\ IsSeq(out[m]),
           NEW n, \A m \in Links : \A i \in DOMAIN out[m] : out[m][i] # Result(n)
    PROVE  /\ OffLinks(net, n) => OffLinks(Sent(net, out), n)
           /\ \A running, delivered : OnePlace(n, net, running, delivered) =>
                OnePlace(n, Sent(net, out), running, delivered)
<1> DEFINE new == Sent(net, out)
<1>1. ASSUME NEW m \in Links, NEW i \in DOMAIN new[m], new[m][i] = Result(n)
      PROVE  i \in DOMAIN net[m] /\ net[m][i] = Result(n)
  <2>1. \/ i \in DOMAIN net[m] /\ new[m][i] = net[m][i]
        \/ i - Len(net[m]) \in DOMAIN out[m] /\ new[m][i] = out[m][i - Len(net[m])]
    BY SentFrom
  <2> QED  BY <1>1, <2>1
<1> HIDE DEF new
<1>2. OffLinks(net, n) => OffLinks(new, n)  BY <1>1 DEF OffLinks
<1>3. ASSUME NEW running, NEW delivered, OnePlace(n, net, running, delivered)
      PROVE  OnePlace(n, new, running, delivered)
  BY <1>1, <1>2, <1>3 DEF OnePlace
<1> QED  BY <1>2, <1>3 DEF new

\* ... and what is sent once is there once.
LEMMA SentOnce ==
    ASSUME NEW net, NEW out, \A m \in Links : IsSeq(net[m]) /\ IsSeq(out[m]),
           NEW n, OffLinks(net, n), NEW t,
           \A m \in Links : \A i \in DOMAIN out[m] : out[m][i] = Result(n) => m = t /\ i = 1,
           NEW running, n \notin running,
           NEW delivered, \A i \in DOMAIN delivered : delivered[i] # n
    PROVE  OnePlace(n, Sent(net, out), running, delivered)
<1> DEFINE new == Sent(net, out)
<1>1. ASSUME NEW m \in Links, NEW i \in DOMAIN new[m], new[m][i] = Result(n)
      PROVE  m = t /\ i = Len(net[t]) + 1
  <2>1. /\ Len(net[m]) \in Nat /\ i \in Nat /\ i - Len(net[m]) \in DOMAIN out[m]
        /\ new[m][i] = out[m][i - Len(net[m])]
    <3>1. \/ i \in DOMAIN net[m] /\ new[m][i] = net[m][i]
          \/ /\ Len(net[m]) \in Nat /\ i \in Nat /\ i - Len(net[m]) \in DOMAIN out[m]
             /\ new[m][i] = out[m][i - Len(net[m])]
      BY SentFrom
    <3> QED  BY <1>1, <3>1 DEF OffLinks
  <2>2. m = t /\ i - Len(net[m]) = 1  BY <1>1, <2>1
  <2> QED  BY <2>1, <2>2
<1> HIDE DEF new
<1>2. ASSUME NEW l \in Links, NEW m \in Links, NEW i \in DOMAIN new[l], NEW j \in DOMAIN new[m],
             new[l][i] = Result(n), new[m][j] = Result(n)
      PROVE  l = m /\ i = j
  BY <1>1, <1>2
<1>3. OnePlace(n, new, running, delivered)  BY <1>2 DEF OnePlace
<1> QED  BY <1>3 DEF new

-----------------------------------------------------------------------------
(* The way to a node, and who waits on it. *)

LEMMA PathEnds ==
    ASSUME StateOK, NEW n \in Nodes, NEW l \in Path(n)
    PROVE  \E c \in Up(n) \cup Down(n) : l \in Ends(c) /\ Back(l) \in Ends(c)
<1>1. l \in Links /\ Home \notin Side(l) /\ HomeOf[n] \in Side(l) /\ l = <<l[1], l[2]>>
      /\ Home \in Buses /\ HomeOf[n] \in Buses
  BY PathFacts, Homes, LinkKinds DEF Away
<1>2. CASE l[2] \in Children(l[1])
  <2>1. /\ Side(l) = { y \in Buses : l[2] \in Above[y] } /\ ParentOf[l[2]] = l[1]  BY <1>1, <1>2, LinkKinds
  <2>2. l[2] \in Down(n)  BY <1>1, <2>1 DEF Down, Home
  <2> QED  BY <1>1, <2>1, <2>2 DEF Ends, Back
<1>3. CASE l[2] \notin Children(l[1])
  <2>1. /\ Side(l) = { y \in Buses : l[1] \notin Above[y] } /\ ParentOf[l[1]] = l[2]  BY <1>1, <1>3, LinkKinds
  <2>2. l[1] \in Up(n)  BY <1>1, <2>1 DEF Up, Home
  <2> QED  BY <1>1, <2>1, <2>2 DEF Ends, Back
<1> QED  BY <1>2, <1>3

\* A link leads to the bus of n, unless it is the publisher's.
LEMMA PathLast ==
    ASSUME StateOK, NEW n \in Nodes, HomeOf[n] # Home
    PROVE  \E l \in Path(n) : l[2] = HomeOf[n]
<1>1. Home \in Buses /\ HomeOf[n] \in Buses  BY Homes
<1>2. PICK m \in Links : m[1] = HomeOf[n] /\ Home \in Side(m)  BY <1>1, NextLink
<1>3. /\ Back(m) \in Links /\ Back(m)[2] = HomeOf[n] /\ Side(Back(m)) = Buses \ Side(m)
      /\ m[1] \notin Side(m)
  BY <1>2, LinkKinds, SideEnds DEF Back
<1>4. Home \notin Side(Back(m)) /\ HomeOf[n] \in Side(Back(m))  BY <1>1, <1>2, <1>3
<1> QED  BY <1>3, <1>4 DEF Path, Away

\* The way to anywhere on it starts at the publisher's bus.
LEMMA PathFirst ==
    ASSUME StateOK, NEW n \in Nodes, NEW l \in Path(n)
    PROVE  \E m \in UpTo(n, l) : m[1] = Home
<1>1. l \in Links /\ Home \notin Side(l) /\ HomeOf[n] \in Side(l) /\ HomeOf[n] # Home
      /\ Home \in Buses /\ l[2] \in Side(l)
  BY PathFacts, Homes, SideEnds DEF Away
<1>2. PICK m \in Path(n) : m[1] = Home  BY <1>1, PathNext
<1>3. m \in Links /\ m[1] \notin Side(m) /\ m[2] \in Side(m)  BY PathFacts, SideEnds
<1>4. Side(l) \subseteq Side(m)
  <2>1. Side(l) \subseteq Side(m) \/ Side(m) \subseteq Side(l)  BY UpToNested
  <2>2. ASSUME Side(m) \subseteq Side(l)  PROVE m = l  BY <1>1, <1>2, <1>3, <2>2, Crossing
  <2> QED  BY <2>1, <2>2
<1> QED  BY <1>2, <1>4 DEF UpTo

\* Whoever's result is still to come, the publisher's bus waits for it.
LEMMA WaitsAtHome ==
    ASSUME StateOK, NEW n \in Nodes, StillToCome(n)
    PROVE  Has(Home)
<1>1. ASSUME NEW l \in Path(n), \A m \in UpTo(n, l) : Awaits(m)  PROVE Has(Home)
  <2>1. PICK m \in UpTo(n, l) : m[1] = Home  BY PathFirst
  <2> QED  BY <1>1, <2>1 DEF Awaits
<1>2. CASE AskUnderWay(n)  BY <1>1, <1>2 DEF AskUnderWay, Held
<1>3. CASE Runs(n)
  <2>1. CASE HomeOf[n] = Home  BY <1>3, <2>1 DEF Runs
  <2>2. CASE HomeOf[n] # Home
    <3>1. PICK l \in Path(n) : l[2] = HomeOf[n]  BY <2>2, PathLast
    <3>2. \A m \in UpTo(n, l) : Awaits(m)  BY <1>3 DEF Runs, Held, UpTo
    <3> QED  BY <1>1, <3>2
  <2> QED  BY <2>1, <2>2
<1>4. CASE ResultUnderWay(n)
  <2>1. PICK l \in Path(n) : Awaits(l) /\ \A m \in UpTo(n, l) \ {l} : Held(m)  BY <1>4 DEF ResultUnderWay
  <2>2. \A m \in UpTo(n, l) : Awaits(m)  BY <2>1 DEF Held
  <2> QED  BY <1>1, <2>2
<1> QED  BY <1>2, <1>3, <1>4 DEF StillToCome

HasAsk(q) == \E i \in DOMAIN q : q[i] = Ask

\* A step that does not touch the ask or the result of n leaves them on their way: it
\* ends no branch that is waited for, and sends a fin only where a session has ended.
LEMMA StillKept ==
    ASSUME StateOK, AsksAreFresh', publisher' = publisher, NEW n \in Nodes, StillToCome(n),
           \A m \in Path(n) :
              Awaits(m) /\ (NoFin(link[Back(m)]) \/ Comes(n, link[Back(m)])) => Awaits(m)',
           \A m \in Path(n) :
              NoFin(link[Back(m)]) => NoFin(link'[Back(m)]) \/ ~Has(m[2])',
           \A m \in Path(n) :
              Awaits(m) /\ Comes(n, link[Back(m)]) => Comes(n, link'[Back(m)]),
           \A m \in Path(n) : HasAsk(link[m]) => HasAsk(link'[m]),
           n \in executing /\ Has(HomeOf[n]) => n \in executing' /\ Has(HomeOf[n])'
    PROVE  StillToCome(n)'
<1>1. /\ Path(n)' = Path(n) /\ \A l : UpTo(n, l)' = UpTo(n, l)  BY DEF Path, UpTo, Away, Home
<1>2. \A l : UpTo(n, l) \subseteq Path(n)  BY DEF UpTo
<1>3. ASSUME NEW m \in Path(n), Held(m), Has(m[2])'  PROVE Held(m)'  BY <1>3 DEF Held
<1>4. ASSUME NEW l \in Path(n), NEW m \in UpTo(n, l), m # l, Held(m),
             \A k \in UpTo(n, l) : Awaits(k)'
      PROVE  Held(m)'
  <2>1. PICK k \in UpTo(n, l) : k[1] = m[2]  BY <1>4, UpToInner
  <2>2. Has(m[2])'  BY <1>4, <2>1 DEF Awaits
  <2> QED  BY <1>2, <1>3, <1>4, <2>2
<1>5. CASE AskUnderWay(n)
  <2>1. PICK l \in Path(n) : HasAsk(link[l]) /\ \A m \in UpTo(n, l) : Held(m)  BY <1>5 DEF AskUnderWay, HasAsk
  <2>2. HasAsk(link'[l]) /\ \A m \in UpTo(n, l) : Awaits(m)'  BY <1>2, <2>1 DEF Held
  <2>3. l \in Links /\ l \in UpTo(n, l) /\ Back(l) \in Links /\ Back(l)[1] = l[2] /\ l[2] \in Side(l)
    BY PathFacts, SideEnds DEF Back
  <2>4. Fresh(Side(l))'  BY <2>2, <2>3 DEF AsksAreFresh, HasAsk
  <2>5. link'[Back(l)] = <<>>  BY <2>3, <2>4 DEF Fresh
  <2>6. NoFin(link'[Back(l)])  BY <2>5, NoMessages DEF NoFin
  <2>7. Held(l)'  BY <2>2, <2>3, <2>6 DEF Held
  <2>8. \A m \in UpTo(n, l) : Held(m)'  BY <1>4, <2>1, <2>2, <2>7
  <2>9. AskUnderWay(n)'  BY <1>1, <2>2, <2>8 DEF AskUnderWay, HasAsk
  <2> QED  BY <2>9 DEF StillToCome
<1>6. CASE Runs(n)
  <2>1. n \in executing' /\ Has(HomeOf[n])' /\ \A m \in Path(n) : Held(m) /\ Awaits(m)'
    BY <1>6 DEF Runs, Held
  <2>2. ASSUME NEW m \in Path(n)  PROVE Held(m)'
    <3>1. CASE m[2] = HomeOf[n]  BY <1>3, <2>1, <3>1
    <3>2. CASE m[2] # HomeOf[n]
      <4>1. m[2] \in Buses  BY PathFacts, LinkKinds
      <4>2. PICK k \in Path(n) : k[1] = m[2]  BY <3>2, <4>1, PathNext
      <4>3. Has(m[2])'  BY <2>1, <4>2 DEF Awaits
      <4> QED  BY <1>3, <2>1, <4>3
    <3> QED  BY <3>1, <3>2
  <2>3. Runs(n)'  BY <1>1, <2>1, <2>2 DEF Runs
  <2> QED  BY <2>3 DEF StillToCome
<1>7. CASE ResultUnderWay(n)
  <2>1. PICK l \in Path(n) : /\ Comes(n, link[Back(l)]) /\ Awaits(l)
                             /\ \A m \in UpTo(n, l) \ {l} : Held(m)
    BY <1>7 DEF ResultUnderWay
  <2>2. Comes(n, link'[Back(l)]) /\ \A m \in UpTo(n, l) : Awaits(m)'  BY <1>2, <2>1 DEF Held
  <2>3. \A m \in UpTo(n, l) \ {l} : Held(m)'  BY <1>4, <2>1, <2>2
  <2>4. Awaits(l)'  BY <2>2, PathFacts
  <2>5. ResultUnderWay(n)'  BY <1>1, <2>2, <2>3, <2>4 DEF ResultUnderWay
  <2> QED  BY <2>5 DEF StillToCome
<1> QED  BY <1>5, <1>6, <1>7 DEF StillToCome

-----------------------------------------------------------------------------
(* A result and the fins of its link. *)

LEMMA Types ==
    \A n, k : /\ Result(n).type = "result" /\ Fin(k).type = "fin" /\ Ask.type = "ask"
              /\ Result(n) # Ask /\ Fin(k) # Ask /\ Fin(k) # Result(n)
              /\ \A m : Result(n) = Result(m) => n = m
BY DEF Result, Fin, Ask

LEMMA AfterTail ==
    ASSUME NEW n, NEW q, IsSeq(q), q # <<>>
    PROVE  /\ Comes(n, q) /\ Head(q) # Result(n) => Comes(n, Tail(q))
           /\ NoFin(q) => NoFin(Tail(q))
           /\ HasAsk(q) /\ Head(q) # Ask => HasAsk(Tail(q))
<1>1. /\ Head(q) = q[1]
      /\ \A i \in DOMAIN Tail(q) : i \in Nat /\ i + 1 \in DOMAIN q /\ Tail(q)[i] = q[i + 1]
      /\ \A i \in DOMAIN q : i # 1 => i - 1 \in DOMAIN Tail(q) /\ Tail(q)[i - 1] = q[i]
      /\ \A i \in DOMAIN q : i \in Nat /\ i >= 1
  BY SeqTail
<1>2. ASSUME Comes(n, q), Head(q) # Result(n)  PROVE Comes(n, Tail(q))
  <2>1. PICK i \in DOMAIN q : q[i] = Result(n) /\ \A j \in DOMAIN q : j <= i => q[j].type # "fin"
    BY <1>2 DEF Comes
  <2>2. i - 1 \in DOMAIN Tail(q) /\ Tail(q)[i - 1] = Result(n)  BY <1>1, <1>2, <2>1
  <2>3. ASSUME NEW j \in DOMAIN Tail(q), j <= i - 1  PROVE Tail(q)[j].type # "fin"  BY <1>1, <2>3, <2>1
  <2> QED  BY <2>2, <2>3 DEF Comes
<1>3. ASSUME NoFin(q)  PROVE NoFin(Tail(q))  BY <1>1, <1>3 DEF NoFin
<1>4. ASSUME HasAsk(q), Head(q) # Ask  PROVE HasAsk(Tail(q))  BY <1>1, <1>4 DEF HasAsk
<1> QED  BY <1>2, <1>3, <1>4

LEMMA AfterSend ==
    ASSUME NEW n, NEW q, IsSeq(q), NEW r, IsSeq(r)
    PROVE  /\ Comes(n, q) => Comes(n, q \o r)
           /\ NoFin(q) /\ NoFin(r) => NoFin(q \o r)
           /\ HasAsk(q) => HasAsk(q \o r)
           /\ NoFin(q) /\ 1 \in DOMAIN r /\ r[1] = Result(n) => Comes(n, q \o r)
<1> DEFINE v == q \o r  k == Len(q)
<1>0. /\ IsSeq(q \o r) /\ Len(q) \in Nat
      /\ \A i \in DOMAIN q : i \in Nat /\ i >= 1 /\ i <= Len(q) /\ i \in DOMAIN (q \o r) /\ (q \o r)[i] = q[i]
      /\ \A i \in DOMAIN r : i \in Nat /\ i >= 1 /\ Len(q) + i \in DOMAIN (q \o r) /\ (q \o r)[Len(q) + i] = r[i]
      /\ \A i \in DOMAIN (q \o r) :
           i \in DOMAIN q \/ (i > Len(q) /\ i - Len(q) \in DOMAIN r)
      /\ \A i \in DOMAIN (q \o r) : i \in Nat /\ i >= 1
  BY SeqJoin
<1>1. /\ \A i \in DOMAIN q : i \in Nat /\ i >= 1 /\ i <= k /\ i \in DOMAIN v /\ v[i] = q[i]
      /\ \A i \in DOMAIN r : i \in Nat /\ i >= 1 /\ k + i \in DOMAIN v /\ v[k + i] = r[i]
      /\ k \in Nat /\ \A i \in DOMAIN v : i \in Nat /\ i >= 1
      /\ \A i \in DOMAIN v : i \in DOMAIN q \/ (i > k /\ i - k \in DOMAIN r)
  BY <1>0
<1> HIDE DEF v, k
<1>5. ASSUME NEW i \in DOMAIN v, i \notin DOMAIN q
      PROVE  i > k /\ i - k \in DOMAIN r /\ v[i] = r[i - k]
  BY <1>1, <1>5
<1>6. ASSUME Comes(n, q)  PROVE Comes(n, v)
  <2>1. PICK i \in DOMAIN q : q[i] = Result(n) /\ \A j \in DOMAIN q : j <= i => q[j].type # "fin"
    BY <1>6 DEF Comes
  <2>2. ASSUME NEW j \in DOMAIN v, j <= i  PROVE v[j].type # "fin"  BY <1>1, <2>2, <2>1
  <2> QED  BY <1>1, <2>1, <2>2 DEF Comes
<1>7. ASSUME NoFin(q), NoFin(r)  PROVE NoFin(v)
  <2>1. ASSUME NEW i \in DOMAIN v  PROVE v[i].type # "fin"
    <3>1. CASE i \in DOMAIN q  BY <1>1, <1>7, <3>1 DEF NoFin
    <3>2. CASE i \notin DOMAIN q  BY <1>5, <1>7, <3>2 DEF NoFin
    <3> QED  BY <3>1, <3>2
  <2> QED  BY <2>1 DEF NoFin
<1>8. ASSUME HasAsk(q)  PROVE HasAsk(v)  BY <1>1, <1>8 DEF HasAsk
<1>9. ASSUME NoFin(q), 1 \in DOMAIN r, r[1] = Result(n)  PROVE Comes(n, v)
  <2>1. k + 1 \in DOMAIN v /\ v[k + 1] = Result(n)  BY <1>1, <1>9
  <2>2. ASSUME NEW j \in DOMAIN v, j <= k + 1  PROVE v[j].type # "fin"
    <3>1. CASE j \in DOMAIN q  BY <1>1, <1>9, <3>1 DEF NoFin
    <3>2. CASE j \notin DOMAIN q  BY <1>1, <1>5, <3>2, <2>2, <2>1, Types
    <3> QED  BY <3>1, <3>2
  <2> QED  BY <2>1, <2>2 DEF Comes
<1> QED  BY <1>6, <1>7, <1>8, <1>9 DEF v

\* The network with a message taken off the links T.
Taken(T) == [m \in Links |-> IF m \in T THEN Tail(link[m]) ELSE link[m]]
FullLinks(T) == T \subseteq Links /\ \A l \in T : link[l] # <<>>

LEMMA TakenIs ==
    ASSUME StateOK, NEW T, FullLinks(T)
    PROVE  /\ Thinner(Taken(T)) /\ \A m \in Links : IsSeq(Taken(T)[m])
           /\ T = {} => Taken(T) = link
           /\ \A l \in Links : T = {l} => Taken(T) = Without(l)
<1>1. \A m \in Links : Taken(T)[m] = link[m] \/ (link[m] # <<>> /\ Taken(T)[m] = Tail(link[m]))
  BY DEF Taken, FullLinks
<1>2. Thinner(Taken(T))  BY <1>1 DEF Thinner
<1>3. \A m \in Links : IsSeq(Taken(T)[m])  BY <1>2, ThinnerIs
<1>4. link = [l \in Links |-> link[l]]  BY DEF StateOK
<1>5. ASSUME T = {}  PROVE Taken(T) = link  BY <1>4, <1>5 DEF Taken
<1>6. ASSUME NEW l \in Links, T = {l}  PROVE Taken(T) = Without(l)  BY <1>4, <1>6 DEF Taken, Without
<1> QED  BY <1>2, <1>3, <1>5, <1>6

-----------------------------------------------------------------------------
(* What a session that advances sends and delivers. *)

LEMMA JoinLast ==
    ASSUME NEW q, IsSeq(q), NEW k
    PROVE  \E i \in DOMAIN (q \o <<k>>) : (q \o <<k>>)[i] = k
<1> DEFINE r == <<k>>
<1>1. IsSeq(r) /\ DOMAIN r = {1} /\ r[1] = k  BY OneSeq
<1> HIDE DEF r
<1>2. /\ IsSeq(q \o r) /\ Len(q) \in Nat
      /\ \A j \in DOMAIN q : j \in Nat /\ j >= 1 /\ j <= Len(q) /\ j \in DOMAIN (q \o r) /\ (q \o r)[j] = q[j]
      /\ \A j \in DOMAIN r : j \in Nat /\ j >= 1 /\ Len(q) + j \in DOMAIN (q \o r) /\ (q \o r)[Len(q) + j] = r[j]
      /\ \A j \in DOMAIN (q \o r) :
           j \in DOMAIN q \/ (j > Len(q) /\ j - Len(q) \in DOMAIN r)
      /\ \A j \in DOMAIN (q \o r) : j \in Nat /\ j >= 1
  BY <1>1, SeqJoin
<1>3. Len(q) + 1 \in DOMAIN (q \o r) /\ (q \o r)[Len(q) + 1] = k  BY <1>1, <1>2
<1> QED  BY <1>3 DEF r

AtMostOne(h) == h = <<>> \/ \E n \in Nodes : h = <<n>>
Reply(s, h) ==
    [i \in 1 .. Len(h) |-> Result(h[i])]
    \o IF Complete(s) THEN <<Fin(TotalResults(s))>> ELSE <<>>
Replies(b, s, h) ==
    [m \in Links |-> IF m = <<b, s.source>> /\ s.source # b /\ m \in open \cap alive
                     THEN Reply(s, h) ELSE <<>>]

LEMMA ReplyIs ==
    ASSUME NEW s, NEW h, AtMostOne(h)
    PROVE  /\ IsSeq(Reply(s, h))
           /\ \A i \in DOMAIN Reply(s, h) :
                \/ Complete(s) /\ Reply(s, h)[i].type = "fin"
                \/ i = 1 /\ \E n \in Nodes : h = <<n>> /\ Reply(s, h)[i] = Result(n)
           /\ \A n : h = <<n>> => 1 \in DOMAIN Reply(s, h) /\ Reply(s, h)[1] = Result(n)
<1> DEFINE g == [i \in 1 .. Len(h) |-> Result(h[i])]
           f == IF Complete(s) THEN <<Fin(TotalResults(s))>> ELSE <<>>
<1>1. IsSeq(f) /\ \A i \in DOMAIN f : Complete(s) /\ f[i].type = "fin"
  <2>1. CASE Complete(s)  BY <2>1, OneSeq, Types
  <2>2. CASE ~Complete(s)  BY <2>2, NoMessages
  <2> QED  BY <2>1, <2>2
<1>2. /\ IsSeq(g) /\ \A i \in DOMAIN g : i = 1 /\ \E n \in Nodes : h = <<n>> /\ g[i] = Result(n)
      /\ \A n : h = <<n>> => 1 \in DOMAIN g /\ g[1] = Result(n)
  <2>1. CASE h = <<>>  BY <2>1, NoMessages
  <2>2. ASSUME NEW n \in Nodes, h = <<n>>
        PROVE  /\ IsSeq(g) /\ \A i \in DOMAIN g : i = 1 /\ g[i] = Result(n)
               /\ 1 \in DOMAIN g /\ g[1] = Result(n)
    BY <2>2, OneSeq
  <2>3. \A n, m : <<n>> = <<m>> => n = m  OBVIOUS
  <2> HIDE DEF g
  <2> QED  BY <2>1, <2>2, <2>3 DEF AtMostOne
<1>3. Reply(s, h) = g \o f  BY DEF Reply
<1> HIDE DEF g, f
<1>4. IsSeq(g \o f)  BY <1>1, <1>2, SeqJoin
<1>5. ASSUME NEW i \in DOMAIN (g \o f)
      PROVE  \/ Complete(s) /\ (g \o f)[i].type = "fin"
             \/ i = 1 /\ \E n \in Nodes : h = <<n>> /\ (g \o f)[i] = Result(n)
  <2>1. \/ i \in DOMAIN g /\ (g \o f)[i] = g[i]
        \/ i - Len(g) \in DOMAIN f /\ (g \o f)[i] = f[i - Len(g)]
    BY <1>1, <1>2, JoinFrom
  <2>2. CASE i \in DOMAIN g /\ (g \o f)[i] = g[i]  BY <1>2, <2>2
  <2>3. CASE i - Len(g) \in DOMAIN f /\ (g \o f)[i] = f[i - Len(g)]  BY <1>1, <2>3
  <2> QED  BY <2>1, <2>2, <2>3
<1>6. \A j \in DOMAIN g : j \in DOMAIN (g \o f) /\ (g \o f)[j] = g[j]  BY <1>1, <1>2, SeqJoin
<1> QED  BY <1>2, <1>3, <1>4, <1>5, <1>6

LEMMA RepliesAre ==
    ASSUME NEW b, NEW s, NEW h, AtMostOne(h), NEW m \in Links
    PROVE  /\ IsSeq(Replies(b, s, h)[m])
           /\ \A i \in DOMAIN Replies(b, s, h)[m] :
                /\ m = <<b, s.source>> /\ s.source # b
                /\ \/ Complete(s) /\ Replies(b, s, h)[m][i].type = "fin"
                   \/ i = 1 /\ \E n \in Nodes : h = <<n>> /\ Replies(b, s, h)[m][i] = Result(n)
           /\ m # <<b, s.source>> \/ s.source = b => Replies(b, s, h)[m] = <<>>
           /\ m = <<b, s.source>> /\ s.source # b /\ m \in open \cap alive =>
                \A n : h = <<n>> => 1 \in DOMAIN Replies(b, s, h)[m] /\ Replies(b, s, h)[m][1] = Result(n)
<1>1. CASE m = <<b, s.source>> /\ s.source # b /\ m \in open \cap alive  BY <1>1, ReplyIs DEF Replies
<1>2. CASE ~(m = <<b, s.source>> /\ s.source # b /\ m \in open \cap alive)  BY <1>2, NoMessages DEF Replies
<1> QED  BY <1>1, <1>2

LEMMA AdvanceLink ==
    ASSUME StateOK, NEW T, FullLinks(T), NEW b \in Buses, NEW s, NEW h, AtMostOne(h),
           SessionFits(b, s), Advance(Taken(T), b, s, h)
    PROVE  link' = Sent(Taken(T), Replies(b, s, h))
<1> DEFINE net == Taken(T)
<1>1. net = [m \in Links |-> net[m]] /\ \A m \in Links : IsSeq(net[m])  BY TakenIs DEF Taken
<1>2. \A m \in Links : IsSeq(Replies(b, s, h)[m])  BY RepliesAre
<1> HIDE DEF net
<1>3. ASSUME NEW m \in Links, Replies(b, s, h)[m] = <<>>
      PROVE  Sent(net, Replies(b, s, h))[m] = net[m]
  BY <1>1, <1>3, SentNone
<1>4. CASE s.source = b  BY <1>4, <1>3, RepliesAre, <1>1 DEF Advance, net, Sent
<1>5. CASE s.source # b
  <2>1. link' = Transmit(net, <<b, s.source>>, Reply(s, h))  BY <1>5 DEF Advance, Reply, net
  <2>2. CASE <<b, s.source>> \in open \cap alive
    <3>1. link' = [net EXCEPT ![<<b, s.source>>] = net[<<b, s.source>>] \o Reply(s, h)]
      BY <2>1, <2>2 DEF Transmit
    <3>2. \A m \in Links : link'[m] = IF m = <<b, s.source>> THEN net[m] \o Reply(s, h) ELSE net[m]
      BY <1>1, <3>1
    <3>3. \A m \in Links : m = <<b, s.source>> => Replies(b, s, h)[m] = Reply(s, h)  BY <1>5, <2>2 DEF Replies
    <3>4. \A m \in Links : m # <<b, s.source>> => Replies(b, s, h)[m] = <<>>  BY DEF Replies
    <3>5. \A m \in Links : link'[m] = Sent(net, Replies(b, s, h))[m]
      <4>1. ASSUME NEW m \in Links, m = <<b, s.source>>
            PROVE  link'[m] = Sent(net, Replies(b, s, h))[m]
        BY <3>2, <3>3, <4>1 DEF Sent
      <4>2. ASSUME NEW m \in Links, m # <<b, s.source>>
            PROVE  link'[m] = Sent(net, Replies(b, s, h))[m]
        BY <1>3, <3>2, <3>4, <4>2
      <4> QED  BY <4>1, <4>2
    <3>6. link' = [m \in Links |-> link'[m]]  BY <1>1, <3>1
    <3>7. Sent(net, Replies(b, s, h)) = [m \in Links |-> Sent(net, Replies(b, s, h))[m]]  BY DEF Sent
    <3> QED  BY <3>5, <3>6, <3>7 DEF net
  <2>3. CASE <<b, s.source>> \notin open \cap alive
    BY <2>1, <2>3, <1>3, <1>1 DEF Transmit, Replies, Sent, net
  <2> QED  BY <2>2, <2>3
<1> QED  BY <1>4, <1>5

LEMMA AdvanceDelivers ==
    ASSUME StateOK, NEW net, NEW b, NEW s, NEW h, AtMostOne(h), Advance(net, b, s, h)
    PROVE  /\ Delivered' = IF s.source = b THEN Delivered \o h ELSE Delivered
           /\ iterator' = [queue |-> iterator'.queue, state |-> iterator'.state]
           /\ iterator'.queue \in Seq(Nodes) /\ consumed' \in Seq(Nodes)
           /\ consumer' = "waiting" => iterator'.queue = <<>>
           /\ iterator'.state = IF s.source = b /\ Complete(s) THEN "closed" ELSE iterator.state
<1>1. /\ iterator.queue \in Seq(Nodes) /\ consumed \in Seq(Nodes) /\ h \in Seq(Nodes)
      /\ consumer = "waiting" => iterator.queue = <<>>
      /\ iterator = [queue |-> iterator.queue, state |-> iterator.state]
  <2>1. h \in Seq(Nodes)
    <3>1. \A n \in Nodes : <<n>> \in Seq(Nodes)  OBVIOUS
    <3>2. <<>> \in Seq(Nodes)  OBVIOUS
    <3> QED  BY <3>1, <3>2 DEF AtMostOne
  <2> QED  BY <2>1 DEF StateOK
<1>2. CASE s.source # b  BY <1>1, <1>2 DEF Advance, Delivered
<1>3. CASE s.source = b
  <2>1. /\ iterator' = [queue |-> Queued(h), state |-> IF Complete(s) THEN "closed" ELSE iterator.state]
        /\ consumer' = "waiting" => consumer = "waiting"
        /\ consumed' = IF consumer = "waiting" /\ h # <<>> THEN consumed \o h ELSE consumed
    BY <1>3 DEF Advance
  <2>2. iterator'.queue = Queued(h) /\ iterator'.state = IF Complete(s) THEN "closed" ELSE iterator.state
    BY <2>1
  <2>3. iterator' = [queue |-> iterator'.queue, state |-> iterator'.state]  BY <2>1, <2>2
  <2>4. CASE consumer = "waiting"
    <3>1. iterator.queue = <<>> /\ iterator'.queue = <<>> /\ consumed' = consumed \o h
      BY <1>1, <2>1, <2>2, <2>4, ConcatEmptySeq DEF Queued
    <3>2. consumed \o h \in Seq(Nodes)  BY <1>1, ConcatProperties
    <3>3. (consumed \o h) \o <<>> = consumed \o h /\ consumed \o <<>> = consumed
      BY <1>1, <3>2, ConcatEmptySeq
    <3>4. Delivered' = Delivered \o h  BY <3>1, <3>3 DEF Delivered
    <3> QED  BY <1>1, <1>3, <2>2, <2>3, <3>1, <3>2, <3>4
  <2>5. CASE consumer # "waiting"
    <3>1. iterator'.queue = iterator.queue \o h /\ consumed' = consumed /\ consumer' # "waiting"
      BY <2>1, <2>2, <2>5 DEF Queued
    <3>2. iterator.queue \o h \in Seq(Nodes)  BY <1>1, ConcatProperties
    <3>3. Delivered' = Delivered \o h
      <4>1. (consumed \o iterator.queue) \o h = consumed \o (iterator.queue \o h)  BY <1>1, ConcatAssociative
      <4> QED  BY <3>1, <4>1 DEF Delivered
    <3> QED  BY <1>1, <1>3, <2>2, <2>3, <3>1, <3>2, <3>3
  <2> QED  BY <2>4, <2>5
<1> QED  BY <1>2, <1>3

LEMMA DeliveredIs ==
    ASSUME StateOK
    PROVE  Delivered \in Seq(Nodes) /\ IsSeq(Delivered)
BY ConcatProperties, SeqTyped DEF StateOK, Delivered

LEMMA DeliveredMore ==
    ASSUME NEW D, IsSeq(D), NEW k, NEW i \in DOMAIN (D \o <<k>>)
    PROVE  (i \in DOMAIN D /\ (D \o <<k>>)[i] = D[i]) \/ (i = Len(D) + 1 /\ (D \o <<k>>)[i] = k)
<1>1. IsSeq(<<k>>) /\ DOMAIN <<k>> = {1} /\ <<k>>[1] = k  BY OneSeq
<1>2. \/ i \in DOMAIN D /\ (D \o <<k>>)[i] = D[i]
      \/ /\ i \in Nat /\ Len(D) \in Nat /\ i > Len(D) /\ i - Len(D) \in DOMAIN <<k>>
         /\ (D \o <<k>>)[i] = <<k>>[i - Len(D)]
  BY <1>1, JoinFrom
<1>3. ASSUME i \in Nat, Len(D) \in Nat, i - Len(D) = 1  PROVE i = Len(D) + 1  BY <1>3
<1> QED  BY <1>1, <1>2, <1>3

LEMMA OnceDelivered ==
    ASSUME NEW D, IsSeq(D), NEW k, NEW n, NEW net, NEW running,
           \/ n # k /\ OnePlace(n, net, running, D)
           \/ /\ n = k /\ n \notin running /\ OffLinks(net, n)
              /\ \A i \in DOMAIN D : D[i] # n
    PROVE  OnePlace(n, net, running, D \o <<k>>)
<1>1. ASSUME NEW i \in DOMAIN (D \o <<k>>)
      PROVE  (i \in DOMAIN D /\ (D \o <<k>>)[i] = D[i]) \/ (i = Len(D) + 1 /\ (D \o <<k>>)[i] = k)
  BY DeliveredMore
<1>2. CASE n # k /\ OnePlace(n, net, running, D)  BY <1>1, <1>2 DEF OnePlace
<1>3. CASE /\ n = k /\ n \notin running /\ OffLinks(net, n)
           /\ \A i \in DOMAIN D : D[i] # n
  BY <1>1, <1>3 DEF OnePlace, OffLinks
<1> QED  BY <1>2, <1>3

\* The result at the head of a link is nowhere else.
LEMMA HeadAlone ==
    ASSUME StateOK, NEW n \in Nodes, OnePlace(n, link, executing, Delivered),
           NEW l \in Links, link[l] # <<>>, Head(link[l]) = Result(n)
    PROVE  /\ n \notin executing /\ OffLinks(Taken({l}), n) /\ ~OffLinks(link, n)
           /\ \A i \in DOMAIN Delivered : Delivered[i] # n
<1>1. /\ IsSeq(link[l]) /\ 1 \in DOMAIN link[l] /\ link[l][1] = Result(n)
      /\ \A i \in DOMAIN Tail(link[l]) : i \in Nat /\ i + 1 \in DOMAIN link[l] /\ Tail(link[l])[i] = link[l][i + 1]
      /\ \A i \in DOMAIN link[l] : i \in Nat /\ i >= 1
      /\ DOMAIN Tail(link[l]) \subseteq DOMAIN link[l]
  BY SeqTail DEF StateOK
<1>2. ~OffLinks(link, n)  BY <1>1 DEF OffLinks
<1>3. n \notin executing /\ \A i \in DOMAIN Delivered : Delivered[i] # n  BY <1>2 DEF OnePlace
<1>4. ASSUME NEW m \in Links, NEW i \in DOMAIN Taken({l})[m], Taken({l})[m][i] = Result(n)
      PROVE  FALSE
  <2>1. CASE m = l  BY <1>4, <2>1, <1>1 DEF Taken, OnePlace
  <2>2. CASE m # l  BY <1>4, <2>2, <1>1 DEF Taken, OnePlace
  <2> QED  BY <2>1, <2>2
<1> QED  BY <1>2, <1>3, <1>4 DEF OffLinks

-----------------------------------------------------------------------------
(* A session that advances, with a result of n in hand or none. *)

InHand(b, h, T) ==
    \/ h = <<>> /\ executing' = executing /\ \A l \in T : Head(link[l]).type = "fin"
    \/ \E n \in Nodes : /\ h = <<n>> /\ T = {} /\ n \in executing /\ HomeOf[n] = b
                        /\ executing' = executing \ {n}
    \/ \E n \in Nodes : /\ h = <<n>> /\ executing' = executing
                        /\ \E l \in T : Head(link[l]) = Result(n)

AdvanceOf(b, s, h, T, E) ==
    /\ b \in Buses /\ Has(b) /\ SessionFits(b, s)
    /\ s.source = session[b].source /\ DOMAIN s.branch = DOMAIN session[b].branch
    /\ \A d \in DOMAIN s.branch \ E : s.branch[d].status = session[b].branch[d].status
    /\ \A e \in E : \/ <<b, e>> \notin alive
                    \/ <<e, b>> \in T /\ Head(link[<<e, b>>]).type = "fin"
    /\ FullLinks(T) /\ \A l \in T : l[2] = b /\ T = {l}
    /\ AtMostOne(h) /\ InHand(b, h, T)
    /\ s.local.received + Cardinality(Running(b)') <= s.local.expected
    /\ UNCHANGED <<publisher, loopback, subscribers, strangers, denied, alive, asked>>
    /\ alive \subseteq open' /\ open' \subseteq Links /\ RoutesHold'
    /\ Advance(Taken(T), b, s, h)

LEMMA AdvanceTyped ==
    ASSUME StateOK, NEW b, NEW s, NEW h, NEW T, NEW E, AdvanceOf(b, s, h, T, E)
    PROVE  StateOK'
<1>1. b \in Buses /\ SessionFits(b, s) /\ FullLinks(T) /\ AtMostOne(h) /\ Advance(Taken(T), b, s, h)
  BY DEF AdvanceOf
<1>2. link' = Sent(Taken(T), Replies(b, s, h))  BY <1>1, AdvanceLink
<1>3. \A m \in Links : IsSeq(Taken(T)[m]) /\ \A i \in DOMAIN Taken(T)[m] : IsMessage(Taken(T)[m][i])
  BY <1>1, TakenIs, ThinnerIs
<1>4. ASSUME NEW m \in Links
      PROVE  IsSeq(link'[m]) /\ \A i \in DOMAIN link'[m] : IsMessage(link'[m][i])
  <2>1. IsSeq(Taken(T)[m]) /\ IsSeq(Replies(b, s, h)[m])  BY <1>1, <1>3, RepliesAre
  <2>2. IsSeq(link'[m])  BY <1>2, <2>1, SentSeq
  <2>3. ASSUME NEW i \in DOMAIN link'[m]  PROVE IsMessage(link'[m][i])
    BY <1>2, <2>1, <2>3, SentFrom, <1>1, RepliesAre, <1>3 DEF IsMessage
  <2> QED  BY <2>2, <2>3
<1>5. link' = [m \in Links |-> link'[m]]  BY <1>2 DEF Sent
<1>6. session' = [c \in Buses |-> session'[c]]  BY <1>1 DEF Advance, StateOK
<1>7. executing' \subseteq Nodes  BY DEF AdvanceOf, InHand, StateOK
<1>8. /\ iterator' = [queue |-> iterator'.queue, state |-> iterator'.state]
      /\ iterator'.queue \in Seq(Nodes) /\ consumed' \in Seq(Nodes)
      /\ consumer' = "waiting" => iterator'.queue = <<>>
      /\ iterator'.state = IF s.source = b /\ Complete(s) THEN "closed" ELSE iterator.state
  BY <1>1, AdvanceDelivers
<1>9. /\ publisher' \in Nodes /\ subscribers' \subseteq Nodes /\ loopback' \in BOOLEAN
      /\ alive' \subseteq open' /\ open' \subseteq Links /\ asked' \in BOOLEAN
  BY DEF AdvanceOf, StateOK
<1>10. iterator'.state \in {"open", "closed", "failed"}  BY <1>8 DEF StateOK
<1> QED  BY <1>4, <1>5, <1>6, <1>7, <1>8, <1>9, <1>10 DEF StateOK

LEMMA NotNone ==
    ASSUME NEW s, s = [source |-> s.source, branch |-> s.branch, local |-> s.local]
    PROVE  s # NoSession
BY DEF NoSession

LEMMA AskedIf ==
    ASSUME StateOK, AsksAreFresh
    PROVE  /\ \A b \in Buses : Has(b) => asked
           /\ \A l \in Links : link[l] # <<>> => asked
           /\ \A n \in executing : asked
BY Homes, LinkKinds DEF StateOK, AsksAreFresh, Fresh, Nowhere

\* What sessions and the iterator are after the step.
LEMMA AdvanceSession ==
    ASSUME StateOK, NEW b, NEW s, NEW h, NEW T, NEW E, AdvanceOf(b, s, h, T, E)
    PROVE  /\ \A c \in Buses \ {b} : session'[c] = session[c]
           /\ session'[b] = IF Complete(s) THEN NoSession ELSE s
           /\ Has(b)' <=> ~Complete(s)
           /\ s.source = b <=> b = Home
           /\ Home' = Home /\ Home \in Buses
<1>1. b \in Buses /\ SessionFits(b, s) /\ publisher' = publisher
      /\ session' = [session EXCEPT ![b] = IF Complete(s) THEN NoSession ELSE s]
  BY DEF AdvanceOf, Advance
<1>2. session = [c \in Buses |-> session[c]]  BY DEF StateOK
<1>3. /\ \A c \in Buses \ {b} : session'[c] = session[c]
      /\ session'[b] = IF Complete(s) THEN NoSession ELSE s
  BY <1>1, <1>2
<1>4. s # NoSession  BY <1>1, NotNone DEF SessionFits
<1>5. Has(b)' <=> ~Complete(s)  BY <1>3, <1>4 DEF Has
<1>6. s.source = b <=> b = Home  BY LinkKinds, <1>1 DEF SessionFits
<1> QED  BY <1>1, <1>3, <1>5, <1>6, Homes DEF Home

LEMMA AdvanceRunning ==
    ASSUME NEW b, NEW s, NEW h, NEW T, NEW E, AdvanceOf(b, s, h, T, E)
    PROVE  \A c \in Buses \ {b} : Running(c)' = Running(c)
BY DEF AdvanceOf, InHand, Running

LEMMA FitsPrimed ==
    ASSUME publisher' = publisher, NEW b, NEW s, SessionFits(b, s)
    PROVE  /\ s = [source |-> s.source, branch |-> s.branch, local |-> s.local]
           /\ s.branch = [d \in DOMAIN s.branch |-> s.branch[d]]
           /\ \A d \in DOMAIN s.branch : IsBooks(s.branch[d]) /\ <<b, d>> \in Links /\ d # s.source
           /\ IF b = Home' THEN s.source = b ELSE <<s.source, b>> \in Links /\ Away(<<s.source, b>>)'
           /\ IsBooks(s.local) /\ s.local.expected \in Nat /\ s.local.received \in Nat
BY DEF Home, Away, SessionFits

LEMMA AdvanceFits ==
    ASSUME StateOK, SessionsFit, NEW b, NEW s, NEW h, NEW T, NEW E, AdvanceOf(b, s, h, T, E)
    PROVE  SessionsFit'
<1>1. /\ b \in Buses /\ SessionFits(b, s) /\ publisher' = publisher
      /\ s.local.received + Cardinality(Running(b)') <= s.local.expected
  BY DEF AdvanceOf
<1>2. /\ \A c \in Buses \ {b} : session'[c] = session[c]
      /\ session'[b] = IF Complete(s) THEN NoSession ELSE s
  BY AdvanceSession
<1>3. ASSUME NEW c \in Buses, Has(c)'
      PROVE  /\ SessionFits(c, session[c])'
             /\ session'[c].local.received + Cardinality(Running(c)') <= session'[c].local.expected
  <2>1. CASE c = b  BY <1>2, <1>3, <2>1, <1>1, FitsPrimed DEF Has, SessionFits
  <2>2. CASE c # b
    <3>1. session'[c] = session[c] /\ Has(c) /\ Running(c)' = Running(c)
      BY <1>2, <1>3, <2>2, AdvanceRunning DEF Has
    <3>2. SessionFits(c, session[c]) /\ session[c].local.received + Cardinality(Running(c)) <= session[c].local.expected
      BY <3>1 DEF SessionsFit
    <3>3. SessionFits(c, session[c])'  BY <1>1, <3>1, <3>2, FitsPrimed DEF SessionFits
    <3> QED  BY <3>1, <3>2, <3>3
  <2> QED  BY <2>1, <2>2
<1> QED  BY <1>3 DEF SessionsFit

LEMMA AdvanceIterator ==
    ASSUME StateOK, AsksAreFresh, IteratorFits,
           NEW b, NEW s, NEW h, NEW T, NEW E, AdvanceOf(b, s, h, T, E)
    PROVE  asked /\ asked' /\ IteratorFits'
<1>1. b \in Buses /\ Has(b) /\ asked' = asked /\ Advance(Taken(T), b, s, h) /\ AtMostOne(h)  BY DEF AdvanceOf
<1>2. asked  BY <1>1, AskedIf
<1>3. iterator'.state = IF s.source = b /\ Complete(s) THEN "closed" ELSE iterator.state
  BY <1>1, AdvanceDelivers
<1>4. /\ \A c \in Buses \ {b} : session'[c] = session[c]
      /\ Has(b)' <=> ~Complete(s)
      /\ s.source = b <=> b = Home
      /\ Home' = Home /\ Home \in Buses
  BY AdvanceSession
<1>5. iterator'.state = "open" <=> Has(Home)'
  <2>1. CASE b = Home  BY <1>1, <1>2, <1>3, <1>4, <2>1 DEF IteratorFits, Has
  <2>2. CASE b # Home  BY <1>1, <1>2, <1>3, <1>4, <2>2 DEF IteratorFits, Has
  <2> QED  BY <2>1, <2>2
<1> QED  BY <1>1, <1>2, <1>4, <1>5 DEF IteratorFits

\* The result in hand is nowhere else.
LEMMA HandAlone ==
    ASSUME StateOK, ResultsAreOnce, NEW b, NEW h, NEW T, FullLinks(T), \A l \in T : T = {l},
           InHand(b, h, T), NEW n \in Nodes, h = <<n>>
    PROVE  /\ n \notin executing' /\ OffLinks(Taken(T), n) /\ (n \in executing \/ ~OffLinks(link, n))
           /\ \A i \in DOMAIN Delivered : Delivered[i] # n
<1>1. OnePlace(n, link, executing, Delivered)  BY DEF ResultsAreOnce
<1>2. \A k : h = <<k>> => k = n  OBVIOUS
<1>3. CASE n \in executing /\ T = {} /\ executing' = executing \ {n}  BY <1>3, TakenIs, <1>1 DEF OnePlace
<1>4. CASE executing' = executing /\ \E l \in T : Head(link[l]) = Result(n)
  <2>1. PICK l \in T : Head(link[l]) = Result(n)  BY <1>4
  <2>2. T = {l} /\ l \in Links /\ link[l] # <<>>  BY <2>1 DEF FullLinks
  <2> QED  BY <1>1, <1>4, <2>1, <2>2, HeadAlone
<1>5. h # <<>>  OBVIOUS
<1> QED  BY <1>2, <1>3, <1>4, <1>5 DEF InHand

LEMMA AdvanceOnce ==
    ASSUME StateOK, ResultsAreOnce, NEW b, NEW s, NEW h, NEW T, NEW E, AdvanceOf(b, s, h, T, E)
    PROVE  ResultsAreOnce'
<1>1. /\ b \in Buses /\ SessionFits(b, s) /\ FullLinks(T) /\ AtMostOne(h) /\ InHand(b, h, T)
      /\ Advance(Taken(T), b, s, h) /\ \A l \in T : T = {l}
  BY DEF AdvanceOf
<1> DEFINE net == Taken(T)  out == Replies(b, s, h)  t == <<b, s.source>>
<1>2. link' = Sent(net, out) /\ \A m \in Links : IsSeq(net[m]) /\ IsSeq(out[m])
  BY <1>1, AdvanceLink, TakenIs, RepliesAre
<1>3. Thinner(net) /\ executing' \subseteq executing  BY <1>1, TakenIs DEF InHand
<1>4. Delivered' = IF s.source = b THEN Delivered \o h ELSE Delivered  BY <1>1, AdvanceDelivers
<1>5. Delivered \in Seq(Nodes) /\ IsSeq(Delivered) /\ Delivered \o <<>> = Delivered
  BY DeliveredIs, ConcatEmptySeq
<1>6. ASSUME NEW m \in Links, NEW i \in DOMAIN out[m]
      PROVE  /\ m = t /\ s.source # b
             /\ out[m][i].type = "fin" \/ (i = 1 /\ \E k \in Nodes : h = <<k>> /\ out[m][i] = Result(k))
  BY <1>1, RepliesAre
<1>7. ASSUME NEW n \in Nodes  PROVE OnePlace(n, link', executing', Delivered')
  <2>1. OnePlace(n, link, executing, Delivered)  BY DEF ResultsAreOnce
  <2>2. CASE h = <<n>>
    <3>1. /\ n \notin executing' /\ OffLinks(net, n)
          /\ \A i \in DOMAIN Delivered : Delivered[i] # n
      BY <1>1, <2>2, HandAlone
    <3> HIDE DEF net, out, t
    <3>2. CASE s.source # b  BY <1>6, Types, <1>2, <3>1, SentOnce, <1>4, <3>2
    <3>3. CASE s.source = b
      <4>1. \A m \in Links : \A i \in DOMAIN out[m] : out[m][i] # Result(n)  BY <1>6, <3>3
      <4>2. OffLinks(link', n)  BY <1>2, <3>1, <4>1, SentOther
      <4>3. OnePlace(n, link', executing', Delivered \o <<n>>)  BY <1>5, <3>1, <4>2, OnceDelivered
      <4> QED  BY <1>4, <2>2, <3>3, <4>3
    <3> QED  BY <3>2, <3>3
  <2>3. CASE h # <<n>>
    <3>1. OnePlace(n, net, executing', Delivered)  BY <1>3, <2>1, ThinnerPlace
    <3> HIDE DEF net, out, t
    <3>2. \A m \in Links : \A i \in DOMAIN out[m] : out[m][i] # Result(n)
      <4>1. ASSUME NEW m \in Links, NEW i \in DOMAIN out[m], out[m][i] = Result(n)  PROVE FALSE
        <5>1. PICK k \in Nodes : h = <<k>> /\ out[m][i] = Result(k)  BY <1>6, <4>1, Types
        <5> QED  BY <2>3, <4>1, <5>1, Types
      <4> QED  BY <4>1
    <3>3. OnePlace(n, link', executing', Delivered)  BY <1>2, <3>1, <3>2, SentOther
    <3>4. CASE s.source # b \/ h = <<>>  BY <1>4, <1>5, <3>3, <3>4
    <3>5. CASE s.source = b /\ h # <<>>
      <4>1. PICK k \in Nodes : h = <<k>>  BY <1>1, <3>5 DEF AtMostOne
      <4>2. k # n  BY <2>3, <4>1
      <4>3. OnePlace(n, link', executing', Delivered \o <<k>>)  BY <1>5, <3>3, <4>2, OnceDelivered
      <4> QED  BY <1>4, <3>5, <4>1, <4>3
    <3> QED  BY <3>4, <3>5
  <2> QED  BY <2>2, <2>3
<1> QED  BY <1>7 DEF ResultsAreOnce

\* Where nothing has happened, nothing happens.
LEMMA AdvanceNowhere ==
    ASSUME StateOK, ResultsAreOnce, NEW b, NEW s, NEW h, NEW T, NEW E, AdvanceOf(b, s, h, T, E),
           NEW n \in Nodes, Nowhere(n)
    PROVE  Nowhere(n)'
<1>1. /\ b \in Buses /\ SessionFits(b, s) /\ FullLinks(T) /\ AtMostOne(h) /\ InHand(b, h, T)
      /\ Advance(Taken(T), b, s, h) /\ \A l \in T : T = {l}
  BY DEF AdvanceOf
<1> DEFINE net == Taken(T)  out == Replies(b, s, h)
<1>2. link' = Sent(net, out) /\ \A m \in Links : IsSeq(net[m]) /\ IsSeq(out[m])
  BY <1>1, AdvanceLink, TakenIs, RepliesAre
<1>3. Thinner(net) /\ executing' \subseteq executing  BY <1>1, TakenIs DEF InHand
<1>4. n \notin executing /\ OffLinks(link, n) /\ \A i \in DOMAIN Delivered : Delivered[i] # n  BY DEF Nowhere
<1>5. h # <<n>>  BY <1>1, <1>4, HandAlone
<1>6. OffLinks(net, n)  BY <1>3, <1>4, ThinnerIs DEF OffLinks
<1>7. \A m \in Links : \A i \in DOMAIN out[m] : out[m][i] # Result(n)
  <2>1. ASSUME NEW m \in Links, NEW i \in DOMAIN out[m], out[m][i] = Result(n)  PROVE FALSE
    <3>1. out[m][i].type = "fin" \/ \E k \in Nodes : h = <<k>> /\ out[m][i] = Result(k)
      BY <1>1, <2>1, RepliesAre
    <3>2. PICK k \in Nodes : h = <<k>> /\ out[m][i] = Result(k)  BY <2>1, <3>1, Types
    <3> QED  BY <1>5, <2>1, <3>2, Types
  <2> QED  BY <2>1
<1> HIDE DEF net, out
<1>8. OffLinks(link', n)  BY <1>2, <1>6, <1>7, SentOther
<1>9. \A i \in DOMAIN Delivered' : Delivered'[i] # n
  <2>1. Delivered' = Delivered \/ Delivered' = Delivered \o h  BY <1>1, AdvanceDelivers
  <2>2. IsSeq(Delivered) /\ Delivered \o <<>> = Delivered  BY DeliveredIs, ConcatEmptySeq
  <2>3. CASE Delivered' = Delivered  BY <1>4, <2>3
  <2>4. CASE Delivered' = Delivered \o h /\ h # <<>>
    <3>1. PICK k \in Nodes : h = <<k>>  BY <1>1, <2>4 DEF AtMostOne
    <3> QED  BY <1>4, <1>5, <2>2, <2>4, <3>1, DeliveredMore
  <2> QED  BY <2>1, <2>2, <2>3, <2>4
<1> QED  BY <1>3, <1>4, <1>8, <1>9 DEF Nowhere

LEMMA AdvanceAsks ==
    ASSUME StateOK, ResultsAreOnce, AsksAreFresh, IteratorFits,
           NEW b, NEW s, NEW h, NEW T, NEW E, AdvanceOf(b, s, h, T, E)
    PROVE  AsksAreFresh'
<1>1. /\ b \in Buses /\ Has(b) /\ SessionFits(b, s) /\ FullLinks(T) /\ AtMostOne(h) /\ InHand(b, h, T)
      /\ Advance(Taken(T), b, s, h) /\ \A l \in T : l[2] = b /\ T = {l}
      /\ publisher' = publisher
  BY DEF AdvanceOf
<1> DEFINE net == Taken(T)  out == Replies(b, s, h)
<1>2. link' = Sent(net, out) /\ \A m \in Links : IsSeq(net[m]) /\ IsSeq(out[m])
  BY <1>1, AdvanceLink, TakenIs, RepliesAre
<1>3. \A c \in Buses \ {b} : session'[c] = session[c]  BY AdvanceSession
<1>4. asked'  BY AdvanceIterator
<1>5. \A l \in T : Head(link[l]) # Ask  BY <1>1, Types DEF InHand
<1>6. \A m \in Links : \A i \in DOMAIN out[m] : out[m][i] # Ask
  <2>1. ASSUME NEW m \in Links, NEW i \in DOMAIN out[m]  PROVE out[m][i] # Ask  BY <1>1, RepliesAre, Types
  <2> QED  BY <2>1
<1>7. ASSUME NEW m \in Links, NEW i \in DOMAIN link'[m], link'[m][i] = Ask
      PROVE  i = 1 /\ Away(m) /\ Fresh(Side(m)) /\ i \in DOMAIN link[m] /\ link[m][i] = Ask
  <2>1. i \in DOMAIN net[m] /\ net[m][i] = Ask
    <3> HIDE DEF net, out
    <3>1. \/ i \in DOMAIN net[m] /\ link'[m][i] = net[m][i]
          \/ i - Len(net[m]) \in DOMAIN out[m] /\ link'[m][i] = out[m][i - Len(net[m])]
      BY <1>2, <1>7, SentFrom
    <3> QED  BY <1>6, <1>7, <3>1
  <2>2. CASE m \in T  BY <1>1, <2>1, <2>2, SeqTail DEF Taken, FullLinks, StateOK, AsksAreFresh
  <2>3. CASE m \notin T  BY <2>1, <2>3 DEF Taken, AsksAreFresh
  <2> QED  BY <2>2, <2>3
<1>8. ASSUME NEW S, S \subseteq Buses, Fresh(S)  PROVE Fresh(S)'
  <2>1. b \notin S  BY <1>1, <1>8 DEF Fresh
  <2>2. \A c \in S : ~Has(c)'  BY <1>3, <1>8, <2>1 DEF Fresh, Has
  <2>3. \A n \in Nodes : HomeOf[n] \in S => Nowhere(n)'  BY <1>8, AdvanceNowhere DEF Fresh
  <2>4. ASSUME NEW m \in Links, m[1] \in S  PROVE link'[m] = <<>>
    <3>1. link[m] = <<>>  BY <1>8, <2>4 DEF Fresh
    <3>2. net[m] = <<>>  BY <1>1, <3>1 DEF Taken, FullLinks
    <3>3. out[m] = <<>>  BY <1>1, <2>1, <2>4, RepliesAre
    <3> HIDE DEF net, out
    <3> QED  BY <1>2, <3>2, <3>3, SentNone
  <2> QED  BY <2>2, <2>3, <2>4 DEF Fresh
<1>9. ASSUME NEW m \in Links, NEW i \in DOMAIN link'[m], link'[m][i] = Ask
      PROVE  i = 1 /\ Away(m)' /\ Fresh(Side(m))'
  BY <1>7, <1>9, SideEnds, <1>1, <1>8 DEF Away, Home
<1> QED  BY <1>4, <1>9 DEF AsksAreFresh

\* Where a result is under way, no ask is, and the other way round.
LEMMA OneOfThree ==
    ASSUME StateOK, ResultsAreOnce, AsksAreFresh, NEW n \in Nodes
    PROVE  /\ AskUnderWay(n) => Nowhere(n)
           /\ ResultUnderWay(n) => ~OffLinks(link, n) /\ n \notin executing
           /\ Runs(n) => OffLinks(link, n) /\ n \in executing
<1>1. OnePlace(n, link, executing, Delivered)  BY DEF ResultsAreOnce
<1>2. ASSUME AskUnderWay(n)  PROVE Nowhere(n)
  <2>1. PICK l \in Path(n) : \E i \in DOMAIN link[l] : link[l][i] = Ask  BY <1>2 DEF AskUnderWay
  <2>2. l \in Links /\ HomeOf[n] \in Side(l)  BY PathFacts
  <2> QED  BY <2>1, <2>2 DEF AsksAreFresh, Fresh
<1>3. ASSUME ResultUnderWay(n)  PROVE ~OffLinks(link, n)
  <2>1. PICK l \in Path(n) : Comes(n, link[Back(l)])  BY <1>3 DEF ResultUnderWay
  <2>2. Back(l) \in Links  BY PathFacts
  <2> QED  BY <2>1, <2>2 DEF OffLinks, Comes
<1> QED  BY <1>1, <1>2, <1>3 DEF OnePlace, Runs

\* A result that is passed on is under way again, one link nearer.
LEMMA AdvancePasses ==
    ASSUME StateOK, ResultsAreOnce, AsksAreFresh,
           NEW b, NEW s, NEW h, NEW T, NEW E, AdvanceOf(b, s, h, T, E), b # Home,
           NEW n \in Nodes, Owed(n), h = <<n>>, StillToCome(n)
    PROVE  StillToCome(n)'
<1>1. /\ b \in Buses /\ SessionFits(b, s) /\ FullLinks(T) /\ AtMostOne(h) /\ InHand(b, h, T)
      /\ Advance(Taken(T), b, s, h) /\ \A l \in T : l[2] = b /\ T = {l}
      /\ publisher' = publisher /\ alive \subseteq open
  BY DEF AdvanceOf, StateOK
<1> DEFINE net == Taken(T)  out == Replies(b, s, h)  k == <<s.source, b>>
<1>2. link' = Sent(net, out) /\ \A m \in Links : IsSeq(net[m]) /\ IsSeq(out[m])
  BY <1>1, AdvanceLink, TakenIs, RepliesAre
<1>3. \A c \in Buses \ {b} : session'[c] = session[c]  BY AdvanceSession
<1>4. k \in Links /\ Away(k) /\ s.source # b /\ k[2] = b /\ Back(k) = <<b, s.source>>
  BY <1>1, LinkKinds DEF SessionFits, Back
<1> HIDE DEF k
<1>5. OnePlace(n, link, executing, Delivered) /\ \A j : h = <<j>> => j = n  BY DEF ResultsAreOnce
<1>6. k \in Path(n) /\ \A m \in UpTo(n, k) : Held(m) /\ Back(m) \notin T
  <2>1. CASE T = {} /\ n \in executing /\ HomeOf[n] = b
    <3>1. k \in Path(n)  BY <1>4, <2>1, SideEnds DEF Path
    <3>2. Runs(n)  BY <1>5, <2>1, OneOfThree DEF StillToCome, Nowhere
    <3> QED  BY <2>1, <3>1, <3>2 DEF Runs, UpTo
  <2>2. CASE \E l \in T : Head(link[l]) = Result(n)
    <3>1. PICK l \in T : Head(link[l]) = Result(n)  BY <2>2
    <3>2. /\ T = {l} /\ l \in Links /\ link[l] # <<>> /\ l[2] = b
          /\ 1 \in DOMAIN link[l] /\ link[l][1] = Result(n)
      BY <1>1, <3>1, SeqTail DEF FullLinks, StateOK
    <3>3. ~OffLinks(link, n)  BY <3>2 DEF OffLinks
    <3>4. ResultUnderWay(n)  BY <3>3, OneOfThree DEF StillToCome, Nowhere
    <3>5. PICK r \in Path(n) : /\ Comes(n, link[Back(r)]) /\ Awaits(r)
                               /\ \A m \in UpTo(n, r) \ {r} : Held(m)
      BY <3>4 DEF ResultUnderWay
    <3>6. r \in Links /\ Back(r) \in Links /\ Back(Back(r)) = r  BY PathFacts, LinkKinds
    <3>7. Back(r) = l
      <4>1. PICK i \in DOMAIN link[Back(r)] : link[Back(r)][i] = Result(n)  BY <3>5 DEF Comes
      <4> QED  BY <1>5, <3>2, <3>6, <4>1 DEF OnePlace
    <3>8. r[1] = b  BY <3>2, <3>6, <3>7 DEF Back
    <3>9. k \in Path(n)  BY <1>4, <3>8, PathBefore
    <3>10. UpTo(n, r) = UpTo(n, k) \cup {r} /\ r \notin UpTo(n, k)  BY <1>4, <3>8, <3>9, UpToNext
    <3>11. ASSUME NEW m \in UpTo(n, k)  PROVE Held(m) /\ Back(m) \notin T
      BY <3>5, <3>10, PathFacts, LinkKinds, <3>7, <3>6, <3>2 DEF UpTo
    <3> QED  BY <3>9, <3>11
  <2>3. h # <<>>  OBVIOUS
  <2>4. CASE \E j \in Nodes : h = <<j>> /\ T = {} /\ j \in executing /\ HomeOf[j] = b  BY <1>5, <2>1, <2>4
  <2>5. CASE \E j \in Nodes : h = <<j>> /\ \E l \in T : Head(link[l]) = Result(j)  BY <1>5, <2>2, <2>5
  <2> QED  BY <1>1, <2>3, <2>4, <2>5 DEF InHand
<1>7. ASSUME NEW m \in UpTo(n, k)
      PROVE  /\ m \in Path(n) /\ m \in Links /\ Back(m) \in Links /\ Awaits(m)'
             /\ net[Back(m)] = link[Back(m)] /\ NoFin(link[Back(m)])
  <2>1. /\ m \in Path(n) /\ Side(k) \subseteq Side(m)  BY DEF UpTo
  <2>2. m \in Links /\ Back(m) \in Links /\ m[1] \in Buses  BY <2>1, PathFacts, LinkKinds
  <2>3. m[1] # b  BY <1>4, <2>1, <2>2, SideEnds
  <2>4. Held(m) /\ Back(m) \notin T  BY <1>6
  <2>5. Awaits(m)'  BY <1>3, <2>2, <2>3, <2>4 DEF Held, Awaits, Has
  <2>6. net[Back(m)] = link[Back(m)]  BY <2>2, <2>4 DEF Taken
  <2> QED  BY <2>1, <2>2, <2>4, <2>5, <2>6 DEF Held
<1>8. Comes(n, link'[Back(k)])
  <2>1. k \in UpTo(n, k) /\ Back(k) \in alive /\ Back(k) \in Links  BY <1>6, PathFacts, PathClear
  <2>2. 1 \in DOMAIN out[Back(k)] /\ out[Back(k)][1] = Result(n)  BY <1>1, <1>4, <2>1, RepliesAre
  <2>3. NoFin(net[Back(k)]) /\ IsSeq(net[Back(k)]) /\ IsSeq(out[Back(k)])  BY <1>2, <1>7, <2>1
  <2> HIDE DEF net, out
  <2>4. link'[Back(k)] = net[Back(k)] \o out[Back(k)]  BY <1>2, <2>1 DEF Sent
  <2> QED  BY <2>2, <2>3, <2>4, AfterSend
<1>9. ASSUME NEW m \in UpTo(n, k), m # k  PROVE Held(m)'
  <2>1. m \in Links /\ Back(m) \in Links /\ Back(m) # Back(k)  BY <1>4, <1>7, <1>9, LinkKinds
  <2>2. out[Back(m)] = <<>>  BY <1>1, <1>4, <2>1, RepliesAre
  <2>3. net[Back(m)] = link[Back(m)] /\ NoFin(link[Back(m)]) /\ Awaits(m)'  BY <1>7
  <2> HIDE DEF net, out
  <2>4. link'[Back(m)] = link[Back(m)]  BY <1>2, <2>1, <2>2, <2>3, SentNone
  <2> QED  BY <2>3, <2>4 DEF Held
<1>10. /\ Path(n)' = Path(n) /\ UpTo(n, k)' = UpTo(n, k)  BY <1>1 DEF Path, UpTo, Away, Home
<1>11. k \in UpTo(n, k) /\ Awaits(k)'  BY <1>6, <1>7, PathFacts
<1>12. ResultUnderWay(n)'  BY <1>6, <1>8, <1>9, <1>10, <1>11 DEF ResultUnderWay
<1> QED  BY <1>12 DEF StillToCome

\* Any other result stays where it is on its way.
LEMMA AdvanceWaits ==
    ASSUME StateOK, ResultsAreOnce, AsksAreFresh, AsksAreFresh',
           NEW b, NEW s, NEW h, NEW T, NEW E, AdvanceOf(b, s, h, T, E),
           NEW n \in Nodes, Owed(n), h # <<n>>, StillToCome(n)
    PROVE  StillToCome(n)'
<1>1. /\ b \in Buses /\ SessionFits(b, s) /\ FullLinks(T) /\ AtMostOne(h) /\ InHand(b, h, T)
      /\ Advance(Taken(T), b, s, h) /\ \A l \in T : l[2] = b /\ T = {l}
      /\ publisher' = publisher /\ alive \subseteq open
  BY DEF AdvanceOf, StateOK
<1> DEFINE net == Taken(T)  out == Replies(b, s, h)
<1>2. link' = Sent(net, out) /\ \A m \in Links : IsSeq(net[m]) /\ IsSeq(out[m])
  BY <1>1, AdvanceLink, TakenIs, RepliesAre
<1>3. /\ \A c \in Buses \ {b} : session'[c] = session[c]
      /\ session'[b] = IF Complete(s) THEN NoSession ELSE s
      /\ Has(b)' <=> ~Complete(s)
  BY AdvanceSession
<1>4. ASSUME NEW l \in T
      PROVE  /\ l \in Links /\ link[l] # <<>> /\ IsSeq(link[l]) /\ Head(link[l]) = link[l][1]
             /\ 1 \in DOMAIN link[l] /\ net[l] = Tail(link[l])
             /\ Head(link[l]).type = "fin" \/ \E j \in Nodes : j # n /\ Head(link[l]) = Result(j)
  <2>1. l \in Links /\ link[l] # <<>> /\ IsSeq(link[l])  BY <1>1 DEF FullLinks, StateOK
  <2>2. Head(link[l]) = link[l][1] /\ 1 \in DOMAIN link[l]  BY <2>1, SeqTail
  <2>3. Head(link[l]).type = "fin" \/ \E j \in Nodes : h = <<j>> /\ \E r \in T : Head(link[r]) = Result(j)
    BY <1>1 DEF InHand
  <2>4. \A r \in T : r = l  BY <1>1
  <2> QED  BY <2>1, <2>2, <2>3, <2>4 DEF Taken
<1>5. ASSUME NEW m \in Links, m \notin T  PROVE net[m] = link[m]  BY <1>5 DEF Taken
<1>6. ASSUME NEW m \in Links
      PROVE  /\ NoFin(link[m]) => NoFin(net[m])
             /\ Comes(n, link[m]) => Comes(n, net[m])
             /\ HasAsk(link[m]) => HasAsk(net[m])
  <2>1. CASE m \notin T  BY <1>5, <2>1
  <2>2. CASE m \in T  BY <1>4, <2>2, Types, AfterTail
  <2> QED  BY <2>1, <2>2
<1>7. ASSUME NEW m \in Links
      PROVE  /\ Comes(n, link[m]) => Comes(n, link'[m])
             /\ HasAsk(link[m]) => HasAsk(link'[m])
             /\ NoFin(link[m]) /\ NoFin(out[m]) => NoFin(link'[m])
  <2>1. IsSeq(net[m]) /\ IsSeq(out[m])  BY <1>2
  <2>2. /\ NoFin(link[m]) => NoFin(net[m])
        /\ Comes(n, link[m]) => Comes(n, net[m])
        /\ HasAsk(link[m]) => HasAsk(net[m])
    BY <1>6
  <2> HIDE DEF net, out
  <2>3. link'[m] = net[m] \o out[m]  BY <1>2 DEF Sent
  <2> QED  BY <2>1, <2>2, <2>3, AfterSend
<1>8. ASSUME NEW m \in Path(n), Awaits(m), NoFin(link[Back(m)]) \/ Comes(n, link[Back(m)])
      PROVE  Awaits(m)'
  <2>1. m \in Links /\ m[1] \in Buses /\ Back(m) \in Links /\ m \in alive /\ m = <<m[1], m[2]>>
    BY PathFacts, PathClear, LinkKinds
  <2>2. CASE m[1] # b  BY <1>3, <1>8, <2>1, <2>2 DEF Awaits, Has
  <2>3. CASE m[1] = b
    <3>1. /\ m[2] \in DOMAIN session[b].branch /\ session[b].branch[m[2]].status = "pending"
      BY <1>8, <2>3 DEF Awaits
    <3>2. m[2] \notin E
      <4>1. SUFFICES ASSUME m[2] \in E  PROVE FALSE  OBVIOUS
      <4>2. Back(m) \in T /\ Head(link[Back(m)]).type = "fin"  BY <2>1, <2>3, <4>1 DEF AdvanceOf, Back
      <4>3. 1 \in DOMAIN link[Back(m)] /\ link[Back(m)][1].type = "fin"  BY <1>4, <4>2
      <4>4. ~NoFin(link[Back(m)])  BY <4>3 DEF NoFin
      <4>5. ~Comes(n, link[Back(m)])  BY <1>4, <4>2, SeqTail, <4>3 DEF Comes
      <4> QED  BY <1>8, <4>4, <4>5
    <3>3. m[2] \in DOMAIN s.branch /\ s.branch[m[2]].status = "pending"  BY <3>1, <3>2 DEF AdvanceOf
    <3>4. ~Complete(s)  BY <3>3 DEF Complete, Settled
    <3>5. session'[b] = s /\ Has(b)'  BY <1>3, <3>4
    <3> QED  BY <2>3, <3>3, <3>5 DEF Awaits
  <2> QED  BY <2>2, <2>3
<1>9. ASSUME NEW m \in Path(n), NoFin(link[Back(m)])  PROVE NoFin(link'[Back(m)]) \/ ~Has(m[2])'
  <2>1. m \in Links /\ Back(m) \in Links /\ Back(m)[1] = m[2]  BY PathFacts, LinkKinds DEF Back
  <2>2. CASE NoFin(out[Back(m)])  BY <1>7, <1>9, <2>1, <2>2
  <2>3. CASE ~NoFin(out[Back(m)])
    <3>1. PICK i \in DOMAIN out[Back(m)] : out[Back(m)][i].type = "fin"  BY <2>3 DEF NoFin
    <3>2. Back(m) = <<b, s.source>> /\ Complete(s)  BY <1>1, <2>1, <3>1, RepliesAre, Types
    <3>3. m[2] = b  BY <2>1, <3>2
    <3> QED  BY <1>3, <3>2, <3>3
  <2> QED  BY <2>2, <2>3
<1>10. \A m \in Path(n) : /\ Comes(n, link[Back(m)]) => Comes(n, link'[Back(m)])
                          /\ HasAsk(link[m]) => HasAsk(link'[m])
  BY <1>7, PathFacts
<1>11. ASSUME n \in executing, Has(HomeOf[n])  PROVE n \in executing' /\ Has(HomeOf[n])'
  <2>1. n \in executing' /\ HomeOf[n] \in Buses  BY <1>1, <1>11, Homes DEF InHand
  <2>2. CASE HomeOf[n] # b  BY <1>3, <1>11, <2>1, <2>2 DEF Has
  <2>3. CASE HomeOf[n] = b
    <3>1. n \in Running(b)' /\ IsFiniteSet(Running(b)')
      BY <1>1, <2>1, <2>3, FS_Subset, AskAssumption DEF InHand, StateOK, Running
    <3>2. Cardinality(Running(b)') \in Nat /\ Cardinality(Running(b)') # 0
      BY <3>1, FS_CardinalityType, FS_EmptySet
    <3>3. /\ s.local.received + Cardinality(Running(b)') <= s.local.expected
          /\ s.local.received \in Nat /\ s.local.expected \in Nat
      BY <1>1 DEF AdvanceOf, SessionFits
    <3>4. ~(s.local.received >= s.local.expected)  BY <3>2, <3>3
    <3>5. ~Complete(s)  BY <3>4 DEF Complete, Settled
    <3> QED  BY <1>3, <2>1, <2>3, <3>5
  <2> QED  BY <2>2, <2>3
<1> HIDE DEF net, out
<1> QED  BY <1>1, <1>8, <1>9, <1>10, <1>11, StillKept

LEMMA AdvanceMissed ==
    ASSUME StateOK, ResultsAreOnce, AsksAreFresh, IteratorFits, AsksAreFresh', NobodyIsMissed,
           NEW b, NEW s, NEW h, NEW T, NEW E, AdvanceOf(b, s, h, T, E)
    PROVE  NobodyIsMissed'
<1>1. /\ b \in Buses /\ Has(b) /\ SessionFits(b, s) /\ AtMostOne(h) /\ Advance(Taken(T), b, s, h)
      /\ UNCHANGED <<publisher, loopback, subscribers, strangers, denied, alive>>
  BY DEF AdvanceOf
<1>2. asked  BY AdvanceIterator
<1>3. /\ Delivered' = IF s.source = b THEN Delivered \o h ELSE Delivered
      /\ iterator'.state = IF s.source = b /\ Complete(s) THEN "closed" ELSE iterator.state
  BY <1>1, AdvanceDelivers
<1>4. s.source = b <=> b = Home  BY AdvanceSession
<1>5. ASSUME NEW n \in Nodes, Owed(n)'
      PROVE  IsDelivered(n)' \/ iterator'.state = "failed" \/ StillToCome(n)'
  <2>1. Owed(n)  BY <1>1, <1>5 DEF Owed, Up, Down
  <2>2. IsDelivered(n) \/ iterator.state = "failed" \/ StillToCome(n)  BY <1>2, <2>1 DEF NobodyIsMissed
  <2>3. IsSeq(Delivered)  BY DeliveredIs
  <2>4. CASE IsDelivered(n)
    <3>1. CASE Delivered' = Delivered  BY <2>4, <3>1 DEF IsDelivered
    <3>2. CASE Delivered' = Delivered \o h
      <4>1. IsSeq(h)  BY <1>1, NoMessages, OneSeq DEF AtMostOne
      <4>2. \A i \in DOMAIN Delivered : i \in DOMAIN (Delivered \o h) /\ (Delivered \o h)[i] = Delivered[i]
        BY <2>3, <4>1, SeqJoin
      <4> QED  BY <2>4, <3>2, <4>2 DEF IsDelivered
    <3> QED  BY <1>3, <3>1, <3>2
  <2>5. CASE iterator.state = "failed"  BY <1>1, <1>2, <2>5, <1>3, <1>4 DEF IteratorFits
  <2>6. CASE StillToCome(n) /\ h = <<n>>
    <3>1. CASE b = Home  BY <1>3, <1>4, <2>6, <3>1, <2>3, JoinLast DEF IsDelivered
    <3>2. CASE b # Home  BY <2>1, <2>6, <3>2, AdvancePasses
    <3> QED  BY <3>1, <3>2
  <2>7. CASE StillToCome(n) /\ h # <<n>>  BY <2>1, <2>7, AdvanceWaits
  <2> QED  BY <2>2, <2>4, <2>5, <2>6, <2>7
<1> QED  BY <1>5 DEF NobodyIsMissed

LEMMA AdvanceKeeps ==
    ASSUME AskInv, NEW b, NEW s, NEW h, NEW T, NEW E, AdvanceOf(b, s, h, T, E)
    PROVE  AskInv'
BY AdvanceTyped, AdvanceFits, AdvanceIterator, AdvanceOnce, AdvanceAsks, AdvanceMissed DEF AskInv,
   AdvanceOf

-----------------------------------------------------------------------------
(* The ask arrives at bus b, where nothing has happened yet. *)

DispatchOf(b, source, T) ==
    /\ b \in Buses /\ ~Has(b)
    /\ \A n \in Nodes : HomeOf[n] = b => Nowhere(n)
    /\ IF b = Home
       THEN source = b /\ T = {} /\ ~asked /\ iterator.state = "open"
       ELSE /\ <<source, b>> \in Links /\ Away(<<source, b>>) /\ asked /\ T = {<<source, b>>}
            /\ link[<<source, b>>] # <<>> /\ Head(link[<<source, b>>]) = Ask
    /\ \A m \in Links : m[1] = b => link[m] = <<>>
    /\ \A m \in Links : m[1] = b /\ m[2] # source => Away(m) /\ Fresh(Side(m))
    /\ \A m \in Links \ T : HasAsk(link[m]) => b \notin Side(m)
    /\ asked' /\ Dispatch(Taken(T), b, source)

Remotes(b, source) == RemoteTargets(b, source)
Locals(b, source)  == LocalTargets(b, source)
Idle(b, source)    == Remotes(b, source) = {} /\ Locals(b, source) = {}

LEMMA TargetsAre ==
    ASSUME StateOK, NEW b \in Buses, NEW source
    PROVE  /\ \A d \in Remotes(b, source) : <<b, d>> \in Links /\ d # source /\ <<b, d>> \in open
           /\ Locals(b, source) \subseteq Nodes /\ \A n \in Locals(b, source) : HomeOf[n] = b
           /\ IsFiniteSet(Locals(b, source)) /\ Cardinality(Locals(b, source)) \in Nat
BY FS_Subset, AskAssumption, FS_CardinalityType DEF Remotes, RemoteTargets, StateOK, Locals, LocalTargets

LEMMA DispatchTaken ==
    ASSUME StateOK, NEW b, NEW source, NEW T, DispatchOf(b, source, T)
    PROVE  /\ FullLinks(T) /\ Thinner(Taken(T))
           /\ \A m \in Links : IsSeq(Taken(T)[m]) /\ (m \notin T => Taken(T)[m] = link[m])
           /\ \A m \in Links : m[1] = b => m \notin T /\ Taken(T)[m] = <<>>
           /\ \A l \in T : T = {l} /\ l = <<source, b>> /\ link[l] # <<>> /\ Head(link[l]) = Ask
           /\ source = b <=> b = Home
<1>1. CASE b = Home  BY <1>1, TakenIs DEF DispatchOf, FullLinks
<1>2. CASE b # Home
  <2>1. /\ <<source, b>> \in Links /\ T = {<<source, b>>}
        /\ link[<<source, b>>] # <<>> /\ Head(link[<<source, b>>]) = Ask
        /\ \A m \in Links : m[1] = b => link[m] = <<>>
    BY <1>2 DEF DispatchOf
  <2>2. source # b  BY <2>1, LinkKinds
  <2>3. FullLinks(T)  BY <2>1 DEF FullLinks
  <2>4. Thinner(Taken(T)) /\ \A m \in Links : IsSeq(Taken(T)[m])  BY <2>3, TakenIs
  <2>5. \A m \in Links : m \notin T => Taken(T)[m] = link[m]  BY DEF Taken
  <2>6. \A m \in Links : m[1] = b => m \notin T  BY <2>1, <2>2
  <2> QED  BY <1>2, <2>1, <2>2, <2>3, <2>4, <2>5, <2>6
<1> QED  BY <1>1, <1>2

\* What is on the links and at the buses after the step.
LEMMA DispatchLink ==
    ASSUME StateOK, NEW b, NEW source, NEW T, DispatchOf(b, source, T)
    PROVE  /\ link' = [m \in Links |-> link'[m]]
           /\ \A m \in Links :
                \/ m[1] = b /\ m[2] \in Remotes(b, source) /\ m \in alive /\ link'[m] = <<Ask>>
                \/ ~(m[1] = b /\ m[2] \in Remotes(b, source) /\ m \in alive) /\ link'[m] = Taken(T)[m]
<1>1. link' = [l \in Links |-> IF l[1] = b /\ l[2] \in Remotes(b, source) /\ l \in alive
                               THEN Append(Taken(T)[l], Ask) ELSE Taken(T)[l]]
  BY DEF DispatchOf, Dispatch, Remotes
<1>2. \A m \in Links : m[1] = b => Taken(T)[m] = <<>>  BY DispatchTaken
<1>3. Append(<<>>, Ask) = <<Ask>>  OBVIOUS
<1> QED  BY <1>1, <1>2, <1>3

LEMMA DispatchSession ==
    ASSUME StateOK, NEW b, NEW source, NEW T, DispatchOf(b, source, T)
    PROVE  /\ session' = [c \in Buses |-> session'[c]]
           /\ \A c \in Buses \ {b} : session'[c] = session[c]
           /\ session'[b] = IF Idle(b, source) THEN NoSession
                            ELSE NewSession(source, Remotes(b, source), Locals(b, source))
           /\ Has(b)' <=> ~Idle(b, source)
           /\ publisher' = publisher /\ Home' = Home /\ b \in Buses
<1>1. /\ b \in Buses /\ session[b] = NoSession /\ publisher' = publisher
      /\ session' = IF Idle(b, source) THEN session
           ELSE [session EXCEPT ![b] = NewSession(source, Remotes(b, source), Locals(b, source))]
  BY DEF DispatchOf, Dispatch, Idle, Remotes, Locals, setup, Has
<1>2. session = [c \in Buses |-> session[c]]  BY DEF StateOK
<1>3. \A s, r, l : NewSession(s, r, l) # NoSession  BY DEF NewSession, NoSession
<1>4. CASE Idle(b, source)  BY <1>1, <1>2, <1>4 DEF Has, Home
<1>5. CASE ~Idle(b, source)  BY <1>1, <1>2, <1>3, <1>5 DEF Has, Home
<1> QED  BY <1>4, <1>5

LEMMA DispatchRest ==
    ASSUME StateOK, NEW b, NEW source, NEW T, DispatchOf(b, source, T)
    PROVE  /\ UNCHANGED <<publisher, loopback, subscribers, strangers, denied, hops, open, alive>>
           /\ asked' = TRUE /\ Delivered' = Delivered
           /\ executing' = executing \cup { n \in Locals(b, source) : Executes(n) }
           /\ iterator' = [queue |-> iterator'.queue, state |-> iterator'.state]
           /\ iterator'.queue = iterator.queue /\ consumed' = consumed /\ consumer' = consumer
           /\ iterator'.state = IF Idle(b, source) /\ source = b THEN "closed" ELSE iterator.state
BY DEF DispatchOf, Dispatch, Idle, Remotes, Locals, setup, StateOK, Delivered

LEMMA DispatchTyped ==
    ASSUME StateOK, NEW b, NEW source, NEW T, DispatchOf(b, source, T)
    PROVE  StateOK'
<1>1. ASSUME NEW m \in Links
      PROVE  IsSeq(link'[m]) /\ \A i \in DOMAIN link'[m] : IsMessage(link'[m][i])
  <2>1. CASE link'[m] = <<Ask>>  BY OneSeq, <2>1 DEF IsMessage
  <2>2. CASE link'[m] = Taken(T)[m]  BY DispatchTaken, <2>2, ThinnerIs
  <2> QED  BY <2>1, <2>2, DispatchLink
<1>2. Locals(b, source) \subseteq Nodes  BY TargetsAre DEF DispatchOf
<1>3. executing' \subseteq Nodes
  <2>1. executing' = executing \cup { n \in Locals(b, source) : Executes(n) }  BY DispatchRest
  <2>2. executing \subseteq Nodes  BY DEF StateOK
  <2> QED  BY <1>2, <2>1, <2>2
<1>4. iterator'.state \in {"open", "closed", "failed"}  BY DispatchRest DEF StateOK
<1>5. link' = [m \in Links |-> link'[m]] /\ session' = [c \in Buses |-> session'[c]]
  BY DispatchLink, DispatchSession
<1>6. /\ publisher' \in Nodes /\ subscribers' \subseteq Nodes /\ loopback' \in BOOLEAN
      /\ alive' \subseteq open' /\ open' \subseteq Links /\ asked' \in BOOLEAN
      /\ iterator' = [queue |-> iterator'.queue, state |-> iterator'.state]
      /\ iterator'.queue \in Seq(Nodes) /\ consumed' \in Seq(Nodes)
      /\ consumer' = "waiting" => iterator'.queue = <<>>
  BY DispatchRest DEF StateOK
<1> QED  BY <1>1, <1>3, <1>4, <1>5, <1>6 DEF StateOK

LEMMA DispatchNowhere ==
    ASSUME StateOK, NEW b, NEW source, NEW T, DispatchOf(b, source, T),
           NEW n, Nowhere(n), n \notin Locals(b, source)
    PROVE  Nowhere(n)'
<1>1. n \notin executing /\ OffLinks(link, n) /\ \A i \in DOMAIN Delivered : Delivered[i] # n  BY DEF Nowhere
<1>2. n \notin executing'  BY <1>1, DispatchRest
<1>3. Thinner(Taken(T))  BY DispatchTaken
<1>4. OffLinks(Taken(T), n)  BY <1>1, <1>3, ThinnerIs DEF OffLinks
<1>5. ASSUME NEW m \in Links, NEW i \in DOMAIN link'[m]  PROVE link'[m][i] # Result(n)
  <2>1. CASE link'[m] = <<Ask>>  BY <1>5, <2>1, OneSeq, Types
  <2>2. CASE link'[m] = Taken(T)[m]  BY <1>4, <1>5, <2>2 DEF OffLinks
  <2> QED  BY <2>1, <2>2, DispatchLink
<1>6. OffLinks(link', n)  BY <1>5 DEF OffLinks
<1>7. \A i \in DOMAIN Delivered' : Delivered'[i] # n  BY <1>1, DispatchRest
<1> QED  BY <1>2, <1>6, <1>7 DEF Nowhere

LEMMA DispatchFits ==
    ASSUME StateOK, SessionsFit, NEW b, NEW source, NEW T, DispatchOf(b, source, T)
    PROVE  SessionsFit'
<1>1. /\ b \in Buses /\ publisher' = publisher
      /\ \A c \in Buses \ {b} : session'[c] = session[c]
      /\ session'[b] = IF Idle(b, source) THEN NoSession
                       ELSE NewSession(source, Remotes(b, source), Locals(b, source))
  BY DispatchSession
<1>2. /\ \A d \in Remotes(b, source) : <<b, d>> \in Links /\ d # source
      /\ Locals(b, source) \subseteq Nodes /\ \A n \in Locals(b, source) : HomeOf[n] = b
      /\ IsFiniteSet(Locals(b, source)) /\ Cardinality(Locals(b, source)) \in Nat
  BY <1>1, TargetsAre
<1>3. executing' = executing \cup { n \in Locals(b, source) : Executes(n) }  BY DispatchRest
<1>4. ASSUME NEW c \in Buses, Has(c)'
      PROVE  /\ SessionFits(c, session[c])'
             /\ session'[c].local.received + Cardinality(Running(c)') <= session'[c].local.expected
  <2>1. CASE c = b
    <3> DEFINE s == session'[b]  k == Cardinality(Locals(b, source))
    <3>1. /\ s.source = source /\ s.branch = [d \in Remotes(b, source) |-> Pending]
          /\ s = [source |-> s.source, branch |-> s.branch, local |-> s.local]
          /\ s.local = [status |-> "fin_received", expected |-> k, received |-> 0]
      BY <1>1, <1>4, <2>1 DEF NewSession, Has
    <3> HIDE DEF s
    <3>2. DOMAIN s.branch = Remotes(b, source) /\ \A d \in DOMAIN s.branch : s.branch[d] = Pending  BY <3>1
    <3>3. IsBooks(Pending) /\ IsBooks(s.local) /\ s.local.expected = k /\ s.local.received = 0
      BY <3>1 DEF Pending, IsBooks
    <3>4. IF b = Home THEN source = b ELSE <<source, b>> \in Links /\ Away(<<source, b>>)  BY DEF DispatchOf
    <3>5. SessionFits(b, s)  BY <1>2, <3>1, <3>2, <3>3, <3>4 DEF SessionFits
    <3>6. SessionFits(c, session[c])'  BY <1>1, <2>1, <3>5, FitsPrimed DEF SessionFits, s
    <3>7. Running(b)' \in SUBSET Locals(b, source)
      <4>1. ASSUME NEW n \in executing, HomeOf[n] = b  PROVE FALSE  BY <4>1 DEF DispatchOf, Nowhere, StateOK
      <4> QED  BY <1>3, <4>1 DEF Running
    <3>8. IsFiniteSet(Running(b)') /\ Cardinality(Running(b)') <= k  BY <1>2, <3>7, FS_Subset
    <3>9. Cardinality(Running(b)') \in Nat  BY <3>8, FS_CardinalityType
    <3>10. 0 + Cardinality(Running(b)') <= k  BY <3>8, <3>9
    <3> QED  BY <2>1, <3>3, <3>6, <3>10 DEF s
  <2>2. CASE c # b
    <3>1. session'[c] = session[c] /\ Has(c)  BY <1>1, <1>4, <2>2 DEF Has
    <3>2. Running(c)' = Running(c)  BY <1>2, <1>3, <2>2 DEF Running
    <3>3. SessionFits(c, session[c]) /\ session[c].local.received + Cardinality(Running(c)) <= session[c].local.expected
      BY <3>1 DEF SessionsFit
    <3>4. SessionFits(c, session[c])'  BY <1>1, <3>1, <3>3, FitsPrimed DEF SessionFits
    <3> QED  BY <3>1, <3>2, <3>3, <3>4
  <2> QED  BY <2>1, <2>2
<1> QED  BY <1>4 DEF SessionsFit

LEMMA DispatchIterator ==
    ASSUME StateOK, IteratorFits, NEW b, NEW source, NEW T, DispatchOf(b, source, T)
    PROVE  IteratorFits'
<1>1. iterator'.state = IF Idle(b, source) /\ source = b THEN "closed" ELSE iterator.state  BY DispatchRest
<1>2. /\ \A c \in Buses \ {b} : session'[c] = session[c]
      /\ Has(b)' <=> ~Idle(b, source)
      /\ Home' = Home
  BY DispatchSession
<1>3. CASE b = Home  BY <1>3, <1>1, <1>2 DEF DispatchOf, IteratorFits, Has
<1>4. CASE b # Home  BY <1>4, DispatchTaken, <1>2, Homes, <1>1 DEF DispatchOf, IteratorFits, Has
<1> QED  BY <1>3, <1>4

LEMMA DispatchOnce ==
    ASSUME StateOK, ResultsAreOnce, NEW b, NEW source, NEW T, DispatchOf(b, source, T)
    PROVE  ResultsAreOnce'
<1>1. ASSUME NEW n \in Nodes  PROVE OnePlace(n, link', executing', Delivered')
  <2>1. OnePlace(n, link, executing, Delivered) /\ Thinner(Taken(T))  BY DispatchTaken DEF ResultsAreOnce
  <2>2. OnePlace(n, Taken(T), executing, Delivered)  BY <2>1, ThinnerPlace
  <2>3. ASSUME NEW m \in Links, NEW i \in DOMAIN link'[m], link'[m][i] = Result(n)
        PROVE  i \in DOMAIN Taken(T)[m] /\ Taken(T)[m][i] = Result(n)
    <3>1. CASE link'[m] = <<Ask>>  BY <2>3, <3>1, OneSeq, Types
    <3>2. CASE link'[m] = Taken(T)[m]  BY <2>3, <3>2
    <3> QED  BY <3>1, <3>2, DispatchLink
  <2>4. OffLinks(Taken(T), n) => OffLinks(link', n)  BY <2>3 DEF OffLinks
  <2>5. ASSUME NEW l \in Links, NEW m \in Links, NEW i \in DOMAIN link'[l], NEW j \in DOMAIN link'[m],
               link'[l][i] = Result(n), link'[m][j] = Result(n)
        PROVE  l = m /\ i = j
    BY <2>2, <2>3, <2>5 DEF OnePlace
  <2>6. /\ Delivered' = Delivered
        /\ executing' = executing \cup { k \in Locals(b, source) : Executes(k) }
    BY DispatchRest
  <2>7. ASSUME n \in executing', n \notin executing
        PROVE  OffLinks(link, n) /\ \A i \in DOMAIN Delivered : Delivered[i] # n
    BY <2>6, <2>7, TargetsAre DEF DispatchOf, Nowhere
  <2>8. OffLinks(link, n) => OffLinks(Taken(T), n)  BY <2>1, ThinnerIs DEF OffLinks
  <2> QED  BY <2>2, <2>4, <2>5, <2>6, <2>7, <2>8 DEF OnePlace
<1> QED  BY <1>1 DEF ResultsAreOnce

LEMMA DispatchAsks ==
    ASSUME StateOK, AsksAreFresh, NEW b, NEW source, NEW T, DispatchOf(b, source, T)
    PROVE  AsksAreFresh'
<1>1. /\ b \in Buses /\ publisher' = publisher /\ asked'
      /\ \A c \in Buses \ {b} : session'[c] = session[c]
  BY DispatchSession DEF DispatchOf
<1>2. /\ \A m \in Links : m \notin T => Taken(T)[m] = link[m]
      /\ \A m \in Links : m[1] = b => m \notin T /\ Taken(T)[m] = <<>>
      /\ \A l \in T : l \in Links /\ T = {l} /\ link[l] # <<>> /\ Head(link[l]) = Ask
  BY DispatchTaken DEF FullLinks
<1>3. ASSUME NEW S, S \subseteq Buses, b \notin S, Fresh(S)  PROVE Fresh(S)'
  <2>1. \A c \in S : ~Has(c)'  BY <1>1, <1>3 DEF Fresh, Has
  <2>2. ASSUME NEW n \in Nodes, HomeOf[n] \in S  PROVE Nowhere(n)'
    BY <1>1, <1>3, <2>2, TargetsAre, DispatchNowhere DEF Fresh
  <2>3. ASSUME NEW m \in Links, m[1] \in S  PROVE link'[m] = <<>>  BY <1>3, <2>3, <1>2, DispatchLink DEF Fresh
  <2> QED  BY <2>1, <2>2, <2>3 DEF Fresh
<1>4. ASSUME NEW m \in Links, NEW i \in DOMAIN link'[m], link'[m][i] = Ask
      PROVE  i = 1 /\ Away(m)' /\ Fresh(Side(m))'
  <2>1. Side(m) \subseteq Buses /\ m[1] \notin Side(m)  BY SideEnds
  <2>2. i = 1 /\ Away(m) /\ Fresh(Side(m)) /\ b \notin Side(m)
    <3>1. CASE m[1] = b /\ m[2] \in Remotes(b, source) /\ link'[m] = <<Ask>>
      <4>1. m[2] # source  BY <1>1, <3>1, TargetsAre
      <4>2. Away(m) /\ Fresh(Side(m))  BY <3>1, <4>1 DEF DispatchOf
      <4>3. i = 1  BY <1>4, <3>1, OneSeq
      <4> QED  BY <2>1, <3>1, <4>2, <4>3
    <3>2. CASE link'[m] = Taken(T)[m] /\ m \notin T
      <4>1. i \in DOMAIN link[m] /\ link[m][i] = Ask  BY <1>2, <1>4, <3>2
      <4>2. b \notin Side(m)  BY <3>2, <4>1 DEF DispatchOf, HasAsk
      <4> QED  BY <4>1, <4>2 DEF AsksAreFresh
    <3>3. CASE link'[m] = Taken(T)[m] /\ m \in T
      <4>1. IsSeq(link[m]) /\ link[m] # <<>> /\ i \in DOMAIN Tail(link[m]) /\ Tail(link[m])[i] = Ask
        BY <1>2, <1>4, <3>3 DEF Taken, StateOK
      <4>2. /\ i \in Nat /\ i + 1 \in DOMAIN link[m] /\ link[m][i + 1] = Ask
            /\ \A j \in DOMAIN link[m] : j \in Nat /\ j >= 1
            /\ DOMAIN Tail(link[m]) \subseteq DOMAIN link[m]
        BY <4>1, SeqTail
      <4>3. i + 1 = 1 /\ i >= 1  BY <4>1, <4>2 DEF AsksAreFresh
      <4> QED  BY <4>2, <4>3
    <3> QED  BY <3>1, <3>2, <3>3, DispatchLink
  <2>3. Away(m)'  BY <1>1, <2>2 DEF Away, Home
  <2> QED  BY <1>3, <2>1, <2>2, <2>3
<1> QED  BY <1>1, <1>4 DEF AsksAreFresh

\* On the way to a node there is one ask.
LEMMA OneAsk ==
    ASSUME StateOK, AsksAreFresh, NEW n \in Nodes, NEW l \in Path(n), NEW m \in Path(n),
           HasAsk(link[l]), HasAsk(link[m])
    PROVE  l = m
<1>1. ASSUME NEW a \in Path(n), NEW c \in Path(n), HasAsk(link[a]), HasAsk(link[c]),
             Side(a) \subseteq Side(c)
      PROVE  a = c
  BY PathFacts, <1>1, SideEnds, NoMessages, Crossing DEF HasAsk, AsksAreFresh, Fresh
<1> QED  BY <1>1, UpToNested

LEMMA DispatchHeld ==
    ASSUME StateOK, NEW b, NEW source, NEW T, DispatchOf(b, source, T)
    PROVE  /\ \A m \in Links : NoFin(link[m]) => NoFin(link'[m])
           /\ \A m \in Links : m[1] # b /\ Awaits(m) => Awaits(m)'
<1>1. ASSUME NEW m \in Links, NoFin(link[m])  PROVE NoFin(link'[m])
  <2>1. CASE link'[m] = <<Ask>>  BY <2>1, OneSeq, Types DEF NoFin
  <2>2. CASE link'[m] = Taken(T)[m]  BY DispatchTaken, <1>1, ThinnerIs, <2>2 DEF NoFin
  <2> QED  BY <2>1, <2>2, DispatchLink
<1>2. ASSUME NEW m \in Links, m[1] # b, Awaits(m)  PROVE Awaits(m)'
  BY LinkKinds, <1>2, DispatchSession DEF Awaits, Has
<1> QED  BY <1>1, <1>2

\* The ask goes on to every node it is on the way to.
LEMMA DispatchReaches ==
    ASSUME StateOK, RoutesHold, NEW b, NEW source, NEW T, DispatchOf(b, source, T),
           NEW n \in Nodes, Owed(n),
           b # Home => <<source, b>> \in Path(n) /\ \A m \in UpTo(n, <<source, b>>) : Held(m)
    PROVE  StillToCome(n)'
<1> DEFINE l == <<source, b>>
<1>1. b \in Buses /\ publisher' = publisher /\ l[2] = b /\ (source = b <=> b = Home)
  BY DispatchSession, DispatchTaken
<1> HIDE DEF l
<1>2. Path(n)' = Path(n) /\ \A m : UpTo(n, m)' = UpTo(n, m)  BY <1>1 DEF Path, UpTo, Away, Home
<1>3. ASSUME NEW m \in Links, m[1] # b, Held(m)  PROVE Held(m)'  BY LinkKinds, <1>3, DispatchHeld DEF Held
<1>4. b # Home => l \in Path(n) /\ \A m \in UpTo(n, l) : Held(m)  BY DEF l
<1>5. CASE HomeOf[n] = b
  <2>1. n \in Locals(b, source) /\ Executes(n)  BY <1>5 DEF Owed, Locals, LocalTargets, Executes
  <2>2. n \in executing'  BY <2>1, DispatchRest
  <2>3. Has(b)'  BY <2>1, DispatchSession DEF Idle
  <2>4. ASSUME NEW m \in Path(n)  PROVE Held(m)'
    BY PathFacts, <1>5, SideEnds, <1>1, <1>4, UpToLast, <1>3 DEF Away
  <2>5. Runs(n)'  BY <1>2, <1>5, <2>2, <2>3, <2>4 DEF Runs
  <2> QED  BY <2>5 DEF StillToCome
<1>6. CASE HomeOf[n] # b
  <2>1. PICK m \in Path(n) : /\ m[1] = b
                             /\ \A k \in Path(n) : k[2] = b => m[2] # k[1] /\ Side(m) \subseteq Side(k)
    BY <1>1, <1>4, <1>6, PathNext
  <2>2. m \in Links /\ Back(m) \in Links /\ m = <<b, m[2]>> /\ m[2] # b /\ Back(m)[1] = m[2]
        /\ m[2] \in Side(m)
    BY <2>1, PathFacts, LinkKinds, SideEnds DEF Back
  <2>3. m[2] # source
    <3>1. CASE b = Home  BY <1>1, <2>2, <3>1
    <3>2. CASE b # Home  BY <1>1, <1>4, <2>1, <3>2 DEF l
    <3> QED  BY <3>1, <3>2
  <2>4. m \in alive /\ m \in open  BY PathClear DEF StateOK
  <2>5. m[2] \in Remotes(b, source)
    <3>1. CASE m[2] \in Children(b)
      <4>1. Permits(m[2]) /\ m[2] \in Above[HomeOf[n]] \ {Root}  BY <2>1, <3>1, PathClear
      <4>2. <<ParentOf[m[2]], m[2]>> = m  BY <2>2, <3>1 DEF Children
      <4>3. m[2] \in hops  BY <2>4, <4>1, <4>2 DEF RoutesHold, Owed
      <4> QED  BY <2>2, <2>3, <2>4, <3>1, <4>1, <4>3 DEF Remotes, RemoteTargets
    <3>2. CASE m[2] \notin Children(b)  BY <2>1, <2>2, <3>2, <2>3, <2>4 DEF Links, Remotes, RemoteTargets
    <3> QED  BY <3>1, <3>2
  <2>6. link'[m] = <<Ask>>  BY <2>1, <2>2, <2>4, <2>5, DispatchLink
  <2>7. \E i \in DOMAIN link'[m] : link'[m][i] = Ask  BY <2>6, OneSeq
  <2>8. Awaits(m)'
    <3>1. session'[b] = NewSession(source, Remotes(b, source), Locals(b, source)) /\ Has(b)'
      BY <2>5, DispatchSession DEF Idle
    <3>2. /\ session'[b].branch = [d \in Remotes(b, source) |-> Pending]  BY <3>1 DEF NewSession
    <3> QED  BY <2>1, <2>5, <3>1, <3>2 DEF Awaits, Pending
  <2>9. Fresh(Side(m))  BY <2>1, <2>2, <2>3 DEF DispatchOf
  <2>10. link[Back(m)] = <<>>  BY <2>2, <2>9 DEF Fresh
  <2>11. NoFin(link'[Back(m)])  BY <2>2, <2>10, NoMessages, DispatchHeld DEF NoFin
  <2>12. ASSUME NEW k \in UpTo(n, m), k # m  PROVE Held(k)'
    <3>1. k \in Path(n) /\ k \in Links /\ Side(m) \subseteq Side(k) /\ Home \notin Side(k)
      BY PathFacts DEF UpTo, Away
    <3>2. b # Home  BY <2>1, <2>2, <2>12, <3>1, Crossing
    <3>3. k \in UpTo(n, l)  BY <1>1, <1>4, <2>1, <2>12, <3>2, UpToNext
    <3>4. k[1] # b  BY <1>4, <3>2, <3>3, PathFacts, <1>1, <3>1, SideEnds DEF UpTo
    <3> QED  BY <1>3, <1>4, <3>1, <3>2, <3>3, <3>4
  <2>13. AskUnderWay(n)'  BY <1>2, <2>1, <2>7, <2>8, <2>11, <2>12 DEF AskUnderWay, Held
  <2> QED  BY <2>13 DEF StillToCome
<1> QED  BY <1>5, <1>6

LEMMA DispatchMissed ==
    ASSUME StateOK, RoutesHold, ResultsAreOnce, AsksAreFresh, AsksAreFresh', NobodyIsMissed,
           NEW b, NEW source, NEW T, DispatchOf(b, source, T)
    PROVE  NobodyIsMissed'
<1> DEFINE l == <<source, b>>
<1>1. /\ UNCHANGED <<publisher, loopback, subscribers, strangers, denied, hops, open, alive>>
      /\ Delivered' = Delivered
      /\ executing' = executing \cup { n \in Locals(b, source) : Executes(n) }
      /\ iterator'.state = IF Idle(b, source) /\ source = b THEN "closed" ELSE iterator.state
  BY DispatchRest
<1>2. source = b <=> b = Home  BY DispatchTaken
<1>3. b # Home =>
        l \in Links /\ Away(l) /\ asked /\ T = {l} /\ link[l] # <<>> /\ Head(link[l]) = Ask /\ l[2] = b
  BY DEF DispatchOf
<1> HIDE DEF l
<1>4. ~Has(b) /\ \A m \in Links : m[1] = b => link[m] = <<>>  BY DEF DispatchOf
<1>5. ASSUME NEW n \in Nodes, Owed(n), b # Home, StillToCome(n), l \notin Path(n)
      PROVE  StillToCome(n)'
  <2>1. ASSUME NEW m \in Path(n), Awaits(m)  PROVE Awaits(m)'
    BY <1>4, <2>1, PathFacts, DispatchHeld DEF Awaits
  <2>2. ASSUME NEW m \in Path(n), NoFin(link[Back(m)])  PROVE NoFin(link'[Back(m)])
    BY <2>2, PathFacts, DispatchHeld
  <2>3. ASSUME NEW m \in Path(n), Comes(n, link[Back(m)])  PROVE Comes(n, link'[Back(m)])
    <3>1. Back(m) \in Links /\ IsSeq(link[Back(m)]) /\ link[Back(m)] # <<>> /\ Back(m)[1] # b
      BY <1>4, <2>3, PathFacts, NoMessages DEF Comes, StateOK
    <3>2. link'[Back(m)] = Taken(T)[Back(m)]  BY <3>1, DispatchLink
    <3>3. CASE Back(m) \notin T  BY <2>3, <3>1, <3>2, <3>3 DEF Taken
    <3>4. CASE Back(m) \in T
      <4>1. Head(link[Back(m)]) # Result(n)  BY <1>3, <1>5, <3>4, Types
      <4>2. Comes(n, Tail(link[Back(m)]))  BY <2>3, <3>1, <4>1, AfterTail
      <4> QED  BY <3>1, <3>2, <3>4, <4>2 DEF Taken
    <3> QED  BY <3>3, <3>4
  <2>4. ASSUME NEW m \in Path(n), HasAsk(link[m])  PROVE HasAsk(link'[m])
    <3>1. m \in Links /\ m # l /\ m[1] # b  BY <1>4, <1>5, <2>4, PathFacts, NoMessages DEF HasAsk
    <3>2. link'[m] = link[m]  BY <1>3, <1>5, <3>1, DispatchLink, DispatchTaken
    <3> QED  BY <2>4, <3>2
  <2>5. ASSUME n \in executing, Has(HomeOf[n])  PROVE n \in executing' /\ Has(HomeOf[n])'
    BY <1>4, <2>5, Homes, DispatchSession, <1>1 DEF Has
  <2> QED  BY <1>1, <1>5, <2>1, <2>2, <2>3, <2>4, <2>5, StillKept
<1>6. ASSUME NEW n \in Nodes, Owed(n), b # Home, StillToCome(n), l \in Path(n)
      PROVE  StillToCome(n)'
  <2>1. l \in Links /\ HomeOf[n] \in Side(l)  BY <1>6, PathFacts
  <2>2. HasAsk(link[l])  BY <2>1, <1>3, <1>6, SeqTail DEF StateOK, HasAsk
  <2>3. Nowhere(n)  BY <2>1, <2>2 DEF HasAsk, AsksAreFresh, Fresh
  <2>4. AskUnderWay(n)  BY <1>6, <2>3, OneOfThree DEF StillToCome, Nowhere
  <2>5. PICK k \in Path(n) : HasAsk(link[k]) /\ \A m \in UpTo(n, k) : Held(m)  BY <2>4 DEF AskUnderWay, HasAsk
  <2>6. k = l  BY <1>6, <2>2, <2>5, OneAsk
  <2> QED  BY <1>6, <2>5, <2>6, DispatchReaches DEF l
<1>7. ASSUME NEW n \in Nodes, Owed(n)'
      PROVE  IsDelivered(n)' \/ iterator'.state = "failed" \/ StillToCome(n)'
  <2>1. Owed(n)  BY <1>1, <1>7 DEF Owed, Up, Down
  <2>2. CASE b = Home  BY <2>1, <2>2, DispatchReaches
  <2>3. CASE b # Home
    <3>1. IsDelivered(n) \/ iterator.state = "failed" \/ StillToCome(n)
      BY <1>3, <2>1, <2>3 DEF NobodyIsMissed
    <3>2. IsDelivered(n) => IsDelivered(n)'  BY <1>1 DEF IsDelivered
    <3>3. iterator'.state = iterator.state  BY <1>1, <1>2, <2>3
    <3> QED  BY <1>5, <1>6, <2>1, <2>3, <3>1, <3>2, <3>3
  <2> QED  BY <2>2, <2>3
<1> QED  BY <1>7 DEF NobodyIsMissed

LEMMA DispatchKeeps ==
    ASSUME AskInv, NEW b, NEW source, NEW T, DispatchOf(b, source, T)
    PROVE  AskInv'
<1>1. /\ StateOK /\ RoutesHold /\ SessionsFit /\ IteratorFits
      /\ ResultsAreOnce /\ AsksAreFresh /\ NobodyIsMissed
  BY DEF AskInv
<1>2. StateOK' /\ SessionsFit' /\ IteratorFits' /\ ResultsAreOnce' /\ AsksAreFresh'
  BY <1>1, DispatchTyped, DispatchFits, DispatchIterator, DispatchOnce, DispatchAsks
<1>3. NobodyIsMissed'  BY <1>1, <1>2, DispatchMissed
<1>4. RoutesHold'  BY <1>1, DispatchRest DEF RoutesHold
<1> QED  BY <1>2, <1>3, <1>4 DEF AskInv

-----------------------------------------------------------------------------
(* What an answer does to the books. *)

LEMMA BooksFilled ==
    ASSUME NEW k, IsBooks(k), NEW total
    PROVE  [[k EXCEPT !.status = "fin_received"] EXCEPT !.expected = total]
             = [status |-> "fin_received", expected |-> total, received |-> k.received]
<1> DEFINE f == [k EXCEPT !.status = "fin_received"]
<1>1. k = [status |-> k.status, expected |-> k.expected, received |-> k.received]  BY DEF IsBooks
<1>2. f = [status |-> "fin_received", expected |-> k.expected, received |-> k.received]  BY <1>1
<1> HIDE DEF f
<1>3. ASSUME NEW e, NEW r, f = [status |-> "fin_received", expected |-> e, received |-> r]
      PROVE  [f EXCEPT !.expected = total]
               = [status |-> "fin_received", expected |-> total, received |-> r]
  BY <1>3
<1>4. [f EXCEPT !.expected = total]
        = [status |-> "fin_received", expected |-> total, received |-> k.received]
  BY <1>2, <1>3
<1> QED  BY <1>4 DEF f

LEMMA BooksEnd ==
    ASSUME NEW b, NEW s, SessionFits(b, s), NEW d \in DOMAIN s.branch, NEW total
    PROVE  /\ SessionFits(b, EndBranch(s, d, total))
           /\ EndBranch(s, d, total).source = s.source /\ EndBranch(s, d, total).local = s.local
           /\ DOMAIN EndBranch(s, d, total).branch = DOMAIN s.branch
           /\ \A x \in DOMAIN s.branch \ {d} : EndBranch(s, d, total).branch[x] = s.branch[x]
<1> DEFINE t == EndBranch(s, d, total)  k == s.branch[d]
           k2 == [status |-> "fin_received", expected |-> total, received |-> k.received]
           f == [x \in DOMAIN s.branch |-> IF x = d THEN k2 ELSE s.branch[x]]
<1>1. /\ s = [source |-> s.source, branch |-> s.branch, local |-> s.local]
      /\ s.branch = [x \in DOMAIN s.branch |-> s.branch[x]]
      /\ \A x \in DOMAIN s.branch : IsBooks(s.branch[x]) /\ <<b, x>> \in Links /\ x # s.source
      /\ IF b = Home THEN s.source = b ELSE <<s.source, b>> \in Links /\ Away(<<s.source, b>>)
      /\ IsBooks(s.local) /\ s.local.expected \in Nat /\ s.local.received \in Nat
  BY DEF SessionFits
<1>2. IsBooks(k)  BY <1>1
<1>3. t = [s EXCEPT !.branch = [s.branch EXCEPT ![d] = [[k EXCEPT !.status = "fin_received"] EXCEPT !.expected = total]]]
  BY <1>1 DEF EndBranch
<1>4. [[k EXCEPT !.status = "fin_received"] EXCEPT !.expected = total] = k2  BY <1>2, BooksFilled
<1>5. [s.branch EXCEPT ![d] = k2] = f  BY <1>1
<1>6. t = [source |-> s.source, branch |-> f, local |-> s.local]  BY <1>1, <1>3, <1>4, <1>5
<1>7. /\ t.source = s.source /\ t.local = s.local /\ t.branch = f
      /\ DOMAIN f = DOMAIN s.branch /\ \A x \in DOMAIN s.branch \ {d} : f[x] = s.branch[x]
      /\ f[d] = k2
  BY <1>6
<1>8. IsBooks(k2)  BY DEF IsBooks
<1> HIDE DEF t, f, k2, k
<1>9. t = [source |-> t.source, branch |-> t.branch, local |-> t.local]  BY <1>6, <1>7
<1>10. t.branch = [x \in DOMAIN t.branch |-> t.branch[x]]  BY <1>7 DEF f
<1>11. \A x \in DOMAIN t.branch : IsBooks(t.branch[x]) /\ <<b, x>> \in Links /\ x # t.source
  BY <1>1, <1>7, <1>8
<1>12. SessionFits(b, t)  BY <1>1, <1>7, <1>9, <1>10, <1>11 DEF SessionFits
<1> QED  BY <1>7, <1>12 DEF t

LEMMA BooksCount ==
    ASSUME NEW b, NEW s, SessionFits(b, s), NEW d
    PROVE  /\ SessionFits(b, CountResult(s, d))
           /\ CountResult(s, d).source = s.source /\ CountResult(s, d).local = s.local
           /\ DOMAIN CountResult(s, d).branch = DOMAIN s.branch
           /\ \A x \in DOMAIN s.branch : CountResult(s, d).branch[x].status = s.branch[x].status
<1>1. CASE d \notin DOMAIN s.branch  BY <1>1 DEF CountResult
<1>2. CASE d \in DOMAIN s.branch
  <2> DEFINE t == CountResult(s, d)  k == s.branch[d]
             k2 == [status |-> k.status, expected |-> k.expected, received |-> k.received + 1]
             f == [x \in DOMAIN s.branch |-> IF x = d THEN k2 ELSE s.branch[x]]
  <2>1. /\ s = [source |-> s.source, branch |-> s.branch, local |-> s.local]
        /\ s.branch = [x \in DOMAIN s.branch |-> s.branch[x]]
        /\ \A x \in DOMAIN s.branch : IsBooks(s.branch[x]) /\ <<b, x>> \in Links /\ x # s.source
        /\ IF b = Home THEN s.source = b ELSE <<s.source, b>> \in Links /\ Away(<<s.source, b>>)
        /\ IsBooks(s.local) /\ s.local.expected \in Nat /\ s.local.received \in Nat
    BY DEF SessionFits
  <2>2. k = [status |-> k.status, expected |-> k.expected, received |-> k.received]  BY <1>2, <2>1 DEF IsBooks
  <2>3. t = [s EXCEPT !.branch = [s.branch EXCEPT ![d] = [k EXCEPT !.received = k.received + 1]]]
    BY <1>2, <2>1 DEF CountResult
  <2>4. [k EXCEPT !.received = k.received + 1] = k2  BY <2>2
  <2>5. [s.branch EXCEPT ![d] = k2] = f  BY <2>1
  <2>6. t = [source |-> s.source, branch |-> f, local |-> s.local]  BY <2>1, <2>3, <2>4, <2>5
  <2>7. /\ t.source = s.source /\ t.local = s.local /\ t.branch = f
        /\ DOMAIN f = DOMAIN s.branch /\ \A x \in DOMAIN s.branch \ {d} : f[x] = s.branch[x]
        /\ f[d] = k2
    BY <1>2, <2>6
  <2>8. IsBooks(k2) /\ k2.status = s.branch[d].status  BY DEF IsBooks
  <2> HIDE DEF t, f, k2, k
  <2>9. t = [source |-> t.source, branch |-> t.branch, local |-> t.local]  BY <2>6, <2>7
  <2>10. t.branch = [x \in DOMAIN t.branch |-> t.branch[x]]  BY <2>7 DEF f
  <2>11. \A x \in DOMAIN t.branch : IsBooks(t.branch[x]) /\ <<b, x>> \in Links /\ x # t.source
    BY <2>1, <2>7, <2>8
  <2>12. SessionFits(b, t)  BY <2>1, <2>7, <2>9, <2>10, <2>11 DEF SessionFits
  <2>13. \A x \in DOMAIN s.branch : t.branch[x].status = s.branch[x].status  BY <2>7, <2>8
  <2> QED  BY <2>7, <2>12, <2>13 DEF t
<1> QED  BY <1>1, <1>2

LEMMA BooksLocal ==
    ASSUME NEW b, NEW s, SessionFits(b, s)
    PROVE  \E t : /\ t = [s EXCEPT !.local.received = @ + 1] /\ SessionFits(b, t)
                  /\ t.source = s.source /\ t.branch = s.branch
                  /\ t.local.received = s.local.received + 1 /\ t.local.expected = s.local.expected
<1> DEFINE t == [s EXCEPT !.local.received = @ + 1]  k == s.local
           k2 == [status |-> k.status, expected |-> k.expected, received |-> k.received + 1]
<1>1. /\ s = [source |-> s.source, branch |-> s.branch, local |-> s.local]
      /\ s.branch = [x \in DOMAIN s.branch |-> s.branch[x]]
      /\ \A x \in DOMAIN s.branch : IsBooks(s.branch[x]) /\ <<b, x>> \in Links /\ x # s.source
      /\ IF b = Home THEN s.source = b ELSE <<s.source, b>> \in Links /\ Away(<<s.source, b>>)
      /\ IsBooks(s.local) /\ s.local.expected \in Nat /\ s.local.received \in Nat
  BY DEF SessionFits
<1>2. k = [status |-> k.status, expected |-> k.expected, received |-> k.received]  BY <1>1 DEF IsBooks
<1>3. t = [s EXCEPT !.local = [k EXCEPT !.received = k.received + 1]]  BY <1>1
<1>4. [k EXCEPT !.received = k.received + 1] = k2  BY <1>2
<1>5. t = [source |-> s.source, branch |-> s.branch, local |-> k2]  BY <1>1, <1>3, <1>4
<1>6. /\ t.source = s.source /\ t.branch = s.branch /\ t.local = k2
      /\ t = [source |-> t.source, branch |-> t.branch, local |-> t.local]
  BY <1>5
<1>7. /\ IsBooks(k2) /\ k2.expected = s.local.expected /\ k2.received = s.local.received + 1
      /\ k2.expected \in Nat /\ k2.received \in Nat
  BY <1>1 DEF IsBooks
<1>8. t = [s EXCEPT !.local.received = @ + 1]  OBVIOUS
<1> HIDE DEF t, k2, k
<1>9. SessionFits(b, t)  BY <1>1, <1>6, <1>7 DEF SessionFits
<1> QED  BY <1>6, <1>7, <1>8, <1>9

-----------------------------------------------------------------------------
(* The steps of the protocol, one by one. *)

LEMMA HeadIs ==
    ASSUME StateOK, NEW l \in Links, link[l] # <<>>
    PROVE  /\ 1 \in DOMAIN link[l] /\ link[l][1] = Head(link[l]) /\ IsSeq(link[l])
           /\ Head(link[l]).type = "ask" => Head(link[l]) = Ask
           /\ Head(link[l]).type = "result" =>
                \E n \in Nodes : Head(link[l]) = Result(n) /\ Head(link[l]).node = n
<1>1. IsSeq(link[l])  BY DEF StateOK
<1>2. 1 \in DOMAIN link[l] /\ link[l][1] = Head(link[l])  BY <1>1, SeqTail
<1>3. IsMessage(Head(link[l]))  BY <1>2 DEF StateOK
<1>4. \A n : Result(n).node = n  BY DEF Result
<1> QED  BY <1>1, <1>2, <1>3, <1>4, Types DEF IsMessage

LEMMA UpdateKeeps ==
    ASSUME AskInv, NEW l \in Links, UpdateSession(l)
    PROVE  AskInv'
<1> DEFINE b == l[2]  d == l[1]  m == Head(link[l])
<1>1. /\ StateOK /\ SessionsFit /\ RoutesHold
      /\ b \in Buses /\ d \in Buses /\ l = <<d, b>>
      /\ Has(b) /\ link[l] # <<>> /\ (m.type = "result" \/ m.type = "fin")
      /\ UNCHANGED <<publisher, loopback, subscribers, strangers, denied, hops, open, alive,
                     executing, asked>>
  BY LinkKinds DEF AskInv, UpdateSession, Arrived, Has, setup
<1>2. /\ SessionFits(b, session[b])
      /\ session[b].local.received + Cardinality(Running(b)) <= session[b].local.expected
  BY <1>1 DEF SessionsFit
<1>3. Running(b)' = Running(b) /\ alive \subseteq open' /\ open' \subseteq Links /\ RoutesHold'
  BY <1>1 DEF Running, StateOK, RoutesHold
<1>4. FullLinks({l}) /\ Taken({l}) = Without(l) /\ \A k \in {l} : k[2] = b /\ {l} = {k}
  BY <1>1, TakenIs DEF FullLinks
<1>5. CASE m.type = "result"
  <2>1. PICK n \in Nodes : m = Result(n) /\ m.node = n  BY <1>1, <1>5, HeadIs
  <2> DEFINE s == CountResult(session[b], d)
  <2>2. /\ SessionFits(b, s) /\ s.source = session[b].source /\ s.local = session[b].local
        /\ DOMAIN s.branch = DOMAIN session[b].branch
        /\ \A x \in DOMAIN session[b].branch : s.branch[x].status = session[b].branch[x].status
    BY <1>2, BooksCount
  <2>3. Advance(Taken({l}), b, s, <<n>>)  BY <1>4, <1>5, <2>1 DEF UpdateSession
  <2> HIDE DEF s
  <2>4. AtMostOne(<<n>>) /\ InHand(b, <<n>>, {l})  BY <1>1, <2>1 DEF AtMostOne, InHand
  <2> HIDE DEF b, d, m
  <2>5. AdvanceOf(b, s, <<n>>, {l}, {})  BY <1>1, <1>2, <1>3, <1>4, <2>2, <2>3, <2>4 DEF AdvanceOf
  <2> QED  BY <2>5, AdvanceKeeps
<1>6. CASE m.type = "fin"
  <2>1. Advance(Taken({l}), b, EndBranch(session[b], d, m.total), <<>>)  BY <1>1, <1>4, <1>6 DEF UpdateSession
  <2>2. AtMostOne(<<>>) /\ InHand(b, <<>>, {l})  BY <1>1, <1>6 DEF AtMostOne, InHand
  <2>3. CASE d \in DOMAIN session[b].branch
    <3> DEFINE s == EndBranch(session[b], d, m.total)
    <3>1. /\ SessionFits(b, s) /\ s.source = session[b].source /\ s.local = session[b].local
          /\ DOMAIN s.branch = DOMAIN session[b].branch
          /\ \A x \in DOMAIN session[b].branch \ {d} : s.branch[x] = session[b].branch[x]
      BY <1>2, <2>3, BooksEnd
    <3>2. <<d, b>> \in {l} /\ Head(link[<<d, b>>]).type = "fin"  BY <1>1, <1>6
    <3>3. Advance(Taken({l}), b, s, <<>>)  BY <2>1
    <3> HIDE DEF s, b, d, m
    <3>4. AdvanceOf(b, s, <<>>, {l}, {d})  BY <1>1, <1>2, <1>3, <1>4, <2>2, <3>1, <3>2, <3>3 DEF AdvanceOf
    <3> QED  BY <3>4, AdvanceKeeps
  <2>4. CASE d \notin DOMAIN session[b].branch
    <3>1. Advance(Taken({l}), b, session[b], <<>>)  BY <2>1, <2>4 DEF EndBranch
    <3> HIDE DEF b, d, m
    <3>2. AdvanceOf(b, session[b], <<>>, {l}, {})  BY <1>1, <1>2, <1>3, <1>4, <2>2, <3>1 DEF AdvanceOf
    <3> QED  BY <3>2, AdvanceKeeps
  <2> QED  BY <2>3, <2>4
<1> QED  BY <1>1, <1>5, <1>6

LEMMA AnswerKeeps ==
    ASSUME AskInv, NEW n \in Nodes, Answer(n), Has(HomeOf[n])
    PROVE  AskInv'
<1> DEFINE b == HomeOf[n]
<1>1. /\ StateOK /\ SessionsFit /\ RoutesHold /\ b \in Buses /\ n \in executing
      /\ executing' = executing \ {n} /\ executing \subseteq Nodes
      /\ UNCHANGED <<publisher, loopback, subscribers, strangers, denied, hops, open, alive, asked>>
      /\ Advance(link, b, [session[b] EXCEPT !.local.received = @ + 1], <<n>>)
  BY AskAssumption DEF AskInv, Answer, Has, setup, StateOK
<1>2. /\ SessionFits(b, session[b])
      /\ session[b].local.received + Cardinality(Running(b)) <= session[b].local.expected
  BY <1>1 DEF SessionsFit
<1>3. PICK s : /\ s = [session[b] EXCEPT !.local.received = @ + 1] /\ SessionFits(b, s)
               /\ s.source = session[b].source /\ s.branch = session[b].branch
               /\ s.local.received = session[b].local.received + 1
               /\ s.local.expected = session[b].local.expected
  BY <1>2, BooksLocal
<1>4. FullLinks({}) /\ Taken({}) = link  BY <1>1, TakenIs DEF FullLinks
<1>5. s.local.received + Cardinality(Running(b)') <= s.local.expected
  <2>1. Running(b)' = Running(b) \ {n} /\ n \in Running(b) /\ Running(b) \in SUBSET Nodes  BY <1>1 DEF Running
  <2>2. IsFiniteSet(Running(b))  BY <2>1, FS_Subset, AskAssumption
  <2>3. Cardinality(Running(b)') = Cardinality(Running(b)) - 1 /\ Cardinality(Running(b)) \in Nat
    BY <2>1, <2>2, FS_RemoveElement, FS_CardinalityType
  <2>4. session[b].local.received \in Nat /\ session[b].local.expected \in Nat  BY <1>2 DEF SessionFits
  <2> QED  BY <1>2, <1>3, <2>3, <2>4
<1>6. AtMostOne(<<n>>) /\ InHand(b, <<n>>, {}) /\ alive \subseteq open' /\ open' \subseteq Links /\ RoutesHold'
  BY <1>1 DEF AtMostOne, InHand, StateOK, RoutesHold
<1>7. Advance(Taken({}), b, s, <<n>>) /\ Has(b)  BY <1>1, <1>3, <1>4
<1> HIDE DEF b
<1>8. AdvanceOf(b, s, <<n>>, {}, {})  BY <1>1, <1>3, <1>4, <1>5, <1>6, <1>7 DEF AdvanceOf
<1> QED  BY <1>8, AdvanceKeeps

\* A route that goes has no transport any more.
LEMMA RoutesKept ==
    ASSUME RoutesHold, NEW l \in Links \ alive, subscribers' = subscribers, alive' = alive,
           hops' = hops \ ({l[2]} \cap Children(l[1]))
    PROVE  RoutesHold'
<1>1. ASSUME NEW n \in subscribers, NEW c \in Above[HomeOf[n]] \ {Root}, <<ParentOf[c], c>> \in alive
      PROVE  c \in hops'
  BY <1>1, LinkKinds DEF RoutesHold, Children
<1> QED  BY <1>1 DEF RoutesHold

LEMMA NoticeKeeps ==
    ASSUME AskInv, NEW l \in Links, NoticeDrop(l), Has(l[1]), l[2] \in DOMAIN session[l[1]].branch
    PROVE  AskInv'
<1> DEFINE b == l[1]  d == l[2]
<1>1. /\ StateOK /\ SessionsFit /\ RoutesHold
      /\ b \in Buses /\ d \in Buses /\ l = <<b, d>> /\ l \in open \ alive /\ open' = open \ {l}
      /\ UNCHANGED <<publisher, loopback, subscribers, strangers, denied, alive, executing, asked>>
      /\ hops' = hops \ ({l[2]} \cap Children(b))
      /\ Advance(link, b, EndBranch(session[b], d, 0), <<>>)
  BY LinkKinds DEF AskInv, NoticeDrop, Has, setup
<1>2. /\ SessionFits(b, session[b])
      /\ session[b].local.received + Cardinality(Running(b)) <= session[b].local.expected
  BY <1>1 DEF SessionsFit
<1>3. FullLinks({}) /\ Taken({}) = link  BY <1>1, TakenIs DEF FullLinks
<1>4. Running(b)' = Running(b) /\ alive \subseteq open' /\ open' \subseteq Links  BY <1>1 DEF Running, StateOK
<1>5. RoutesHold'  BY <1>1, RoutesKept
<1> DEFINE s == EndBranch(session[b], d, 0)
<1>6. /\ SessionFits(b, s) /\ s.source = session[b].source /\ s.local = session[b].local
      /\ DOMAIN s.branch = DOMAIN session[b].branch
      /\ \A x \in DOMAIN session[b].branch \ {d} : s.branch[x] = session[b].branch[x]
  BY <1>2, BooksEnd
<1>7. AtMostOne(<<>>) /\ InHand(b, <<>>, {}) /\ <<b, d>> \notin alive /\ Has(b)  BY <1>1 DEF AtMostOne, InHand
<1>8. Advance(Taken({}), b, s, <<>>)  BY <1>1, <1>3
<1> HIDE DEF b, d, s
<1>9. AdvanceOf(b, s, <<>>, {}, {d})  BY <1>1, <1>2, <1>3, <1>4, <1>5, <1>6, <1>7, <1>8 DEF AdvanceOf
<1> QED  BY <1>9, AdvanceKeeps

LEMMA PublishDispatches ==
    ASSUME AskInv, Publish
    PROVE  DispatchOf(Home, Home, {})
<1>1. StateOK /\ AsksAreFresh /\ ~asked /\ asked' /\ Dispatch(link, Home, Home)  BY DEF AskInv, Publish, Home
<1>2. Fresh(Buses) /\ iterator.state = "open"  BY <1>1 DEF AsksAreFresh
<1>3. Home \in Buses /\ ~Has(Home) /\ \A n \in Nodes : HomeOf[n] = Home => Nowhere(n)
  BY <1>1, <1>2, Homes DEF Fresh
<1>4. \A m \in Links : link[m] = <<>>  BY <1>2, LinkKinds DEF Fresh
<1>5. ASSUME NEW m \in Links, m[1] = Home  PROVE Away(m) /\ Fresh(Side(m))
  BY <1>2, <1>5, SideEnds DEF Away, Fresh
<1>6. \A m \in Links : ~HasAsk(link[m])  BY <1>4, NoMessages DEF HasAsk
<1>7. Taken({}) = link  BY <1>1, TakenIs DEF FullLinks
<1> HIDE DEF Home
<1> QED  BY <1>1, <1>2, <1>3, <1>4, <1>5, <1>6, <1>7 DEF DispatchOf

LEMMA PublishKeeps ==
    ASSUME AskInv, Publish
    PROVE  AskInv'
BY PublishDispatches, DispatchKeeps

LEMMA RelayDispatches ==
    ASSUME AskInv, NEW l \in Links, RelayAsk(l)
    PROVE  DispatchOf(l[2], l[1], {l})
<1> DEFINE b == l[2]  source == l[1]
<1>1. /\ StateOK /\ AsksAreFresh /\ link[l] # <<>> /\ Head(link[l]).type = "ask"
      /\ Dispatch(Without(l), b, source) /\ asked' = asked
  BY DEF AskInv, RelayAsk, Arrived
<1>2. /\ b \in Buses /\ source \in Buses /\ l = <<source, b>> /\ b \in Side(l) /\ source \notin Side(l)
      /\ Side(l) \subseteq Buses
  BY LinkKinds, SideEnds
<1>3. Head(link[l]) = Ask /\ 1 \in DOMAIN link[l] /\ link[l][1] = Ask  BY <1>1, HeadIs
<1>4. Away(l) /\ Fresh(Side(l))  BY <1>1, <1>3 DEF AsksAreFresh
<1>5. /\ ~Has(b) /\ \A n \in Nodes : HomeOf[n] = b => Nowhere(n)
      /\ \A m \in Links : m[1] = b => link[m] = <<>>
  BY <1>2, <1>4 DEF Fresh
<1>6. b # Home /\ asked  BY <1>1, <1>2, <1>4, AskedIf DEF Away
<1>7. ASSUME NEW m \in Links, m[1] = b, m[2] # source  PROVE Away(m) /\ Fresh(Side(m))
  BY <1>7, Farther, <1>4 DEF Away, Fresh
<1>8. ASSUME NEW m \in Links \ {l}, HasAsk(link[m])  PROVE b \notin Side(m)
  BY <1>1, <1>8, Crossing DEF AsksAreFresh, HasAsk, Fresh
<1>9. Taken({l}) = Without(l)  BY <1>1, TakenIs DEF FullLinks
<1>10. Dispatch(Taken({l}), b, source) /\ asked'  BY <1>1, <1>6, <1>9
<1> HIDE DEF b, source
<1>11. DispatchOf(b, source, {l})  BY <1>1, <1>2, <1>3, <1>4, <1>5, <1>6, <1>7, <1>8, <1>10 DEF DispatchOf
<1> QED  BY <1>11 DEF b, source

LEMMA RelayKeeps ==
    ASSUME AskInv, NEW l \in Links, RelayAsk(l)
    PROVE  AskInv'
BY RelayDispatches, DispatchKeeps

-----------------------------------------------------------------------------
(* Steps that only take away: messages, sessions, links. *)

Falls ==
    /\ UNCHANGED <<publisher, loopback, subscribers, strangers, denied, asked>>
    /\ executing' \subseteq executing /\ Delivered' = Delivered
    /\ session' = [b \in Buses |-> session'[b]]
    /\ \A b \in Buses : session'[b] \in {session[b], NoSession}
    /\ link' = [l \in Links |-> link'[l]] /\ Thinner(link')
    /\ iterator' = [queue |-> iterator'.queue, state |-> iterator'.state]
    /\ iterator'.state \in {"open", "closed", "failed"}
    /\ iterator'.queue \in Seq(Nodes) /\ consumed' \in Seq(Nodes)
    /\ consumer' = "waiting" => iterator'.queue = <<>>
    /\ alive' \subseteq alive /\ alive' \subseteq open' /\ open' \subseteq Links
    /\ ~asked => iterator'.state = iterator.state

LEMMA FallsKeeps ==
    ASSUME StateOK, SessionsFit, ResultsAreOnce, AsksAreFresh, Falls
    PROVE  StateOK' /\ SessionsFit' /\ ResultsAreOnce' /\ AsksAreFresh'
<1>1. Thinner(link') /\ executing' \subseteq executing /\ Delivered' = Delivered /\ publisher' = publisher
  BY DEF Falls
<1>2. StateOK'  BY <1>1, ThinnerIs DEF Falls, StateOK
<1>3. ASSUME NEW b \in Buses, Has(b)'
      PROVE  /\ SessionFits(b, session[b])'
             /\ session'[b].local.received + Cardinality(Running(b)') <= session'[b].local.expected
  <2>1. session'[b] = session[b] /\ Has(b)  BY <1>3 DEF Falls, Has
  <2>2. SessionFits(b, session[b]) /\ session[b].local.received + Cardinality(Running(b)) <= session[b].local.expected
    BY <2>1 DEF SessionsFit
  <2>3. SessionFits(b, session[b])'  BY <1>1, <2>1, <2>2, FitsPrimed DEF SessionFits
  <2>4. Running(b) \in SUBSET Nodes /\ Running(b)' \in SUBSET Running(b)  BY <1>1 DEF Running, StateOK
  <2>5. IsFiniteSet(Running(b))  BY <2>4, FS_Subset, AskAssumption
  <2>6. IsFiniteSet(Running(b)') /\ Cardinality(Running(b)') <= Cardinality(Running(b))
    BY <2>4, <2>5, FS_Subset
  <2>7. /\ Cardinality(Running(b)') \in Nat /\ Cardinality(Running(b)) \in Nat
        /\ session[b].local.received \in Nat /\ session[b].local.expected \in Nat
    BY <2>2, <2>5, <2>6, FS_CardinalityType DEF SessionFits
  <2> QED  BY <2>1, <2>2, <2>3, <2>6, <2>7
<1>4. ASSUME NEW n \in Nodes  PROVE OnePlace(n, link', executing', Delivered')
  BY <1>1, ThinnerPlace DEF ResultsAreOnce
<1>5. ASSUME NEW S, S \subseteq Buses, Fresh(S)  PROVE Fresh(S)'
  <2>1. \A b \in S : ~Has(b)'  BY <1>5 DEF Fresh, Falls, Has
  <2>2. \A n \in Nodes : HomeOf[n] \in S => Nowhere(n)'  BY <1>1, ThinnerIs, <1>5 DEF OffLinks, Fresh, Nowhere
  <2>3. \A m \in Links : m[1] \in S => link'[m] = <<>>  BY <1>1, <1>5 DEF Fresh, Thinner
  <2> QED  BY <2>1, <2>2, <2>3 DEF Fresh
<1>6. ASSUME NEW m \in Links, NEW i \in DOMAIN link'[m], link'[m][i] = Ask
      PROVE  i = 1 /\ Away(m)' /\ Fresh(Side(m))'
  <2>1. PICK s \in {0, 1} : \A j \in DOMAIN link'[m] :
          j \in Nat /\ j >= 1 /\ j + s \in DOMAIN link[m] /\ link'[m][j] = link[m][j + s]
    BY <1>1, ThinnerIs
  <2>2. i + s \in DOMAIN link[m] /\ link[m][i + s] = Ask /\ i \in Nat /\ i >= 1  BY <1>6, <2>1
  <2>3. i + s = 1 /\ Away(m) /\ Fresh(Side(m))  BY <2>2 DEF AsksAreFresh
  <2>4. i = 1  BY <2>2, <2>3
  <2>5. Away(m)' /\ Side(m) \subseteq Buses  BY <1>1, <2>3, SideEnds DEF Away, Home
  <2> QED  BY <1>5, <2>3, <2>4, <2>5
<1>7. ~asked' => Fresh(Buses)' /\ iterator'.state = "open"  BY <1>5 DEF AsksAreFresh, Falls
<1> QED  BY <1>2, <1>3, <1>4, <1>6, <1>7 DEF SessionsFit, ResultsAreOnce, AsksAreFresh

\* What does not touch the way to n leaves its result to come.
LEMMA FallsWaits ==
    ASSUME StateOK, AsksAreFresh', Falls, NEW n \in Nodes, StillToCome(n),
           \A m \in Path(n) : /\ session'[m[1]] = session[m[1]]
                              /\ link'[m] = link[m] /\ link'[Back(m)] = link[Back(m)],
           n \in executing /\ Has(HomeOf[n]) =>
              n \in executing' /\ session'[HomeOf[n]] = session[HomeOf[n]]
    PROVE  StillToCome(n)'
BY StillKept DEF Falls, Awaits, Has

LEMMA SameSessions ==
    ASSUME StateOK, session' = session
    PROVE  /\ session' = [b \in Buses |-> session'[b]]
           /\ \A b \in Buses : session'[b] \in {session[b], NoSession}
BY DEF StateOK

LEMMA SameLinks ==
    ASSUME StateOK, link' = link
    PROVE  link' = [l \in Links |-> link'[l]] /\ Thinner(link')
BY DEF StateOK, Thinner

LEMMA SameIterator ==
    ASSUME StateOK, iterator' = iterator, consumed' = consumed, consumer' = consumer
    PROVE  /\ iterator' = [queue |-> iterator'.queue, state |-> iterator'.state]
           /\ iterator'.state \in {"open", "closed", "failed"}
           /\ iterator'.queue \in Seq(Nodes) /\ consumed' \in Seq(Nodes)
           /\ consumer' = "waiting" => iterator'.queue = <<>>
           /\ Delivered' = Delivered
BY DEF StateOK, Delivered

LEMMA OwedStays ==
    ASSUME StateOK, Falls, NEW n \in Nodes, Owed(n)'
    PROVE  /\ Owed(n) /\ \A m \in Path(n) : m \in alive' /\ Back(m) \in alive'
BY PathEnds DEF Owed, Falls, Up, Down

\* When nothing fails at the publisher, what is owed has only to stay under way.
LEMMA FallsMissed ==
    ASSUME StateOK, NobodyIsMissed, Falls,
           iterator.state = "failed" => iterator'.state = "failed",
           \A n \in Nodes : /\ Owed(n) /\ StillToCome(n)
                            /\ \A m \in Path(n) : m \in alive' /\ Back(m) \in alive'
                            => StillToCome(n)' \/ iterator'.state = "failed"
    PROVE  NobodyIsMissed'
<1>1. ASSUME asked', NEW n \in Nodes, Owed(n)'
      PROVE  IsDelivered(n)' \/ iterator'.state = "failed" \/ StillToCome(n)'
  BY <1>1, OwedStays DEF NobodyIsMissed, Falls, IsDelivered
<1> QED  BY <1>1 DEF NobodyIsMissed

LEMMA StutterKeeps ==
    ASSUME AskInv, UNCHANGED vars
    PROVE  AskInv'
<1>1. /\ StateOK /\ RoutesHold /\ SessionsFit /\ IteratorFits
      /\ ResultsAreOnce /\ AsksAreFresh /\ NobodyIsMissed
      /\ UNCHANGED <<publisher, loopback, subscribers, strangers, denied, hops, open, alive, session,
                     link, executing, asked, iterator, consumer, consumed>>
  BY DEF AskInv, vars, setup
<1>2. Falls  BY <1>1, SameSessions, SameLinks, SameIterator DEF Falls, StateOK
<1>3. StateOK' /\ SessionsFit' /\ ResultsAreOnce' /\ AsksAreFresh'  BY <1>1, <1>2, FallsKeeps
<1>4. \A n \in Nodes : StillToCome(n) => StillToCome(n)'  BY <1>1, <1>2, <1>3, FallsWaits
<1>5. NobodyIsMissed'  BY <1>1, <1>2, <1>4, FallsMissed
<1>6. RoutesHold' /\ IteratorFits'  BY <1>1 DEF RoutesHold, IteratorFits, Has, Home
<1> QED  BY <1>3, <1>5, <1>6 DEF AskInv

LEMMA DropKeeps ==
    ASSUME AskInv, NEW l \in Links, DropAsk(l)
    PROVE  AskInv'
<1>1. /\ StateOK /\ RoutesHold /\ SessionsFit /\ IteratorFits
      /\ ResultsAreOnce /\ AsksAreFresh /\ NobodyIsMissed
      /\ UNCHANGED <<publisher, loopback, subscribers, strangers, denied, hops, open, alive, session,
                     executing, asked, iterator, consumer, consumed>>
      /\ link' = Without(l) /\ link[l] # <<>> /\ Head(link[l]).type = "ask"
      /\ l[1] \in Children(l[2]) /\ ~Permits(l[1])
  BY DEF AskInv, DropAsk, Arrived, setup
<1>2. /\ Thinner(link') /\ link' = [m \in Links |-> link'[m]]
      /\ \A m \in Links \ {l} : link'[m] = link[m]
  <2>1. FullLinks({l})  BY <1>1 DEF FullLinks
  <2>2. Taken({l}) = link' /\ Thinner(Taken({l}))  BY <1>1, <2>1, TakenIs
  <2> QED  BY <2>2 DEF Taken
<1>3. Falls  BY <1>1, <1>2, SameSessions, SameIterator DEF Falls, StateOK
<1>4. StateOK' /\ SessionsFit' /\ ResultsAreOnce' /\ AsksAreFresh'  BY <1>1, <1>3, FallsKeeps
<1>5. Away(l)  BY <1>1, HeadIs DEF AsksAreFresh
<1>6. ASSUME NEW n \in Nodes, Owed(n), StillToCome(n)  PROVE StillToCome(n)'
  <2>1. ASSUME NEW m \in Path(n)  PROVE m # l /\ Back(m) # l /\ m \in Links /\ Back(m) \in Links
    <3>1. m \in Links /\ Back(m) \in Links /\ Home \notin Side(m)  BY <1>1, PathFacts DEF Away
    <3>2. m # l  BY <1>1, <1>6, PathClear
    <3>3. Home \in Side(Back(m))  BY <1>1, <3>1, SideEnds, Homes
    <3> QED  BY <1>5, <3>1, <3>2, <3>3 DEF Away
  <2>2. \A m \in Path(n) : session'[m[1]] = session[m[1]] /\ link'[m] = link[m] /\ link'[Back(m)] = link[Back(m)]
    BY <1>1, <1>2, <2>1
  <2> QED  BY <1>1, <1>3, <1>4, <1>6, <2>2, FallsWaits
<1>7. NobodyIsMissed'  BY <1>1, <1>3, <1>6, FallsMissed
<1>8. RoutesHold' /\ IteratorFits'  BY <1>1 DEF RoutesHold, IteratorFits, Has, Home
<1> QED  BY <1>4, <1>7, <1>8 DEF AskInv

\* A procedure that ends after its session.
LEMMA LateAnswerKeeps ==
    ASSUME AskInv, NEW n \in Nodes, Answer(n), ~Has(HomeOf[n])
    PROVE  AskInv'
<1>1. /\ StateOK /\ RoutesHold /\ SessionsFit /\ IteratorFits
      /\ ResultsAreOnce /\ AsksAreFresh /\ NobodyIsMissed
      /\ UNCHANGED <<publisher, loopback, subscribers, strangers, denied, hops, open, alive, session,
                     link, asked, iterator, consumer, consumed>>
      /\ executing' = executing \ {n}
  BY DEF AskInv, Answer, Has, setup
<1>2. Falls  BY <1>1, SameSessions, SameLinks, SameIterator DEF Falls, StateOK
<1>3. StateOK' /\ SessionsFit' /\ ResultsAreOnce' /\ AsksAreFresh'  BY <1>1, <1>2, FallsKeeps
<1>4. \A k \in Nodes : StillToCome(k) => StillToCome(k)'  BY <1>1, <1>2, <1>3, FallsWaits
<1>5. NobodyIsMissed'  BY <1>1, <1>2, <1>4, FallsMissed
<1>6. RoutesHold' /\ IteratorFits'  BY <1>1 DEF RoutesHold, IteratorFits, Has, Home
<1> QED  BY <1>3, <1>5, <1>6 DEF AskInv

\* A route that goes where no session waits.
LEMMA LateNoticeKeeps ==
    ASSUME AskInv, NEW l \in Links, NoticeDrop(l),
           ~Has(l[1]) \/ l[2] \notin DOMAIN session[l[1]].branch
    PROVE  AskInv'
<1>1. /\ StateOK /\ RoutesHold /\ SessionsFit /\ IteratorFits
      /\ ResultsAreOnce /\ AsksAreFresh /\ NobodyIsMissed
      /\ UNCHANGED <<publisher, loopback, subscribers, strangers, denied, alive, session,
                     link, executing, asked, iterator, consumer, consumed>>
      /\ l \in open \ alive /\ open' = open \ {l}
      /\ hops' = hops \ ({l[2]} \cap Children(l[1]))
  BY DEF AskInv, NoticeDrop, Has, setup
<1>2. Falls  BY <1>1, SameSessions, SameLinks, SameIterator DEF Falls, StateOK
<1>3. StateOK' /\ SessionsFit' /\ ResultsAreOnce' /\ AsksAreFresh'  BY <1>1, <1>2, FallsKeeps
<1>4. \A k \in Nodes : StillToCome(k) => StillToCome(k)'  BY <1>1, <1>2, <1>3, FallsWaits
<1>5. NobodyIsMissed'  BY <1>1, <1>2, <1>4, FallsMissed
<1>6. RoutesHold'  BY <1>1, RoutesKept
<1>7. IteratorFits'  BY <1>1 DEF IteratorFits, Has, Home
<1> QED  BY <1>3, <1>5, <1>6, <1>7 DEF AskInv

\* The consumer takes what is queued first.
LEMMA TakesFirst ==
    ASSUME NEW c \in Seq(Nodes), NEW q \in Seq(Nodes), q # <<>>
    PROVE  /\ Append(c, Head(q)) \in Seq(Nodes) /\ Tail(q) \in Seq(Nodes)
           /\ Append(c, Head(q)) \o Tail(q) = c \o q
BY AppendProperties, AppendIsConcat, ConcatAssociative

LEMMA CallNextKeeps ==
    ASSUME AskInv, CallNext
    PROVE  AskInv'
<1>1. /\ StateOK /\ RoutesHold /\ SessionsFit /\ IteratorFits
      /\ ResultsAreOnce /\ AsksAreFresh /\ NobodyIsMissed
      /\ UNCHANGED <<publisher, loopback, subscribers, strangers, denied, hops, open, alive, session,
                     link, executing, asked>>
      /\ TakeResult \/ FindNothing
      /\ consumer = "idle"
  BY DEF AskInv, CallNext, setup
<1>2. /\ iterator = [queue |-> iterator.queue, state |-> iterator.state]
      /\ iterator.queue \in Seq(Nodes) /\ consumed \in Seq(Nodes)
      /\ iterator.state \in {"open", "closed", "failed"}
      /\ consumer = "waiting" => iterator.queue = <<>>
  BY <1>1 DEF StateOK
<1>3. /\ iterator' = [queue |-> iterator'.queue, state |-> iterator'.state]
      /\ iterator'.state = iterator.state
      /\ iterator'.queue \in Seq(Nodes) /\ consumed' \in Seq(Nodes)
      /\ consumer' = "waiting" => iterator'.queue = <<>>
      /\ Delivered' = Delivered
  <2>1. CASE TakeResult  BY <1>2, <2>1, TakesFirst DEF TakeResult, Delivered
  <2>2. CASE FindNothing  BY <1>2, <2>2 DEF FindNothing, Delivered
  <2> QED  BY <1>1, <2>1, <2>2
<1>4. Falls  BY <1>1, <1>2, <1>3, SameSessions, SameLinks DEF Falls, StateOK
<1>5. StateOK' /\ SessionsFit' /\ ResultsAreOnce' /\ AsksAreFresh'  BY <1>1, <1>4, FallsKeeps
<1>6. \A n \in Nodes : StillToCome(n) => StillToCome(n)'  BY <1>1, <1>4, <1>5, FallsWaits
<1>7. NobodyIsMissed'  BY <1>1, <1>3, <1>4, <1>6, FallsMissed
<1>8. RoutesHold' /\ IteratorFits'  BY <1>1, <1>3 DEF RoutesHold, IteratorFits, Has, Home
<1> QED  BY <1>5, <1>7, <1>8 DEF AskInv

\* The session of b ends with an error: at home, the iterator fails.
LEMMA Abandoned ==
    ASSUME StateOK, SessionsFit, NEW b \in Buses, Abandon(b),
           session' = [session EXCEPT ![b] = NoSession]
    PROVE  /\ session' = [x \in Buses |-> session'[x]] /\ session'[b] = NoSession
           /\ \A x \in Buses \ {b} : session'[x] = session[x]
           /\ iterator' = [queue |-> iterator'.queue, state |-> iterator'.state]
           /\ iterator'.queue = iterator.queue /\ iterator'.state \in {iterator.state, "failed"}
           /\ IF b = Home /\ Has(b) THEN iterator'.state = "failed" ELSE iterator' = iterator
<1>1. /\ session' = [x \in Buses |-> session'[x]] /\ session'[b] = NoSession
      /\ \A x \in Buses \ {b} : session'[x] = session[x]
  BY DEF StateOK
<1>2. iterator = [queue |-> iterator.queue, state |-> iterator.state]  BY DEF StateOK
<1>3. CASE ~Has(b)  BY <1>1, <1>2, <1>3 DEF Abandon, Has
<1>4. CASE Has(b) /\ b = Home  BY <1>4, <1>1, <1>2 DEF SessionsFit, SessionFits, Abandon, Has
<1>5. CASE Has(b) /\ b # Home
  <2>1. <<session[b].source, b>> \in Links  BY <1>5 DEF SessionsFit, SessionFits
  <2>2. session[b].source # b  BY <2>1, LinkKinds
  <2> QED  BY <1>1, <1>2, <1>5, <2>2 DEF Abandon, Has
<1> QED  BY <1>3, <1>4, <1>5

LEMMA ReturnKeeps ==
    ASSUME AskInv, CallReturn
    PROVE  AskInv'
<1>1. /\ StateOK /\ RoutesHold /\ SessionsFit /\ IteratorFits
      /\ ResultsAreOnce /\ AsksAreFresh /\ NobodyIsMissed
      /\ UNCHANGED <<publisher, loopback, subscribers, strangers, denied, hops, open, alive,
                     link, executing, asked, consumed>>
      /\ asked /\ consumer' = "ended" /\ Abandon(Home)
      /\ session' = [session EXCEPT ![Home] = NoSession]
  BY DEF AskInv, CallReturn, setup, Home
<1>2. Home \in Buses  BY <1>1, Homes
<1>3. /\ session' = [x \in Buses |-> session'[x]] /\ session'[Home] = NoSession
      /\ \A x \in Buses \ {Home} : session'[x] = session[x]
      /\ iterator' = [queue |-> iterator'.queue, state |-> iterator'.state]
      /\ iterator'.queue = iterator.queue /\ iterator'.state \in {iterator.state, "failed"}
      /\ IF Home = Home /\ Has(Home) THEN iterator'.state = "failed" ELSE iterator' = iterator
  BY <1>1, <1>2, Abandoned
<1>4. Delivered' = Delivered  BY <1>1, <1>3 DEF Delivered
<1>5. /\ iterator.state \in {"open", "closed", "failed"} /\ iterator.queue \in Seq(Nodes)
      /\ consumed \in Seq(Nodes) /\ alive \subseteq open /\ open \subseteq Links
  BY <1>1 DEF StateOK
<1>6. Falls  BY <1>1, <1>3, <1>4, <1>5, SameLinks DEF Falls
<1>7. StateOK' /\ SessionsFit' /\ ResultsAreOnce' /\ AsksAreFresh'  BY <1>1, <1>6, FallsKeeps
<1>8. \A n \in Nodes : StillToCome(n) => iterator'.state = "failed"  BY <1>1, <1>3, WaitsAtHome
<1>9. NobodyIsMissed'  BY <1>1, <1>3, <1>6, <1>8, FallsMissed
<1>10. RoutesHold'  BY <1>1 DEF RoutesHold
<1>11. IteratorFits'  BY <1>1, <1>2, <1>3 DEF IteratorFits, Has, Home
<1> QED  BY <1>7, <1>9, <1>10, <1>11 DEF AskInv

\* What is on a link that breaks is lost.
LEMMA Broken ==
    ASSUME StateOK, NEW S, link' = [l \in Links |-> IF l \in S THEN <<>> ELSE link[l]]
    PROVE  link' = [l \in Links |-> link'[l]] /\ Thinner(link')
BY DEF Thinner

LEMMA LinkBreaksKeeps ==
    ASSUME AskInv, NEW c \in Buses \ {Root}, LinkBreaks(c)
    PROVE  AskInv'
<1>1. /\ StateOK /\ RoutesHold /\ SessionsFit /\ IteratorFits
      /\ ResultsAreOnce /\ AsksAreFresh /\ NobodyIsMissed
      /\ UNCHANGED <<publisher, loopback, subscribers, strangers, denied, hops, open, session,
                     executing, asked, iterator, consumer, consumed>>
      /\ alive' = alive \ Ends(c)
      /\ link' = [l \in Links |-> IF l \in Ends(c) THEN <<>> ELSE link[l]]
  BY DEF AskInv, LinkBreaks, Break, setup
<1>2. alive' \subseteq alive /\ alive' \subseteq open' /\ open' \subseteq Links  BY <1>1 DEF StateOK
<1>3. Falls  BY <1>1, <1>2, SameSessions, SameIterator, Broken DEF Falls
<1>4. StateOK' /\ SessionsFit' /\ ResultsAreOnce' /\ AsksAreFresh'  BY <1>1, <1>3, FallsKeeps
<1>5. ASSUME NEW n \in Nodes, StillToCome(n),
             \A m \in Path(n) : m \in alive' /\ Back(m) \in alive'
      PROVE  StillToCome(n)'
  BY <1>1, <1>2, <1>5, <1>3, <1>4, FallsWaits
<1>6. NobodyIsMissed'  BY <1>1, <1>3, <1>5, FallsMissed
<1>7. RoutesHold' /\ IteratorFits'  BY <1>1, <1>2 DEF RoutesHold, IteratorFits, Has, Home
<1> QED  BY <1>4, <1>6, <1>7 DEF AskInv

LEMMA CloseBusKeeps ==
    ASSUME AskInv, NEW b \in Buses, CloseBus(b)
    PROVE  AskInv'
<1> DEFINE S == { l \in Links : b \in {l[1], l[2]} }
<1>1. /\ StateOK /\ RoutesHold /\ SessionsFit /\ IteratorFits
      /\ ResultsAreOnce /\ AsksAreFresh /\ NobodyIsMissed
      /\ UNCHANGED <<publisher, loopback, subscribers, strangers, denied, hops, open,
                     executing, asked, consumed>>
      /\ asked /\ alive' = alive \ S
      /\ link' = [l \in Links |-> IF l \in S THEN <<>> ELSE link[l]]
      /\ Abandon(b) /\ session' = [session EXCEPT ![b] = NoSession]
      /\ consumer' = "waiting" => consumer = "waiting"
  BY DEF AskInv, CloseBus, Break, setup
<1>2. /\ session' = [x \in Buses |-> session'[x]] /\ session'[b] = NoSession
      /\ \A x \in Buses \ {b} : session'[x] = session[x]
      /\ iterator' = [queue |-> iterator'.queue, state |-> iterator'.state]
      /\ iterator'.queue = iterator.queue /\ iterator'.state \in {iterator.state, "failed"}
      /\ IF b = Home /\ Has(b) THEN iterator'.state = "failed" ELSE iterator' = iterator
  BY <1>1, Abandoned
<1>3. Delivered' = Delivered  BY <1>1, <1>2 DEF Delivered
<1>4. /\ iterator.state \in {"open", "closed", "failed"} /\ iterator.queue \in Seq(Nodes)
      /\ consumed \in Seq(Nodes) /\ alive \subseteq open /\ open \subseteq Links
      /\ consumer = "waiting" => iterator.queue = <<>>
  BY <1>1 DEF StateOK
<1>5. link' = [l \in Links |-> link'[l]] /\ Thinner(link')  BY <1>1, Broken
<1> HIDE DEF S
<1>6. Falls  BY <1>1, <1>2, <1>3, <1>4, <1>5 DEF Falls
<1>7. StateOK' /\ SessionsFit' /\ ResultsAreOnce' /\ AsksAreFresh'  BY <1>1, <1>6, FallsKeeps
<1>8. ASSUME NEW n \in Nodes, StillToCome(n),
             \A m \in Path(n) : m \in alive' /\ Back(m) \in alive'
      PROVE  StillToCome(n)' \/ iterator'.state = "failed"
  <2>1. CASE b = Home  BY <1>1, <1>2, <1>8, <2>1, WaitsAtHome
  <2>2. CASE b # Home
    <3>1. \A m \in Path(n) : m \in Links /\ Back(m) \in Links /\ m \notin S /\ Back(m) \notin S
      BY <1>1, <1>4, <1>8
    <3>2. \A m \in Path(n) : m[1] # b /\ m[2] # b /\ m[1] \in Buses  BY <3>1, LinkKinds DEF S
    <3>3. HomeOf[n] # b /\ HomeOf[n] \in Buses  BY <1>1, <2>2, <3>2, PathLast, Homes
    <3>4. \A m \in Path(n) : /\ session'[m[1]] = session[m[1]]
                             /\ link'[m] = link[m] /\ link'[Back(m)] = link[Back(m)]
      BY <1>1, <1>2, <3>1, <3>2
    <3> QED  BY <1>1, <1>2, <1>6, <1>7, <1>8, <3>3, <3>4, FallsWaits
  <2> QED  BY <2>1, <2>2
<1>9. NobodyIsMissed'  BY <1>1, <1>2, <1>6, <1>8, FallsMissed
<1>10. RoutesHold'  BY <1>1 DEF RoutesHold
<1>11. Home \in Buses  BY <1>1, Homes
<1>12. IteratorFits'  BY <1>1, <1>2, <1>11 DEF IteratorFits, Has, Home
<1> QED  BY <1>7, <1>9, <1>10, <1>12 DEF AskInv

-----------------------------------------------------------------------------
(* An answer that finds no session goes on to the parent. *)

Passed(l) ==
    [m \in Links |-> IF m[1] = l[2] /\ m[2] \in Parents(l[2]) /\ m \in open \cap alive
                     THEN <<Head(link[l])>> ELSE <<>>]

LEMMA PassedAre ==
    ASSUME NEW l \in Links, NEW m \in Links
    PROVE  /\ IsSeq(Passed(l)[m])
           /\ Passed(l)[m] = <<>> \/ (m = <<l[2], ParentOf[l[2]]>> /\ Passed(l)[m] = <<Head(link[l])>>)
           /\ \A i \in DOMAIN Passed(l)[m] :
                m = <<l[2], ParentOf[l[2]]>> /\ i = 1 /\ Passed(l)[m][i] = Head(link[l])
<1>1. CASE m[1] = l[2] /\ m[2] \in Parents(l[2]) /\ m \in open \cap alive
  BY <1>1, LinkKinds, OneSeq DEF Parents, Passed
<1>2. CASE ~(m[1] = l[2] /\ m[2] \in Parents(l[2]) /\ m \in open \cap alive)  BY <1>2, NoMessages DEF Passed
<1> QED  BY <1>1, <1>2

LEMMA RouteLink ==
    ASSUME StateOK, NEW l \in Links, RouteUpstream(l)
    PROVE  link' = Sent(Taken({l}), Passed(l)) /\ FullLinks({l})
<1>1. FullLinks({l})  BY DEF FullLinks, RouteUpstream, Arrived
<1>2. Taken({l}) = Without(l) /\ \A m \in Links : IsSeq(Taken({l})[m])  BY <1>1, TakenIs
<1> DEFINE net == Taken({l})  out == Passed(l)
<1>3. link' = [m \in Links |->
         IF m[1] = l[2] /\ m[2] \in Parents(l[2])
         THEN Transmit(net, m, <<Head(link[l])>>)[m] ELSE net[m]]
  BY <1>2 DEF RouteUpstream
<1>4. net = [m \in Links |-> net[m]]  BY DEF Taken
<1>5. ASSUME NEW m \in Links, out[m] = <<>>  PROVE Sent(net, out)[m] = net[m]
  <2> HIDE DEF net, out
  <2> QED  BY <1>2, <1>5, SentNone DEF net
<1>6. ASSUME NEW m \in Links  PROVE link'[m] = Sent(net, out)[m]
  <2>1. CASE m[1] = l[2] /\ m[2] \in Parents(l[2]) /\ m \in open \cap alive
    <3>1. out[m] = <<Head(link[l])>>  BY <2>1 DEF Passed
    <3> HIDE DEF net, out
    <3>2. Transmit(net, m, <<Head(link[l])>>)[m] = net[m] \o <<Head(link[l])>>  BY <2>1, <1>4 DEF Transmit
    <3> QED  BY <1>3, <2>1, <3>1, <3>2 DEF Sent
  <2>2. CASE ~(m[1] = l[2] /\ m[2] \in Parents(l[2]) /\ m \in open \cap alive)
    <3>1. out[m] = <<>>  BY <2>2 DEF Passed
    <3> HIDE DEF net, out
    <3>2. m \notin open \cap alive => Transmit(net, m, <<Head(link[l])>>)[m] = net[m]  BY DEF Transmit
    <3>3. link'[m] = net[m]  BY <1>3, <2>2, <3>2
    <3> QED  BY <1>5, <3>1, <3>3
  <2> QED  BY <2>1, <2>2
<1>7. link' = [m \in Links |-> link'[m]] /\ Sent(net, out) = [m \in Links |-> Sent(net, out)[m]]
  BY <1>3 DEF Sent
<1> HIDE DEF net, out
<1>8. link' = Sent(net, out)  BY <1>6, <1>7
<1> QED  BY <1>1, <1>8 DEF net, out

RouteOf(l) ==
    /\ l \in Links /\ l[2] \in Buses /\ ~Has(l[2]) /\ asked /\ FullLinks({l})
    /\ IsSeq(link[l]) /\ link[l] # <<>> /\ Head(link[l]) = link[l][1] /\ 1 \in DOMAIN link[l]
    /\ Head(link[l]) # Ask /\ IsMessage(Head(link[l]))
    /\ link' = Sent(Taken({l}), Passed(l)) /\ Thinner(Taken({l}))
    /\ \A m \in Links : IsSeq(Taken({l})[m]) /\ IsSeq(Passed(l)[m])
    /\ UNCHANGED <<publisher, loopback, subscribers, strangers, denied, hops, open, alive, session,
                   executing, asked, iterator, consumer, consumed>>

LEMMA RouteIs ==
    ASSUME StateOK, AsksAreFresh, NEW l \in Links, RouteUpstream(l)
    PROVE  RouteOf(l)
<1>1. /\ link[l] # <<>> /\ ~Has(l[2]) /\ (Head(link[l]).type = "result" \/ Head(link[l]).type = "fin")
      /\ UNCHANGED <<publisher, loopback, subscribers, strangers, denied, hops, open, alive, session,
                     executing, asked, iterator, consumer, consumed>>
  BY DEF RouteUpstream, Arrived, Has, setup
<1>2. 1 \in DOMAIN link[l] /\ Head(link[l]) = link[l][1] /\ IsSeq(link[l])  BY <1>1, HeadIs
<1>3. Head(link[l]) # Ask /\ IsMessage(Head(link[l]))  BY <1>1, <1>2, Types DEF StateOK
<1>4. asked /\ l[2] \in Buses  BY <1>1, AskedIf, LinkKinds
<1>5. link' = Sent(Taken({l}), Passed(l)) /\ FullLinks({l})  BY RouteLink
<1>6. Thinner(Taken({l})) /\ \A m \in Links : IsSeq(Taken({l})[m]) /\ IsSeq(Passed(l)[m])
  BY <1>5, TakenIs, PassedAre
<1> QED  BY <1>1, <1>2, <1>3, <1>4, <1>5, <1>6 DEF RouteOf

\* Where each message comes from.
LEMMA RouteFrom ==
    ASSUME NEW l, RouteOf(l), NEW m \in Links, NEW i \in DOMAIN link'[m]
    PROVE  \/ i \in DOMAIN Taken({l})[m] /\ link'[m][i] = Taken({l})[m][i]
           \/ link'[m][i] = Head(link[l]) /\ m[1] = l[2]
<1> DEFINE net == Taken({l})  out == Passed(l)
<1>1. link' = Sent(net, out) /\ IsSeq(net[m]) /\ IsSeq(out[m]) /\ l \in Links  BY DEF RouteOf
<1>2. \A j \in DOMAIN out[m] : m = <<l[2], ParentOf[l[2]]>> /\ out[m][j] = Head(link[l])  BY <1>1, PassedAre
<1> HIDE DEF net, out
<1>3. \/ i \in DOMAIN net[m] /\ Sent(net, out)[m][i] = net[m][i]
      \/ /\ i \notin DOMAIN net[m] /\ Len(net[m]) \in Nat /\ i \in Nat /\ i > Len(net[m])
         /\ i - Len(net[m]) \in DOMAIN out[m]
         /\ Sent(net, out)[m][i] = out[m][i - Len(net[m])]
  BY <1>1, SentFrom
<1> QED  BY <1>1, <1>2, <1>3 DEF net

LEMMA RouteTyped ==
    ASSUME StateOK, NEW l, RouteOf(l)
    PROVE  StateOK'
<1>1. link' = [m \in Links |-> link'[m]]  BY DEF RouteOf, Sent
<1>2. ASSUME NEW m \in Links
      PROVE  IsSeq(link'[m]) /\ \A i \in DOMAIN link'[m] : IsMessage(link'[m][i])
  <2>1. IsSeq(link'[m])
    <3> DEFINE net == Taken({l})  out == Passed(l)
    <3>1. link' = Sent(net, out) /\ IsSeq(net[m]) /\ IsSeq(out[m])  BY DEF RouteOf
    <3> HIDE DEF net, out
    <3> QED  BY <3>1, SentSeq
  <2>2. \A i \in DOMAIN Taken({l})[m] : IsMessage(Taken({l})[m][i])  BY ThinnerIs DEF RouteOf
  <2>3. \A i \in DOMAIN link'[m] : IsMessage(link'[m][i])  BY <2>2, RouteFrom DEF RouteOf
  <2> QED  BY <2>1, <2>3
<1> QED  BY <1>1, <1>2 DEF StateOK, RouteOf

LEMMA RouteOnce ==
    ASSUME StateOK, ResultsAreOnce, NEW l, RouteOf(l)
    PROVE  ResultsAreOnce'
<1> DEFINE net == Taken({l})  out == Passed(l)  t == <<l[2], ParentOf[l[2]]>>
<1>1. /\ link' = Sent(net, out) /\ Thinner(net) /\ l \in Links /\ link[l] # <<>>
      /\ \A m \in Links : IsSeq(net[m]) /\ IsSeq(out[m])
      /\ executing' = executing /\ Delivered' = Delivered
  BY DEF RouteOf, Delivered
<1>2. \A m \in Links : \A i \in DOMAIN out[m] : m = t /\ i = 1 /\ out[m][i] = Head(link[l])
  BY <1>1, PassedAre
<1>3. ASSUME NEW n \in Nodes  PROVE OnePlace(n, link', executing', Delivered')
  <2>1. OnePlace(n, link, executing, Delivered)  BY DEF ResultsAreOnce
  <2>2. CASE Head(link[l]) = Result(n)
    <3>1. /\ n \notin executing /\ OffLinks(net, n)
          /\ \A i \in DOMAIN Delivered : Delivered[i] # n
      BY <1>1, <2>1, <2>2, HeadAlone
    <3> HIDE DEF net, out, t
    <3>2. \A m \in Links : \A i \in DOMAIN out[m] : out[m][i] = Result(n) => m = t /\ i = 1  BY <1>2
    <3>3. OnePlace(n, Sent(net, out), executing, Delivered)  BY <1>1, <3>1, <3>2, SentOnce
    <3> QED  BY <1>1, <3>3
  <2>3. CASE Head(link[l]) # Result(n)
    <3>1. OnePlace(n, net, executing, Delivered)  BY <1>1, <2>1, ThinnerPlace
    <3> HIDE DEF net, out, t
    <3>2. \A m \in Links : \A i \in DOMAIN out[m] : out[m][i] # Result(n)  BY <1>2, <2>3
    <3> QED  BY <1>1, <3>1, <3>2, SentOther
  <2> QED  BY <2>2, <2>3
<1> QED  BY <1>3 DEF ResultsAreOnce

LEMMA RouteNowhere ==
    ASSUME StateOK, NEW l, RouteOf(l), NEW n \in Nodes, Nowhere(n)
    PROVE  Nowhere(n)'
<1>1. /\ n \notin executing /\ OffLinks(link, n) /\ \A i \in DOMAIN Delivered : Delivered[i] # n
      /\ executing' = executing /\ Delivered' = Delivered /\ Thinner(Taken({l})) /\ l \in Links
      /\ Head(link[l]) = link[l][1] /\ 1 \in DOMAIN link[l]
  BY DEF Nowhere, RouteOf, Delivered
<1>2. Head(link[l]) # Result(n)  BY <1>1 DEF OffLinks
<1>3. OffLinks(Taken({l}), n)  BY <1>1, ThinnerIs DEF OffLinks
<1>4. OffLinks(link', n)
  <2>1. ASSUME NEW m \in Links, NEW i \in DOMAIN link'[m]  PROVE link'[m][i] # Result(n)
    BY <1>2, <1>3, <2>1, RouteFrom DEF OffLinks
  <2> QED  BY <2>1 DEF OffLinks
<1> QED  BY <1>1, <1>4 DEF Nowhere

LEMMA RouteAsks ==
    ASSUME StateOK, AsksAreFresh, NEW l, RouteOf(l)
    PROVE  AsksAreFresh'
<1>1. /\ l \in Links /\ link[l] # <<>> /\ IsSeq(link[l]) /\ l[2] \in Buses /\ Head(link[l]) # Ask
      /\ link' = Sent(Taken({l}), Passed(l)) /\ session' = session /\ publisher' = publisher
      /\ asked' /\ Thinner(Taken({l}))
      /\ \A m \in Links : IsSeq(Taken({l})[m]) /\ IsSeq(Passed(l)[m])
  BY DEF RouteOf
<1>2. ASSUME NEW m \in Links, NEW i \in DOMAIN link'[m], link'[m][i] = Ask
      PROVE  m # l /\ i = 1 /\ Away(m) /\ Fresh(Side(m))
  <2>1. i \in DOMAIN Taken({l})[m] /\ Taken({l})[m][i] = Ask  BY <1>1, <1>2, RouteFrom
  <2>2. m # l
    <3>1. SUFFICES ASSUME m = l  PROVE FALSE  OBVIOUS
    <3>2. i \in DOMAIN Tail(link[l]) /\ Tail(link[l])[i] = Ask  BY <1>1, <2>1, <3>1 DEF Taken
    <3>3. /\ i \in Nat /\ i + 1 \in DOMAIN link[l] /\ link[l][i + 1] = Ask
          /\ \A j \in DOMAIN link[l] : j \in Nat /\ j >= 1
          /\ DOMAIN Tail(link[l]) \subseteq DOMAIN link[l]
      BY <1>1, <3>2, SeqTail
    <3>4. i + 1 = 1 /\ i >= 1  BY <1>1, <3>2, <3>3 DEF AsksAreFresh
    <3> QED  BY <3>3, <3>4
  <2>3. i \in DOMAIN link[m] /\ link[m][i] = Ask  BY <2>1, <2>2 DEF Taken
  <2> QED  BY <2>2, <2>3 DEF AsksAreFresh
<1>3. ASSUME NEW m \in Links, m # l, Fresh(Side(m))  PROVE Fresh(Side(m))'
  <2>1. l[2] \notin Side(m)  BY <1>1, <1>3, Crossing DEF Fresh
  <2>2. \A b \in Side(m) : ~Has(b)'  BY <1>1, <1>3 DEF Fresh, Has
  <2>3. \A n \in Nodes : HomeOf[n] \in Side(m) => Nowhere(n)'  BY <1>3, RouteNowhere DEF Fresh
  <2>4. ASSUME NEW k \in Links, k[1] \in Side(m)  PROVE link'[k] = <<>>
    <3> DEFINE net == Taken({l})  out == Passed(l)
    <3>1. link[k] = <<>> /\ k # l /\ k[1] # l[2]  BY <1>1, <1>3, <2>1, <2>4 DEF Fresh
    <3>2. net[k] = <<>> /\ out[k] = <<>>  BY <3>1 DEF Taken, Passed
    <3>3. link' = Sent(net, out) /\ IsSeq(net[k])  BY <1>1
    <3> HIDE DEF net, out
    <3> QED  BY <3>2, <3>3, SentNone
  <2> QED  BY <2>2, <2>3, <2>4 DEF Fresh
<1>4. ASSUME NEW m \in Links, NEW i \in DOMAIN link'[m], link'[m][i] = Ask
      PROVE  i = 1 /\ Away(m)' /\ Fresh(Side(m))'
  BY <1>2, <1>4, <1>1, <1>3 DEF Away, Home
<1> QED  BY <1>1, <1>4 DEF AsksAreFresh

LEMMA RouteWaits ==
    ASSUME StateOK, AsksAreFresh', NEW l, RouteOf(l), NEW n \in Nodes, StillToCome(n)
    PROVE  StillToCome(n)'
<1> DEFINE net == Taken({l})  out == Passed(l)
<1>1. /\ l \in Links /\ link[l] # <<>> /\ IsSeq(link[l]) /\ ~Has(l[2]) /\ Head(link[l]) # Ask
      /\ link' = Sent(net, out) /\ \A m \in Links : IsSeq(net[m]) /\ IsSeq(out[m])
      /\ session' = session /\ publisher' = publisher /\ executing' = executing
  BY DEF RouteOf
<1>2. ASSUME NEW m \in Links
      PROVE  /\ NoFin(link[m]) => NoFin(net[m])
             /\ HasAsk(link[m]) => HasAsk(net[m])
             /\ m # l => net[m] = link[m]
  BY <1>1, AfterTail DEF Taken
<1>3. ASSUME NEW m \in Links
      PROVE  /\ HasAsk(link[m]) => HasAsk(link'[m])
             /\ NoFin(link[m]) => NoFin(link'[m]) \/ m[1] = l[2]
             /\ m # l /\ Comes(n, link[m]) => Comes(n, link'[m])
  <2>1. /\ IsSeq(net[m]) /\ IsSeq(out[m])
        /\ NoFin(link[m]) => NoFin(net[m])
        /\ HasAsk(link[m]) => HasAsk(net[m])
        /\ m # l => net[m] = link[m]
        /\ m[1] # l[2] => out[m] = <<>>
    BY <1>1, <1>2 DEF Passed
  <2> HIDE DEF net, out
  <2>2. link'[m] = net[m] \o out[m]  BY <1>1 DEF Sent
  <2>3. m[1] # l[2] => NoFin(out[m])  BY <2>1, NoMessages DEF NoFin
  <2> QED  BY <2>1, <2>2, <2>3, AfterSend
<1> HIDE DEF net, out
<1>4. \A m \in Path(n) : m \in Links /\ Back(m) \in Links /\ Back(m)[1] = m[2] /\ Back(m)[2] = m[1]
  BY PathFacts DEF Back
<1>5. \A m \in Path(n) : Awaits(m) => Awaits(m)' /\ Back(m) # l  BY <1>1, <1>4 DEF Awaits, Has
<1>6. \A m \in Path(n) : NoFin(link[Back(m)]) => NoFin(link'[Back(m)]) \/ ~Has(m[2])'
  BY <1>1, <1>3, <1>4 DEF Has
<1>7. \A m \in Path(n) : /\ Awaits(m) /\ Comes(n, link[Back(m)]) => Comes(n, link'[Back(m)])
                         /\ HasAsk(link[m]) => HasAsk(link'[m])
  BY <1>3, <1>4, <1>5
<1>8. n \in executing /\ Has(HomeOf[n]) => n \in executing' /\ Has(HomeOf[n])'  BY <1>1 DEF Has
<1> QED  BY <1>1, <1>5, <1>6, <1>7, <1>8, StillKept

LEMMA RouteKeeps ==
    ASSUME AskInv, NEW l \in Links, RouteUpstream(l)
    PROVE  AskInv'
<1>1. /\ StateOK /\ RoutesHold /\ SessionsFit /\ IteratorFits
      /\ ResultsAreOnce /\ AsksAreFresh /\ NobodyIsMissed
  BY DEF AskInv
<1>2. RouteOf(l)  BY <1>1, RouteIs
<1>3. UNCHANGED <<publisher, loopback, subscribers, strangers, denied, hops, open, alive, session,
                  executing, asked, iterator, consumer, consumed>>
  BY <1>2 DEF RouteOf
<1>4. StateOK' /\ ResultsAreOnce' /\ AsksAreFresh'  BY <1>1, <1>2, RouteTyped, RouteOnce, RouteAsks
<1>5. RoutesHold' /\ IteratorFits'  BY <1>1, <1>3 DEF RoutesHold, IteratorFits, Has, Home
<1>6. SessionsFit'
  <2>1. ASSUME NEW b \in Buses, Has(b)'
        PROVE  /\ SessionFits(b, session[b])'
               /\ session'[b].local.received + Cardinality(Running(b)') <= session'[b].local.expected
    BY <1>1, <1>3, <2>1, FitsPrimed DEF SessionsFit, Has, Running, SessionFits
  <2> QED  BY <2>1 DEF SessionsFit
<1>7. NobodyIsMissed'
  <2>1. ASSUME NEW n \in Nodes, asked', Owed(n)'
        PROVE  IsDelivered(n)' \/ iterator'.state = "failed" \/ StillToCome(n)'
    <3>1. asked /\ Owed(n)  BY <1>3, <2>1 DEF Owed, Up, Down
    <3>2. IsDelivered(n) \/ iterator.state = "failed" \/ StillToCome(n)  BY <1>1, <3>1 DEF NobodyIsMissed
    <3>3. IsDelivered(n) => IsDelivered(n)'  BY <1>3 DEF IsDelivered, Delivered
    <3>4. StillToCome(n) => StillToCome(n)'  BY <1>1, <1>2, <1>4, RouteWaits
    <3> QED  BY <1>3, <3>2, <3>3, <3>4
  <2> QED  BY <2>1 DEF NobodyIsMissed
<1> QED  BY <1>4, <1>5, <1>6, <1>7 DEF AskInv

-----------------------------------------------------------------------------
(* All steps together. *)

LEMMA InitKeeps == Init => AskInv
<1> SUFFICES ASSUME Init  PROVE AskInv  OBVIOUS
<1>1. /\ publisher \in Nodes /\ subscribers \subseteq Nodes /\ loopback \in BOOLEAN
      /\ Interested(subscribers) \subseteq hops
      /\ open = Links /\ alive = Links
      /\ session = [b \in Buses |-> NoSession]
      /\ link = [l \in Links |-> <<>>]
      /\ executing = {} /\ asked = FALSE
      /\ iterator = NewIterator /\ consumer = "idle" /\ consumed = <<>>
  BY DEF Init
<1>2. /\ iterator = [queue |-> iterator.queue, state |-> iterator.state]
      /\ iterator.queue = <<>> /\ iterator.state = "open"
  BY <1>1 DEF NewIterator
<1>3. \A l \in Links : IsSeq(link[l]) /\ DOMAIN link[l] = {}  BY <1>1, NoMessages
<1>4. Delivered = <<>> /\ DOMAIN Delivered = {}  BY <1>1, <1>2, NoMessages DEF Delivered
<1>5. StateOK
  <2>1. session = [b \in Buses |-> session[b]] /\ link = [l \in Links |-> link[l]]  BY <1>1
  <2>2. <<>> \in Seq(Nodes) /\ consumer # "waiting" /\ executing \subseteq Nodes  BY <1>1
  <2> QED  BY <1>1, <1>2, <1>3, <2>1, <2>2 DEF StateOK
<1>6. RoutesHold
  <2>1. ASSUME NEW n \in subscribers, NEW c \in Above[HomeOf[n]] \ {Root}  PROVE c \in hops
    <3>1. c \in Buses \ {Root}  BY <1>1, <1>5, <2>1, Homes, AboveFacts
    <3> QED  BY <1>1, <2>1, <3>1 DEF Interested
  <2> QED  BY <2>1 DEF RoutesHold
<1>7. \A b \in Buses : ~Has(b)  BY <1>1 DEF Has
<1>8. \A n : Nowhere(n)  BY <1>1, <1>3, <1>4 DEF Nowhere, OffLinks
<1>9. ResultsAreOnce  BY <1>3, <1>4, <1>8 DEF ResultsAreOnce, OnePlace, Nowhere
<1>10. AsksAreFresh  BY <1>1, <1>2, <1>3, <1>7, <1>8 DEF AsksAreFresh, Fresh
<1> QED  BY <1>1, <1>5, <1>6, <1>7, <1>9, <1>10 DEF AskInv, SessionsFit, IteratorFits, NobodyIsMissed

LEMMA NextKeeps == AskInv /\ [Next]_vars => AskInv'
<1> SUFFICES ASSUME AskInv, [Next]_vars  PROVE AskInv'  OBVIOUS
<1>1. CASE Publish  BY <1>1, PublishKeeps
<1>2. CASE Deliver
  <2>1. PICK l \in Links : DropAsk(l) \/ RelayAsk(l) \/ UpdateSession(l) \/ RouteUpstream(l)
    BY <1>2 DEF Deliver, Receive
  <2> QED  BY <2>1, DropKeeps, RelayKeeps, UpdateKeeps, RouteKeeps
<1>3. ASSUME NEW n \in Nodes, Answer(n)  PROVE AskInv'  BY <1>3, AnswerKeeps, LateAnswerKeeps
<1>4. CASE CallNext  BY <1>4, CallNextKeeps
<1>5. CASE CallReturn  BY <1>5, ReturnKeeps
<1>6. ASSUME NEW c \in Buses \ {Root}, LinkBreaks(c)  PROVE AskInv'  BY <1>6, LinkBreaksKeeps
<1>7. ASSUME NEW b \in Buses, CloseBus(b)  PROVE AskInv'  BY <1>7, CloseBusKeeps
<1>8. CASE Notice
  <2>1. PICK l \in Links : NoticeDrop(l)  BY <1>8 DEF Notice
  <2> QED  BY <2>1, NoticeKeeps, LateNoticeKeeps
<1>9. CASE UNCHANGED vars  BY <1>9, StutterKeeps
<1> QED  BY <1>1, <1>2, <1>3, <1>4, <1>5, <1>6, <1>7, <1>8, <1>9 DEF Next

\* A closed iterator has no session behind it, so nothing is still to come.
LEMMA AskInvCompletes == AskInv => CompleteMeansAll
<1> SUFFICES ASSUME AskInv  PROVE CompleteMeansAll  OBVIOUS
<1>1. StateOK /\ IteratorFits /\ ResultsAreOnce /\ NobodyIsMissed  BY DEF AskInv
<1>2. Delivered \in Seq(Nodes) /\ IsSeq(Delivered)  BY <1>1, DeliveredIs
<1>3. NoResultTwice
  <2>1. ASSUME NEW i \in DOMAIN Delivered, NEW j \in DOMAIN Delivered, Delivered[i] = Delivered[j]
        PROVE  i = j
    BY <1>2, <1>1, <2>1 DEF ResultsAreOnce, OnePlace
  <2> QED  BY <2>1 DEF NoResultTwice, IsInjective, Delivered
<1>4. ASSUME asked, iterator.state = "closed", NEW n \in Nodes, Owed(n)  PROVE n \in Yielded
  <2>1. ~Has(Home)  BY <1>1, <1>4 DEF IteratorFits
  <2>2. ~StillToCome(n)  BY <1>1, <2>1, WaitsAtHome
  <2>3. PICK i \in DOMAIN Delivered : Delivered[i] = n  BY <1>1, <1>4, <2>2 DEF NobodyIsMissed, IsDelivered
  <2>4. consumed \in Seq(Nodes) /\ iterator.queue \in Seq(Nodes)  BY <1>1 DEF StateOK
  <2>5. IsSeq(consumed) /\ IsSeq(iterator.queue)  BY <2>4, SeqTyped
  <2>6. (\E j \in DOMAIN consumed : consumed[j] = n) \/ (\E j \in DOMAIN iterator.queue : iterator.queue[j] = n)
    BY <2>3, <2>5, JoinFrom DEF Delivered
  <2> QED  BY <2>6 DEF Yielded, ToSet
<1> QED  BY <1>3, <1>4 DEF CompleteMeansAll

\* For every tree of buses and every set of nodes on it: an iterator that ends normally
\* has delivered the result of every subscriber that was to be asked, and no result
\* twice, whatever links break and buses close on the way and whenever the consumer
\* leaves (AskSession.checkCompletion, SessionManager, dispatchBroadcast).
THEOREM CompleteAlwaysMeansAll == Spec => []CompleteMeansAll
BY NextKeeps, InitKeeps, AskInvCompletes, PTL DEF Spec

-----------------------------------------------------------------------------
(* The books.                                                              *)

NodesIn(S) == { n \in Nodes : HomeOf[n] \in S }
Cap(l)     == Cardinality(NodesIn(Side(l)))

\* The sum of the values of f.
Total(f) == (CHOOSE s \in [SUBSET DOMAIN f -> Nat] : Sums(s, f, DOMAIN f))[DOMAIN f]

\* The results a session has taken, all of which it has passed on.
Received(s) == [d \in DOMAIN s.branch |-> s.branch[d].received]
Expected(s) == [d \in DOMAIN s.branch |-> s.branch[d].expected]
Counted(s)  == s.local.received + Total(Received(s))

MoreTypes ==
    /\ strangers \subseteq subscribers /\ denied \subseteq Buses /\ hops \subseteq Buses
    /\ executing \subseteq subscribers \ strangers
    /\ consumer \in {"idle", "waiting", "ended"}
    /\ silent \subseteq Buses \X (Buses \cup Nodes) /\ troubles \in 0 .. MaxTroubles

IsFin(m) == m.type = "fin" => \E k \in 0 .. Cardinality(Nodes) : m = Fin(k)
FinsFit  == \A l \in Links : \A i \in DOMAIN link[l] : IsFin(link[l][i])

\* A link is dead in both directions, and then empty.
DeadLinks ==
    /\ \A l \in Links : l \in alive <=> Back(l) \in alive
    /\ \A l \in Links \ alive : link[l] = <<>>

\* No branch has passed on more than there are nodes beyond it; one that has ended
\* has passed on what its ack_fin counts, or more, if links broke.
BranchAdds(l, k) ==
    /\ k.received \in Nat /\ k.expected \in Nat /\ k.received <= Cap(l)
    /\ k.status \in {"pending", "fin_received"}
    /\ k.status = "pending" => k.expected = 0
    /\ k.status = "fin_received" => k.expected <= k.received
    /\ k.status = "fin_received" /\ alive = Links => k.expected = k.received
BooksAdd(b, s) ==
    /\ s.local.status = "fin_received" /\ s.local.expected <= Cardinality(NodesIn({b}))
    /\ \A d \in DOMAIN s.branch : BranchAdds(<<b, d>>, s.branch[d])

AllBooksAdd == \A b \in Buses : Has(b) => BooksAdd(b, session[b])

\* Beyond l nothing has begun, or all is over; what comes the wrong way, when the
\* publisher has left, goes on to the root.
Over(l) ==
    /\ link[Back(l)] = <<>> /\ ~Has(l[2]) /\ ~HasAsk(link[l])
    /\ l[2] \in Children(l[1]) => link[l] = <<>>

\* What the branch beyond l has passed on has arrived or is on its way, and an
\* ack_fin comes last.
Arrives(l, k, q) ==
    /\ \A i \in DOMAIN link[l] : link[l][i] = Ask
    /\ HasAsk(link[l]) => k.received = 0
    /\ Has(l[2]) => NoFin(q) /\ k.received + Len(q) = Counted(session[l[2]])
    /\ \A i \in DOMAIN q :
         /\ q[i].type = "result" => k.received + i <= Cap(l)
         /\ q[i].type = "fin" => /\ i = Len(q) /\ q[i].total + 1 <= k.received + i
                                 /\ alive = Links => q[i].total + 1 = k.received + i

Left(l) == l[1] = Home /\ ~Has(Home)
FlowAt(l) ==
    IF Awaits(l) THEN Arrives(l, session[l[1]].branch[l[2]], link[Back(l)]) ELSE Left(l) \/ Over(l)
Flow == \A l \in alive : Away(l) => FlowAt(l)

Adds   == FinsFit /\ DeadLinks /\ AllBooksAdd /\ Flow
SumInv == MoreTypes /\ Adds

-----------------------------------------------------------------------------
(* Sums of two functions, and of sizes. *)

\* Sums compare as their terms do.
LEMMA SumsCompare ==
    ASSUME NEW S, IsFiniteSet(S), NEW f \in [S -> Nat], NEW g \in [S -> Nat],
           NEW s, Sums(s, f, S), NEW h, Sums(h, g, S),
           NEW T \in SUBSET S, \A x \in T : f[x] <= g[x]
    PROVE  s[T] <= h[T] /\ s[T] \in Nat /\ h[T] \in Nat
<1>0. /\ s \in [SUBSET S -> Nat] /\ h \in [SUBSET S -> Nat] /\ s[{}] = 0 /\ h[{}] = 0
      /\ \A U \in SUBSET S, x \in S : x \notin U => s[U \cup {x}] = f[x] + s[U] /\ h[U \cup {x}] = g[x] + h[U]
  BY DEF Sums
<1> DEFINE Q == {U \in SUBSET T : s[U] <= h[U]}
<1>1. {} \in Q  BY <1>0
<1>2. ASSUME NEW U \in SUBSET T, NEW x \in T, U \in Q, x \notin U PROVE U \cup {x} \in Q
  <2>1. x \in S /\ U \in SUBSET S  OBVIOUS
  <2>2. s[U \cup {x}] = f[x] + s[U] /\ h[U \cup {x}] = g[x] + h[U]  BY <1>0, <1>2, <2>1
  <2>3. s[U] <= h[U] /\ s[U] \in Nat /\ h[U] \in Nat /\ f[x] \in Nat /\ g[x] \in Nat /\ f[x] <= g[x]
    BY <1>0, <1>2, <2>1
  <2>4. s[U \cup {x}] <= h[U \cup {x}]  BY ONLY <2>2, <2>3
  <2> QED  BY <2>4
<1>3. IsFiniteSet(T)  BY FS_Subset
<1> HIDE DEF Q
<1>4. T \in Q  BY ONLY <1>1, <1>2, <1>3, SetInduction
<1> QED  BY <1>0, <1>4 DEF Q

LEMMA TotalIs ==
    ASSUME NEW D, IsFiniteSet(D), NEW f \in [D -> Nat]
    PROVE  \E s : Sums(s, f, D) /\ Total(f) = s[D] /\ Total(f) \in Nat
<1> DEFINE P(s) == s \in [SUBSET D -> Nat] /\ Sums(s, f, D)
<1>1. \E s : P(s)
  <2>1. PICK s \in [SUBSET D -> Nat] : Folds(s, f, D)  BY FoldExists
  <2>2. Sums(s, f, D)  BY <2>1, FoldsSum
  <2> QED  BY <2>2
<1>2. P(CHOOSE s : P(s))
  <2> HIDE DEF P
  <2> QED  BY <1>1
<1>3. (CHOOSE s \in [SUBSET D -> Nat] : Sums(s, f, D)) = CHOOSE s : P(s)  OBVIOUS
<1>4. DOMAIN f = D  OBVIOUS
<1> DEFINE t == CHOOSE s : P(s)
<1>5. Total(f) = t[D]  BY <1>3, <1>4 DEF Total
<1>6. t \in [SUBSET D -> Nat] /\ Sums(t, f, D)  BY <1>2
<1> HIDE DEF t
<1> QED  BY <1>5, <1>6

LEMMA TotalsCompare ==
    ASSUME NEW D, IsFiniteSet(D), NEW f \in [D -> Nat], NEW g \in [D -> Nat]
    PROVE  /\ Total(f) \in Nat /\ Total(g) \in Nat
           /\ (\A d \in D : f[d] <= g[d]) => Total(f) <= Total(g)
           /\ (\A d \in D : f[d] = g[d]) => Total(f) = Total(g)
<1>1. PICK s : Sums(s, f, D) /\ Total(f) = s[D] /\ Total(f) \in Nat  BY TotalIs
<1>2. PICK h : Sums(h, g, D) /\ Total(g) = h[D] /\ Total(g) \in Nat  BY TotalIs
<1>3. (\A d \in D : f[d] <= g[d]) => Total(f) <= Total(g)  BY <1>1, <1>2, SumsCompare
<1>4. ASSUME \A d \in D : f[d] = g[d] PROVE Total(f) = Total(g)  BY <1>4
<1> QED  BY <1>1, <1>2, <1>3, <1>4

LEMMA TotalOneMore ==
    ASSUME NEW D, IsFiniteSet(D), NEW f \in [D -> Nat], NEW g \in [D -> Nat], NEW e \in D,
           g[e] = f[e] + 1, \A d \in D \ {e} : g[d] = f[d]
    PROVE  Total(g) = Total(f) + 1
<1>1. PICK s : Sums(s, f, D) /\ Total(f) = s[D] /\ Total(f) \in Nat  BY TotalIs
<1>2. PICK h : Sums(h, g, D) /\ Total(g) = h[D] /\ Total(g) \in Nat  BY TotalIs
<1> DEFINE T == D \ {e}
<1>3. T \in SUBSET D /\ e \notin T /\ T \cup {e} = D  OBVIOUS
<1>4. (\A d \in T : f[d] <= g[d]) /\ (\A d \in T : g[d] <= f[d])  OBVIOUS
<1> HIDE DEF T
<1>5. s[T] <= h[T]  BY <1>1, <1>2, <1>3, <1>4, SumsCompare
<1>6. h[T] <= s[T]  BY <1>1, <1>2, <1>3, <1>4, SumsCompare
<1>7. s[D] = f[e] + s[T] /\ h[D] = g[e] + h[T] /\ s[T] \in Nat /\ h[T] \in Nat  BY <1>1, <1>2, <1>3 DEF Sums
<1>8. f[e] \in Nat  OBVIOUS
<1> QED  BY <1>1, <1>2, <1>5, <1>6, <1>7, <1>8

\* A sum of what is at most the size of one set each.
LEMMA TotalWithin ==
    ASSUME NEW D, IsFiniteSet(D), NEW f \in [D -> Nat], NEW W, IsFiniteSet(W),
           NEW X, \A d \in D : X[d] \subseteq W /\ f[d] <= Cardinality(X[d]),
           \A d, e \in D : d # e => X[d] \cap X[e] = {}
    PROVE  Total(f) <= Cardinality(UNION {X[d] : d \in D})
<1>1. PICK s : Sums(s, f, D) /\ Total(f) = s[D]  BY TotalIs
<1>2. /\ s \in [SUBSET D -> Nat] /\ s[{}] = 0
      /\ \A T \in SUBSET D, x \in D : x \notin T => s[T \cup {x}] = f[x] + s[T]
  BY <1>1 DEF Sums
<1> DEFINE All(T) == UNION {X[d] : d \in T}
           Q == {T \in SUBSET D : s[T] <= Cardinality(All(T))}
<1>4. \A T \in SUBSET D : All(T) \subseteq W /\ IsFiniteSet(All(T)) /\ Cardinality(All(T)) \in Nat
  <2> TAKE T \in SUBSET D
  <2>1. All(T) \subseteq W  OBVIOUS
  <2> HIDE DEF All
  <2> QED  BY <2>1, FS_Subset, FS_CardinalityType
<1>5. {} \in Q
  <2>1. {} \in SUBSET D  OBVIOUS
  <2>2. s[{}] <= Cardinality(All({}))
    <3> HIDE DEF All
    <3> QED  BY <1>2, <1>4, <2>1
  <2> QED  BY <2>1, <2>2
<1>6. ASSUME NEW U \in SUBSET D, NEW e \in D, U \in Q, e \notin U PROVE U \cup {e} \in Q
  <2>5. All(U \cup {e}) = All(U) \cup X[e] /\ All(U) \cap X[e] = {}  BY <1>6
  <2>6. s[U] <= Cardinality(All(U)) /\ s[U] \in Nat  BY <1>2, <1>6
  <2>7. s[U \cup {e}] = f[e] + s[U] /\ f[e] \in Nat /\ f[e] <= Cardinality(X[e])  BY <1>2, <1>6
  <2>8. IsFiniteSet(All(U)) /\ IsFiniteSet(X[e]) /\ Cardinality(X[e]) \in Nat /\ Cardinality(All(U)) \in Nat
    BY <1>4, FS_Subset, FS_CardinalityType
  <2> HIDE DEF All
  <2>9. Cardinality(All(U) \cup X[e]) = Cardinality(All(U)) + Cardinality(X[e])
    <3> DEFINE A == All(U)
    <3> HIDE DEF A
    <3>1. Cardinality(A \cup X[e]) = Cardinality(A) + Cardinality(X[e]) - Cardinality(A \cap X[e])
      BY <2>8, FS_Union DEF A
    <3>2. Cardinality(A \cap X[e]) = 0  BY <2>5, FS_EmptySet DEF A
    <3> QED  BY <2>8, <3>1, <3>2 DEF A
  <2>10. s[U \cup {e}] <= Cardinality(All(U \cup {e}))
    <3> DEFINE a == Cardinality(All(U))
               c == Cardinality(X[e])
    <3>1. Cardinality(All(U \cup {e})) = a + c  BY ONLY <2>5, <2>9
    <3>2. /\ s[U] <= a /\ s[U] \in Nat /\ a \in Nat /\ c \in Nat
          /\ s[U \cup {e}] = f[e] + s[U] /\ f[e] \in Nat /\ f[e] <= c
      BY ONLY <2>6, <2>7, <2>8
    <3> HIDE DEF a, c
    <3> QED  BY ONLY <3>1, <3>2
  <2> QED  BY <2>10 DEF Q
<1> HIDE DEF Q, All
<1>7. D \in Q  BY ONLY <1>5, <1>6, IsFiniteSet(D), SetInduction
<1> QED  BY <1>1, <1>7 DEF All, Q

-----------------------------------------------------------------------------
(* What a session has counted, and what its ack_fin says. *)

LEMMA SidesApart ==
    ASSUME NEW l \in Links, NEW m \in Links, l[1] = m[1], l # m
    PROVE  Side(l) \cap Side(m) = {}
<1>1. SUFFICES ASSUME NEW x \in Side(l), x \in Side(m)  PROVE FALSE  OBVIOUS
<1>2. /\ Side(l) \subseteq Buses /\ l[2] \in Side(l) /\ l[1] \notin Side(l)
      /\ Side(m) \subseteq Buses /\ m[2] \in Side(m) /\ m[1] \notin Side(m) /\ l[1] \in Buses
  BY SideEnds, LinkKinds
<1>3. Side(l) \subseteq Side(m) \/ Side(m) \subseteq Side(l)  BY <1>1, <1>2, Nested
<1>4. CASE Side(l) \subseteq Side(m)  BY <1>2, <1>4, Crossing
<1>5. CASE Side(m) \subseteq Side(l)  BY <1>2, <1>5, Crossing
<1> QED  BY <1>3, <1>4, <1>5

\* Where the results that b passes on come from.
Region(b, s) == IF b = Home THEN Buses ELSE Side(<<s.source, b>>)

LEMMA NodesFinite ==
    \A S : NodesIn(S) \subseteq Nodes /\ IsFiniteSet(NodesIn(S)) /\ Cardinality(NodesIn(S)) \in Nat
             /\ Cardinality(NodesIn(S)) <= Cardinality(Nodes) /\ Cardinality(Nodes) \in Nat
<1> TAKE S
<1>1. NodesIn(S) \subseteq Nodes /\ IsFiniteSet(Nodes)  BY AskAssumption DEF NodesIn
<1> QED  BY <1>1, FS_Subset, FS_CardinalityType

LEMMA NodesMore ==
    ASSUME NEW S, NEW T, S \subseteq T
    PROVE  Cardinality(NodesIn(S)) <= Cardinality(NodesIn(T))
BY NodesFinite, FS_Subset DEF NodesIn

LEMMA BranchesAre ==
    ASSUME NEW b \in Buses, NEW s, SessionFits(b, s), BooksAdd(b, s)
    PROVE  /\ IsFiniteSet(DOMAIN s.branch)
           /\ Received(s) \in [DOMAIN s.branch -> Nat] /\ Expected(s) \in [DOMAIN s.branch -> Nat]
           /\ Total(Received(s)) \in Nat /\ Total(Expected(s)) \in Nat
           /\ Counted(s) = s.local.received + Total(Received(s)) /\ Counted(s) \in Nat
<1>1. \A d \in DOMAIN s.branch : <<b, d>> \in Links /\ BranchAdds(<<b, d>>, s.branch[d])
  BY DEF SessionFits, BooksAdd
<1>2. DOMAIN s.branch \subseteq Buses  BY <1>1, LinkKinds
<1>3. IsFiniteSet(DOMAIN s.branch)  BY <1>2, FS_Subset, AskAssumption
<1>4. \A d \in DOMAIN s.branch : s.branch[d].received \in Nat /\ s.branch[d].expected \in Nat
  BY <1>1 DEF BranchAdds
<1>5. Received(s) \in [DOMAIN s.branch -> Nat] /\ Expected(s) \in [DOMAIN s.branch -> Nat]
  BY <1>4 DEF Received, Expected
<1>6. Total(Received(s)) \in Nat /\ Total(Expected(s)) \in Nat  BY <1>3, <1>5, TotalsCompare
<1>7. s.local.received \in Nat  BY DEF SessionFits
<1> QED  BY <1>3, <1>5, <1>6, <1>7 DEF Counted

\* No more than there are nodes where they come from.
LEMMA CountedWithin ==
    ASSUME StateOK, NEW b \in Buses, NEW s, SessionFits(b, s), BooksAdd(b, s),
           s.local.received <= s.local.expected
    PROVE  Counted(s) <= Cardinality(NodesIn(Region(b, s)))
<1> DEFINE D == DOMAIN s.branch
           X == [d \in D |-> NodesIn(Side(<<b, d>>))]
           f == Received(s)
           U == UNION {X[d] : d \in D}
<1>1. \A d \in D : <<b, d>> \in Links /\ BranchAdds(<<b, d>>, s.branch[d]) /\ d # s.source
  BY DEF SessionFits, BooksAdd
<1>2. IsFiniteSet(D) /\ f \in [D -> Nat] /\ Counted(s) = s.local.received + Total(f) /\ Total(f) \in Nat
  BY BranchesAre
<1>3. \A d \in D : X[d] \subseteq Nodes /\ f[d] <= Cardinality(X[d])
  <2> TAKE d \in D
  <2>1. f[d] = s.branch[d].received  BY DEF Received
  <2>2. f[d] <= Cap(<<b, d>>)  BY <1>1, <2>1 DEF BranchAdds
  <2>3. X[d] = NodesIn(Side(<<b, d>>))  OBVIOUS
  <2> QED  BY <2>2, <2>3, NodesFinite DEF Cap
<1>4. \A d, e \in D : d # e => X[d] \cap X[e] = {}
  <2> TAKE d, e \in D
  <2> HAVE d # e
  <2>1. <<b, d>> \in Links /\ <<b, e>> \in Links /\ <<b, d>> # <<b, e>> /\ <<b, d>>[1] = b /\ <<b, e>>[1] = b
    BY <1>1
  <2>2. Side(<<b, d>>) \cap Side(<<b, e>>) = {}  BY <2>1, SidesApart
  <2> QED  BY <2>2 DEF NodesIn
<1>5. IsFiniteSet(Nodes)  BY AskAssumption
<1>6. Total(f) <= Cardinality(U)
  <2> HIDE DEF D, f, X
  <2>1. Total(f) <= Cardinality(UNION {X[d] : d \in D})  BY ONLY <1>2, <1>3, <1>4, <1>5, TotalWithin
  <2> QED  BY <2>1
<1>7. Region(b, s) \subseteq Buses /\ b \in Region(b, s)
      /\ \A d \in D : Side(<<b, d>>) \subseteq Region(b, s) /\ b \notin Side(<<b, d>>)
  <2>1. \A d \in D : Side(<<b, d>>) \subseteq Buses /\ b \notin Side(<<b, d>>)
    <3> TAKE d \in D
    <3>1. <<b, d>> \in Links /\ <<b, d>>[1] = b  BY <1>1
    <3> QED  BY <3>1, SideEnds
  <2>2. CASE b = Home  BY <2>1, <2>2 DEF Region
  <2>3. CASE b # Home
    <3>1. <<s.source, b>> \in Links /\ <<s.source, b>>[1] = s.source /\ <<s.source, b>>[2] = b
      BY <2>3 DEF SessionFits
    <3>2. Side(<<s.source, b>>) \subseteq Buses /\ b \in Side(<<s.source, b>>)  BY <3>1, SideEnds
    <3>3. ASSUME NEW d \in D PROVE Side(<<b, d>>) \subseteq Side(<<s.source, b>>)  BY <1>1, <3>1, Farther
    <3> QED  BY <2>1, <2>3, <3>2, <3>3 DEF Region
  <2> QED  BY <2>2, <2>3
<1>8. U \cup NodesIn({b}) \subseteq NodesIn(Region(b, s)) /\ U \cap NodesIn({b}) = {}  BY <1>7 DEF NodesIn
<1>9. U \subseteq Nodes  BY <1>3
<1> HIDE DEF U, f, X, D
<1>10. IsFiniteSet(U) /\ Cardinality(U) \in Nat  BY <1>5, <1>9, FS_Subset, FS_CardinalityType
<1>11. Cardinality(U \cup NodesIn({b})) = Cardinality(U) + Cardinality(NodesIn({b}))
  <2> DEFINE V == NodesIn({b})
  <2>1. IsFiniteSet(V) /\ Cardinality(V) \in Nat /\ U \cap V = {}  BY <1>8, NodesFinite
  <2> HIDE DEF V
  <2>2. Cardinality(U \cup V) = Cardinality(U) + Cardinality(V) - Cardinality(U \cap V) /\ Cardinality(U \cap V) = 0
    BY <1>10, <2>1, FS_Union, FS_EmptySet
  <2>3. Cardinality(U \cup V) = Cardinality(U) + Cardinality(V)  BY <1>10, <2>1, <2>2
  <2> QED  BY <2>3 DEF V
<1>12. Cardinality(U \cup NodesIn({b})) <= Cardinality(NodesIn(Region(b, s)))  BY NodesFinite, <1>8, FS_Subset
<1>13. s.local.received <= Cardinality(NodesIn({b})) /\ s.local.received \in Nat /\ s.local.expected \in Nat
  BY NodesFinite DEF SessionFits, BooksAdd
<1>14. Cardinality(NodesIn({b})) \in Nat /\ Cardinality(NodesIn(Region(b, s))) \in Nat  BY NodesFinite
<1> QED  BY ONLY <1>2, <1>6, <1>10, <1>11, <1>12, <1>13, <1>14

\* The total of an ack_fin, as a sum.
LEMMA TotalResultsIs ==
    ASSUME NEW b \in Buses, NEW s, SessionFits(b, s), BooksAdd(b, s)
    PROVE  TotalResults(s) = s.local.expected + Total(Expected(s))
<1> DEFINE S == DOMAIN s.branch
           f == Expected(s)
           P(h) == h = [T \in SUBSET S |-> IF T = {} THEN 0
                                           ELSE s.branch[Picked(T)].expected + h[T \ {Picked(T)}]]
<1>1. IsFiniteSet(S) /\ f \in [S -> Nat]  BY BranchesAre
<1>2. \A T \in SUBSET S : T # {} => f[Picked(T)] = s.branch[Picked(T)].expected
  <2>1. ASSUME NEW T \in SUBSET S, T # {} PROVE Picked(T) \in S  BY <2>1 DEF Picked
  <2> QED  BY <2>1 DEF Expected
<1>3. \A h : P(h) <=> Folds(h, f, S)
  <2> HIDE DEF f, S
  <2>1. [T \in SUBSET S |-> T] = [T \in SUBSET S |-> T]  OBVIOUS
  <2>2. ASSUME NEW h
        PROVE  [T \in SUBSET S |-> IF T = {} THEN 0 ELSE s.branch[Picked(T)].expected + h[T \ {Picked(T)}]]
                 = [T \in SUBSET S |-> IF T = {} THEN 0 ELSE f[Picked(T)] + h[T \ {Picked(T)}]]
    BY <1>2
  <2> QED  BY <2>2 DEF Folds
<1>4. PICK s1 \in [SUBSET S -> Nat] : Folds(s1, f, S)
  <2> HIDE DEF f, S
  <2> QED  BY <1>1, FoldExists
<1>5. P(CHOOSE h : P(h))
  <2>1. P(s1)  BY <1>3, <1>4
  <2> HIDE DEF P
  <2> QED  BY <2>1
<1>6. TotalResults(s) = s.local.expected + (CHOOSE h : P(h))[S]
  BY DEF TotalResults, MapThenSumSet, MapThenFoldSet, Picked
<1>7. (CHOOSE h : P(h)) = s1
  <2>1. Folds(CHOOSE h : P(h), f, S)
    <3> HIDE DEF f, S, P
    <3> QED  BY <1>3, <1>5
  <2> DEFINE h == CHOOSE z : P(z)
  <2> HIDE DEF f, S, h
  <2> QED  BY ONLY <1>1, <1>4, <2>1, FoldsAgree DEF h
<1>8. Sums(s1, f, S)
  <2> HIDE DEF f, S
  <2> QED  BY <1>1, <1>4, FoldsSum
<1>9. PICK t : Sums(t, f, S) /\ Total(f) = t[S]
  <2> HIDE DEF f, S
  <2> QED  BY <1>1, TotalIs
<1>10. t[S] = s1[S]
  <2> HIDE DEF f, S
  <2>1. S \in SUBSET S /\ \A x \in S : f[x] <= f[x]  BY <1>1
  <2>2. t[S] <= s1[S] /\ s1[S] <= t[S] /\ t[S] \in Nat /\ s1[S] \in Nat
    BY <1>1, <1>8, <1>9, <2>1, SumsCompare
  <2> QED  BY <2>2
<1> QED  BY <1>6, <1>7, <1>9, <1>10

\* An ack_fin counts what its session has passed on, or less, if links broke.
LEMMA FinCounts ==
    ASSUME NEW b \in Buses, NEW s, SessionFits(b, s), BooksAdd(b, s),
           s.local.received <= s.local.expected, Complete(s)
    PROVE  /\ TotalResults(s) \in Nat /\ TotalResults(s) <= Counted(s)
           /\ alive = Links => TotalResults(s) = Counted(s)
<1> DEFINE D == DOMAIN s.branch
<1>1. /\ TotalResults(s) = s.local.expected + Total(Expected(s))
      /\ Counted(s) = s.local.received + Total(Received(s))
      /\ IsFiniteSet(D) /\ Received(s) \in [D -> Nat] /\ Expected(s) \in [D -> Nat]
      /\ Total(Received(s)) \in Nat /\ Total(Expected(s)) \in Nat
  BY TotalResultsIs, BranchesAre
<1>2. s.local.received = s.local.expected /\ s.local.received \in Nat /\ s.local.expected \in Nat
  BY DEF Complete, Settled, SessionFits
<1>3. \A d \in D : BranchAdds(<<b, d>>, s.branch[d]) /\ s.branch[d].status = "fin_received"
  BY DEF Complete, Settled, BooksAdd
<1>4. \A d \in D : Expected(s)[d] = s.branch[d].expected /\ Received(s)[d] = s.branch[d].received
  BY DEF Expected, Received
<1>5. \A d \in D : Expected(s)[d] <= Received(s)[d] /\ (alive = Links => Expected(s)[d] = Received(s)[d])
  BY <1>3, <1>4 DEF BranchAdds
<1> HIDE DEF D
<1>6. Total(Expected(s)) <= Total(Received(s))
      /\ (alive = Links => Total(Expected(s)) = Total(Received(s)))
  BY <1>1, <1>5, TotalsCompare
<1> QED  BY <1>1, <1>2, <1>6

-----------------------------------------------------------------------------
(* A session that advances keeps the books. *)

LEMMA JoinIs ==
    ASSUME NEW q, IsSeq(q), NEW r, IsSeq(r)
    PROVE  /\ IsSeq(q \o r) /\ Len(q) \in Nat /\ Len(r) \in Nat /\ Len(q \o r) = Len(q) + Len(r)
           /\ DOMAIN q = 1 .. Len(q) /\ DOMAIN r = 1 .. Len(r)
           /\ \A i \in 1 .. Len(q) : (q \o r)[i] = q[i]
           /\ \A i \in 1 .. Len(r) : (q \o r)[Len(q) + i] = r[i]
<1>1. Len(q) \in Nat /\ Len(r) \in Nat /\ DOMAIN q = 1 .. Len(q) /\ DOMAIN r = 1 .. Len(r)  BY SeqFacts
<1>2. IsSeq(q \o r)  BY SeqJoin
<1>3. Len(q \o r) = Len(q) + Len(r)
  <2> DEFINE S == {q[i] : i \in DOMAIN q} \cup {r[i] : i \in DOMAIN r}
  <2>1. q \in Seq(S) /\ r \in Seq(S)  BY DEF IsSeq
  <2> HIDE DEF S
  <2> QED  BY <2>1
<1>4. \A i \in 1 .. Len(q) : (q \o r)[i] = q[i]  BY <1>1, SeqJoin
<1>5. \A i \in 1 .. Len(r) : (q \o r)[Len(q) + i] = r[i]  BY <1>1, SeqJoin
<1> QED  BY <1>1, <1>2, <1>3, <1>4, <1>5

LEMMA ReplyForms ==
    ASSUME NEW s, NEW h, AtMostOne(h)
    PROVE  /\ IsSeq(Reply(s, h)) /\ Len(h) \in {0, 1}
           /\ Complete(s) => Len(Reply(s, h)) = Len(h) + 1
           /\ ~Complete(s) => Len(Reply(s, h)) = Len(h)
           /\ Len(h) = 1 => Reply(s, h)[1].type = "result"
           /\ Complete(s) => Reply(s, h)[Len(h) + 1] = Fin(TotalResults(s))
<1> DEFINE A == [i \in 1 .. Len(h) |-> Result(h[i])]
           B == IF Complete(s) THEN <<Fin(TotalResults(s))>> ELSE <<>>
<1>1. Reply(s, h) = A \o B  BY DEF Reply
<1>2. Len(h) \in {0, 1}  BY DEF AtMostOne
<1>3. A \in Seq({Result(h[i]) : i \in 1 .. Len(h)}) /\ Len(A) = Len(h) /\ (Len(h) = 1 => A[1] = Result(h[1]))
  BY <1>2
<1>4. IsSeq(A)  BY <1>3, SeqTyped
<1>5. IsSeq(B) /\ Len(B) = (IF Complete(s) THEN 1 ELSE 0) /\ (Complete(s) => B[1] = Fin(TotalResults(s)) /\ 1 \in DOMAIN B)
  BY OneSeq, NoMessages
<1> HIDE DEF A, B
<1>6. /\ IsSeq(A \o B) /\ Len(A \o B) = Len(A) + Len(B)
      /\ \A i \in 1 .. Len(A) : (A \o B)[i] = A[i]
      /\ \A i \in 1 .. Len(B) : (A \o B)[Len(A) + i] = B[i]
  <2>1. IsSeq(A) /\ IsSeq(B)  BY <1>4, <1>5
  <2> QED  BY ONLY <2>1, JoinIs
<1>8. Len(h) = 1 => (A \o B)[1] = Result(h[1])
  <2>1. Len(h) = 1 => 1 \in 1 .. Len(A)  BY ONLY <1>3, <1>6
  <2> QED  BY ONLY <1>3, <1>6, <2>1
<1>9. ASSUME Complete(s) PROVE (A \o B)[Len(h) + 1] = Fin(TotalResults(s))
  <2>1. 1 \in 1 .. Len(B)  BY <1>5, <1>9
  <2> QED  BY <1>3, <1>5, <1>6, <1>9, <2>1
<1>10. /\ Complete(s) => Len(A \o B) = Len(h) + 1
       /\ ~Complete(s) => Len(A \o B) = Len(h)
  BY <1>2, <1>3, <1>5, <1>6
<1> QED  BY <1>1, <1>2, <1>6, <1>8, <1>9, <1>10, Types

LEMMA AdvanceMessages ==
    ASSUME StateOK, NEW b, NEW s, NEW h, NEW T, NEW E, AdvanceOf(b, s, h, T, E), NEW l \in Links
    PROVE  /\ l \in T => /\ link'[l] = Tail(link[l]) /\ link[l] # <<>> /\ l[2] = b /\ T = {l}
                         /\ Head(link[l]).type \in {"result", "fin"}
           /\ l = <<b, s.source>> /\ l \in alive => link'[l] = link[l] \o Reply(s, h)
           /\ l \notin T /\ (l # <<b, s.source>> \/ l \notin alive) => link'[l] = link[l]
<1>1. /\ b \in Buses /\ SessionFits(b, s) /\ FullLinks(T) /\ AtMostOne(h) /\ Advance(Taken(T), b, s, h)
      /\ \A k \in T : k[2] = b /\ T = {k}
      /\ InHand(b, h, T)
  BY DEF AdvanceOf
<1>2. link' = Sent(Taken(T), Replies(b, s, h))  BY <1>1, AdvanceLink
<1>3. IsSeq(Taken(T)[l]) /\ Taken(T)[l] = IF l \in T THEN Tail(link[l]) ELSE link[l]
  BY <1>1, TakenIs DEF Taken
<1>4. link'[l] = Taken(T)[l] \o Replies(b, s, h)[l]  BY <1>2 DEF Sent
<1>5. Replies(b, s, h)[l] = <<>> => link'[l] = Taken(T)[l]  BY <1>2, <1>3, SentNone
<1>6. /\ l # <<b, s.source>> \/ l \notin alive => Replies(b, s, h)[l] = <<>>
      /\ l = <<b, s.source>> /\ l \in alive => Replies(b, s, h)[l] = Reply(s, h)
  BY LinkKinds DEF StateOK, Replies
<1>7. l = <<b, s.source>> => l \notin T  BY LinkKinds, <1>1
<1>8. ASSUME l \in T PROVE link[l] # <<>> /\ Head(link[l]).type \in {"result", "fin"}
  BY <1>1, <1>8, Types DEF FullLinks, InHand
<1> QED  BY <1>1, <1>3, <1>4, <1>5, <1>6, <1>7, <1>8

AddOf(b, s, h, T, E) ==
    /\ AdvanceOf(b, s, h, T, E) /\ BooksAdd(b, s)
    /\ \/ Counted(s) = Counted(session[b]) + Len(h)
       \/ b # Home /\ s.source = Home /\ ~Has(Home)
    /\ \A d \in DOMAIN s.branch :
         IF <<d, b>> \in T
         THEN \/ /\ Head(link[<<d, b>>]).type = "result"
                 /\ s.branch[d].received = session[b].branch[d].received + 1
                 /\ s.branch[d].status = session[b].branch[d].status
              \/ Head(link[<<d, b>>]).type = "fin" /\ s.branch[d].status = "fin_received"
         ELSE s.branch[d] = session[b].branch[d] \/ <<b, d>> \notin alive

LEMMA AdvanceFins ==
    ASSUME StateOK, FinsFit, DeadLinks, NEW b, NEW s, NEW h, NEW T, NEW E, AddOf(b, s, h, T, E)
    PROVE  FinsFit' /\ DeadLinks'
<1>1. AdvanceOf(b, s, h, T, E) /\ b \in Buses /\ SessionFits(b, s) /\ BooksAdd(b, s) /\ AtMostOne(h)
      /\ alive' = alive /\ s.local.received <= s.local.expected
  <2>1. /\ AdvanceOf(b, s, h, T, E) /\ b \in Buses /\ SessionFits(b, s) /\ BooksAdd(b, s) /\ AtMostOne(h)
        /\ alive' = alive /\ s.local.received + Cardinality(Running(b)') <= s.local.expected
        /\ executing' \subseteq executing
    BY DEF AddOf, AdvanceOf, InHand
  <2>2. Running(b)' \subseteq Nodes /\ IsFiniteSet(Nodes)  BY <2>1, AskAssumption DEF Running, StateOK
  <2>3. Cardinality(Running(b)') \in Nat  BY <2>2, FS_Subset, FS_CardinalityType
  <2>4. s.local.received \in Nat /\ s.local.expected \in Nat  BY <2>1 DEF SessionFits
  <2> QED  BY <2>1, <2>3, <2>4
<1>2. ASSUME Complete(s) PROVE IsFin(Fin(TotalResults(s)))
  <2>1. TotalResults(s) \in Nat /\ TotalResults(s) <= Counted(s)  BY <1>1, <1>2, FinCounts
  <2>2. Counted(s) <= Cardinality(NodesIn(Region(b, s))) /\ Counted(s) \in Nat
    BY <1>1, CountedWithin, BranchesAre
  <2>3. Cardinality(NodesIn(Region(b, s))) <= Cardinality(Nodes) /\ Cardinality(Nodes) \in Nat
        /\ Cardinality(NodesIn(Region(b, s))) \in Nat
    BY NodesFinite
  <2>4. TotalResults(s) \in 0 .. Cardinality(Nodes)  BY ONLY <2>1, <2>2, <2>3
  <2> QED  BY <2>4 DEF IsFin
<1>3. ASSUME NEW l \in Links, NEW i \in DOMAIN link'[l] PROVE IsFin(link'[l][i])
  <2>1. IsSeq(link[l]) /\ \A j \in DOMAIN link[l] : IsFin(link[l][j])  BY DEF StateOK, FinsFit
  <2>2. CASE link'[l] = Tail(link[l]) /\ link[l] # <<>>  BY <1>3, <2>1, <2>2, SeqTail
  <2>3. CASE link'[l] = link[l]  BY <1>3, <2>1, <2>3
  <2>4. CASE link'[l] = link[l] \o Reply(s, h)
    <3>1. IsSeq(Reply(s, h))  BY <1>1, ReplyForms
    <3>2. \/ i \in DOMAIN link[l] /\ link'[l][i] = link[l][i]
          \/ i - Len(link[l]) \in DOMAIN Reply(s, h) /\ link'[l][i] = Reply(s, h)[i - Len(link[l])]
      BY <1>3, <2>1, <2>4, <3>1, JoinFrom
    <3>3. ASSUME NEW j \in DOMAIN Reply(s, h) PROVE IsFin(Reply(s, h)[j])
      <4>1. /\ Len(h) \in {0, 1}
            /\ Complete(s) => Len(Reply(s, h)) = Len(h) + 1
            /\ ~Complete(s) => Len(Reply(s, h)) = Len(h)
            /\ Len(h) = 1 => Reply(s, h)[1].type = "result"
            /\ Complete(s) => Reply(s, h)[Len(h) + 1] = Fin(TotalResults(s))
        BY <1>1, ReplyForms
      <4>2. j \in 1 .. Len(Reply(s, h))  BY <3>1, <3>3, SeqFacts
      <4>3. (j = 1 /\ Len(h) = 1) \/ (Complete(s) /\ j = Len(h) + 1)
        <5>1. CASE Complete(s)
          <6>1. Len(Reply(s, h)) = Len(h) + 1 /\ Len(h) \in {0, 1} /\ j \in 1 .. Len(Reply(s, h))
            BY <4>1, <4>2, <5>1
          <6>2. (j = 1 /\ Len(h) = 1) \/ j = Len(h) + 1
            <7> DEFINE a == Len(h)
                       c == Len(Reply(s, h))
            <7>1. c = a + 1 /\ a \in {0, 1} /\ j \in 1 .. c  BY ONLY <6>1
            <7> HIDE DEF a, c
            <7>2. (j = 1 /\ a = 1) \/ j = a + 1  BY ONLY <7>1
            <7> QED  BY ONLY <7>2 DEF a
          <6> QED  BY <5>1, <6>2
        <5>2. CASE ~Complete(s)  BY ONLY <4>1, <4>2, <5>2
        <5> QED  BY <5>1, <5>2
      <4> QED  BY <1>2, <4>1, <4>3 DEF IsFin
    <3> QED  BY <2>1, <3>2, <3>3
  <2> QED  BY <1>1, <2>2, <2>3, <2>4, AdvanceMessages
<1>4. ASSUME NEW l \in Links \ alive PROVE link'[l] = <<>>  BY <1>1, AdvanceMessages DEF DeadLinks
<1> QED  BY <1>1, <1>3, <1>4 DEF FinsFit, DeadLinks

LEMMA AdvanceBooks ==
    ASSUME StateOK, AllBooksAdd, NEW b, NEW s, NEW h, NEW T, NEW E, AddOf(b, s, h, T, E)
    PROVE  AllBooksAdd'
<1>1. AdvanceOf(b, s, h, T, E) /\ BooksAdd(b, s) /\ alive' = alive  BY DEF AddOf, AdvanceOf
<1>2. /\ \A c \in Buses \ {b} : session'[c] = session[c]
      /\ session'[b] = IF Complete(s) THEN NoSession ELSE s
  BY <1>1, AdvanceSession
<1>3. ASSUME NEW c \in Buses, Has(c)' PROVE BooksAdd(c, session[c])'
  <2>1. CASE c = b  BY <1>2, <1>3, <2>1, <1>1 DEF Has, BooksAdd, BranchAdds
  <2>2. CASE c # b  BY <1>2, <1>3, <2>2, <1>1 DEF Has, AllBooksAdd, BooksAdd, BranchAdds
  <2> QED  BY <2>1, <2>2
<1> QED  BY <1>3 DEF AllBooksAdd

LEMMA LocalWithin ==
    ASSUME StateOK, NEW b, NEW s, NEW h, NEW T, NEW E, AdvanceOf(b, s, h, T, E)
    PROVE  s.local.received <= s.local.expected
<1>1. /\ SessionFits(b, s) /\ s.local.received + Cardinality(Running(b)') <= s.local.expected
      /\ executing' \subseteq executing
  BY DEF AdvanceOf, InHand
<1>2. Running(b)' \subseteq Nodes /\ IsFiniteSet(Nodes)  BY <1>1, AskAssumption DEF Running, StateOK
<1>3. Cardinality(Running(b)') \in Nat  BY <1>2, FS_Subset, FS_CardinalityType
<1>4. s.local.received \in Nat /\ s.local.expected \in Nat  BY <1>1 DEF SessionFits
<1> QED  BY <1>1, <1>3, <1>4

\* What b passes on towards the publisher, with one result more or none, and its
\* ack_fin if it has ended.
Adding(q, s, h, r, c, cap, p) ==
    /\ IsSeq(q) /\ AtMostOne(h) /\ r \in Nat /\ c \in Nat /\ cap \in Nat /\ NoFin(q)
    /\ r + Len(q) + Len(h) = c /\ c <= cap /\ p = q \o Reply(s, h)
Added(q, s, r, c, cap, p) ==
    /\ ~Complete(s) => NoFin(p) /\ r + Len(p) = c
    /\ \A i \in DOMAIN p :
         /\ p[i].type = "result" => i \in DOMAIN q \/ r + i <= cap
         /\ p[i].type = "fin" => Complete(s) /\ i = Len(p) /\ p[i].total = TotalResults(s) /\ r + i = c + 1
    /\ \A i \in DOMAIN q : i \in DOMAIN p /\ p[i] = q[i]

LEMMA MoreArrives ==
    ASSUME NEW q, NEW s, NEW h, NEW r, NEW c, NEW cap, NEW p, Adding(q, s, h, r, c, cap, p)
    PROVE  Added(q, s, r, c, cap, p)
<1>0. /\ IsSeq(q) /\ AtMostOne(h) /\ r \in Nat /\ c \in Nat /\ cap \in Nat /\ NoFin(q)
      /\ r + Len(q) + Len(h) = c /\ c <= cap /\ p = q \o Reply(s, h)
  BY DEF Adding
<1> DEFINE R == Reply(s, h)
<1>1. /\ IsSeq(R) /\ Len(h) \in {0, 1}
      /\ Complete(s) => Len(R) = Len(h) + 1
      /\ ~Complete(s) => Len(R) = Len(h)
      /\ Len(h) = 1 => R[1].type = "result"
      /\ Complete(s) => R[Len(h) + 1] = Fin(TotalResults(s))
  BY <1>0, ReplyForms
<1> HIDE DEF R
<1>2. /\ IsSeq(p) /\ Len(q) \in Nat /\ Len(R) \in Nat /\ Len(p) = Len(q) + Len(R)
      /\ DOMAIN q = 1 .. Len(q) /\ DOMAIN R = 1 .. Len(R)
      /\ \A i \in 1 .. Len(q) : p[i] = q[i]
      /\ \A i \in 1 .. Len(R) : p[Len(q) + i] = R[i]
  BY <1>0, <1>1, JoinIs DEF R
<1>3. DOMAIN p = 1 .. Len(q) + Len(R)  BY <1>2, SeqFacts
<1>4. \A i \in DOMAIN q : i \in DOMAIN p /\ p[i] = q[i]  BY <1>2, <1>3
<1>5. \A i \in DOMAIN q : p[i].type # "fin"  BY <1>0, <1>4 DEF NoFin
<1>6. ASSUME NEW i \in DOMAIN p, i \notin DOMAIN q
      PROVE  \/ Len(h) = 1 /\ i = Len(q) + 1 /\ p[i].type = "result"
             \/ Complete(s) /\ i = Len(q) + Len(h) + 1 /\ i = Len(p) /\ p[i] = Fin(TotalResults(s))
  <2> DEFINE j == i - Len(q)
  <2>1. j \in 1 .. Len(R) /\ i = Len(q) + j  BY <1>2, <1>3, <1>6
  <2> HIDE DEF j
  <2>2. p[i] = R[j]  BY <1>2, <2>1
  <2>3. CASE Complete(s)
    <3>1. Len(R) = Len(h) + 1  BY <1>1, <2>3
    <3>2. (j = 1 /\ Len(h) = 1) \/ j = Len(h) + 1
      <4> DEFINE a == Len(h)
                 c1 == Len(R)
      <4>1. c1 = a + 1 /\ a \in {0, 1} /\ j \in 1 .. c1  BY <1>1, <2>1, <3>1
      <4> HIDE DEF a, c1
      <4>2. (j = 1 /\ a = 1) \/ j = a + 1  BY ONLY <4>1
      <4> QED  BY ONLY <4>2 DEF a
    <3>3. CASE j = 1 /\ Len(h) = 1  BY <1>1, <2>1, <2>2, <3>3
    <3>4. CASE j = Len(h) + 1  BY <1>1, <1>2, <2>1, <2>2, <2>3, <3>1, <3>4
    <3> QED  BY <3>2, <3>3, <3>4
  <2>4. CASE ~Complete(s)
    <3>1. Len(R) = Len(h)  BY <1>1, <2>4
    <3>2. j = 1 /\ Len(h) = 1
      <4> DEFINE a == Len(h)
                 c1 == Len(R)
      <4>1. c1 = a /\ a \in {0, 1} /\ j \in 1 .. c1  BY <1>1, <2>1, <3>1
      <4> HIDE DEF a, c1
      <4>2. j = 1 /\ a = 1  BY ONLY <4>1
      <4> QED  BY ONLY <4>2 DEF a
    <3> QED  BY <1>1, <2>1, <2>2, <3>2
  <2> QED  BY <2>3, <2>4
<1>7. ASSUME ~Complete(s) PROVE NoFin(p) /\ r + Len(p) = c
  <2>1. Len(R) = Len(h)  BY <1>1, <1>7
  <2>2. r + Len(p) = c
    <3> DEFINE a == Len(h)
               k == Len(q)
               z == Len(p)
    <3>1. z = k + a /\ k \in Nat /\ a \in {0, 1} /\ r + k + a = c  BY ONLY <1>0, <1>1, <1>2, <2>1
    <3> HIDE DEF a, k, z
    <3>2. r + z = c  BY <1>0, <3>1
    <3> QED  BY ONLY <3>2 DEF z
  <2>3. NoFin(p)  BY <1>5, <1>6, <1>7, Types DEF NoFin
  <2> QED  BY <2>2, <2>3
<1>8. ASSUME NEW i \in DOMAIN p, p[i].type = "result" PROVE i \in DOMAIN q \/ r + i <= cap
  <2>1. CASE i \notin DOMAIN q
    <3>1. \/ Len(h) = 1 /\ i = Len(q) + 1
          \/ p[i] = Fin(TotalResults(s))
      BY <1>6, <2>1
    <3>2. Len(h) = 1 /\ i = Len(q) + 1  BY <1>8, <3>1, Types
    <3> QED  BY <1>0, <1>2, <3>2
  <2> QED  BY <2>1
<1>9. ASSUME NEW i \in DOMAIN p, p[i].type = "fin"
      PROVE  Complete(s) /\ i = Len(p) /\ p[i].total = TotalResults(s) /\ r + i = c + 1
  <2>1. i \notin DOMAIN q  BY <1>5, <1>9
  <2>2. Complete(s) /\ i = Len(q) + Len(h) + 1 /\ i = Len(p) /\ p[i] = Fin(TotalResults(s))
    BY <1>6, <1>9, <2>1
  <2>3. p[i].total = TotalResults(s)  BY <2>2 DEF Fin
  <2>4. r + i = c + 1
    <3> DEFINE a == Len(h)
               m == Len(q)
    <3>1. i = m + a + 1 /\ m \in Nat /\ a \in {0, 1} /\ r + m + a = c  BY ONLY <1>0, <1>1, <1>2, <2>2
    <3> HIDE DEF a, m
    <3> QED  BY <1>0, <3>1
  <2> QED  BY <2>2, <2>3, <2>4
<1> QED  BY <1>4, <1>7, <1>8, <1>9 DEF Added

LEMMA AdvanceReply ==
    ASSUME StateOK, NEW b, NEW s, NEW h, NEW T, NEW E, AdvanceOf(b, s, h, T, E),
           NEW u \in Links, u = <<b, s.source>>, u \in alive
    PROVE  link'[u] = link[u] \o Reply(s, h)
<1>1. /\ b \in Buses /\ SessionFits(b, s) /\ FullLinks(T) /\ AtMostOne(h) /\ Advance(Taken(T), b, s, h)
      /\ \A k \in T : k[2] = b /\ T = {k}
  BY DEF AdvanceOf
<1>2. link' = Sent(Taken(T), Replies(b, s, h))  BY <1>1, AdvanceLink
<1>3. link'[u] = Taken(T)[u] \o Replies(b, s, h)[u]  BY <1>2 DEF Sent
<1>4. u[1] # u[2] /\ u[1] = b /\ u[2] = s.source /\ u \in open  BY LinkKinds DEF StateOK
<1>5. Replies(b, s, h)[u] = Reply(s, h)  BY <1>4 DEF Replies
<1>6. u \notin T  BY <1>1, <1>4
<1>7. Taken(T)[u] = link[u]  BY <1>6 DEF Taken
<1> QED  BY <1>3, <1>5, <1>7

\* What FlowAt asks of a link whose far end is awaited after the step.
LEMMA FlowsOn ==
    ASSUME NEW m, Awaits(m)', NEW r, r = session'[m[1]].branch[m[2]].received,
           NEW q, link'[Back(m)] = q,
           \A i \in DOMAIN link'[m] : link'[m][i] = Ask, HasAsk(link'[m]) => r = 0,
           Has(m[2])' => NoFin(q) /\ r + Len(q) = Counted(session'[m[2]]),
           \A i \in DOMAIN q : q[i].type = "result" => r + i <= Cap(m),
           \A i \in DOMAIN q : q[i].type = "fin" =>
             /\ i = Len(q) /\ q[i].total + 1 <= r + i
             /\ alive' = Links => q[i].total + 1 = r + i
    PROVE  FlowAt(m)'
BY DEF Arrives, FlowAt

\* Of three kinds of links, seen from b: the one it answers on ...
LEMMA AdvanceFlowIn ==
    ASSUME StateOK, SessionsFit, AllBooksAdd, DeadLinks, Flow,
           NEW b, NEW s, NEW h, NEW T, NEW E, AddOf(b, s, h, T, E),
           NEW m \in alive, Away(m), m[2] = b
    PROVE  FlowAt(m)'
<1>1. /\ AdvanceOf(b, s, h, T, E) /\ BooksAdd(b, s) /\ b \in Buses /\ Has(b) /\ SessionFits(b, s)
      /\ alive' = alive /\ publisher' = publisher /\ AtMostOne(h) /\ s.source = session[b].source
  BY DEF AddOf, AdvanceOf
<1>2. /\ \A c \in Buses \ {b} : session'[c] = session[c]
      /\ session'[b] = IF Complete(s) THEN NoSession ELSE s
      /\ Has(b)' <=> ~Complete(s)
      /\ Home' = Home /\ Home \in Buses
  BY <1>1, AdvanceSession
<1>3. /\ m \in Links /\ m[1] \in Buses /\ m[1] # b /\ Back(m) \in Links /\ b \in Side(m)
      /\ m = <<m[1], m[2]>>
  BY LinkKinds, SideEnds DEF StateOK
<1>4. b # Home  BY <1>3 DEF Away
<1>5. m = <<s.source, b>> /\ s.source = m[1]  BY <1>1, <1>4, <1>3, OneWayIn DEF SessionFits
<1>6. Back(m) = <<b, s.source>> /\ Back(m) \in alive  BY <1>3, <1>5 DEF Back, DeadLinks
<1>7. session'[m[1]] = session[m[1]] /\ (Awaits(m)' <=> Awaits(m))  BY <1>2, <1>3 DEF Awaits, Has
<1>8. FlowAt(m)  BY DEF Flow
<1>9. CASE ~Awaits(m)
  <2>1. Left(m)  BY <1>1, <1>8, <1>9 DEF FlowAt, Over
  <2>2. Left(m)'  BY <1>2, <1>3, <1>4, <2>1 DEF Left, Has
  <2> QED  BY <1>7, <1>9, <2>2 DEF FlowAt
<1>10. CASE Awaits(m)
  <2>1. Arrives(m, session[m[1]].branch[m[2]], link[Back(m)])  BY <1>8, <1>10 DEF FlowAt
  <2>2. link'[Back(m)] = link[Back(m)] \o Reply(s, h)
    <3> DEFINE u == Back(m)
    <3>1. u \in Links /\ u = <<b, s.source>> /\ u \in alive  BY <1>3, <1>6
    <3> HIDE DEF u
    <3>2. StateOK /\ AdvanceOf(b, s, h, T, E)  BY <1>1
    <3>3. link'[u] = link[u] \o Reply(s, h)  BY ONLY <3>1, <3>2, AdvanceReply
    <3> QED  BY <3>3 DEF u
  <2>3. link'[m] = link[m]
    <3>1. m # <<b, s.source>>  BY <1>3
    <3>2. m \notin T
      <4>1. SUFFICES ASSUME m \in T  PROVE FALSE  OBVIOUS
      <4>2. link[m] # <<>> /\ Head(link[m]).type \in {"result", "fin"}  BY <1>1, <1>3, <4>1, AdvanceMessages
      <4>3. 1 \in DOMAIN link[m] /\ link[m][1] = Head(link[m])  BY <1>3, <4>2, HeadIs
      <4>4. Head(link[m]) = Ask  BY <2>1, <4>3 DEF Arrives
      <4> QED  BY <4>2, <4>4, Types
    <3> QED  BY <1>1, <1>3, <3>1, <3>2, AdvanceMessages
  <2> DEFINE r == session[m[1]].branch[m[2]].received
             q == link[Back(m)]
             p == q \o Reply(s, h)
             c == Counted(s)
             cap == Cap(m)
  <2>4. /\ r \in Nat /\ IsSeq(q) /\ NoFin(q) /\ r + Len(q) = Counted(session[b])
    <3>1. BranchAdds(m, session[m[1]].branch[m[2]])  BY <1>10, <1>3 DEF Awaits, AllBooksAdd, BooksAdd
    <3>2. IsSeq(q)  BY <1>3 DEF StateOK
    <3> QED  BY <1>1, <2>1, <3>1, <3>2 DEF Arrives, BranchAdds
  <2>5. c = Counted(session[b]) + Len(h) /\ c \in Nat  BY <1>10, <1>5, <1>1, BranchesAre DEF Awaits, AddOf
  <2>6. c <= cap /\ cap \in Nat  BY <1>1, LocalWithin, <1>4, <1>5, CountedWithin, NodesFinite DEF Region, Cap
  <2>7. Complete(s) => /\ TotalResults(s) \in Nat /\ TotalResults(s) <= c
                       /\ alive = Links => TotalResults(s) = c
    BY <1>1, LocalWithin, FinCounts
  <2>8. r + Len(q) + Len(h) = c
    <3> DEFINE a == Len(h)
               z == Len(q)
               y == Counted(session[b])
    <3>1. z \in Nat  BY <2>4, SeqFacts
    <3>2. a \in {0, 1}  BY <1>1, ReplyForms
    <3>3. r + z = y /\ c = y + a /\ r \in Nat  BY <2>4, <2>5
    <3> HIDE DEF a, z, y, r, c
    <3>4. r + z + a = c  BY ONLY <3>1, <3>2, <3>3
    <3> QED  BY <3>4 DEF a, z
  <2>9. p = q \o Reply(s, h) /\ AtMostOne(h)  BY <1>1
  <2>20. link'[Back(m)] = p  BY <2>2
  <2>21. /\ \A i \in DOMAIN link'[m] : link'[m][i] = Ask
         /\ HasAsk(link'[m]) => r = 0
    BY <2>1, <2>3 DEF Arrives
  <2>22. \A i \in DOMAIN q : q[i].type = "result" => r + i <= cap  BY <2>1 DEF Arrives
  <2>23. r = session'[m[1]].branch[m[2]].received  BY <1>7
  <2>24. Has(b)' => ~Complete(s) /\ Counted(session'[b]) = c  BY <1>2
  <2> HIDE DEF r, q, p, c, cap
  <2>10. Added(q, s, r, c, cap, p)
    <3>1. Adding(q, s, h, r, c, cap, p)  BY ONLY <2>4, <2>5, <2>6, <2>8, <2>9 DEF Adding
    <3> QED  BY ONLY <3>1, MoreArrives
  <2>11. \A i \in DOMAIN p : p[i].type = "result" => r + i <= cap  BY ONLY <2>10, <2>22 DEF Added
  <2>12. \A i \in DOMAIN p : p[i].type = "fin" =>
           /\ i = Len(p) /\ p[i].total + 1 <= r + i
           /\ alive' = Links => p[i].total + 1 = r + i
    BY <1>1, <2>5, <2>7, <2>10 DEF Added
  <2>13. Has(m[2])' => NoFin(p) /\ r + Len(p) = Counted(session'[m[2]])
    BY ONLY <2>10, <2>24, m[2] = b DEF Added
  <2>14. cap = Cap(m)  BY DEF cap
  <2> HIDE DEF r, p, cap
  <2> QED  BY <1>7, <1>10, <2>11, <2>12, <2>13, <2>14, <2>20, <2>21, <2>23, FlowsOn
<1> QED  BY <1>9, <1>10

\* A link whose ends are as they were.
LEMMA QuietFlow ==
    ASSUME NEW m, FlowAt(m), link'[m] = link[m], link'[Back(m)] = link[Back(m)],
           session'[m[1]] = session[m[1]], session'[m[2]] = session[m[2]],
           publisher' = publisher, alive' = Links => alive = Links
    PROVE  FlowAt(m)'
<1>1. Home' = Home  BY DEF Home
<1>2. Awaits(m)' <=> Awaits(m)  BY DEF Awaits, Has
<1>3. CASE Awaits(m)
  <2> DEFINE k == session[m[1]].branch[m[2]]
             q == link[Back(m)]
  <2>1. Arrives(m, k, q)  BY <1>3 DEF FlowAt
  <2>2. /\ \A i \in DOMAIN link'[m] : link'[m][i] = Ask
        /\ HasAsk(link'[m]) => k.received = 0
        /\ Has(m[2])' => NoFin(q) /\ k.received + Len(q) = Counted(session'[m[2]])
        /\ \A i \in DOMAIN q : q[i].type = "result" => k.received + i <= Cap(m)
        /\ \A i \in DOMAIN q : q[i].type = "fin" =>
             /\ i = Len(q) /\ q[i].total + 1 <= k.received + i
             /\ alive' = Links => q[i].total + 1 = k.received + i
    BY <2>1 DEF Arrives, Has
  <2>3. k = session'[m[1]].branch[m[2]] /\ link'[Back(m)] = q  OBVIOUS
  <2> DEFINE r == k.received
  <2>4. r = session'[m[1]].branch[m[2]].received  BY <2>3
  <2> HIDE DEF q, k
  <2> QED  BY <1>2, <1>3, <2>2, <2>3, <2>4, FlowsOn
<1>4. CASE ~Awaits(m)  BY <1>4, <1>1, <1>2 DEF FlowAt, Left, Has, Over
<1> QED  BY <1>3, <1>4

\* What comes back against the ask, at a bus that has a session, is awaited.
LEMMA ComesAwaited ==
    ASSUME StateOK, AsksAreFresh, Flow, NEW m \in alive, Away(m), Has(m[1]), link[Back(m)] # <<>>
    PROVE  /\ Awaits(m) /\ Arrives(m, session[m[1]].branch[m[2]], link[Back(m)])
           /\ link[m] = <<>>
<1>1. m \in Links /\ FlowAt(m)  BY DEF StateOK, Flow
<1>2. ~Left(m) /\ ~Over(m)  BY DEF Left, Over
<1>3. Awaits(m) /\ Arrives(m, session[m[1]].branch[m[2]], link[Back(m)])  BY <1>1, <1>2 DEF FlowAt
<1>4. link[m] = <<>>
  <2>1. SUFFICES ASSUME link[m] # <<>>  PROVE FALSE  OBVIOUS
  <2>2. 1 \in DOMAIN link[m]  BY <1>1, <2>1, HeadIs
  <2>3. link[m][1] = Ask  BY <1>3, <2>2 DEF Arrives
  <2>4. Fresh(Side(m))  BY <1>1, <2>2, <2>3 DEF AsksAreFresh
  <2>5. Back(m) \in Links /\ Back(m)[1] = m[2] /\ m[2] \in Side(m)  BY <1>1, LinkKinds, SideEnds DEF Back
  <2> QED  BY <2>4, <2>5 DEF Fresh
<1> QED  BY <1>3, <1>4

LEMMA TailSize ==
    ASSUME NEW q, IsSeq(q), q # <<>>
    PROVE  /\ IsSeq(Tail(q)) /\ Len(q) \in Nat /\ Len(Tail(q)) + 1 = Len(q) /\ Len(Tail(q)) \in Nat
           /\ Head(q) = q[1] /\ 1 \in DOMAIN q
           /\ \A i \in DOMAIN Tail(q) : i \in Nat /\ i + 1 \in DOMAIN q /\ Tail(q)[i] = q[i + 1]
           /\ Len(q) = 1 => Tail(q) = <<>>
<1> DEFINE S == { q[i] : i \in DOMAIN q }
<1>1. q \in Seq(S)  BY DEF IsSeq
<1> HIDE DEF S
<1>2. Len(q) \in Nat /\ Len(Tail(q)) + 1 = Len(q) /\ Len(Tail(q)) \in Nat  BY <1>1
<1>3. Len(q) = 1 => Tail(q) = <<>>
  <2> DEFINE r == Tail(q)
  <2>1. r \in Seq(S)  BY <1>1, <1>2
  <2> HIDE DEF r
  <2>2. Len(r) = 0 => r = <<>>  BY <2>1
  <2> QED  BY <1>2, <2>2 DEF r
<1> QED  BY <1>2, <1>3, SeqTail

\* One result of the branch has been taken off the way.
LEMMA LessArrives ==
    ASSUME NEW q, IsSeq(q), q # <<>>, q[1].type = "result", NEW r \in Nat, NEW cap,
           \A i \in DOMAIN q : q[i].type = "result" => r + i <= cap,
           NEW all \in BOOLEAN,
           \A i \in DOMAIN q : q[i].type = "fin" =>
             i = Len(q) /\ q[i].total + 1 <= r + i /\ (all => q[i].total + 1 = r + i)
    PROVE  LET p == Tail(q) IN
           /\ NoFin(q) => NoFin(p)
           /\ (r + 1) + Len(p) = r + Len(q)
           /\ \A i \in DOMAIN p : p[i].type = "result" => (r + 1) + i <= cap
           /\ \A i \in DOMAIN p : p[i].type = "fin" =>
                i = Len(p) /\ p[i].total + 1 <= (r + 1) + i /\ (all => p[i].total + 1 = (r + 1) + i)
<1> DEFINE p == Tail(q)
           n == Len(q)
           k == Len(p)
<1>1. /\ n \in Nat /\ k + 1 = n /\ k \in Nat
      /\ \A i \in DOMAIN p : i \in Nat /\ i + 1 \in DOMAIN q /\ p[i] = q[i + 1]
  BY TailSize
<1>2. NoFin(q) => NoFin(p)  BY AfterTail
<1>3. \A i \in DOMAIN q : q[i].type = "fin" =>
           i = n /\ q[i].total + 1 <= r + i /\ (all => q[i].total + 1 = r + i)
  OBVIOUS
<1> HIDE DEF p, n, k
<1>4. (r + 1) + k = r + n  BY ONLY <1>1, r \in Nat
<1>5. \A i \in DOMAIN p : p[i].type = "result" => (r + 1) + i <= cap
  <2> SUFFICES ASSUME NEW i \in DOMAIN p, p[i].type = "result"  PROVE (r + 1) + i <= cap  OBVIOUS
  <2>1. i \in Nat /\ i + 1 \in DOMAIN q /\ p[i] = q[i + 1]  BY <1>1
  <2>2. r + (i + 1) <= cap  BY <2>1
  <2>3. r + (i + 1) = (r + 1) + i  BY <2>1
  <2> QED  BY ONLY <2>2, <2>3
<1>6. \A i \in DOMAIN p : p[i].type = "fin" =>
        i = k /\ p[i].total + 1 <= (r + 1) + i /\ (all => p[i].total + 1 = (r + 1) + i)
  <2> SUFFICES ASSUME NEW i \in DOMAIN p, p[i].type = "fin"
               PROVE  i = k /\ p[i].total + 1 <= (r + 1) + i /\ (all => p[i].total + 1 = (r + 1) + i)
    OBVIOUS
  <2>1. i \in Nat /\ i + 1 \in DOMAIN q /\ p[i] = q[i + 1]  BY <1>1
  <2>2. i + 1 = n /\ p[i].total + 1 <= r + (i + 1) /\ (all => p[i].total + 1 = r + (i + 1))  BY <1>3, <2>1
  <2>3. r + (i + 1) = (r + 1) + i /\ i = k  BY ONLY <1>1, <2>1, <2>2, r \in Nat
  <2> QED  BY ONLY <2>2, <2>3
<1> QED  BY <1>2, <1>4, <1>5, <1>6 DEF p, n, k

\* ... one to which it has sent the ask ...
LEMMA AdvanceFlowOut ==
    ASSUME StateOK, AsksAreFresh, AllBooksAdd, DeadLinks, Flow,
           NEW b, NEW s, NEW h, NEW T, NEW E, AddOf(b, s, h, T, E),
           NEW m \in alive, Away(m), m[1] = b
    PROVE  FlowAt(m)'
<1> DEFINE d == m[2]
<1>1. /\ AdvanceOf(b, s, h, T, E) /\ b \in Buses /\ Has(b) /\ SessionFits(b, s)
      /\ alive' = alive /\ publisher' = publisher /\ s.source = session[b].source
      /\ DOMAIN s.branch = DOMAIN session[b].branch
      /\ \A l \in T : l[2] = b /\ T = {l}
  BY DEF AddOf, AdvanceOf
<1>2. /\ \A c \in Buses \ {b} : session'[c] = session[c]
      /\ session'[b] = IF Complete(s) THEN NoSession ELSE s
      /\ Has(b)' <=> ~Complete(s)
      /\ Home' = Home /\ Home \in Buses
  BY <1>1, AdvanceSession
<1>3. /\ m \in Links /\ d \in Buses /\ d # b /\ Back(m) \in Links /\ d \in Side(m)
      /\ m = <<b, d>> /\ Back(m) = <<d, b>> /\ Back(m)[1] = d /\ Back(m)[2] = b
      /\ Side(Back(m)) = Buses \ Side(m) /\ Back(m) \in alive
  BY LinkKinds, SideEnds DEF StateOK, Back, DeadLinks
<1>4. d # s.source
  <2>1. SUFFICES ASSUME d = s.source  PROVE FALSE  OBVIOUS
  <2>2. b # Home /\ Away(<<d, b>>)  BY <1>1, <1>3, <2>1 DEF SessionFits
  <2> QED  BY <1>2, <1>3, <2>2 DEF Away
<1>5. link'[m] = link[m] /\ session'[d] = session[d]  BY <1>1, <1>3, <1>4, <1>2, AdvanceMessages
<1>6. /\ Back(m) \in T => link'[Back(m)] = Tail(link[Back(m)]) /\ link[Back(m)] # <<>>
      /\ Back(m) \notin T => link'[Back(m)] = link[Back(m)]
  <2> DEFINE u == Back(m)
  <2>1. u \in Links /\ u # <<b, s.source>>  BY <1>3
  <2> HIDE DEF u
  <2>2. /\ u \in T => link'[u] = Tail(link[u]) /\ link[u] # <<>>
        /\ u \notin T => link'[u] = link[u]
    BY <1>1, <2>1, AdvanceMessages
  <2> QED  BY <2>2 DEF u
<1>7. Awaits(m) <=> d \in DOMAIN s.branch /\ session[b].branch[d].status = "pending"  BY <1>1 DEF Awaits
<1>8. d \in DOMAIN s.branch /\ s.branch[d].status = "pending" => ~Complete(s)  BY DEF Complete, Settled
<1>9. Awaits(m)' <=> d \in DOMAIN s.branch /\ s.branch[d].status = "pending"  BY <1>2, <1>8 DEF Awaits
<1>10. FlowAt(m) /\ ~Left(m)  BY <1>1 DEF Flow, Left
<1>11. CASE Back(m) \notin T
  <2>1. link'[Back(m)] = link[Back(m)]  BY <1>6, <1>11
  <2>2. d \in DOMAIN s.branch => s.branch[d] = session[b].branch[d]  BY <1>3, <1>11 DEF AddOf
  <2>3. Awaits(m)' <=> Awaits(m)  BY <1>7, <1>9, <2>2
  <2>4. CASE Awaits(m)
    <3> DEFINE r == session[m[1]].branch[m[2]].received
               q == link[Back(m)]
    <3>1. Arrives(m, session[m[1]].branch[m[2]], q)  BY <1>10, <2>4 DEF FlowAt
    <3>2. /\ \A i \in DOMAIN link'[m] : link'[m][i] = Ask
          /\ HasAsk(link'[m]) => r = 0
          /\ Has(m[2])' => NoFin(q) /\ r + Len(q) = Counted(session'[m[2]])
          /\ \A i \in DOMAIN q : q[i].type = "result" => r + i <= Cap(m)
          /\ \A i \in DOMAIN q : q[i].type = "fin" =>
               /\ i = Len(q) /\ q[i].total + 1 <= r + i
               /\ alive' = Links => q[i].total + 1 = r + i
      BY <1>1, <1>5, <3>1 DEF Arrives, Has
    <3>3. r = session'[m[1]].branch[m[2]].received  BY <1>2, <1>7, <1>8, <2>2, <2>4
    <3>4. link'[Back(m)] = q  BY <2>1
    <3> HIDE DEF r, q
    <3> QED  BY <2>3, <2>4, <3>2, <3>3, <3>4, FlowsOn
  <2>5. CASE ~Awaits(m)  BY <1>10, <2>5, <1>5, <2>1, <2>3 DEF FlowAt, Over, Has
  <2> QED  BY <2>4, <2>5
<1>12. CASE Back(m) \in T
  <2> DEFINE r == session[m[1]].branch[m[2]].received
             q == link[Back(m)]
  <2>1. Awaits(m) /\ Arrives(m, session[m[1]].branch[m[2]], q) /\ link[m] = <<>>
    BY <1>1, <1>6, <1>12, ComesAwaited
  <2>2. q # <<>> /\ link'[Back(m)] = Tail(q) /\ IsSeq(q) /\ Head(q) = q[1] /\ 1 \in DOMAIN q
    <3>1. q # <<>> /\ link'[Back(m)] = Tail(q) /\ IsSeq(q)  BY <1>3, <1>6, <1>12 DEF StateOK
    <3> HIDE DEF q
    <3> QED  BY <3>1, SeqTail
  <2>3. d \in DOMAIN s.branch /\ session[b].branch[d].status = "pending"  BY <1>7, <2>1
  <2>4. \/ /\ Head(q).type = "result"
           /\ s.branch[d].received = r + 1 /\ s.branch[d].status = "pending"
        \/ Head(q).type = "fin" /\ s.branch[d].status = "fin_received"
    BY <1>3, <1>12, <2>3 DEF AddOf
  <2>5. link'[m] = <<>>  BY <1>5, <2>1
  <2>6. CASE Head(q).type = "result" /\ s.branch[d].received = r + 1 /\ s.branch[d].status = "pending"
    <3> DEFINE r1 == session'[m[1]].branch[m[2]].received
               p == Tail(q)
    <3>1. Awaits(m)' /\ r1 = r + 1  BY <1>2, <1>8, <2>3, <2>6, <1>9
    <3>2. r \in Nat  BY <1>1, <2>3 DEF AllBooksAdd, BooksAdd, BranchAdds
    <3>3. /\ \A i \in DOMAIN q : q[i].type = "result" => r + i <= Cap(m)
          /\ \A i \in DOMAIN q : q[i].type = "fin" =>
               i = Len(q) /\ q[i].total + 1 <= r + i /\ (alive = Links => q[i].total + 1 = r + i)
          /\ Has(m[2]) => NoFin(q) /\ r + Len(q) = Counted(session[m[2]])
      BY <2>1 DEF Arrives
    <3>4. q[1].type = "result"  BY <2>2, <2>6
    <3>5. Has(m[2])' <=> Has(m[2])  BY <1>5 DEF Has
    <3>6. session'[m[2]] = session[m[2]] /\ alive' = alive  BY <1>1, <1>5
    <3> DEFINE all == alive = Links
               cap == Cap(m)
    <3>7. all \in BOOLEAN  OBVIOUS
    <3> HIDE DEF all, q, r, r1, cap
    <3>8. /\ NoFin(q) => NoFin(p)
          /\ (r + 1) + Len(p) = r + Len(q)
          /\ \A i \in DOMAIN p : p[i].type = "result" => (r + 1) + i <= cap
          /\ \A i \in DOMAIN p : p[i].type = "fin" =>
               i = Len(p) /\ p[i].total + 1 <= (r + 1) + i /\ (all => p[i].total + 1 = (r + 1) + i)
      <4>1. /\ \A i \in DOMAIN q : q[i].type = "result" => r + i <= cap
            /\ \A i \in DOMAIN q : q[i].type = "fin" =>
                 i = Len(q) /\ q[i].total + 1 <= r + i /\ (all => q[i].total + 1 = r + i)
        BY <3>3 DEF all, cap
      <4> QED  BY ONLY <2>2, <3>2, <3>4, <3>7, <4>1, LessArrives
    <3>9. Has(m[2])' => NoFin(p) /\ r1 + Len(p) = Counted(session'[m[2]])
      BY ONLY <3>1, <3>3, <3>5, <3>6, <3>8
    <3>10. /\ \A i \in DOMAIN p : p[i].type = "result" => r1 + i <= Cap(m)
           /\ \A i \in DOMAIN p : p[i].type = "fin" =>
                /\ i = Len(p) /\ p[i].total + 1 <= r1 + i
                /\ alive' = Links => p[i].total + 1 = r1 + i
      BY ONLY <3>1, <3>6, <3>8 DEF all, cap
    <3>11. /\ r1 = session'[m[1]].branch[m[2]].received /\ link'[Back(m)] = p
           /\ \A i \in DOMAIN link'[m] : link'[m][i] = Ask
           /\ ~HasAsk(link'[m])
      BY <2>2, <2>5, NoMessages DEF r1, HasAsk
    <3> HIDE DEF p
    <3> QED  BY <3>1, <3>9, <3>10, <3>11, FlowsOn
  <2>7. CASE Head(q).type = "fin" /\ s.branch[d].status = "fin_received"
    <3>1. 1 = Len(q) /\ ~Has(d)  BY <2>1, <2>2, <2>7 DEF Arrives, NoFin
    <3>2. Tail(q) = <<>>
      <4>1. IsSeq(q) /\ q # <<>> /\ Len(q) = 1  BY <2>2, <3>1
      <4> HIDE DEF q
      <4> QED  BY <4>1, TailSize
    <3>3. Over(m)'  BY <1>5, <2>2, <2>5, <3>1, <3>2, NoMessages DEF Over, Has, HasAsk
    <3>4. ~Awaits(m)'  BY <1>9, <2>7
    <3> QED  BY <3>3, <3>4 DEF FlowAt
  <2> QED  BY <2>4, <2>6, <2>7
<1> QED  BY <1>11, <1>12

\* ... and the others.
LEMMA AdvanceAdds ==
    ASSUME AskInv, Adds, NEW b, NEW s, NEW h, NEW T, NEW E, AddOf(b, s, h, T, E)
    PROVE  Adds'
<1>1. /\ StateOK /\ SessionsFit /\ AsksAreFresh
      /\ FinsFit /\ DeadLinks /\ AllBooksAdd /\ Flow
      /\ AdvanceOf(b, s, h, T, E)
  BY DEF AskInv, Adds, AddOf
<1>2. FinsFit' /\ DeadLinks' /\ AllBooksAdd'  BY <1>1, AdvanceFins, AdvanceBooks
<1>3. /\ b \in Buses /\ alive' = alive /\ publisher' = publisher
      /\ \A l \in T : l[2] = b
  BY <1>1 DEF AdvanceOf
<1>4. \A c \in Buses \ {b} : session'[c] = session[c]  BY <1>1, AdvanceSession
<1>5. ASSUME NEW m \in alive, Away(m)  PROVE FlowAt(m)'
  <2>1. CASE m[2] = b  BY <1>1, <1>5, <2>1, AdvanceFlowIn
  <2>2. CASE m[1] = b  BY <1>1, <1>5, <2>2, AdvanceFlowOut
  <2>3. CASE m[1] # b /\ m[2] # b
    <3>1. /\ m \in Links /\ m[1] \in Buses /\ m[2] \in Buses /\ Back(m) \in Links
          /\ Back(m)[1] = m[2] /\ Back(m)[2] = m[1]
      BY <1>1, LinkKinds DEF StateOK, Back
    <3>2. \A u \in Links : u[1] # b /\ u[2] # b => link'[u] = link[u]
      <4>1. ASSUME NEW u \in Links, u[1] # b, u[2] # b  PROVE link'[u] = link[u]
        BY <1>3, <4>1, <1>1, AdvanceMessages
      <4> QED  BY <4>1
    <3>3. link'[m] = link[m] /\ link'[Back(m)] = link[Back(m)]  BY <2>3, <3>1, <3>2
    <3>4. session'[m[1]] = session[m[1]] /\ session'[m[2]] = session[m[2]] /\ FlowAt(m)
      BY <1>1, <1>4, <1>5, <2>3, <3>1 DEF Flow
    <3> QED  BY <1>3, <3>3, <3>4, QuietFlow
  <2> QED  BY <2>1, <2>2, <2>3
<1>6. \A m : Away(m)' <=> Away(m)  BY <1>3 DEF Away, Home
<1>7. Flow'  BY <1>3, <1>5, <1>6 DEF Flow
<1> QED  BY <1>2, <1>7 DEF Adds

-----------------------------------------------------------------------------
(* The steps that advance a session. *)

\* One more result of branch d.
LEMMA CountedMore ==
    ASSUME NEW b \in Buses, NEW s, SessionFits(b, s), BooksAdd(b, s), NEW d \in DOMAIN s.branch,
           s.branch[d].received + 1 <= Cap(<<b, d>>), s.branch[d].status = "pending"
    PROVE  /\ BooksAdd(b, CountResult(s, d)) /\ Counted(CountResult(s, d)) = Counted(s) + 1
           /\ CountResult(s, d).branch[d].received = s.branch[d].received + 1
           /\ \A x \in DOMAIN s.branch \ {d} : CountResult(s, d).branch[x] = s.branch[x]
<1> DEFINE t == CountResult(s, d)
           D == DOMAIN s.branch
           k == s.branch[d]
           k2 == [status |-> k.status, expected |-> k.expected, received |-> k.received + 1]
<1>1. /\ SessionFits(b, t) /\ t.source = s.source /\ t.local = s.local /\ DOMAIN t.branch = D
      /\ \A x \in D : t.branch[x].status = s.branch[x].status
  BY BooksCount
<1>2. k = [status |-> k.status, expected |-> k.expected, received |-> k.received]  BY DEF SessionFits, IsBooks
<1>3. t.branch = [s.branch EXCEPT ![d] = [k EXCEPT !.received = k.received + 1]]
  <2>1. s = [source |-> s.source, branch |-> s.branch, local |-> s.local]  BY DEF SessionFits
  <2>2. t = [s EXCEPT !.branch = [s.branch EXCEPT ![d] = [k EXCEPT !.received = k.received + 1]]]
    BY <2>1 DEF CountResult
  <2> HIDE DEF t
  <2> QED  BY <2>1, <2>2
<1>4. [k EXCEPT !.received = k.received + 1] = k2  BY <1>2
<1>5. s.branch = [x \in D |-> s.branch[x]]  BY DEF SessionFits
<1>6. t.branch[d] = k2 /\ \A x \in D \ {d} : t.branch[x] = s.branch[x]  BY <1>3, <1>4, <1>5
<1>7. t.branch[d].status = k.status /\ t.branch[d].expected = k.expected /\ t.branch[d].received = k.received + 1
  BY <1>6
<1> HIDE DEF t, k2
<1>8. /\ BranchAdds(<<b, d>>, k)
      /\ \A x \in D : BranchAdds(<<b, x>>, s.branch[x])
      /\ s.local.status = "fin_received" /\ s.local.expected <= Cardinality(NodesIn({b}))
  BY DEF BooksAdd
<1>9. BranchAdds(<<b, d>>, t.branch[d])  BY <1>7, <1>8 DEF BranchAdds
<1>10. BooksAdd(b, t)  BY <1>1, <1>6, <1>8, <1>9 DEF BooksAdd
<1>11. /\ IsFiniteSet(D) /\ Received(s) \in [D -> Nat] /\ Total(Received(s)) \in Nat
       /\ Counted(s) = s.local.received + Total(Received(s))
  BY BranchesAre
<1>12. /\ Received(t) \in [D -> Nat] /\ Total(Received(t)) \in Nat
       /\ Counted(t) = t.local.received + Total(Received(t))
  BY <1>1, <1>10, BranchesAre
<1>13. Received(t)[d] = Received(s)[d] + 1 /\ \A x \in D \ {d} : Received(t)[x] = Received(s)[x]
  BY <1>1, <1>6, <1>7 DEF Received
<1>14. Total(Received(t)) = Total(Received(s)) + 1
  <2> HIDE DEF D, k
  <2>1. d \in D  BY DEF D
  <2> QED  BY <1>11, <1>12, <1>13, <2>1, TotalOneMore
<1>15. s.local.received \in Nat  BY DEF SessionFits
<1>16. Counted(t) = Counted(s) + 1  BY <1>1, <1>11, <1>12, <1>14, <1>15
<1> QED  BY <1>6, <1>7, <1>10, <1>16 DEF t

\* Branch d has ended; what it has passed on stays counted.
LEMMA CountedEnded ==
    ASSUME NEW b \in Buses, NEW s, SessionFits(b, s), BooksAdd(b, s), NEW d \in DOMAIN s.branch,
           NEW total \in Nat, total <= s.branch[d].received,
           alive = Links => total = s.branch[d].received
    PROVE  /\ BooksAdd(b, EndBranch(s, d, total)) /\ Counted(EndBranch(s, d, total)) = Counted(s)
           /\ EndBranch(s, d, total).branch[d].status = "fin_received"
<1> DEFINE t == EndBranch(s, d, total)
           D == DOMAIN s.branch
           k == s.branch[d]
           k2 == [status |-> "fin_received", expected |-> total, received |-> k.received]
<1>1. /\ SessionFits(b, t) /\ t.source = s.source /\ t.local = s.local /\ DOMAIN t.branch = D
      /\ \A x \in D \ {d} : t.branch[x] = s.branch[x]
  BY BooksEnd
<1>2. IsBooks(k)  BY DEF SessionFits
<1>3. t.branch = [s.branch EXCEPT ![d] = [[k EXCEPT !.status = "fin_received"] EXCEPT !.expected = total]]
  <2>1. s = [source |-> s.source, branch |-> s.branch, local |-> s.local]  BY DEF SessionFits
  <2>2. t = [s EXCEPT !.branch = [s.branch EXCEPT ![d] = [[k EXCEPT !.status = "fin_received"] EXCEPT !.expected = total]]]
    BY <2>1 DEF EndBranch
  <2> HIDE DEF t
  <2> QED  BY <2>1, <2>2
<1>4. [[k EXCEPT !.status = "fin_received"] EXCEPT !.expected = total] = k2  BY <1>2, BooksFilled
<1>5. s.branch = [x \in D |-> s.branch[x]]  BY DEF SessionFits
<1>6. t.branch[d] = k2  BY <1>3, <1>4, <1>5
<1>7. t.branch[d].status = "fin_received" /\ t.branch[d].expected = total /\ t.branch[d].received = k.received
  BY <1>6
<1> HIDE DEF t, k2
<1>8. /\ BranchAdds(<<b, d>>, k)
      /\ \A x \in D : BranchAdds(<<b, x>>, s.branch[x])
      /\ s.local.status = "fin_received" /\ s.local.expected <= Cardinality(NodesIn({b}))
  BY DEF BooksAdd
<1>9. BranchAdds(<<b, d>>, t.branch[d])  BY <1>7, <1>8 DEF BranchAdds
<1>10. BooksAdd(b, t)  BY <1>1, <1>8, <1>9 DEF BooksAdd
<1>13. Received(t) = Received(s)  BY <1>1, <1>7 DEF Received
<1>16. Counted(t) = Counted(s)  BY <1>1, <1>13 DEF Counted
<1> QED  BY <1>7, <1>10, <1>16 DEF t

\* An answer at a bus with a session is of a branch that is awaited, or has taken the
\* wrong way, from the publisher's bus after it has lost its session.
LEMMA ComesFrom ==
    ASSUME StateOK, SessionsFit, AsksAreFresh, DeadLinks, Flow,
           NEW l \in Links, Has(l[2]), link[l] # <<>>, Head(link[l]) # Ask
    PROVE  /\ Back(l) = <<l[2], l[1]>> /\ Back(l) \in Links
           /\ \/ /\ l[1] \in DOMAIN session[l[2]].branch
                 /\ session[l[2]].branch[l[1]].status = "pending"
                 /\ Arrives(Back(l), session[l[2]].branch[l[1]], link[l])
              \/ /\ l[1] \notin DOMAIN session[l[2]].branch
                 /\ l[2] # Home /\ session[l[2]].source = Home /\ ~Has(Home)
<1> DEFINE b == l[2]
           d == l[1]
           u == Back(l)
<1>1. /\ b \in Buses /\ d \in Buses /\ b # d /\ l = <<d, b>> /\ u = <<b, d>> /\ u \in Links
      /\ u[1] = b /\ u[2] = d /\ Back(u) = l
  BY LinkKinds DEF Back
<1>2. l \in alive /\ u \in alive  BY <1>1 DEF DeadLinks
<1>3. SessionFits(b, session[b])  BY <1>1 DEF SessionsFit
<1>4. CASE d = session[b].source
  <2>1. b # Home /\ Away(l)  BY <1>1, <1>3, <1>4 DEF SessionFits
  <2>2. d \notin DOMAIN session[b].branch  BY <1>3, <1>4 DEF SessionFits
  <2>3. FlowAt(l)  BY <1>2, <2>1 DEF Flow
  <2>4. ~Awaits(l)
    <3>1. SUFFICES ASSUME Awaits(l)  PROVE FALSE  OBVIOUS
    <3>2. \A i \in DOMAIN link[l] : link[l][i] = Ask  BY <2>3, <3>1 DEF FlowAt, Arrives
    <3> QED  BY <3>2, HeadIs
  <2>5. Left(l)  BY <2>3, <2>4 DEF FlowAt, Over
  <2> QED  BY <1>1, <1>4, <2>1, <2>2, <2>5 DEF Left
<1>5. CASE d # session[b].source
  <2>1. Away(u)
    <3>1. CASE b = Home  BY <1>1, <3>1, BranchAway
    <3>2. CASE b # Home
      <4> DEFINE z == session[b].source
      <4>1. <<z, b>> \in Links /\ Away(<<z, b>>) /\ d # z  BY <1>3, <1>5, <3>2 DEF SessionFits
      <4>2. z \in Buses  BY <4>1, LinkKinds
      <4> HIDE DEF z
      <4> QED  BY <1>1, <4>1, <4>2, BranchAway
    <3> QED  BY <3>1, <3>2
  <2>2. Awaits(u) /\ Arrives(u, session[b].branch[d], link[l])  BY <1>1, <1>2, <2>1, ComesAwaited
  <2> QED  BY <1>1, <2>2 DEF Awaits
<1> QED  BY <1>4, <1>5

LEMMA UpdateAdds ==
    ASSUME AskInv, Adds, NEW l \in Links, UpdateSession(l)
    PROVE  Adds'
<1> DEFINE b == l[2]  d == l[1]  m == Head(link[l])
<1>1. /\ StateOK /\ SessionsFit /\ RoutesHold /\ AsksAreFresh /\ FinsFit /\ DeadLinks /\ AllBooksAdd /\ Flow
      /\ b \in Buses /\ d \in Buses /\ l = <<d, b>>
      /\ Has(b) /\ link[l] # <<>> /\ (m.type = "result" \/ m.type = "fin")
      /\ UNCHANGED <<publisher, loopback, subscribers, strangers, denied, hops, open, alive,
                     executing, asked>>
  BY LinkKinds DEF AskInv, Adds, UpdateSession, Arrived, Has, setup
<1>2. /\ SessionFits(b, session[b]) /\ BooksAdd(b, session[b])
      /\ session[b].local.received + Cardinality(Running(b)) <= session[b].local.expected
  BY <1>1 DEF SessionsFit, AllBooksAdd
<1>3. Running(b)' = Running(b) /\ alive \subseteq open' /\ open' \subseteq Links /\ RoutesHold'
  BY <1>1 DEF Running, StateOK, RoutesHold
<1>4. FullLinks({l}) /\ Taken({l}) = Without(l) /\ \A k \in {l} : k[2] = b /\ {l} = {k}
  BY <1>1, TakenIs DEF FullLinks
<1>5. /\ 1 \in DOMAIN link[l] /\ link[l][1] = m /\ m # Ask  BY <1>1, HeadIs, Types
<1>6. /\ <<b, d>> \in Links
      /\ \/ /\ d \in DOMAIN session[b].branch
            /\ session[b].branch[d].status = "pending"
            /\ Arrives(<<b, d>>, session[b].branch[d], link[l])
         \/ /\ d \notin DOMAIN session[b].branch
            /\ b # Home /\ session[b].source = Home /\ ~Has(Home)
  BY <1>1, <1>5, ComesFrom
<1>7. \A x \in DOMAIN session[b].branch : <<x, b>> \in {l} => x = d  BY <1>1
<1>8. \A x \in DOMAIN session[b].branch : x # d => <<x, b>> \notin {l}  BY <1>1
<1>9. CASE m.type = "result"
  <2>1. PICK n \in Nodes : m = Result(n) /\ m.node = n  BY <1>1, <1>9, HeadIs
  <2> DEFINE s == CountResult(session[b], d)
  <2>2. /\ SessionFits(b, s) /\ s.source = session[b].source /\ s.local = session[b].local
        /\ DOMAIN s.branch = DOMAIN session[b].branch
        /\ \A x \in DOMAIN session[b].branch : s.branch[x].status = session[b].branch[x].status
    BY <1>2, BooksCount
  <2>3. Advance(Taken({l}), b, s, <<n>>)  BY <1>4, <1>9, <2>1 DEF UpdateSession
  <2>4. AtMostOne(<<n>>) /\ InHand(b, <<n>>, {l}) /\ Len(<<n>>) = 1  BY <1>1, <2>1 DEF AtMostOne, InHand
  <2>5. CASE d \in DOMAIN session[b].branch
    <3>1. /\ session[b].branch[d].status = "pending"
          /\ session[b].branch[d].received + 1 <= Cap(<<b, d>>)
      BY <1>5, <1>6, <1>9, <2>5 DEF Arrives
    <3>2. /\ BooksAdd(b, s) /\ Counted(s) = Counted(session[b]) + 1
          /\ s.branch[d].received = session[b].branch[d].received + 1
          /\ \A x \in DOMAIN session[b].branch \ {d} : s.branch[x] = session[b].branch[x]
      BY <1>1, <1>2, <2>5, <3>1, CountedMore
    <3>3. <<d, b>> \in {l} /\ Head(link[<<d, b>>]).type = "result"  BY <1>1, <1>9
    <3> HIDE DEF s, b, d, m
    <3>4. AdvanceOf(b, s, <<n>>, {l}, {})  BY <1>1, <1>2, <1>3, <1>4, <2>2, <2>3, <2>4 DEF AdvanceOf
    <3>5. \A x \in DOMAIN s.branch :
           IF <<x, b>> \in {l}
           THEN \/ /\ Head(link[<<x, b>>]).type = "result"
                   /\ s.branch[x].received = session[b].branch[x].received + 1
                   /\ s.branch[x].status = session[b].branch[x].status
                \/ Head(link[<<x, b>>]).type = "fin" /\ s.branch[x].status = "fin_received"
           ELSE s.branch[x] = session[b].branch[x] \/ <<b, x>> \notin alive
      BY <1>7, <2>2, <3>2, <3>3
    <3>6. AddOf(b, s, <<n>>, {l}, {})  BY <2>4, <3>2, <3>4, <3>5 DEF AddOf
    <3> QED  BY <3>6, AdvanceAdds
  <2>6. CASE d \notin DOMAIN session[b].branch
    <3>1. s = session[b]  BY <2>6 DEF CountResult
    <3>2. b # Home /\ s.source = Home /\ ~Has(Home)  BY <1>6, <2>6, <3>1
    <3>3. BooksAdd(b, s)  BY <1>2, <3>1
    <3> HIDE DEF s, b, d, m
    <3>4. AdvanceOf(b, s, <<n>>, {l}, {})  BY <1>1, <1>2, <1>3, <1>4, <2>2, <2>3, <2>4 DEF AdvanceOf
    <3>5. \A x \in DOMAIN s.branch : <<x, b>> \notin {l} /\ s.branch[x] = session[b].branch[x]
      BY <1>8, <2>6, <3>1
    <3>6. AddOf(b, s, <<n>>, {l}, {})  BY <3>2, <3>3, <3>4, <3>5 DEF AddOf
    <3> QED  BY <3>6, AdvanceAdds
  <2> QED  BY <2>5, <2>6
<1>10. CASE m.type = "fin"
  <2>1. Advance(Taken({l}), b, EndBranch(session[b], d, m.total), <<>>)
    BY <1>1, <1>4, <1>10 DEF UpdateSession
  <2>2. AtMostOne(<<>>) /\ InHand(b, <<>>, {l}) /\ Len(<<>>) = 0  BY <1>1, <1>10 DEF AtMostOne, InHand
  <2>3. Counted(session[b]) \in Nat  BY <1>1, <1>2, BranchesAre
  <2>4. CASE d \in DOMAIN session[b].branch
    <3> DEFINE s == EndBranch(session[b], d, m.total)
    <3>1. /\ SessionFits(b, s) /\ s.source = session[b].source /\ s.local = session[b].local
          /\ DOMAIN s.branch = DOMAIN session[b].branch
          /\ \A x \in DOMAIN session[b].branch \ {d} : s.branch[x] = session[b].branch[x]
      BY <1>2, <2>4, BooksEnd
    <3>2. <<d, b>> \in {l} /\ Head(link[<<d, b>>]).type = "fin"  BY <1>1, <1>10
    <3>3. Advance(Taken({l}), b, s, <<>>)  BY <2>1
    <3>4. m.total \in Nat
      <4>1. IsFin(m)  BY <1>1, <1>5 DEF FinsFit
      <4>2. PICK k \in 0 .. Cardinality(Nodes) : m = Fin(k)  BY <1>10, <4>1 DEF IsFin
      <4>3. Cardinality(Nodes) \in Nat  BY NodesFinite
      <4>4. m.total = k  BY <4>2 DEF Fin
      <4> QED  BY <4>2, <4>3, <4>4
    <3>5. /\ m.total <= session[b].branch[d].received
          /\ alive = Links => m.total = session[b].branch[d].received
      <4> DEFINE r == session[b].branch[d].received
      <4>1. r \in Nat  BY <1>2, <2>4 DEF BooksAdd, BranchAdds
      <4>2. m.total + 1 <= r + 1 /\ (alive = Links => m.total + 1 = r + 1)
        BY <1>5, <1>6, <1>10, <2>4 DEF Arrives
      <4> HIDE DEF r
      <4>3. m.total <= r /\ (alive = Links => m.total = r)  BY <3>4, <4>1, <4>2
      <4> QED  BY <4>3 DEF r
    <3>6. /\ BooksAdd(b, s) /\ Counted(s) = Counted(session[b])
          /\ s.branch[d].status = "fin_received"
      BY <1>1, <1>2, <2>4, <3>4, <3>5, CountedEnded
    <3> HIDE DEF s, b, d, m
    <3>7. AdvanceOf(b, s, <<>>, {l}, {d})  BY <1>1, <1>2, <1>3, <1>4, <2>2, <3>1, <3>2, <3>3 DEF AdvanceOf
    <3>8. \A x \in DOMAIN s.branch :
           IF <<x, b>> \in {l}
           THEN \/ /\ Head(link[<<x, b>>]).type = "result"
                   /\ s.branch[x].received = session[b].branch[x].received + 1
                   /\ s.branch[x].status = session[b].branch[x].status
                \/ Head(link[<<x, b>>]).type = "fin" /\ s.branch[x].status = "fin_received"
           ELSE s.branch[x] = session[b].branch[x] \/ <<b, x>> \notin alive
      BY <1>7, <3>1, <3>2, <3>6
    <3>9. Counted(s) = Counted(session[b]) + Len(<<>>)  BY <2>2, <2>3, <3>6
    <3>10. AddOf(b, s, <<>>, {l}, {d})  BY <3>6, <3>7, <3>8, <3>9 DEF AddOf
    <3> QED  BY <3>10, AdvanceAdds
  <2>5. CASE d \notin DOMAIN session[b].branch
    <3>1. Advance(Taken({l}), b, session[b], <<>>)  BY <2>1, <2>5 DEF EndBranch
    <3> HIDE DEF b, d, m
    <3>2. AdvanceOf(b, session[b], <<>>, {l}, {})  BY <1>1, <1>2, <1>3, <1>4, <2>2, <3>1 DEF AdvanceOf
    <3>3. \A x \in DOMAIN session[b].branch : <<x, b>> \notin {l}  BY <1>8, <2>5
    <3>4. Counted(session[b]) = Counted(session[b]) + Len(<<>>)  BY <2>2, <2>3
    <3>5. AddOf(b, session[b], <<>>, {l}, {})  BY <1>2, <3>2, <3>3, <3>4 DEF AddOf
    <3> QED  BY <3>5, AdvanceAdds
  <2> QED  BY <2>4, <2>5
<1> QED  BY <1>1, <1>9, <1>10

LEMMA AnswerAdds ==
    ASSUME AskInv, Adds, NEW n \in Nodes, Answer(n), Has(HomeOf[n])
    PROVE  Adds'
<1> DEFINE b == HomeOf[n]
<1>1. /\ StateOK /\ SessionsFit /\ RoutesHold /\ AllBooksAdd /\ b \in Buses /\ n \in executing
      /\ executing' = executing \ {n} /\ executing \subseteq Nodes
      /\ UNCHANGED <<publisher, loopback, subscribers, strangers, denied, hops, open, alive, asked>>
      /\ Advance(link, b, [session[b] EXCEPT !.local.received = @ + 1], <<n>>)
  BY AskAssumption DEF AskInv, Adds, Answer, Has, setup, StateOK
<1>2. /\ SessionFits(b, session[b]) /\ BooksAdd(b, session[b])
      /\ session[b].local.received + Cardinality(Running(b)) <= session[b].local.expected
  BY <1>1 DEF SessionsFit, AllBooksAdd
<1>3. PICK s : /\ s = [session[b] EXCEPT !.local.received = @ + 1] /\ SessionFits(b, s)
               /\ s.source = session[b].source /\ s.branch = session[b].branch
               /\ s.local.received = session[b].local.received + 1
               /\ s.local.expected = session[b].local.expected
  BY <1>2, BooksLocal
<1>4. FullLinks({}) /\ Taken({}) = link  BY <1>1, TakenIs DEF FullLinks
<1>5. s.local.received + Cardinality(Running(b)') <= s.local.expected
  <2>1. Running(b)' = Running(b) \ {n} /\ n \in Running(b) /\ Running(b) \in SUBSET Nodes  BY <1>1 DEF Running
  <2>2. IsFiniteSet(Running(b))  BY <2>1, FS_Subset, AskAssumption
  <2>3. Cardinality(Running(b)') = Cardinality(Running(b)) - 1 /\ Cardinality(Running(b)) \in Nat
    BY <2>1, <2>2, FS_RemoveElement, FS_CardinalityType
  <2>4. session[b].local.received \in Nat /\ session[b].local.expected \in Nat  BY <1>2 DEF SessionFits
  <2> QED  BY <1>2, <1>3, <2>3, <2>4
<1>6. AtMostOne(<<n>>) /\ InHand(b, <<n>>, {}) /\ alive \subseteq open' /\ open' \subseteq Links /\ RoutesHold'
  BY <1>1 DEF AtMostOne, InHand, StateOK, RoutesHold
<1>7. Advance(Taken({}), b, s, <<n>>) /\ Has(b)  BY <1>1, <1>3, <1>4
<1>8. s.local.status = session[b].local.status
  <2> DEFINE k == session[b].local
  <2>1. k = [status |-> k.status, expected |-> k.expected, received |-> k.received]
    BY <1>2 DEF SessionFits, IsBooks
  <2>2. session[b] = [source |-> session[b].source, branch |-> session[b].branch, local |-> session[b].local]
    BY <1>2 DEF SessionFits
  <2>3. s.local = [k EXCEPT !.received = k.received + 1]  BY <1>3, <2>2
  <2> HIDE DEF k
  <2>4. s.local.status = k.status  BY <2>1, <2>3
  <2> QED  BY <2>4 DEF k
<1>9. BooksAdd(b, s)  BY <1>2, <1>3, <1>8 DEF BooksAdd
<1>10. Counted(s) = Counted(session[b]) + Len(<<n>>)
  <2>1. Received(s) = Received(session[b])  BY <1>3 DEF Received
  <2>2. Counted(session[b]) = session[b].local.received + Total(Received(session[b]))
        /\ Total(Received(session[b])) \in Nat
    BY <1>1, <1>2, BranchesAre
  <2>3. Counted(s) = (session[b].local.received + 1) + Total(Received(session[b]))  BY <1>3, <2>1 DEF Counted
  <2>4. session[b].local.received \in Nat /\ Len(<<n>>) = 1  BY <1>2 DEF SessionFits
  <2> QED  BY <2>2, <2>3, <2>4
<1> HIDE DEF b
<1>11. AdvanceOf(b, s, <<n>>, {}, {})  BY <1>1, <1>3, <1>4, <1>5, <1>6, <1>7 DEF AdvanceOf
<1>12. AddOf(b, s, <<n>>, {}, {})  BY <1>3, <1>9, <1>10, <1>11 DEF AddOf
<1> QED  BY <1>12, AdvanceAdds

LEMMA NoticeAdds ==
    ASSUME AskInv, Adds, NEW l \in Links, NoticeDrop(l), Has(l[1]), l[2] \in DOMAIN session[l[1]].branch
    PROVE  Adds'
<1> DEFINE b == l[1]  d == l[2]
<1>1. /\ StateOK /\ SessionsFit /\ RoutesHold /\ AllBooksAdd
      /\ b \in Buses /\ d \in Buses /\ l = <<b, d>> /\ l \in open \ alive /\ open' = open \ {l}
      /\ UNCHANGED <<publisher, loopback, subscribers, strangers, denied, alive, executing, asked>>
      /\ hops' = hops \ ({l[2]} \cap Children(b))
      /\ Advance(link, b, EndBranch(session[b], d, 0), <<>>)
  BY LinkKinds DEF AskInv, Adds, NoticeDrop, Has, setup
<1>2. /\ SessionFits(b, session[b]) /\ BooksAdd(b, session[b])
      /\ session[b].local.received + Cardinality(Running(b)) <= session[b].local.expected
  BY <1>1 DEF SessionsFit, AllBooksAdd
<1>3. FullLinks({}) /\ Taken({}) = link  BY <1>1, TakenIs DEF FullLinks
<1>4. Running(b)' = Running(b) /\ alive \subseteq open' /\ open' \subseteq Links  BY <1>1 DEF Running, StateOK
<1>5. RoutesHold'  BY <1>1, RoutesKept
<1> DEFINE s == EndBranch(session[b], d, 0)
<1>6. /\ SessionFits(b, s) /\ s.source = session[b].source /\ s.local = session[b].local
      /\ DOMAIN s.branch = DOMAIN session[b].branch
      /\ \A x \in DOMAIN session[b].branch \ {d} : s.branch[x] = session[b].branch[x]
  BY <1>2, BooksEnd
<1>7. AtMostOne(<<>>) /\ InHand(b, <<>>, {}) /\ <<b, d>> \notin alive /\ Has(b) /\ Len(<<>>) = 0
  BY <1>1 DEF AtMostOne, InHand
<1>8. Advance(Taken({}), b, s, <<>>)  BY <1>1, <1>3
<1>9. 0 <= session[b].branch[d].received /\ alive # Links  BY <1>2, <1>1 DEF BooksAdd, BranchAdds
<1>10. BooksAdd(b, s) /\ Counted(s) = Counted(session[b])  BY <1>1, <1>2, <1>9, CountedEnded
<1>11. Counted(session[b]) \in Nat  BY <1>1, <1>2, BranchesAre
<1> HIDE DEF b, d, s
<1>12. AdvanceOf(b, s, <<>>, {}, {d})  BY <1>1, <1>2, <1>3, <1>4, <1>5, <1>6, <1>7, <1>8 DEF AdvanceOf
<1>13. \A x \in DOMAIN s.branch : s.branch[x] = session[b].branch[x] \/ <<b, x>> \notin alive  BY <1>6, <1>7
<1>14. Counted(s) = Counted(session[b]) + Len(<<>>)  BY <1>7, <1>10, <1>11
<1>15. AddOf(b, s, <<>>, {}, {d})  BY <1>10, <1>12, <1>13, <1>14 DEF AddOf
<1> QED  BY <1>15, AdvanceAdds

-----------------------------------------------------------------------------
(* The ask arrives at a bus. *)

LEMMA NewCounts ==
    ASSUME StateOK, NEW b \in Buses, NEW source, NEW s,
           s = NewSession(source, Remotes(b, source), Locals(b, source))
    PROVE  /\ Counted(s) = 0 /\ BooksAdd(b, s)
           /\ DOMAIN s.branch = Remotes(b, source)
           /\ \A d \in Remotes(b, source) : s.branch[d] = Pending
<1> DEFINE D == Remotes(b, source)
           L == Locals(b, source)
           f == Received(s)
           X == [d \in D |-> {}]
<1>1. /\ \A d \in D : <<b, d>> \in Links
      /\ L \subseteq Nodes /\ (\A n \in L : HomeOf[n] = b)
      /\ IsFiniteSet(L) /\ Cardinality(L) \in Nat
  BY TargetsAre
<1> HIDE DEF D, L
<1>2. s = NewSession(source, D, L)  BY DEF D, L
<1>3. /\ DOMAIN s.branch = D /\ \A d \in D : s.branch[d] = Pending
      /\ s.local.status = "fin_received" /\ s.local.expected = Cardinality(L)
      /\ s.local.received = 0
  BY <1>2 DEF NewSession
<1>4. IsFiniteSet(D)
  <2>1. D \subseteq Buses /\ IsFiniteSet(Buses)
    <3>1. \A d \in D : d \in Buses  BY <1>1, LinkKinds
    <3> QED  BY <3>1, AskAssumption
  <2> QED  BY <2>1, FS_Subset
<1>5. f = [d \in D |-> 0]  BY <1>3 DEF Received, Pending
<1> HIDE DEF f
<1>6. Total(f) = 0
  <2>1. f \in [D -> Nat] /\ \A d \in D : f[d] = 0  BY <1>5
  <2>2. IsFiniteSet({}) /\ Cardinality({}) = 0  BY FS_EmptySet
  <2>3. /\ \A d \in D : X[d] \subseteq {} /\ f[d] <= Cardinality(X[d])
        /\ \A d, e \in D : d # e => X[d] \cap X[e] = {}
    BY <2>1, <2>2
  <2>4. UNION {X[d] : d \in D} = {}  OBVIOUS
  <2> HIDE DEF X
  <2>5. Total(f) <= Cardinality(UNION {X[d] : d \in D})  BY <1>4, <2>1, <2>2, <2>3, TotalWithin
  <2>6. Total(f) \in Nat  BY <1>4, <2>1, TotalIs
  <2> QED  BY <2>2, <2>4, <2>5, <2>6
<1>7. Counted(s) = 0  BY <1>3, <1>6 DEF Counted, f
<1>8. s.local.expected <= Cardinality(NodesIn({b}))  BY <1>1, NodesFinite, FS_Subset, <1>3 DEF NodesIn
<1>9. ASSUME NEW d \in D  PROVE BranchAdds(<<b, d>>, s.branch[d])
  BY NodesFinite, <1>3 DEF Cap, Pending, BranchAdds
<1> QED  BY <1>3, <1>7, <1>8, <1>9 DEF BooksAdd, D

LEMMA NoneIn ==
    /\ Len(<<>>) = 0 /\ DOMAIN <<>> = {} /\ NoFin(<<>>) /\ ~HasAsk(<<>>)
BY NoMessages DEF NoFin, HasAsk

LEMMA DispatchFlowIn ==
    ASSUME StateOK, Flow, NEW b, NEW source, NEW T, DispatchOf(b, source, T),
           NEW m \in alive, Away(m), m[2] = b
    PROVE  FlowAt(m)'
<1>1. /\ m \in Links /\ m[2] \in Side(m) /\ m[1] # m[2] /\ m[1] \in Buses /\ m = <<m[1], m[2]>>
      /\ Back(m) \in Links /\ Back(m) = <<b, m[1]>> /\ b \in Buses
  BY LinkKinds, SideEnds DEF StateOK, Back
<1>2. b # Home  BY <1>1 DEF Away
<1>3. /\ <<source, b>> \in Links /\ Away(<<source, b>>) /\ T = {<<source, b>>}
      /\ link[<<source, b>>] # <<>> /\ Head(link[<<source, b>>]) = Ask
      /\ \A u \in Links : u[1] = b => link[u] = <<>>
  BY <1>2 DEF DispatchOf
<1>4. m = <<source, b>>  BY <1>1, <1>3, OneWayIn
<1>5. link'[m] = Tail(link[m])  BY <1>1, DispatchLink, <1>3, <1>4 DEF Taken
<1>6. link'[Back(m)] = <<>>  BY <1>1, TargetsAre, DispatchTaken, <1>4, DispatchLink
<1>7. HasAsk(link[m]) /\ IsSeq(link[m]) /\ link[m] # <<>>  BY <1>1, <1>3, <1>4, SeqTail DEF StateOK, HasAsk
<1>8. session'[m[1]] = session[m[1]] /\ Home' = Home /\ publisher' = publisher  BY <1>1, DispatchSession
<1>9. CASE Awaits(m)
  <2>1. Arrives(m, session[m[1]].branch[b], link[Back(m)])  BY <1>9, Flow DEF Flow, FlowAt
  <2> DEFINE k == session[m[1]].branch[b]
  <2>2. k.received = 0 /\ \A i \in DOMAIN link[m] : link[m][i] = Ask  BY <1>7, <2>1 DEF Arrives
  <2>3. \A i \in DOMAIN link'[m] : link'[m][i] = Ask  BY <1>5, <1>7, <2>2, SeqTail
  <2>4. Awaits(m)'  BY <1>8, <1>9 DEF Awaits, Has
  <2>5. 0 = session'[m[1]].branch[m[2]].received  BY <1>8, <2>2
  <2>6. Has(m[2])' => Counted(session'[m[2]]) = 0  BY <1>1, DispatchSession, NewCounts
  <2> HIDE DEF k
  <2>7. Has(m[2])' => NoFin(<<>>) /\ 0 + Len(<<>>) = Counted(session'[m[2]])  BY <2>6, NoneIn
  <2> QED  BY <1>6, <2>3, <2>4, <2>5, <2>7, NoneIn, FlowsOn
<1>10. CASE ~Awaits(m)
  <2>1. Left(m)  BY <1>7, <1>10 DEF Flow, FlowAt, Over
  <2>2. Left(m)'  BY <1>2, <1>8, <2>1 DEF Left, Has
  <2>3. ~Awaits(m)'  BY <1>8, <1>10 DEF Awaits, Has
  <2> QED  BY <2>2, <2>3 DEF FlowAt
<1> QED  BY <1>9, <1>10

LEMMA DispatchFlowOut ==
    ASSUME StateOK, NEW b, NEW source, NEW T, DispatchOf(b, source, T),
           NEW m \in alive, Away(m), m[1] = b
    PROVE  FlowAt(m)'
<1> DEFINE d == m[2]
<1>1. /\ m \in Links /\ d \in Side(m) /\ d # b /\ m = <<b, d>> /\ d \in Buses
      /\ Back(m) \in Links /\ Back(m) = <<d, b>> /\ b \in Buses /\ Side(Back(m)) = Buses \ Side(m)
  BY LinkKinds, SideEnds DEF StateOK, Back
<1>2. d # source
  <2>1. CASE b = Home  BY <1>1, <2>1 DEF DispatchOf
  <2>2. CASE b # Home
    <3>1. Away(<<source, b>>)  BY <2>2 DEF DispatchOf
    <3>2. SUFFICES ASSUME d = source  PROVE FALSE  OBVIOUS
    <3>3. Away(Back(m))  BY <1>1, <3>1, <3>2
    <3> QED  BY <1>1, <3>3, Homes DEF Away
  <2> QED  BY <2>1, <2>2
<1>3. Fresh(Side(m)) /\ link[m] = <<>>  BY <1>1, <1>2 DEF DispatchOf
<1>4. ~Has(d) /\ link[Back(m)] = <<>>  BY <1>1, <1>3 DEF Fresh
<1>5. session'[d] = session[d] /\ ~Has(d)'  BY <1>1, <1>4, DispatchSession DEF Has
<1>6. \A l \in T : l = <<source, b>>  BY DispatchTaken
<1>7. link'[Back(m)] = <<>>  BY <1>1, <1>2, <1>6, DispatchTaken, <1>4, DispatchLink
<1> HIDE DEF d
<1>8. m[2] = d  BY DEF d
<1>9. CASE d \in Remotes(b, source)
  <2>1. link'[m] = <<Ask>>  BY <1>1, <1>8, <1>9, DispatchLink
  <2>2. session'[b] = NewSession(source, Remotes(b, source), Locals(b, source)) /\ Has(b)'
    BY <1>9, DispatchSession DEF Idle
  <2>3. d \in DOMAIN session'[b].branch /\ session'[b].branch[d] = Pending  BY <1>1, <1>9, <2>2, NewCounts
  <2>4. Awaits(m)'  BY <1>8, <2>2, <2>3 DEF Awaits, Pending
  <2>5. 0 = session'[m[1]].branch[m[2]].received  BY <1>8, <2>3 DEF Pending
  <2>6. \A i \in DOMAIN link'[m] : link'[m][i] = Ask  BY <2>1
  <2>7. ~Has(m[2])'  BY <1>5, <1>8
  <2> QED  BY <1>7, <2>4, <2>5, <2>6, <2>7, NoneIn, FlowsOn
<1>10. CASE d \notin Remotes(b, source)
  <2>1. link'[m] = <<>>  BY <1>1, <1>8, <1>10, DispatchLink, DispatchTaken
  <2>2. ~Awaits(m)'
    <3>1. SUFFICES ASSUME Has(b)'  PROVE d \notin DOMAIN session'[b].branch  BY <1>8 DEF Awaits
    <3>2. session'[b] = NewSession(source, Remotes(b, source), Locals(b, source))  BY <3>1, DispatchSession
    <3>3. DOMAIN session'[b].branch = Remotes(b, source)  BY <1>1, <3>2, NewCounts
    <3> QED  BY <1>10, <3>3
  <2>3. Over(m)'  BY <1>5, <1>7, <1>8, <2>1, NoneIn DEF Over
  <2> QED  BY <2>2, <2>3 DEF FlowAt
<1> QED  BY <1>9, <1>10

LEMMA DispatchAdds ==
    ASSUME StateOK, Adds, NEW b, NEW source, NEW T, DispatchOf(b, source, T)
    PROVE  Adds'
<1>1. FinsFit /\ DeadLinks /\ AllBooksAdd /\ Flow  BY DEF Adds
<1>2. /\ b \in Buses /\ alive' = alive /\ publisher' = publisher
      /\ \A c \in Buses \ {b} : session'[c] = session[c]
      /\ session'[b] = IF Idle(b, source) THEN NoSession
                       ELSE NewSession(source, Remotes(b, source), Locals(b, source))
  BY DispatchSession, DispatchRest
<1>3. \A l \in T : T = {l} /\ l = <<source, b>> /\ link[l] # <<>>  BY DispatchTaken
<1>4. ASSUME NEW l \in Links
      PROVE  \/ link'[l] = <<Ask>> /\ l \in alive
             \/ link'[l] = link[l]
             \/ link'[l] = Tail(link[l]) /\ link[l] # <<>> /\ l \in T
  BY <1>3, DispatchLink DEF Taken
<1>5. FinsFit'
  <2>1. ASSUME NEW l \in Links, NEW i \in DOMAIN link'[l]  PROVE IsFin(link'[l][i])
    <3>1. CASE link'[l] = <<Ask>>  BY <2>1, <3>1 DEF IsFin, Ask
    <3>2. CASE link'[l] = link[l]  BY <1>1, <2>1, <3>2 DEF FinsFit
    <3>3. CASE link'[l] = Tail(link[l]) /\ link[l] # <<>>  BY <2>1, <3>3, SeqTail, <1>1 DEF StateOK, FinsFit
    <3> QED  BY <1>4, <3>1, <3>2, <3>3
  <2> QED  BY <2>1 DEF FinsFit, IsFin
<1>6. DeadLinks'
  <2>1. ASSUME NEW l \in Links \ alive  PROVE link'[l] = <<>>  BY <1>1, <1>3, <1>4 DEF DeadLinks
  <2> QED  BY <1>1, <1>2, <2>1 DEF DeadLinks
<1>7. AllBooksAdd'
  <2>1. ASSUME NEW c \in Buses, Has(c)'  PROVE BooksAdd(c, session[c])'
    <3>1. CASE c = b
      <4>1. session'[b] = NewSession(source, Remotes(b, source), Locals(b, source))
        BY <1>2, <2>1, <3>1 DEF Has
      <4> DEFINE s == session'[b]
      <4>2. s = NewSession(source, Remotes(b, source), Locals(b, source))  BY <4>1
      <4> HIDE DEF s
      <4>3. BooksAdd(b, s)  BY <1>2, <4>2, NewCounts
      <4>4. BooksAdd(b, session'[b])  BY <4>3 DEF s
      <4> QED  BY <1>2, <3>1, <4>4 DEF BooksAdd, BranchAdds
    <3>2. CASE c # b  BY <1>1, <1>2, <2>1, <3>2 DEF AllBooksAdd, Has, BooksAdd, BranchAdds
    <3> QED  BY <3>1, <3>2
  <2> QED  BY <2>1 DEF AllBooksAdd
<1>8. ASSUME NEW m \in alive, Away(m)  PROVE FlowAt(m)'
  <2>1. CASE m[2] = b  BY <1>1, <1>8, <2>1, DispatchFlowIn
  <2>2. CASE m[1] = b  BY <1>8, <2>2, DispatchFlowOut
  <2>3. CASE m[1] # b /\ m[2] # b
    <3>1. /\ m \in Links /\ m[1] \in Buses /\ m[2] \in Buses /\ Back(m) \in Links
          /\ Back(m)[1] = m[2] /\ Back(m)[2] = m[1]
      BY LinkKinds DEF StateOK, Back
    <3>2. \A u \in Links : u[1] # b /\ u[2] # b => link'[u] = link[u]
      <4>1. ASSUME NEW u \in Links, u[1] # b, u[2] # b  PROVE link'[u] = link[u]
        BY <1>3, <4>1, DispatchLink, DispatchTaken
      <4> QED  BY <4>1
    <3>3. link'[m] = link[m] /\ link'[Back(m)] = link[Back(m)]  BY <2>3, <3>1, <3>2
    <3>4. session'[m[1]] = session[m[1]] /\ session'[m[2]] = session[m[2]] /\ FlowAt(m)
      BY <1>1, <1>2, <1>8, <2>3, <3>1 DEF Flow
    <3> QED  BY <1>2, <3>3, <3>4, QuietFlow
  <2> QED  BY <2>1, <2>2, <2>3
<1>9. \A m : Away(m)' <=> Away(m)  BY <1>2 DEF Away, Home
<1>10. Flow'  BY <1>2, <1>8, <1>9 DEF Flow
<1> QED  BY <1>5, <1>6, <1>7, <1>10 DEF Adds

LEMMA PublishAdds ==
    ASSUME AskInv, Adds, Publish
    PROVE  Adds'
BY PublishDispatches, DispatchAdds DEF AskInv, Publish, Home

LEMMA RelayAdds ==
    ASSUME AskInv, Adds, NEW l \in Links, RelayAsk(l)
    PROVE  Adds'
BY RelayDispatches, DispatchAdds DEF AskInv

-----------------------------------------------------------------------------
(* Steps that only take away. *)

Shrinks ==
  /\ publisher' = publisher /\ alive' \subseteq alive
  /\ \A b \in Buses : session'[b] \in {session[b], NoSession}
  /\ Thinner(link')

LEMMA ShrinksAdds ==
    ASSUME StateOK, Adds, Shrinks, DeadLinks', \A m \in alive' : Away(m) => FlowAt(m)'
    PROVE  Adds'
<1>1. FinsFit /\ AllBooksAdd  BY DEF Adds
<1>2. FinsFit'
  <2>1. ASSUME NEW l \in Links, NEW i \in DOMAIN link'[l]  PROVE IsFin(link'[l][i])
    <3>1. PICK s \in {0, 1} : \A j \in DOMAIN link'[l] :
            j + s \in DOMAIN link[l] /\ link'[l][j] = link[l][j + s]
      BY ThinnerIs DEF Shrinks
    <3> QED  BY <1>1, <2>1, <3>1 DEF FinsFit
  <2> QED  BY <2>1 DEF FinsFit, IsFin
<1>3. alive' = Links => alive = Links  BY DEF Shrinks, StateOK
<1>4. AllBooksAdd'
  <2>1. ASSUME NEW c \in Buses, Has(c)'  PROVE BooksAdd(c, session[c])'
    BY <1>1, <2>1, <1>3 DEF AllBooksAdd, Has, Shrinks, BooksAdd, BranchAdds
  <2> QED  BY <2>1 DEF AllBooksAdd
<1>5. \A m : Away(m)' <=> Away(m)  BY DEF Away, Home, Shrinks
<1>6. Flow'  BY <1>5 DEF Flow
<1> QED  BY <1>2, <1>4, <1>6 DEF Adds

\* Where nothing that counts has changed.
LEMMA QuietAdds ==
    ASSUME StateOK, Adds, publisher' = publisher, alive' = alive, session' = session, link' = link
    PROVE  Adds'
<1>1. DeadLinks /\ Flow  BY DEF Adds
<1>2. DeadLinks'  BY <1>1 DEF DeadLinks
<1>3. Shrinks  BY SameSessions, SameLinks DEF Shrinks
<1>4. ASSUME NEW m \in alive', Away(m)  PROVE FlowAt(m)'  BY <1>1, <1>4, QuietFlow DEF Flow
<1> QED  BY <1>2, <1>3, <1>4, ShrinksAdds

LEMMA DropAdds ==
    ASSUME AskInv, Adds, NEW l \in Links, DropAsk(l)
    PROVE  Adds'
<1>1. /\ StateOK /\ AsksAreFresh /\ DeadLinks /\ Flow
      /\ publisher' = publisher /\ alive' = alive /\ session' = session
      /\ link' = Without(l) /\ link[l] # <<>> /\ Head(link[l]).type = "ask"
  BY DEF AskInv, Adds, DropAsk, Arrived, setup
<1>2. /\ Thinner(link') /\ link'[l] = Tail(link[l])
      /\ \A m \in Links \ {l} : link'[m] = link[m]
  <2>1. FullLinks({l})  BY <1>1 DEF FullLinks
  <2>2. Taken({l}) = link' /\ Thinner(Taken({l}))  BY <1>1, <2>1, TakenIs
  <2> QED  BY <2>2 DEF Taken
<1>3. 1 \in DOMAIN link[l] /\ link[l][1] = Ask /\ IsSeq(link[l])  BY <1>1, HeadIs
<1>4. Away(l) /\ HasAsk(link[l])  BY <1>1, <1>3 DEF AsksAreFresh, HasAsk
<1>5. Shrinks  BY <1>1, <1>2, SameSessions DEF Shrinks
<1>6. DeadLinks'  BY <1>1, <1>2 DEF DeadLinks
<1>7. ASSUME NEW m \in alive, Away(m)  PROVE FlowAt(m)'
  <2>1. /\ m \in Links /\ Back(m) \in Links /\ Side(Back(m)) = Buses \ Side(m) /\ Home \in Buses
        /\ FlowAt(m)
    BY <1>1, <1>7, LinkKinds, SideEnds, Homes DEF StateOK, Flow
  <2>2. Back(m) # l  BY <1>4, <1>7, <2>1 DEF Away
  <2>3. link'[Back(m)] = link[Back(m)]  BY <1>2, <2>1, <2>2
  <2>4. CASE m # l  BY <1>1, <1>2, <2>1, <2>4, <2>3, QuietFlow
  <2>5. CASE m = l /\ Awaits(m)
    <3> DEFINE k == session[m[1]].branch[m[2]]
               q == link[Back(m)]
    <3>1. Arrives(m, k, q) /\ HasAsk(link[m])  BY <1>4, <2>1, <2>5 DEF FlowAt
    <3> DEFINE r == k.received
    <3>2. /\ r = 0 /\ \A i \in DOMAIN link[m] : link[m][i] = Ask
          /\ Has(m[2]) => NoFin(q) /\ r + Len(q) = Counted(session[m[2]])
          /\ \A i \in DOMAIN q : q[i].type = "result" => r + i <= Cap(m)
          /\ \A i \in DOMAIN q : q[i].type = "fin" =>
               /\ i = Len(q) /\ q[i].total + 1 <= r + i
               /\ alive = Links => q[i].total + 1 = r + i
      BY <3>1 DEF Arrives
    <3>3. r = session'[m[1]].branch[m[2]].received /\ link'[Back(m)] = q /\ Awaits(m)'
      BY <1>1, <2>3, <2>5 DEF Awaits, Has
    <3>4. \A i \in DOMAIN link'[m] : link'[m][i] = Ask
      <4>1. link'[m] = Tail(link[m]) /\ link[m] # <<>> /\ IsSeq(link[m])  BY <1>1, <1>2, <1>3, <2>5
      <4> DEFINE p == link[m]
      <4>2. IsSeq(p) /\ p # <<>> /\ link'[m] = Tail(p) /\ \A i \in DOMAIN p : p[i] = Ask  BY <3>2, <4>1
      <4> HIDE DEF p
      <4>3. \A i \in DOMAIN Tail(p) : i + 1 \in DOMAIN p /\ Tail(p)[i] = p[i + 1]  BY ONLY <4>2, SeqTail
      <4> QED  BY <4>2, <4>3
    <3>5. Has(m[2])' => NoFin(q) /\ r + Len(q) = Counted(session'[m[2]])  BY <1>1, <3>2 DEF Has
    <3>6. alive' = Links => alive = Links  BY <1>1
    <3> HIDE DEF k, q, r
    <3> QED  BY <3>2, <3>3, <3>4, <3>5, <3>6, FlowsOn
  <2>6. CASE m = l /\ ~Awaits(m)
    <3>1. Left(m)  BY <1>4, <2>1, <2>6 DEF FlowAt, Over
    <3>2. Left(m)' /\ ~Awaits(m)'  BY <1>1, <2>6, <3>1 DEF Left, Has, Awaits, Home
    <3> QED  BY <3>2 DEF FlowAt
  <2> QED  BY <2>4, <2>5, <2>6
<1> QED  BY <1>1, <1>5, <1>6, <1>7, ShrinksAdds

LEMMA ReturnAdds ==
    ASSUME AskInv, Adds, CallReturn
    PROVE  Adds'
<1>1. /\ StateOK /\ SessionsFit /\ DeadLinks /\ Flow
      /\ publisher' = publisher /\ alive' = alive /\ link' = link
      /\ session' = [session EXCEPT ![Home] = NoSession]
  BY DEF AskInv, Adds, CallReturn, setup, Home
<1>2. Home \in Buses /\ Home' = Home  BY <1>1, Homes DEF Home
<1>3. session'[Home] = NoSession /\ \A x \in Buses \ {Home} : session'[x] = session[x]
  BY <1>1, <1>2 DEF StateOK
<1>4. Shrinks  BY <1>1, <1>3, SameLinks DEF Shrinks
<1>5. DeadLinks'  BY <1>1 DEF DeadLinks
<1>6. ASSUME NEW m \in alive, Away(m)  PROVE FlowAt(m)'
  <2>1. /\ m \in Links /\ m[1] \in Buses /\ m[2] \in Buses /\ m[2] # Home /\ FlowAt(m)
    BY <1>1, <1>6, LinkKinds, SideEnds DEF StateOK, Flow, Away
  <2>2. CASE m[1] = Home  BY <1>2, <1>3, <2>2 DEF FlowAt, Left, Awaits, Has
  <2>3. CASE m[1] # Home  BY <1>3, <2>1, <2>3, <1>1, QuietFlow
  <2> QED  BY <2>2, <2>3
<1> QED  BY <1>1, <1>4, <1>5, <1>6, ShrinksAdds

\* Links break in both directions, and what their far ends had to do is done with.
LEMMA BreakAdds ==
    ASSUME StateOK, Adds, NEW S, \A l \in Links : l \in S <=> Back(l) \in S,
           publisher' = publisher, alive' = alive \ S,
           link' = [l \in Links |-> IF l \in S THEN <<>> ELSE link[l]],
           \A b \in Buses : session'[b] \in {session[b], NoSession},
           \A l \in Links \ S : session'[l[1]] = session[l[1]] /\ session'[l[2]] = session[l[2]]
    PROVE  Adds'
<1>1. DeadLinks /\ Flow  BY DEF Adds
<1>2. Shrinks  BY Broken DEF Shrinks
<1>3. DeadLinks'  BY <1>1 DEF DeadLinks
<1>4. ASSUME NEW m \in alive', Away(m)  PROVE FlowAt(m)'
  <2>1. m \in Links /\ Back(m) \in Links /\ m \notin S /\ Back(m) \notin S /\ FlowAt(m)
    BY <1>1, <1>4, LinkKinds DEF StateOK, Flow
  <2>2. link'[m] = link[m] /\ link'[Back(m)] = link[Back(m)]  BY <2>1
  <2>3. session'[m[1]] = session[m[1]] /\ session'[m[2]] = session[m[2]]  BY <2>1
  <2>4. alive' = Links => alive = Links  BY DEF StateOK
  <2> QED  BY <2>1, <2>2, <2>3, <2>4, QuietFlow
<1> QED  BY <1>2, <1>3, <1>4, ShrinksAdds

LEMMA LinkBreaksAdds ==
    ASSUME AskInv, Adds, NEW c \in Buses \ {Root}, LinkBreaks(c)
    PROVE  Adds'
<1> DEFINE S == Ends(c)
<1>1. /\ StateOK /\ publisher' = publisher /\ session' = session /\ alive' = alive \ S
      /\ link' = [l \in Links |-> IF l \in S THEN <<>> ELSE link[l]]
  BY DEF AskInv, LinkBreaks, Break, setup
<1>2. ASSUME NEW l \in Links  PROVE l \in S <=> Back(l) \in S  BY LinkKinds DEF Back, Ends
<1> HIDE DEF S
<1> QED  BY <1>1, <1>2, SameSessions, BreakAdds

LEMMA CloseBusAdds ==
    ASSUME AskInv, Adds, NEW b \in Buses, CloseBus(b)
    PROVE  Adds'
<1> DEFINE S == { l \in Links : b \in {l[1], l[2]} }
<1>1. /\ StateOK /\ publisher' = publisher /\ alive' = alive \ S
      /\ link' = [l \in Links |-> IF l \in S THEN <<>> ELSE link[l]]
      /\ session' = [session EXCEPT ![b] = NoSession]
  BY DEF AskInv, CloseBus, Break, setup
<1>2. session'[b] = NoSession /\ \A x \in Buses \ {b} : session'[x] = session[x]  BY <1>1 DEF StateOK
<1>3. ASSUME NEW l \in Links  PROVE l \in S <=> Back(l) \in S  BY LinkKinds DEF Back
<1>4. ASSUME NEW l \in Links \ S
      PROVE  session'[l[1]] = session[l[1]] /\ session'[l[2]] = session[l[2]]
  BY <1>4, LinkKinds, <1>2
<1> HIDE DEF S
<1> QED  BY <1>1, <1>2, <1>3, <1>4, BreakAdds

-----------------------------------------------------------------------------
(* An answer that finds no session. *)

LEMMA RouteSame ==
    ASSUME NEW l, RouteOf(l), NEW m \in Links
    PROVE  /\ Passed(l)[m] = <<>> /\ m # l => link'[m] = link[m]
           /\ link'[l] = Tail(link[l])
<1>1. /\ link' = Sent(Taken({l}), Passed(l)) /\ l \in Links
      /\ \A u \in Links : IsSeq(Taken({l})[u])
  BY DEF RouteOf
<1>2. \A u \in Links : Passed(l)[u] = <<>> => link'[u] = Taken({l})[u]  BY <1>1, SentNone
<1>3. Passed(l)[l] = <<>>  BY <1>1, LinkKinds DEF Passed
<1> QED  BY <1>1, <1>2, <1>3 DEF Taken

LEMMA RouteFlow ==
    ASSUME StateOK, DeadLinks, Flow, NEW l, RouteOf(l), NEW m \in alive, Away(m)
    PROVE  FlowAt(m)'
<1> DEFINE y == l[2]
<1>1. /\ l \in Links /\ y \in Buses /\ ~Has(y) /\ link[l] # <<>> /\ IsSeq(link[l])
      /\ Head(link[l]) = link[l][1] /\ 1 \in DOMAIN link[l] /\ Head(link[l]) # Ask
      /\ session' = session /\ publisher' = publisher /\ alive' = alive
  BY DEF RouteOf
<1>2. /\ l[1] \in Buses /\ l = <<l[1], y>> /\ l[1] # y /\ Back(l) \in Links
      /\ Back(l) = <<y, l[1]>> /\ Back(Back(l)) = l
  BY <1>1, LinkKinds DEF Back
<1>3. /\ m \in Links /\ m[1] \in Buses /\ m[2] \in Buses /\ m = <<m[1], m[2]>> /\ m[1] # m[2]
      /\ Back(m) \in Links /\ Back(m) = <<m[2], m[1]>> /\ Back(Back(m)) = m
      /\ m[2] \in Side(m) /\ FlowAt(m)
  BY LinkKinds, SideEnds DEF StateOK, Flow, Back
<1>4. m[2] # Home /\ Home' = Home  BY <1>1, <1>3 DEF Away, Home
<1>5. \A u : (Awaits(u)' <=> Awaits(u)) /\ (Left(u) => Left(u)')  BY <1>1, <1>4 DEF Awaits, Left, Has
<1>6. l \in alive /\ Back(l) \in alive  BY <1>1 DEF DeadLinks
<1>7. \A u \in Links : (u[1] # y \/ u[2] \notin Parents(y)) => Passed(l)[u] = <<>>  BY DEF Passed
<1>8. \A u \in Links : Passed(l)[u] = <<>> /\ u # l => link'[u] = link[u]  BY RouteSame
<1> HIDE DEF y
<1>9. ASSUME m = l  PROVE FlowAt(m)'
  <2>1. ~Awaits(m)  BY <1>1, <1>3, <1>9 DEF FlowAt, Arrives
  <2>2. CASE Left(m)  BY <1>5, <2>1, <2>2 DEF FlowAt
  <2>3. CASE Over(m)
    <3>1. /\ link[Back(m)] = <<>> /\ ~Has(m[2]) /\ ~HasAsk(link[m]) /\ m[2] \notin Children(m[1])
      BY <1>1, <1>9, <2>3 DEF Over
    <3>2. m[1] \notin Parents(y) /\ y = m[2]  BY <1>1, <1>3, <1>9, <3>1 DEF Parents, Children, y
    <3>3. link'[Back(m)] = <<>>  BY <1>3, <1>7, <1>9, <3>2, <1>8, <3>1
    <3>4. ~HasAsk(link'[m])
      <4>1. link'[m] = Tail(link[m])  BY <1>1, <1>9, RouteSame
      <4>2. IsSeq(link[m]) /\ link[m] # <<>>  BY <1>1, <1>9
      <4> DEFINE p == link[m]
      <4>3. IsSeq(p) /\ p # <<>> /\ link'[m] = Tail(p) /\ \A i \in DOMAIN p : p[i] # Ask
        BY <3>1, <4>1, <4>2 DEF HasAsk
      <4> HIDE DEF p
      <4>4. \A i \in DOMAIN Tail(p) : i + 1 \in DOMAIN p /\ Tail(p)[i] = p[i + 1]  BY ONLY <4>3, SeqTail
      <4> QED  BY <4>3, <4>4 DEF HasAsk
    <3>5. ~Has(m[2])'  BY <1>1, <3>1 DEF Has
    <3>6. Over(m)'  BY <3>1, <3>3, <3>4, <3>5 DEF Over
    <3> QED  BY <1>5, <2>1, <3>6 DEF FlowAt
  <2> QED  BY <1>3, <2>1, <2>2, <2>3 DEF FlowAt
<1>10. ASSUME Back(m) = l  PROVE FlowAt(m)'  BY <1>3, <1>10, <1>1, <1>5 DEF y, Awaits, Over, FlowAt
<1>11. ASSUME m # l, Back(m) # l, m[1] = y, m[2] \in Parents(y)  PROVE FlowAt(m)'
  <2>1. ~Awaits(m)  BY <1>1, <1>11 DEF Awaits, y
  <2>2. CASE Left(m)  BY <1>5, <2>1, <2>2 DEF FlowAt
  <2>3. CASE Over(m)
    <3>1. link[Back(m)] = <<>> /\ ~Has(m[2]) /\ ~HasAsk(link[m])  BY <2>3 DEF Over
    <3>2. m[2] \notin Children(m[1])  BY <1>1, <1>11, AboveFacts, <1>3, LinkKinds DEF Parents, y
    <3>3. link'[Back(m)] = <<>>  BY <1>3, <1>7, <1>8, <1>11, <3>1
    <3>4. ~HasAsk(link'[m])  BY <1>3, <1>11, RouteFrom, <1>1, <3>1 DEF Taken, HasAsk
    <3>5. ~Has(m[2])'  BY <1>1, <3>1 DEF Has
    <3>6. Over(m)'  BY <3>2, <3>3, <3>4, <3>5 DEF Over
    <3> QED  BY <1>5, <2>1, <3>6 DEF FlowAt
  <2> QED  BY <1>3, <2>1, <2>2, <2>3 DEF FlowAt
<1>12. ASSUME m # l, m[2] = y  PROVE FALSE
  <2> DEFINE u == Back(l)
  <2>1. u \in Links /\ u \in alive /\ u[1] = y /\ u[2] = l[1] /\ Back(u) = l  BY <1>2, <1>6
  <2> HIDE DEF u
  <2>2. u[2] # m[1]  BY <1>2, <1>3, <1>12, <2>1
  <2>3. Away(u)  BY <1>3, <1>12, <2>1, <2>2, Farther DEF Away
  <2>4. FlowAt(u)  BY <2>1, <2>3 DEF Flow
  <2>5. ~Awaits(u) /\ ~Over(u)  BY <1>1, <2>1 DEF Awaits, Over, y
  <2>6. ~Left(u)  BY <1>4, <1>12, <2>1 DEF Left
  <2> QED  BY <2>4, <2>5, <2>6 DEF FlowAt
<1>13. ASSUME m # l, Back(m) # l, m[2] # y, m[1] # y \/ m[2] \notin Parents(y)  PROVE FlowAt(m)'
  BY <1>3, <1>7, <1>13, <1>8, <1>1, QuietFlow
<1> QED  BY <1>9, <1>10, <1>11, <1>12, <1>13

LEMMA RouteAdds ==
    ASSUME AskInv, Adds, NEW l \in Links, RouteUpstream(l)
    PROVE  Adds'
<1>1. StateOK /\ AsksAreFresh /\ FinsFit /\ DeadLinks /\ AllBooksAdd /\ Flow  BY DEF AskInv, Adds
<1>2. RouteOf(l)  BY <1>1, RouteIs
<1>3. session' = session /\ publisher' = publisher /\ alive' = alive /\ alive \subseteq open
      /\ link[l] # <<>> /\ Head(link[l]) = link[l][1] /\ 1 \in DOMAIN link[l]
      /\ Thinner(Taken({l}))
  BY <1>1, <1>2 DEF RouteOf, StateOK
<1>4. FinsFit'
  <2>1. ASSUME NEW m \in Links, NEW i \in DOMAIN link'[m]  PROVE IsFin(link'[m][i])
    <3>1. CASE i \in DOMAIN Taken({l})[m] /\ link'[m][i] = Taken({l})[m][i]
      <4>1. PICK s \in {0, 1} : \A j \in DOMAIN Taken({l})[m] :
              j + s \in DOMAIN link[m] /\ Taken({l})[m][j] = link[m][j + s]
        BY <1>1, <1>3, ThinnerIs
      <4> QED  BY <1>1, <3>1, <4>1 DEF FinsFit
    <3>2. CASE link'[m][i] = Head(link[l])  BY <1>1, <1>3, <3>2 DEF FinsFit
    <3> QED  BY <1>2, <2>1, <3>1, <3>2, RouteFrom
  <2> QED  BY <2>1 DEF FinsFit, IsFin
<1>5. DeadLinks'
  <2>1. ASSUME NEW m \in Links \ alive  PROVE link'[m] = <<>>
    BY <1>1, <1>3, <1>2, RouteSame DEF DeadLinks, Passed
  <2> QED  BY <1>1, <1>3, <2>1 DEF DeadLinks
<1>6. AllBooksAdd'  BY <1>1, <1>3 DEF AllBooksAdd, BooksAdd, BranchAdds, Has
<1>7. \A m : Away(m)' <=> Away(m)  BY <1>3 DEF Away, Home
<1>8. Flow'  BY <1>1, <1>2, <1>3, <1>7, RouteFlow DEF Flow
<1> QED  BY <1>4, <1>5, <1>6, <1>8 DEF Adds

-----------------------------------------------------------------------------
(* The rest of the types. *)

LEMMA MoreDispatch ==
    ASSUME StateOK, MoreTypes, NEW network, NEW b \in Buses, NEW source \in Buses,
           Dispatch(network, b, source)
    PROVE  MoreTypes'
<1> DEFINE locals == LocalTargets(b, source)
<1>1. locals \subseteq subscribers /\ locals \subseteq Nodes  BY DEF LocalTargets, StateOK
<1>2. /\ UNCHANGED <<subscribers, strangers, denied, hops, consumer, troubles>>
      /\ executing' = executing \cup { n \in locals : Executes(n) }
      /\ silent' \subseteq silent \cup ({b} \X locals) \cup {<<source, b>>}
  BY DEF Dispatch, setup
<1> HIDE DEF locals
<1>3. executing' \subseteq subscribers' \ strangers'  BY <1>1, <1>2 DEF Executes, MoreTypes
<1>4. silent' \subseteq Buses \X (Buses \cup Nodes)  BY <1>1, <1>2 DEF MoreTypes
<1> QED  BY <1>2, <1>3, <1>4 DEF MoreTypes

LEMMA MoreAdvance ==
    ASSUME MoreTypes, NEW network, NEW b, NEW s, NEW h, Advance(network, b, s, h)
    PROVE  consumer' \in {"idle", "waiting", "ended"}
BY DEF Advance, MoreTypes

LEMMA MoreReceive ==
    ASSUME AskInv, MoreTypes, NEW l \in Links, Receive(l)
    PROVE  MoreTypes'
<1>1. StateOK /\ l[1] \in Buses /\ l[2] \in Buses /\ l = <<l[1], l[2]>>  BY LinkKinds DEF AskInv
<1>2. CASE DropAsk(l)  BY <1>2, <1>1 DEF DropAsk, setup, MoreTypes
<1>3. CASE RelayAsk(l)  BY <1>1, <1>3, MoreDispatch DEF RelayAsk
<1>4. CASE UpdateSession(l)  BY <1>4, MoreAdvance DEF UpdateSession, setup, MoreTypes
<1>5. CASE RouteUpstream(l)  BY <1>5 DEF RouteUpstream, setup, MoreTypes
<1> QED  BY <1>2, <1>3, <1>4, <1>5 DEF Receive

LEMMA MoreBreak ==
    ASSUME MoreTypes, NEW S, Break(S)
    PROVE  troubles' \in 0 .. MaxTroubles
BY AskAssumption DEF Break, MoreTypes

LEMMA MoreKept ==
    ASSUME AskInv, MoreTypes, [Next]_vars
    PROVE  MoreTypes'
<1>1. CASE Publish  BY Homes, <1>1, MoreDispatch DEF AskInv, Home, Publish
<1>2. CASE Deliver  BY <1>2, MoreReceive DEF Deliver
<1>3. ASSUME NEW n \in Nodes, Answer(n)  PROVE MoreTypes'
  <2>1. /\ UNCHANGED <<subscribers, strangers, denied, hops, silent, troubles>>
        /\ executing' = executing \ {n}
    BY <1>3 DEF Answer, setup
  <2>2. consumer' \in {"idle", "waiting", "ended"}
    <3>1. CASE session[HomeOf[n]] = NoSession  BY <1>3, <3>1 DEF Answer, MoreTypes
    <3>2. CASE session[HomeOf[n]] # NoSession  BY <1>3, <3>2, MoreAdvance DEF Answer
    <3> QED  BY <3>1, <3>2
  <2> QED  BY <2>1, <2>2 DEF MoreTypes
<1>4. CASE CallNext  BY <1>4 DEF CallNext, TakeResult, FindNothing, setup, MoreTypes
<1>5. CASE CallReturn  BY <1>5 DEF CallReturn, setup, MoreTypes
<1>6. ASSUME NEW c \in Buses \ {Root}, LinkBreaks(c)  PROVE MoreTypes'
  BY <1>6, MoreBreak DEF LinkBreaks, setup, MoreTypes
<1>7. ASSUME NEW b \in Buses, CloseBus(b)  PROVE MoreTypes'  BY <1>7, MoreBreak DEF CloseBus, setup, MoreTypes
<1>8. ASSUME NEW l \in Links, NoticeDrop(l)  PROVE MoreTypes'
  <2>1. /\ UNCHANGED <<subscribers, strangers, denied, executing, silent, troubles>>
        /\ hops' \subseteq hops
    BY <1>8 DEF NoticeDrop, setup
  <2>2. consumer' \in {"idle", "waiting", "ended"}
    <3>1. CASE session[l[1]] = NoSession \/ l[2] \notin DOMAIN session[l[1]].branch
      BY <1>8, <3>1 DEF NoticeDrop, MoreTypes
    <3>2. CASE ~(session[l[1]] = NoSession \/ l[2] \notin DOMAIN session[l[1]].branch)
      BY <1>8, <3>2, MoreAdvance DEF NoticeDrop
    <3> QED  BY <3>1, <3>2
  <2> QED  BY <2>1, <2>2 DEF MoreTypes
<1>9. CASE UNCHANGED vars  BY <1>9 DEF vars, setup, MoreTypes
<1> QED  BY <1>1, <1>2, <1>3, <1>4, <1>5, <1>6, <1>7, <1>8, <1>9 DEF Next, Notice

-----------------------------------------------------------------------------
(* All steps together. *)

LEMMA InitAdds == Init => SumInv
<1> SUFFICES ASSUME Init  PROVE SumInv  OBVIOUS
<1>1. AskInv /\ StateOK  BY InitKeeps DEF AskInv
<1>2. /\ alive = Links /\ \A l \in Links : link[l] = <<>>
      /\ \A b \in Buses : ~Has(b)
  BY DEF Init, Has
<1>3. MoreTypes
  <2>1. PICK stale \in SUBSET (Buses \ ({Root} \cup Interested(subscribers))) :
          /\ hops = Interested(subscribers) \cup stale
          /\ troubles = Cardinality(strangers) + Cardinality(denied) + Cardinality(stale)
    BY DEF Init
  <2>2. /\ strangers \subseteq subscribers /\ subscribers \subseteq Nodes /\ denied \subseteq Buses
        /\ executing = {} /\ silent = {} /\ consumer = "idle" /\ troubles <= MaxTroubles
    BY DEF Init
  <2>3. Interested(subscribers) \subseteq Buses /\ hops \subseteq Buses  BY <2>1 DEF Interested
  <2>4. IsFiniteSet(strangers) /\ IsFiniteSet(denied) /\ IsFiniteSet(stale)  BY AskAssumption, <2>2, FS_Subset
  <2>5. /\ Cardinality(strangers) \in Nat /\ Cardinality(denied) \in Nat
        /\ Cardinality(stale) \in Nat
    BY <2>4, FS_CardinalityType
  <2>6. troubles \in 0 .. MaxTroubles  BY <2>1, <2>2, <2>5, AskAssumption
  <2> QED  BY <2>2, <2>3, <2>6 DEF MoreTypes
<1>4. FinsFit  BY <1>2, NoneIn DEF FinsFit
<1>5. DeadLinks  BY <1>2, LinkKinds DEF DeadLinks
<1>6. AllBooksAdd  BY <1>2 DEF AllBooksAdd
<1>7. ASSUME NEW l \in Links  PROVE FlowAt(l)  BY LinkKinds, <1>2, NoneIn DEF Awaits, Over, FlowAt
<1>8. Flow  BY <1>2, <1>7 DEF Flow
<1> QED  BY <1>3, <1>4, <1>5, <1>6, <1>8 DEF SumInv, Adds

LEMMA NextAdds == AskInv /\ SumInv /\ [Next]_vars => SumInv'
<1> SUFFICES ASSUME AskInv, SumInv, [Next]_vars  PROVE SumInv'  OBVIOUS
<1>1. Adds /\ MoreTypes /\ StateOK  BY DEF SumInv, AskInv
<1>2. MoreTypes'  BY <1>1, MoreKept
<1>3. ASSUME Publish  PROVE Adds'  BY <1>1, <1>3, PublishAdds
<1>4. ASSUME Deliver  PROVE Adds'
  <2>1. PICK l \in Links : DropAsk(l) \/ RelayAsk(l) \/ UpdateSession(l) \/ RouteUpstream(l)
    BY <1>4 DEF Deliver, Receive
  <2> QED  BY <1>1, <2>1, DropAdds, RelayAdds, UpdateAdds, RouteAdds
<1>5. ASSUME NEW n \in Nodes, Answer(n)  PROVE Adds'
  <2>1. CASE Has(HomeOf[n])  BY <1>1, <1>5, <2>1, AnswerAdds
  <2>2. CASE ~Has(HomeOf[n])  BY <1>5, <2>2, <1>1, QuietAdds DEF Answer, Has, setup
  <2> QED  BY <2>1, <2>2
<1>6. ASSUME CallNext  PROVE Adds'  BY <1>6, <1>1, QuietAdds DEF CallNext, setup
<1>7. ASSUME CallReturn  PROVE Adds'  BY <1>1, <1>7, ReturnAdds
<1>8. ASSUME NEW c \in Buses \ {Root}, LinkBreaks(c)  PROVE Adds'  BY <1>1, <1>8, LinkBreaksAdds
<1>9. ASSUME NEW b \in Buses, CloseBus(b)  PROVE Adds'  BY <1>1, <1>9, CloseBusAdds
<1>10. ASSUME NEW l \in Links, NoticeDrop(l)  PROVE Adds'
  <2>1. CASE Has(l[1]) /\ l[2] \in DOMAIN session[l[1]].branch  BY <1>1, <1>10, <2>1, NoticeAdds
  <2>2. CASE ~(Has(l[1]) /\ l[2] \in DOMAIN session[l[1]].branch)
    BY <1>10, <2>2, <1>1, QuietAdds DEF NoticeDrop, Has, setup
  <2> QED  BY <2>1, <2>2
<1>11. ASSUME UNCHANGED vars  PROVE Adds'  BY <1>11, <1>1, QuietAdds DEF vars, setup
<1>12. Adds'  BY <1>3, <1>4, <1>5, <1>6, <1>7, <1>8, <1>9, <1>10, <1>11 DEF Next, Notice
<1> QED  BY <1>2, <1>12 DEF SumInv

LEMMA SessionTyped ==
    ASSUME StateOK, SessionsFit, AllBooksAdd, NEW b \in Buses
    PROVE  SessionOK(b, session[b])
<1> SUFFICES ASSUME Has(b)  PROVE SessionOK(b, session[b])  BY DEF SessionOK, Has
<1> DEFINE s == session[b]
           n == Cardinality(Nodes)
<1>1. SessionFits(b, s) /\ BooksAdd(b, s) /\ s.local.received + Cardinality(Running(b)) <= s.local.expected
  BY DEF SessionsFit, AllBooksAdd
<1> HIDE DEF s
<1>2. s.source \in {b} \cup Children(b) \cup Parents(b)
  <2>1. CASE b = Home  BY <1>1, <2>1 DEF SessionFits
  <2>2. CASE b # Home
    <3> DEFINE l == <<s.source, b>>
    <3>1. l \in Links /\ l[1] = s.source /\ l[2] = b  BY <1>1, <2>2 DEF SessionFits
    <3>2. Back(l) \in Links /\ Back(l) = <<b, s.source>>  BY <3>1, LinkKinds DEF Back
    <3> QED  BY <3>2 DEF Links
  <2> QED  BY <2>1, <2>2
<1>3. DOMAIN s.branch \subseteq (Children(b) \cup Parents(b)) \ {s.source}  BY <1>1 DEF SessionFits, Links
<1>4. n \in Nat  BY NodesFinite
<1>5. ASSUME NEW d \in DOMAIN s.branch  PROVE s.branch[d] \in Books
  <2> DEFINE k == s.branch[d]
             c == Cap(<<b, d>>)
  <2>1. k = [status |-> k.status, expected |-> k.expected, received |-> k.received] /\ BranchAdds(<<b, d>>, k)
    BY <1>1 DEF SessionFits, IsBooks, BooksAdd
  <2>2. /\ c \in Nat /\ c <= n  BY NodesFinite DEF Cap
  <2>3. /\ k.received \in Nat /\ k.expected \in Nat /\ k.received <= c
        /\ k.status \in {"pending", "fin_received"}
        /\ k.status = "pending" => k.expected = 0
        /\ k.status = "fin_received" => k.expected <= k.received
    BY <2>1 DEF BranchAdds
  <2> DEFINE r == k.received  e == k.expected
  <2>4. r \in 0 .. n /\ e \in 0 .. n
    <3>1. r \in Nat /\ e \in Nat /\ r <= c /\ (e = 0 \/ e <= r)  BY <2>3
    <3> HIDE DEF r, e, c, n
    <3> QED  BY <1>4, <2>2, <3>1
  <2> HIDE DEF k
  <2> QED  BY <2>1, <2>3, <2>4 DEF Books, k
<1>6. s.local \in Books
  <2> DEFINE k == s.local
             c == Cardinality(NodesIn({b}))
             x == Cardinality(Running(b))
  <2>1. k = [status |-> k.status, expected |-> k.expected, received |-> k.received]
    BY <1>1 DEF SessionFits, IsBooks
  <2>2. c \in Nat /\ c <= n  BY NodesFinite
  <2>3. x \in Nat  BY AskAssumption, FS_Subset, FS_CardinalityType DEF Running, StateOK
  <2>4. /\ k.received \in Nat /\ k.expected \in Nat /\ k.status = "fin_received"
        /\ k.expected <= c /\ k.received + x <= k.expected
    BY <1>1 DEF SessionFits, BooksAdd
  <2> DEFINE r == k.received  e == k.expected
  <2>5. r \in 0 .. n /\ e \in 0 .. n
    <3>1. r \in Nat /\ e \in Nat /\ e <= c /\ r + x <= e  BY <2>4
    <3> HIDE DEF r, e, c, n, x
    <3> QED  BY <1>4, <2>2, <2>3, <3>1
  <2> HIDE DEF k
  <2> QED  BY <2>1, <2>4, <2>5 DEF Books, k
<1> QED  BY <1>2, <1>3, <1>5, <1>6 DEF SessionOK, s

LEMMA LinksTyped ==
    ASSUME StateOK, FinsFit
    PROVE  link \in [Links -> Seq(Message)]
<1>1. ASSUME NEW l \in Links  PROVE link[l] \in Seq(Message)
  <2>1. \A i \in DOMAIN link[l] : IsMessage(link[l][i]) /\ IsFin(link[l][i])  BY DEF StateOK, FinsFit
  <2>2. \A i \in DOMAIN link[l] : link[l][i] \in Message  BY <2>1 DEF IsMessage, IsFin, Message
  <2> DEFINE q == link[l]
             S == { q[i] : i \in DOMAIN q }
  <2>3. q \in Seq(S)  BY DEF StateOK, IsSeq
  <2>4. S \subseteq Message  BY <2>2
  <2> HIDE DEF q, S
  <2>5. q \in Seq(Message)  BY <2>3, <2>4
  <2> QED  BY <2>5 DEF q
<1> QED  BY <1>1 DEF StateOK

LEMMA SumInvAddsUp == AskInv /\ SumInv => ResultsAddUp
<1> SUFFICES ASSUME AskInv, SumInv  PROVE ResultsAddUp  OBVIOUS
<1>1. StateOK /\ SessionsFit /\ MoreTypes /\ FinsFit /\ AllBooksAdd  BY DEF AskInv, SumInv, Adds
<1>2. (\A b \in Buses : SessionOK(b, session[b])) /\ link \in [Links -> Seq(Message)]
  BY <1>1, SessionTyped, LinksTyped
<1>3. TypeOK  BY <1>1, <1>2 DEF TypeOK, StateOK, MoreTypes
<1>4. ASSUME NEW b \in Buses, Has(b), NEW d \in DOMAIN session[b].branch,
             session[b].branch[d].status = "fin_received"
      PROVE  /\ session[b].branch[d].received >= session[b].branch[d].expected
             /\ alive = Links => session[b].branch[d].received = session[b].branch[d].expected
  <2> DEFINE k == session[b].branch[d]
  <2>1. BranchAdds(<<b, d>>, k)  BY <1>1, <1>4 DEF AllBooksAdd, BooksAdd
  <2> HIDE DEF k
  <2>2. k.status = "fin_received"  BY <1>4 DEF k
  <2>3. k.received >= k.expected /\ (alive = Links => k.received = k.expected)  BY <2>1, <2>2 DEF BranchAdds
  <2> QED  BY <2>3 DEF k
<1> QED  BY <1>3, <1>4 DEF ResultsAddUp, Has

\* For every finite tree of buses and every set of nodes on it: at each bus an ask goes
\* through, a branch that has ended has passed on at least as many results as its ack_fin
\* counts, and, while no link has broken, exactly as many; no session owes or credits more
\* results than there are nodes, and every message on a link is one the protocol has
\* (AskSession.processResult, processAckFin and checkCompletion, forwardMessage).
THEOREM ResultsAlwaysAddUp == Spec => []ResultsAddUp
BY NextKeeps, NextAdds, InitKeeps, InitAdds, SumInvAddsUp, PTL DEF Spec

=============================================================================
