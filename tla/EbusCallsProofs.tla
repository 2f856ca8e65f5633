-------------------------- MODULE EbusCallsProofs --------------------------
(***************************************************************************)
(* What an ask between nodes is told is true, whatever the tree of buses,  *)
(* the nodes on it and what goes wrong.                                    *)
(*                                                                         *)
(* A call is in one place: one message on one link, or one procedure that  *)
(* runs (CallOK); so it is executed once at most, and what it carries says *)
(* whether it has been.  An ask between nodes that stay meets no refusal:  *)
(* as long as no link breaks, every bus above a node that has joined has   *)
(* its route (RoutesHold), because a withdrawal that is still on its way   *)
(* up stands for routes that are still there.                              *)
(*                                                                         *)
(* And the streams that a broadcast shares among its targets are whole at  *)
(* each of them, whatever their number.  SharedStreamsAgree needs what     *)
(* each half of it leaves out: that the chunk just read is the next one    *)
(* for everybody (ChunkIsNext), and that those who have not closed are     *)
(* counted until something ends it all (Counted).                          *)
(***************************************************************************)
EXTENDS EbusCalls, EbusFanout, FiniteSetTheorems, SequenceTheorems, TLAPS

-----------------------------------------------------------------------------
(* The messages M on the links. *)

Gone(n) == [type |-> "gone", dest |-> n]
Carried == Messages \cup [type : {"gone"}, dest : Nodes]
Of(c)   == { m \in Messages : m.call = c }

InSeq(q, M) == \E i \in DOMAIN q : q[i] \in M
In(w, M)    == \E l \in Links : InSeq(w[l], M)
Once(w, M)  == \A l, k \in Links : \A i \in DOMAIN w[l], j \in DOMAIN w[k] :
                   w[l][i] \in M /\ w[k][j] \in M => l = k /\ i = j

-----------------------------------------------------------------------------
(* The inductive invariant, part by part; a state is what Now collects, gr *)
(* the groups of the nodes.                                                *)

States == [wire : [Links -> Seq(Carried)], pending : [Buses -> SUBSET Calls],
           outcome : [Calls -> {"idle", "told", "asked"} \cup Results],
           running : SUBSET Messages, ran : [Calls -> 0 .. 1], lost : SUBSET Calls]

\* A message of a call that has been executed n times, and one that runs or is refused.
Carries(m, n) ==
    \/ m.type \in {"ask", "tell"} /\ m.result = "none" /\ n = 0
    \/ m.type = "answer" /\ m.result \in {"data", "error"} /\ n = 1
    \/ m.type = "answer" /\ m.result \in {"refused", "notFound"} /\ n = 0
Holds(m, n) ==
    \/ m.type = "ask" /\ m.result = "none" /\ n = 1
    \/ m.type = "ask" /\ m.result = "refused" /\ n = 0

Wrong(c, n) == { m \in Of(c) : ~ Carries(m, n) }
Busy(c, s)  == In(s.wire, Of(c)) \/ \E m \in s.running : m.call = c

\* A call is in one place.
CallOK(c, s) ==
    /\ Once(s.wire, Of(c)) /\ ~ In(s.wire, Wrong(c, s.ran[c]))
    /\ \A m \in s.running : m.call = c =>
         /\ Holds(m, s.ran[c]) /\ ~ In(s.wire, Of(c))
         /\ \A k \in s.running : k.call = c => k = m
    /\ Busy(c, s) => s.outcome[c] \in {"told", "asked", "closed"}
    /\ s.outcome[c] \in {"data", "error"} => s.ran[c] = 1
    /\ s.outcome[c] \in {"idle", "refused", "notFound"} => s.ran[c] = 0

\* What a message of the steady ask a may be, g the groups of its caller.
Meets(m, a, g) ==
    \/ m.type = "ask" /\ m.dest = a.to /\ m.groups = g
    \/ m.type = "answer" /\ m.result \in {"data", "error"}
Unmet(a, g) == { m \in Of(a.call) : ~ Meets(m, a, g) }

SteadyOK(a, s, g) ==
    /\ s.outcome[a.call] \in {"asked", "data", "error"}
    /\ ~ In(s.wire, Unmet(a, g))
    /\ \A m \in s.running : m.call = a.call => m.result = "none"

StateOK(s, S, gr) ==
    /\ s \in States /\ \A c \in Calls : CallOK(c, s)
    /\ \A a \in S : SteadyOK(a, s, gr[a.from])

\* A message taken from its place, to be routed.
InHand(m, s, S, gr) ==
    /\ m \in Messages /\ ~ Busy(m.call, s) /\ Carries(m, s.ran[m.call])
    /\ s.outcome[m.call] \in {"told", "asked", "closed"}
    /\ \A a \in S : a.call = m.call => Meets(m, a, gr[a.from])

SteadyAsks == [call : Calls, from : Nodes, to : Nodes]
StaysOn(a) ==
    /\ a \in SteadyAsks /\ troubles = 0
    /\ node[a.from] = "in" /\ node[a.to] = "in" /\ a.to \in ready
    /\ groups[a.from] \cap groups[a.to] # {}

\* A bus with a route to a node is above it.
KnownOver ==
    /\ \A b \in Buses, n \in Nodes : known[b][n] # Unknown => b \in Over(n)
    /\ undo \subseteq [at : Buses, node : Nodes, groups : GroupSets]
    /\ \A u \in undo : u.at \in Over(u.node)

\* The routes above b to n are there.
KnownFrom(b, n) == \A q \in Above[b] : q \in Over(n) /\ known[q][n] # Unknown

\* A node has its routes from wherever its withdrawal has not come.
RouteHolds(n) ==
    /\ node[n] = "in" => \A b \in Over(n) : known[b][n] # Unknown
    /\ node[n] # "leaving" => ~ In(wire, {Gone(n)})
    /\ Once(wire, {Gone(n)})
    /\ \A l \in Links : InSeq(wire[l], {Gone(n)}) => KnownFrom(l[2], n)
RoutesHold == troubles = 0 =>
    /\ stack = Links /\ alive = Links
    /\ \A n \in Nodes : RouteHolds(n)

CallsInv ==
    /\ CTypeOK /\ groups \in [Nodes -> GroupSets]
    /\ StateOK(Now, steady, groups)
    /\ \A a \in steady : StaysOn(a)
    /\ KnownOver /\ RoutesHold

-----------------------------------------------------------------------------
(* The tree. *)

LEMMA AboveFacts ==
    ASSUME NEW b \in Buses
    PROVE  /\ Above[b] \subseteq Buses /\ b \in Above[b]
           /\ \A c \in Above[b] \ {Root} : ParentOf[c] \in Above[b]
           /\ \A S \in SUBSET Buses : b \in S /\ Upward(S) => Above[b] \subseteq S
BY TreeAssumption DEF Above, Upward

LEMMA AboveAbove ==
    ASSUME NEW b \in Buses, NEW c \in Above[b]
    PROVE  c \in Buses /\ Above[c] \subseteq Above[b]
<1>1. c \in Buses /\ Above[b] \in SUBSET Buses /\ Upward(Above[b])  BY AboveFacts DEF Upward
<1> QED  BY <1>1, AboveFacts

LEMMA AboveStep ==
    ASSUME NEW b \in Buses \ {Root}
    PROVE  ParentOf[b] \in Buses /\ Above[b] = {b} \cup Above[ParentOf[b]]
<1>1. ParentOf[b] \in Buses  BY TreeAssumption
<1> DEFINE S == {b} \cup Above[ParentOf[b]]
<1>2. S \in SUBSET Buses /\ b \in S /\ Upward(S)  BY <1>1, AboveFacts DEF Upward
<1> HIDE DEF S
<1>3. Above[b] \subseteq S  BY <1>2, AboveFacts
<1>4. S \subseteq Above[b]
  <2>1. b \in Above[b] /\ ParentOf[b] \in Above[b]  BY AboveFacts
  <2> QED  BY <2>1, AboveAbove DEF S
<1> QED  BY <1>1, <1>3, <1>4 DEF S

LEMMA AboveRoot == Above[Root] = {Root}
<1>1. Root \in Buses  BY TreeAssumption
<1>2. {Root} \in SUBSET Buses /\ Root \in {Root} /\ Upward({Root})  BY <1>1 DEF Upward
<1> QED  BY <1>1, <1>2, AboveFacts

\* On the way up from x there is a child of every bus but x itself.
LEMMA AboveChild ==
    ASSUME NEW x \in Buses, NEW b \in Above[x], b # x
    PROVE  \E c \in Above[x] \ {Root} : ParentOf[c] = b
<1> DEFINE S == { d \in Above[x] : d = x \/ \E c \in Above[x] \ {Root} : ParentOf[c] = d }
<1>1. S \in SUBSET Buses /\ x \in S  BY AboveFacts
<1>2. Upward(S)  BY AboveFacts DEF Upward
<1> HIDE DEF S
<1>3. b \in S  BY <1>1, <1>2, AboveFacts
<1> QED  BY <1>3 DEF S

LEMMA RootAbove ==
    ASSUME NEW b \in Buses
    PROVE  Root \in Above[b]
BY TreeAssumption, AboveFacts

\* The child on the way to a node below.
LEMMA BelowFacts ==
    ASSUME NEW n \in Nodes, NEW b \in Over(n)
    PROVE  /\ b \in Buses /\ HomeOf[n] \in Buses /\ Below(b, n) \in Children(b)
           /\ Below(b, n) \in Above[HomeOf[n]]
<1>1. HomeOf[n] \in Buses /\ b \in Above[HomeOf[n]] /\ b # HomeOf[n] /\ b \in Buses
  BY TreeAssumption, AboveFacts DEF Over
<1>2. PICK c \in Above[HomeOf[n]] \ {Root} : ParentOf[c] = b  BY <1>1, AboveChild
<1>3. c \in Children(b)  BY <1>1, <1>2, AboveFacts DEF Children
<1> QED  BY <1>1, <1>2, <1>3 DEF Below

LEMMA ChildLinks ==
    ASSUME NEW b \in Buses
    PROVE  /\ \A c \in Children(b) : c \in Buses /\ <<b, c>> \in Links /\ <<c, b>> \in Links
           /\ b # Root => ParentOf[b] \in Buses /\ <<b, ParentOf[b]>> \in Links /\ <<ParentOf[b], b>> \in Links
<1>1. \A c \in Children(b) : c \in Buses /\ c # Root /\ ParentOf[c] = b  BY DEF Children
<1>2. b # Root => ParentOf[b] \in Buses /\ b \in Children(ParentOf[b]) /\ Parents(b) = {ParentOf[b]}
  BY AboveStep DEF Children, Parents
<1>3. \A c \in Children(b) : <<b, c>> \in Links /\ <<c, b>> \in Links  BY <1>1 DEF Links, Parents
<1>4. b # Root => <<b, ParentOf[b]>> \in Links /\ <<ParentOf[b], b>> \in Links  BY <1>2 DEF Links
<1> QED  BY <1>1, <1>2, <1>3, <1>4

LEMMA LinkEnds == \A l \in Links : l[1] \in Buses /\ l[2] \in Buses /\ l = <<l[1], l[2]>>
BY DEF Links

-----------------------------------------------------------------------------
(* What becomes of the messages M when the links change. *)

Wires == [Links -> Seq(Carried)]

\* u is w with m at the end of l.
AfterAppend(u, w, l, m) ==
    /\ u \in Wires
    /\ \A M : In(u, M) <=> In(w, M) \/ m \in M
    /\ \A M : Once(w, M) /\ ~ (m \in M /\ In(w, M)) => Once(u, M)
    /\ \A M : \A k \in Links : InSeq(u[k], M) => InSeq(w[k], M) \/ (k = l /\ m \in M)

\* u has no more messages than w.
Fewer(u, w) ==
    /\ u \in Wires
    /\ \A M : In(u, M) => In(w, M)
    /\ \A M : Once(w, M) => Once(u, M)
    /\ \A M : \A k \in Links : InSeq(u[k], M) => InSeq(w[k], M)

\* m was one of them.
Taken(u, w, m) ==
    /\ m \in Carried
    /\ \A M : m \in M => In(w, M)
    /\ \A M : Once(w, M) /\ m \in M => ~ In(u, M)

LEMMA Appended ==
    ASSUME NEW w \in Wires, NEW l \in Links, NEW m \in Carried
    PROVE  AfterAppend([w EXCEPT ![l] = Append(w[l], m)], w, l, m)
<1> DEFINE u == [w EXCEPT ![l] = Append(w[l], m)]
<1>1. u \in Wires  BY DEF Wires
<1>2. \A k \in Links : k # l => u[k] = w[k]  BY DEF Wires
<1>3. /\ w[l] \in Seq(Carried) /\ u[l] = Append(w[l], m)  BY DEF Wires
<1>4. /\ DOMAIN w[l] = 1 .. Len(w[l]) /\ Len(w[l]) \in Nat
      /\ DOMAIN u[l] = 1 .. Len(w[l]) + 1
      /\ u[l][Len(w[l]) + 1] = m
      /\ \A i \in 1 .. Len(w[l]) : u[l][i] = w[l][i]
  BY <1>3
<1> HIDE DEF u
<1>5. /\ \A i \in DOMAIN w[l] : i \in DOMAIN u[l] /\ u[l][i] = w[l][i]
      /\ \A i \in DOMAIN u[l] : (i \in DOMAIN w[l] /\ u[l][i] = w[l][i]) \/ (i = Len(w[l]) + 1 /\ u[l][i] = m)
      /\ Len(w[l]) + 1 \in DOMAIN u[l]
  <2> DEFINE n == Len(w[l])
  <2>1. /\ \A i \in 1 .. n : i \in 1 .. n + 1
        /\ \A i \in 1 .. n + 1 : i \in 1 .. n \/ i = n + 1
        /\ n + 1 \in 1 .. n + 1
    BY <1>4
  <2> HIDE DEF n
  <2> QED  BY <1>4, <2>1 DEF n
<1>6. ASSUME NEW M, NEW k \in Links
      PROVE  InSeq(u[k], M) <=> InSeq(w[k], M) \/ (k = l /\ m \in M)
  <2>1. CASE k = l  BY <1>4, <1>5, <2>1 DEF InSeq
  <2>2. CASE k # l  BY <1>2, <2>2
  <2> QED  BY <2>1, <2>2
<1>7. ASSUME NEW M  PROVE In(u, M) <=> In(w, M) \/ m \in M  BY <1>6 DEF In
<1>8. ASSUME NEW M, Once(w, M), ~ (m \in M /\ In(w, M))  PROVE Once(u, M)
  <2>1. SUFFICES ASSUME NEW k \in Links, NEW j \in Links, NEW i \in DOMAIN u[k], NEW h \in DOMAIN u[j],
                        u[k][i] \in M, u[j][h] \in M
                 PROVE  k = j /\ i = h
    BY DEF Once
  <2>2. (i \in DOMAIN w[k] /\ w[k][i] \in M) \/ (k = l /\ i = Len(w[l]) + 1 /\ m \in M)  BY <1>2, <1>5, <2>1
  <2>3. (h \in DOMAIN w[j] /\ w[j][h] \in M) \/ (j = l /\ h = Len(w[l]) + 1 /\ m \in M)  BY <1>2, <1>5, <2>1
  <2>4. CASE m \in M
    <3>1. ~ InSeq(w[k], M) /\ ~ InSeq(w[j], M)  BY <1>8, <2>4 DEF In
    <3> QED  BY <2>2, <2>3, <3>1 DEF InSeq
  <2>5. CASE m \notin M  BY <1>8, <2>2, <2>3, <2>5 DEF Once
  <2> QED  BY <2>4, <2>5
<1>9. AfterAppend(u, w, l, m)  BY <1>1, <1>6, <1>7, <1>8 DEF AfterAppend
<1> QED  BY <1>9 DEF u

\* Each message of u was, at s(k, i), in w on the same link.
LEMMA FromPlaces ==
    ASSUME NEW w \in Wires, NEW u \in Wires, NEW d \in [Links -> Nat],
           \A k \in Links : \A i \in DOMAIN u[k] : i + d[k] \in DOMAIN w[k] /\ u[k][i] = w[k][i + d[k]]
    PROVE  Fewer(u, w)
<1>1. \A k \in Links : DOMAIN u[k] \subseteq Nat  BY DEF Wires
<1>2. ASSUME NEW M, NEW k \in Links, InSeq(u[k], M)  PROVE InSeq(w[k], M)  BY <1>2 DEF InSeq
<1>3. ASSUME NEW M, In(u, M)  PROVE In(w, M)  BY <1>2, <1>3 DEF In
<1>4. ASSUME NEW M, Once(w, M)  PROVE Once(u, M)
  <2>1. SUFFICES ASSUME NEW k \in Links, NEW j \in Links, NEW i \in DOMAIN u[k], NEW h \in DOMAIN u[j],
                        u[k][i] \in M, u[j][h] \in M
                 PROVE  k = j /\ i = h
    BY DEF Once
  <2>2. /\ i + d[k] \in DOMAIN w[k] /\ w[k][i + d[k]] \in M
        /\ h + d[j] \in DOMAIN w[j] /\ w[j][h + d[j]] \in M
    BY <2>1
  <2>3. k = j /\ i + d[k] = h + d[j]  BY <1>4, <2>2 DEF Once
  <2>4. i \in Nat /\ h \in Nat /\ d[k] \in Nat  BY <1>1
  <2> QED  BY <2>3, <2>4
<1> QED  BY <1>2, <1>3, <1>4 DEF Fewer

LEMMA FirstTaken ==
    ASSUME NEW w \in Wires, NEW l \in Links, w[l] # <<>>
    PROVE  /\ Fewer([w EXCEPT ![l] = Tail(w[l])], w)
           /\ Taken([w EXCEPT ![l] = Tail(w[l])], w, Head(w[l]))
           /\ \A M : Head(w[l]) \in M => InSeq(w[l], M)
<1> DEFINE u == [w EXCEPT ![l] = Tail(w[l])]
           d == [k \in Links |-> IF k = l THEN 1 ELSE 0]
<1>1. w[l] \in Seq(Carried) /\ Len(w[l]) \in Nat \ {0}  BY DEF Wires
<1>2. u \in Wires  BY <1>1 DEF Wires
<1>3. \A k \in Links : k # l => u[k] = w[k]  BY DEF Wires
<1>4. /\ DOMAIN w[l] = 1 .. Len(w[l]) /\ DOMAIN u[l] = 1 .. Len(w[l]) - 1
      /\ \A i \in DOMAIN u[l] : u[l][i] = w[l][i + 1]
      /\ 1 \in DOMAIN w[l] /\ Head(w[l]) = w[l][1] /\ w[l][1] \in Carried
  BY <1>1 DEF Wires
<1>5. d \in [Links -> Nat] /\ d[l] = 1 /\ \A k \in Links : k # l => d[k] = 0  OBVIOUS
<1> HIDE DEF u, d
<1>6. ASSUME NEW k \in Links, NEW i \in DOMAIN u[k]
      PROVE  i + d[k] \in DOMAIN w[k] /\ u[k][i] = w[k][i + d[k]] /\ (k = l => i + d[k] # 1)
  <2>1. CASE k = l  BY <1>1, <1>4, <1>5, <2>1
  <2>2. CASE k # l
    <3>1. w[k] \in Seq(Carried) /\ u[k] = w[k] /\ d[k] = 0  BY <1>3, <1>5, <2>2 DEF Wires
    <3>2. i \in Nat  BY <3>1
    <3> QED  BY <2>2, <3>1, <3>2
  <2> QED  BY <2>1, <2>2
<1>7. Fewer(u, w)  BY <1>2, <1>5, <1>6, FromPlaces
<1>8. ASSUME NEW M, Head(w[l]) \in M  PROVE InSeq(w[l], M) /\ In(w, M)  BY <1>4, <1>8 DEF In, InSeq
<1>9. ASSUME NEW M, Once(w, M), Head(w[l]) \in M, In(u, M)  PROVE FALSE
  <2>0. PICK k \in Links : InSeq(u[k], M)  BY <1>9 DEF In
  <2>1. PICK i \in DOMAIN u[k] : u[k][i] \in M  BY <2>0 DEF InSeq
  <2>2. i + d[k] \in DOMAIN w[k] /\ w[k][i + d[k]] \in M /\ (k = l => i + d[k] # 1)  BY <1>6, <2>1
  <2>3. k = l /\ i + d[k] = 1  BY <1>4, <1>9, <2>2 DEF Once
  <2> QED  BY <2>2, <2>3
<1>10. Taken(u, w, Head(w[l]))  BY <1>4, <1>8, <1>9 DEF Taken
<1> QED  BY <1>7, <1>8, <1>10 DEF u

LEMMA Emptied ==
    ASSUME NEW w \in Wires, NEW L
    PROVE  Fewer([l \in Links |-> IF l \in L THEN <<>> ELSE w[l]], w)
<1> DEFINE u == [l \in Links |-> IF l \in L THEN <<>> ELSE w[l]]
           d == [k \in Links |-> 0]
<1>1. u \in Wires  BY DEF Wires
<1>2. d \in [Links -> Nat]  OBVIOUS
<1>3. ASSUME NEW k \in Links, NEW i \in DOMAIN u[k]
      PROVE  i + d[k] \in DOMAIN w[k] /\ u[k][i] = w[k][i + d[k]]
  <2>1. u[k] = w[k] /\ w[k] \in Seq(Carried) /\ d[k] = 0  BY DEF Wires
  <2>2. i \in Nat  BY <2>1
  <2> QED  BY <2>1, <2>2
<1> HIDE DEF u, d
<1>4. Fewer(u, w)  BY <1>1, <1>2, <1>3, FromPlaces
<1> QED  BY <1>4 DEF u

LEMMA NothingChanged == \A w \in Wires : Fewer(w, w)
BY DEF Fewer

LEMMA FewerYet ==
    ASSUME NEW u, NEW v, NEW w, Fewer(u, v), Fewer(v, w)
    PROVE  Fewer(u, w)
BY DEF Fewer

\* Announcements that nodes G have left, at the end of a link.
LEMMA AsSequence ==
    ASSUME NEW G \in SUBSET Nodes
    PROVE  LET Q == {[type |-> "gone", dest |-> n] : n \in G}
           IN /\ SetToSeq(Q) \in Seq(Q)
              /\ \A n : G = {n} => SetToSeq(Q) = <<Gone(n)>>
<1> DEFINE Q == {[type |-> "gone", dest |-> n] : n \in G}
           f == [n \in G |-> Gone(n)]
<1>1. IsFiniteSet(G)  BY TreeAssumption, FS_Subset
<1>2. f \in Bijection(G, Q)  BY DEF Bijection, Injection, Surjection, IsInjective, Gone
<1>3. IsFiniteSet(Q)
  <2>1. ExistsBijection(G, Q)  BY <1>2 DEF ExistsBijection
  <2> QED  BY <1>1, <2>1, FS_Bijection
<1> HIDE DEF Q
<1>4. PICK g \in Bijection(1 .. Cardinality(Q), Q) : TRUE  BY <1>3, FS_CardinalityType DEF ExistsBijection
<1>5. g \in [1 .. Cardinality(Q) -> Q] /\ IsInjective(g)  BY <1>4 DEF Bijection, Injection
<1>6. SetToSeq(Q) \in [1 .. Cardinality(Q) -> Q]  BY <1>5 DEF SetToSeq
<1>7. Cardinality(Q) \in Nat  BY <1>3, FS_CardinalityType
<1>8. SetToSeq(Q) \in Seq(Q)  BY <1>6, <1>7
<1>9. ASSUME NEW n, G = {n}  PROVE SetToSeq(Q) = <<Gone(n)>>
  <2>1. Q = {Gone(n)}  BY <1>9 DEF Q, Gone
  <2>2. Cardinality(Q) = 1  BY <2>1, FS_Singleton
  <2>3. DOMAIN SetToSeq(Q) = 1 .. 1 /\ SetToSeq(Q) \in Seq(Q)  BY <1>6, <1>8, <2>2
  <2>4. Len(SetToSeq(Q)) = 1  BY <2>3, LenProperties
  <2>5. SetToSeq(Q)[1] = Gone(n)  BY <1>6, <2>1, <2>2
  <2> QED  BY <2>3, <2>4, <2>5
<1>10. /\ SetToSeq(Q) \in Seq(Q) /\ \A n : G = {n} => SetToSeq(Q) = <<Gone(n)>>  BY <1>8, <1>9
<1> QED  BY <1>10 DEF Q

\* u is w with announcements at the end of l.
Announced(u, w, l) ==
    /\ u \in Wires
    /\ \A c : In(u, Of(c)) => In(w, Of(c))
    /\ \A c : \A M \in SUBSET Of(c) : (In(u, M) => In(w, M)) /\ (Once(w, M) => Once(u, M))

LEMMA ManyAppended ==
    ASSUME NEW w \in Wires, NEW l \in Links, NEW q \in Seq([type : {"gone"}, dest : Nodes])
    PROVE  Announced([w EXCEPT ![l] = w[l] \o q], w, l)
<1> DEFINE u == [w EXCEPT ![l] = w[l] \o q]
<1> DEFINE N == [type : {"gone"}, dest : Nodes]
<1>a. \A m \in N : m \in Carried /\ m.type = "gone"  BY DEF Carried
<1>b. q \in Seq(N)  OBVIOUS
<1> HIDE DEF N
<1>1. w[l] \in Seq(Carried) /\ q \in Seq(Carried)
  <2>1. q \in Seq(Carried)  BY <1>a, <1>b, SeqMonotonic
  <2> QED  BY <2>1 DEF Wires
<1>2. u \in Wires  BY <1>1 DEF Wires
<1>3. \A k \in Links : k # l => u[k] = w[k]  BY DEF Wires
<1>4. u[l] = w[l] \o q  BY DEF Wires
<1>5. /\ DOMAIN w[l] = 1 .. Len(w[l]) /\ Len(w[l]) \in Nat /\ Len(q) \in Nat
      /\ DOMAIN u[l] = 1 .. Len(w[l]) + Len(q)
      /\ \A i \in 1 .. Len(w[l]) : u[l][i] = w[l][i]
      /\ \A i \in Len(w[l]) + 1 .. Len(w[l]) + Len(q) : u[l][i] = q[i - Len(w[l])]
  BY <1>1, <1>4
<1> HIDE DEF u
<1>6. \A i \in DOMAIN u[l] : i \notin DOMAIN w[l] => u[l][i].type = "gone"
  <2>1. ASSUME NEW i \in DOMAIN u[l], i \notin DOMAIN w[l]  PROVE u[l][i].type = "gone"
    <3>1. i - Len(w[l]) \in 1 .. Len(q) /\ u[l][i] = q[i - Len(w[l])]  BY <1>5, <2>1
    <3>2. q[i - Len(w[l])] \in N  BY <1>b, <3>1
    <3> QED  BY <1>a, <3>1, <3>2
  <2> QED  BY <2>1
<1>7. \A c, m : m \in Of(c) => m.type # "gone"  BY DEF Of, Messages
<1>8. ASSUME NEW k \in Links, NEW i \in DOMAIN u[k], u[k][i].type # "gone"
      PROVE  i \in DOMAIN w[k] /\ w[k][i] = u[k][i]
  <2>1. CASE k = l  BY <1>5, <1>6, <1>8, <2>1
  <2>2. CASE k # l  BY <1>3, <2>2
  <2> QED  BY <2>1, <2>2
<1>9. ASSUME NEW c, NEW M \in SUBSET Of(c), In(u, M)  PROVE In(w, M)
  <2>1. \A m \in M : m.type # "gone"  BY <1>7, <1>9
  <2>2. PICK k \in Links : InSeq(u[k], M)  BY <1>9 DEF In
  <2>3. PICK i \in DOMAIN u[k] : u[k][i] \in M  BY <2>2 DEF InSeq
  <2>4. i \in DOMAIN w[k] /\ w[k][i] \in M  BY <1>8, <2>1, <2>3
  <2> QED  BY <2>4 DEF In, InSeq
<1>10. ASSUME NEW c, NEW M \in SUBSET Of(c), Once(w, M)  PROVE Once(u, M)
  <2>1. \A m \in M : m.type # "gone"  BY <1>7, <1>10
  <2>2. SUFFICES ASSUME NEW k \in Links, NEW j \in Links, NEW i \in DOMAIN u[k], NEW h \in DOMAIN u[j],
                        u[k][i] \in M, u[j][h] \in M
                 PROVE  k = j /\ i = h
    BY DEF Once
  <2>3. i \in DOMAIN w[k] /\ w[k][i] \in M  BY <1>8, <2>1, <2>2
  <2>4. h \in DOMAIN w[j] /\ w[j][h] \in M  BY <1>8, <2>1, <2>2
  <2> QED  BY <1>10, <2>3, <2>4 DEF Once
<1>11. Announced(u, w, l)  BY <1>2, <1>9, <1>10 DEF Announced
<1> QED  BY <1>11 DEF u

-----------------------------------------------------------------------------
(* Routing keeps each call in one place. *)

LEMMA PartOf ==
    ASSUME NEW w, NEW M, NEW N \in SUBSET M, ~ In(w, M)
    PROVE  ~ In(w, N)
BY DEF In, InSeq

LEMMA StateTypes ==
    ASSUME NEW s \in States
    PROVE  /\ s = [wire |-> s.wire, pending |-> s.pending, outcome |-> s.outcome,
                   running |-> s.running, ran |-> s.ran, lost |-> s.lost]
           /\ s.wire \in Wires /\ s.pending \in [Buses -> SUBSET Calls]
           /\ s.outcome \in [Calls -> {"idle", "told", "asked"} \cup Results]
           /\ s.running \subseteq Messages /\ s.ran \in [Calls -> 0 .. 1] /\ s.lost \subseteq Calls
BY DEF States, Wires

LEMMA MessageTypes ==
    ASSUME NEW m \in Messages
    PROVE  /\ m.type \in {"ask", "tell", "answer"} /\ m.call \in Calls /\ m.source \in Nodes /\ m.dest \in Nodes
           /\ m.groups \in GroupSets \cup {{}} /\ m.result \in Results \cup {"none"}
           /\ m.visited \in [Buses -> 0 .. 2 * MaxJoins + 3]
           /\ m = [type |-> m.type, call |-> m.call, source |-> m.source, dest |-> m.dest,
                   groups |-> m.groups, result |-> m.result, visited |-> m.visited]
           /\ m \in Carried /\ m \in Of(m.call) /\ \A n : m # Gone(n)
<1>1. \A n : m # Gone(n)
  <2>1. m.type # "gone"  BY DEF Messages
  <2> QED  BY <2>1 DEF Gone
<1> QED  BY <1>1 DEF Messages, Carried, Of

\* What the calls make of a state's links, outcomes and procedures.
SameCalls(r, s) ==
    /\ r \in States
    /\ r.wire = s.wire /\ r.outcome = s.outcome /\ r.running = s.running /\ r.ran = s.ran

Quiet(r, s) == \A n \in Nodes :
    /\ \A k \in Links : InSeq(r.wire[k], {Gone(n)}) => InSeq(s.wire[k], {Gone(n)})
    /\ Once(s.wire, {Gone(n)}) => Once(r.wire, {Gone(n)})

Routed(r, s, S) == StateOK(r, S, groups) /\ Quiet(r, s)

LEMMA SameIsOK ==
    ASSUME NEW s, NEW r, NEW S, NEW gr, StateOK(s, S, gr), SameCalls(r, s)
    PROVE  /\ StateOK(r, S, gr) /\ Quiet(r, s)
           /\ \A m : InHand(m, s, S, gr) => InHand(m, r, S, gr)
<1>1. \A c : Busy(c, r) <=> Busy(c, s)  BY DEF SameCalls, Busy
<1>2. \A c : CallOK(c, s) => CallOK(c, r)  BY <1>1 DEF SameCalls, CallOK
<1>3. \A a \in S : SteadyOK(a, s, gr[a.from]) => SteadyOK(a, r, gr[a.from])  BY DEF SameCalls, SteadyOK
<1>4. StateOK(r, S, gr)  BY <1>2, <1>3 DEF StateOK, SameCalls
<1>5. Quiet(r, s)  BY DEF Quiet, SameCalls
<1>6. \A m : InHand(m, s, S, gr) => InHand(m, r, S, gr)  BY <1>1 DEF InHand, SameCalls
<1> QED  BY <1>4, <1>5, <1>6

LEMMA QuietYet ==
    ASSUME NEW r, NEW s, NEW t, Quiet(r, s), Quiet(s, t)
    PROVE  Quiet(r, t)
BY DEF Quiet

\* The message is put on a link.
LEMMA SentIsOK ==
    ASSUME NEW s, NEW r \in States, NEW S, NEW l \in Links, NEW m, NEW x,
           StateOK(s, S, groups), InHand(m, s, S, groups),
           x \in Messages, x.type = m.type, x.call = m.call, x.dest = m.dest, x.groups = m.groups, x.result = m.result,
           AfterAppend(r.wire, s.wire, l, x),
           r.outcome = s.outcome, r.running = s.running, r.ran = s.ran
    PROVE  Routed(r, s, S)
<1>1. /\ x \in Of(x.call) /\ x.call \in Calls /\ \A n : x \notin {Gone(n)}
      /\ \A c : c # x.call => x \notin Of(c)
  BY MessageTypes DEF Of
<1>2. /\ ~ In(s.wire, Of(m.call)) /\ \A k \in s.running : k.call # m.call  BY DEF InHand, Busy
<1>3. /\ \A M : In(r.wire, M) <=> In(s.wire, M) \/ x \in M
      /\ \A M : Once(s.wire, M) /\ ~ (x \in M /\ In(s.wire, M)) => Once(r.wire, M)
      /\ \A M : \A k \in Links : InSeq(r.wire[k], M) => InSeq(s.wire[k], M) \/ (k = l /\ x \in M)
  BY DEF AfterAppend
<1>4. x \notin Wrong(x.call, s.ran[x.call])  BY DEF InHand, Carries, Wrong
<1>5. ASSUME NEW c \in Calls  PROVE CallOK(c, r)
  <2>1. CallOK(c, s)  BY DEF StateOK
  <2>2. CASE c = x.call
    <3>1. Once(r.wire, Of(c))  BY <1>2, <1>3, <2>1, <2>2 DEF CallOK
    <3>2. ~ In(r.wire, Wrong(c, r.ran[c]))  BY <1>3, <1>4, <2>1, <2>2 DEF CallOK
    <3>3. r.outcome[c] \in {"told", "asked", "closed"}  BY <2>2 DEF InHand
    <3> QED  BY <1>2, <2>1, <2>2, <3>1, <3>2, <3>3 DEF CallOK
  <2>3. CASE c # x.call
    <3>1. x \notin Of(c) /\ x \notin Wrong(c, r.ran[c])  BY <1>1, <2>3 DEF Wrong
    <3>2. /\ Once(s.wire, Of(c)) => Once(r.wire, Of(c))
          /\ In(r.wire, Of(c)) <=> In(s.wire, Of(c))
          /\ In(r.wire, Wrong(c, r.ran[c])) <=> In(s.wire, Wrong(c, r.ran[c]))
      BY <1>3, <3>1
    <3>3. Busy(c, r) <=> Busy(c, s)  BY <3>2 DEF Busy
    <3> QED  BY <2>1, <3>2, <3>3 DEF CallOK
  <2> QED  BY <2>2, <2>3
<1>6. ASSUME NEW a \in S  PROVE SteadyOK(a, r, groups[a.from])
  <2>1. SteadyOK(a, s, groups[a.from])  BY DEF StateOK
  <2>2. x \notin Unmet(a, groups[a.from])
    <3>1. a.call = x.call => Meets(m, a, groups[a.from])  BY DEF InHand
    <3>2. a.call = x.call => Meets(x, a, groups[a.from])  BY <3>1 DEF Meets
    <3> QED  BY <1>1, <3>2 DEF Unmet, Of
  <2> QED  BY <1>3, <2>1, <2>2 DEF SteadyOK
<1>7. Quiet(r, s)  BY <1>1, <1>3 DEF Quiet
<1> QED  BY <1>5, <1>6, <1>7 DEF Routed, StateOK

\* Messages are dropped; one may have been taken from the links.
LEMMA FewerIsOK ==
    ASSUME NEW s, NEW r \in States, NEW S, NEW gr,
           StateOK(s, S, gr), Fewer(r.wire, s.wire),
           r.outcome = s.outcome, r.running = s.running, r.ran = s.ran
    PROVE  /\ StateOK(r, S, gr) /\ Quiet(r, s)
           /\ \A m \in Messages : Taken(r.wire, s.wire, m) => InHand(m, r, S, gr)
<1>1. /\ \A M : In(r.wire, M) => In(s.wire, M)
      /\ \A M : Once(s.wire, M) => Once(r.wire, M)
      /\ \A M : \A k \in Links : InSeq(r.wire[k], M) => InSeq(s.wire[k], M)
  BY DEF Fewer
<1>2. ASSUME NEW c \in Calls  PROVE CallOK(c, r)
  <2>1. CallOK(c, s)  BY DEF StateOK
  <2>2. Busy(c, r) => Busy(c, s)  BY <1>1 DEF Busy
  <2> QED  BY <1>1, <2>1, <2>2 DEF CallOK
<1>3. \A a \in S : SteadyOK(a, r, gr[a.from])  BY <1>1 DEF SteadyOK, StateOK
<1>4. Quiet(r, s)  BY <1>1 DEF Quiet
<1>5. ASSUME NEW m \in Messages, Taken(r.wire, s.wire, m)  PROVE InHand(m, r, S, gr)
  <2>1. m.call \in Calls /\ m \in Of(m.call)  BY MessageTypes
  <2>2. CallOK(m.call, s)  BY <2>1 DEF StateOK
  <2>3. In(s.wire, Of(m.call)) /\ ~ In(r.wire, Of(m.call))  BY <1>5, <2>1, <2>2 DEF Taken, CallOK
  <2>4. \A k \in s.running : k.call # m.call  BY <2>2, <2>3 DEF CallOK
  <2>5. Carries(m, r.ran[m.call])
    <3>1. m \notin Wrong(m.call, s.ran[m.call])  BY <1>5, <2>2 DEF Taken, CallOK
    <3> QED  BY <2>1, <3>1 DEF Wrong
  <2>6. ASSUME NEW a \in S, a.call = m.call  PROVE Meets(m, a, gr[a.from])
    <3>1. m \notin Unmet(a, gr[a.from])  BY <1>5 DEF Taken, StateOK, SteadyOK
    <3> QED  BY <2>1, <2>6, <3>1 DEF Unmet
  <2>7. r.outcome[m.call] \in {"told", "asked", "closed"}  BY <2>2, <2>3 DEF CallOK, Busy
  <2> QED  BY <2>3, <2>4, <2>5, <2>6, <2>7 DEF InHand, Busy
<1> QED  BY <1>2, <1>3, <1>4, <1>5 DEF StateOK

LEMMA LostIsOK ==
    ASSUME NEW s, NEW S, NEW m \in Messages, StateOK(s, S, groups)
    PROVE  Routed(Lost(m, s), s, S)
<1>1. s \in States /\ m.call \in Calls  BY MessageTypes DEF StateOK
<1>2. SameCalls(Lost(m, s), s)  BY <1>1, StateTypes DEF SameCalls, Lost, States
<1> QED  BY <1>2, SameIsOK DEF Routed

LEMMA NothingIsOK ==
    ASSUME NEW s, NEW S, StateOK(s, S, groups)
    PROVE  Routed(s, s, S)
BY DEF Routed, Quiet

LEMMA SendIsOK ==
    ASSUME NEW s, NEW S, NEW b \in Buses, NEW to, NEW m, stack \subseteq Links,
           StateOK(s, S, groups), InHand(m, s, S, groups)
    PROVE  Routed(Send(b, to, m, s), s, S)
<1>1. m \in Messages /\ s \in States  BY DEF InHand, StateOK
<1>2. CASE <<b, to>> \in stack \cap alive
  <2> DEFINE l == <<b, to>>
             x == IF m.visited[b] > 2 * (MaxJoins + 1) THEN m ELSE [m EXCEPT !.visited[b] = @ + 1]
             v == [m.visited EXCEPT ![b] = m.visited[b] + 1]
             u == [s.wire EXCEPT ![l] = Append(s.wire[l], x)]
             r == [s EXCEPT !.wire = u]
  <2>1. l \in Links  BY <1>2
  <2>2. /\ x \in Messages /\ x.type = m.type /\ x.call = m.call /\ x.dest = m.dest
        /\ x.groups = m.groups /\ x.result = m.result
    <3>1. CASE m.visited[b] > 2 * (MaxJoins + 1)  BY <1>1, <3>1
    <3>2. CASE ~ (m.visited[b] > 2 * (MaxJoins + 1))
      <4>1. m.visited \in [Buses -> 0 .. 2 * MaxJoins + 3]  BY <1>1, MessageTypes
      <4>2. m.visited[b] + 1 \in 0 .. 2 * MaxJoins + 3
        <5>1. m.visited[b] \in 0 .. 2 * MaxJoins + 3 /\ MaxJoins \in Nat  BY <4>1, TreeAssumption
        <5> QED  BY <3>2, <5>1
      <4>3. v \in [Buses -> 0 .. 2 * MaxJoins + 3]  BY <4>1, <4>2
      <4>4. x = [m EXCEPT !.visited = v]  BY <3>2
      <4> HIDE DEF v, x
      <4> QED  BY <1>1, <4>3, <4>4 DEF Messages
    <3> QED  BY <3>1, <3>2
  <2> HIDE DEF x
  <2>3. s.wire \in Wires /\ x \in Carried  BY <1>1, <2>2, StateTypes, MessageTypes
  <2>4. AfterAppend(u, s.wire, l, x)  BY <2>1, <2>3, Appended
  <2>5. u \in Wires  BY <2>4 DEF AfterAppend
  <2>6. Send(b, to, m, s) = r  BY <1>1, <1>2, StateTypes DEF Send, x
  <2> HIDE DEF u, l
  <2>7. /\ r \in States /\ r.wire = u /\ r.outcome = s.outcome /\ r.running = s.running /\ r.ran = s.ran
    BY <1>1, <2>5, StateTypes DEF States, Wires
  <2> HIDE DEF r
  <2> QED  BY <2>1, <2>2, <2>4, <2>6, <2>7, SentIsOK
<1>3. CASE <<b, to>> \notin stack \cap alive  BY <1>1, <1>3, LostIsOK DEF Send
<1> QED  BY <1>2, <1>3

LEMMA HopKinds ==
    ASSUME NEW b \in Buses, NEW n \in Nodes, KnownOver
    PROVE  NextHop(b, n) \in {"local", "none"} \cup Buses
<1>1. CASE HasNode(b, n)  BY <1>1 DEF NextHop
<1>2. CASE ~ HasNode(b, n) /\ known[b][n] # Unknown
  <2>1. Below(b, n) \in Buses  BY <1>2, BelowFacts, ChildLinks DEF KnownOver
  <2> QED  BY <1>2, <2>1 DEF NextHop
<1>3. CASE ~ HasNode(b, n) /\ known[b][n] = Unknown /\ HasParent(b)
  <2>1. b # Root  BY <1>3 DEF HasParent, Parents
  <2>2. ParentOf[b] \in Buses  BY <2>1, AboveStep
  <2> QED  BY <1>3, <2>2 DEF NextHop
<1>4. CASE ~ HasNode(b, n) /\ known[b][n] = Unknown /\ ~ HasParent(b)  BY <1>4 DEF NextHop
<1> QED  BY <1>1, <1>2, <1>3, <1>4

\* As long as no link breaks, every bus has a route to a node that has joined.
LEMMA AlwaysARoute ==
    ASSUME NEW b \in Buses, NEW n \in Nodes, KnownOver, RoutesHold, troubles = 0, node[n] = "in"
    PROVE  NextHop(b, n) # "none"
<1>1. CASE HasNode(b, n) \/ known[b][n] # Unknown
  <2>1. known[b][n] # Unknown => Below(b, n) \in Buses  BY BelowFacts, ChildLinks DEF KnownOver
  <2> QED  BY <1>1, <2>1, TreeAssumption DEF NextHop
<1>2. CASE ~ HasNode(b, n) /\ known[b][n] = Unknown
  <2>1. b \notin Over(n) /\ stack = Links  BY <1>2 DEF RoutesHold, RouteHolds
  <2>2. b # HomeOf[n]  BY <1>2 DEF HasNode, Lives
  <2>3. b # Root
    <3>1. HomeOf[n] \in Buses  BY TreeAssumption
    <3> QED  BY <2>1, <2>2, <3>1, RootAbove DEF Over
  <2>4. HasParent(b)  BY <2>1, <2>3, ChildLinks DEF HasParent, Parents
  <2>5. ParentOf[b] # "none"  BY <2>3, ChildLinks, TreeAssumption
  <2> QED  BY <1>2, <2>4, <2>5 DEF NextHop
<1> QED  BY <1>1, <1>2

\* The call is settled with the answer.
LEMMA SettledIsOK ==
    ASSUME NEW s, NEW r \in States, NEW S, NEW m,
           StateOK(s, S, groups), InHand(m, s, S, groups), m.type = "answer",
           r.wire = s.wire, r.outcome = [s.outcome EXCEPT ![m.call] = m.result],
           r.running = s.running, r.ran = s.ran
    PROVE  Routed(r, s, S)
<1>1. m.call \in Calls /\ s.outcome = [c \in Calls |-> s.outcome[c]]
  <2>1. m \in Messages /\ s \in States  BY DEF InHand, StateOK
  <2>2. s.outcome \in [Calls -> {"idle", "told", "asked"} \cup Results]  BY <2>1, StateTypes
  <2> QED  BY <2>1, <2>2, MessageTypes
<1>2. \A c \in Calls : r.outcome[c] = IF c = m.call THEN m.result ELSE s.outcome[c]  BY <1>1
<1>3. \A c : Busy(c, r) <=> Busy(c, s)  BY DEF Busy
<1>4. ASSUME NEW c \in Calls  PROVE CallOK(c, r)
  <2>1. CallOK(c, s)  BY DEF StateOK
  <2>2. CASE c = m.call
    <3>1. ~ Busy(c, r) /\ Carries(m, r.ran[c])  BY <1>3, <2>2 DEF InHand
    <3>2. /\ m.result \in {"data", "error"} => r.ran[c] = 1
          /\ m.result \in {"idle", "refused", "notFound"} => r.ran[c] = 0
      BY <3>1 DEF Carries
    <3> QED  BY <1>2, <2>1, <2>2, <3>1, <3>2 DEF CallOK
  <2>3. CASE c # m.call  BY <1>2, <1>3, <2>1, <2>3 DEF CallOK
  <2> QED  BY <2>2, <2>3
<1>5. ASSUME NEW a \in S  PROVE SteadyOK(a, r, groups[a.from])
  <2>1. SteadyOK(a, s, groups[a.from])  BY DEF StateOK
  <2>2. a.call = m.call => m.result \in {"data", "error"}  BY DEF InHand, Meets
  <2>3. r.outcome[a.call] = IF a.call = m.call THEN m.result ELSE s.outcome[a.call]  BY <1>1
  <2> QED  BY <2>1, <2>2, <2>3 DEF SteadyOK
<1>6. Quiet(r, s)  BY DEF Quiet
<1> QED  BY <1>4, <1>5, <1>6 DEF Routed, StateOK

LEMMA RouteAnswerIsOK ==
    ASSUME NEW s, NEW S, NEW b \in Buses, NEW m, KnownOver, stack \subseteq Links,
           StateOK(s, S, groups), InHand(m, s, S, groups), m.type = "answer"
    PROVE  Routed(RouteAnswer(b, m, s), s, S)
<1> DEFINE hop == NextHop(b, m.dest)
           r == [s EXCEPT !.pending[b] = @ \ {m.call}, !.outcome[m.call] = m.result]
<1>1. m \in Messages /\ s \in States /\ m.dest \in Nodes /\ m.call \in Calls
  BY MessageTypes DEF InHand, StateOK
<1>2. hop \in {"local", "none"} \cup Buses  BY <1>1, HopKinds
<1> HIDE DEF hop
<1>3. CASE hop \in Buses
  <2>1. hop # "local" /\ hop # "none"  BY <1>3, TreeAssumption
  <2>2. RouteAnswer(b, m, s) = Send(b, hop, m, s)  BY <1>3, <2>1 DEF RouteAnswer, hop
  <2> QED  BY <2>2, SendIsOK
<1>4. CASE hop = "none"
  <2>1. hop \notin Buses  BY <1>4, TreeAssumption
  <2>2. RouteAnswer(b, m, s) = Lost(m, s)  BY <1>4, <2>1 DEF RouteAnswer, hop
  <2> QED  BY <1>1, <2>2, LostIsOK
<1>5. CASE hop = "local" /\ m.call \in s.pending[b]
  <2>1. hop \notin Buses  BY <1>5, TreeAssumption
  <2>2. RouteAnswer(b, m, s) = r  BY <1>5, <2>1 DEF RouteAnswer, hop
  <2>3. m.result \in Results
    <3>1. m.result \in {"data", "error", "refused", "notFound"}  BY DEF InHand, Carries
    <3> QED  BY <3>1 DEF Results
  <2> DEFINE o == [s.outcome EXCEPT ![m.call] = m.result]
             p == [s.pending EXCEPT ![b] = s.pending[b] \ {m.call}]
  <2>4. s.outcome \in [Calls -> {"idle", "told", "asked"} \cup Results] /\ s.pending \in [Buses -> SUBSET Calls]
    BY <1>1, StateTypes
  <2>5. o \in [Calls -> {"idle", "told", "asked"} \cup Results] /\ p \in [Buses -> SUBSET Calls]
    BY <1>1, <2>3, <2>4
  <2>6. r = [s EXCEPT !.pending = p, !.outcome = o]  BY <1>1, StateTypes
  <2> HIDE DEF p, o, r
  <2>7. /\ r \in States /\ r.wire = s.wire /\ r.outcome = o /\ r.running = s.running /\ r.ran = s.ran
    BY <1>1, <2>5, <2>6, StateTypes DEF States
  <2>8. Routed(r, s, S)  BY <2>7, SettledIsOK DEF o
  <2> QED  BY <2>2, <2>8
<1>6. CASE hop = "local" /\ m.call \notin s.pending[b]
  <2>1. hop \notin Buses  BY <1>6, TreeAssumption
  <2>2. RouteAnswer(b, m, s) = s  BY <1>6, <2>1 DEF RouteAnswer, hop
  <2> QED  BY <2>2, NothingIsOK
<1> QED  BY <1>2, <1>3, <1>4, <1>5, <1>6

\* The call is executed, or refused.
LEMMA ExecutedIsOK ==
    ASSUME NEW s, NEW r \in States, NEW S, NEW m, NEW x, NEW refused \in BOOLEAN,
           StateOK(s, S, groups), InHand(m, s, S, groups), m.type # "answer",
           x \in Messages, x.call = m.call, x.type = m.type, x.result = IF refused THEN "refused" ELSE "none",
           \A a \in S : a.call = m.call => ~ refused,
           r.wire = s.wire, r.outcome = s.outcome,
           r.running = IF m.type # "ask" THEN s.running ELSE s.running \cup {x},
           r.ran = [s.ran EXCEPT ![m.call] = IF refused THEN s.ran[m.call] ELSE s.ran[m.call] + 1]
    PROVE  Routed(r, s, S)
<1>1. m \in Messages /\ m.call \in Calls /\ s.ran \in [Calls -> 0 .. 1]
  BY MessageTypes, StateTypes DEF InHand, StateOK
<1>2. /\ ~ In(s.wire, Of(m.call)) /\ \A k \in s.running : k.call # m.call
      /\ s.ran[m.call] = 0
  BY DEF InHand, Busy, Carries
<1>3. \A c \in Calls : r.ran[c] = IF c # m.call THEN s.ran[c] ELSE IF refused THEN 0 ELSE 1  BY <1>1, <1>2
<1>4. ASSUME NEW c \in Calls  PROVE CallOK(c, r)
  <2>1. CallOK(c, s)  BY DEF StateOK
  <2>2. CASE c = m.call
    <3>1. Wrong(c, r.ran[c]) \in SUBSET Of(c)  BY DEF Wrong
    <3>2. ~ In(r.wire, Wrong(c, r.ran[c])) /\ ~ In(r.wire, Of(c))  BY <1>2, <2>2, <3>1, PartOf
    <3>3. \A k \in r.running : k.call = c => k = x /\ m.type = "ask"  BY <1>2, <2>2
    <3>4. m.type = "ask" => Holds(x, r.ran[c])  BY <1>3, <2>2 DEF Holds
    <3>5. r.outcome[c] \in {"told", "asked", "closed"}  BY <2>2 DEF InHand
    <3> QED  BY <2>1, <3>2, <3>3, <3>4, <3>5 DEF CallOK
  <2>3. CASE c # m.call
    <3>1. \A k : k.call = c => (k \in r.running <=> k \in s.running)  BY <2>3
    <3>2. Busy(c, r) => Busy(c, s)  BY <3>1 DEF Busy
    <3>3. r.ran[c] = s.ran[c]  BY <1>3, <2>3
    <3> QED  BY <2>1, <3>1, <3>2, <3>3 DEF CallOK
  <2> QED  BY <2>2, <2>3
<1>5. ASSUME NEW a \in S  PROVE SteadyOK(a, r, groups[a.from])
  <2>1. SteadyOK(a, s, groups[a.from])  BY DEF StateOK
  <2>2. ASSUME NEW k \in r.running, k.call = a.call  PROVE k.result = "none"
    <3>1. CASE k \in s.running  BY <2>1, <2>2, <3>1 DEF SteadyOK
    <3>2. CASE k \notin s.running  BY <2>2, <3>2
    <3> QED  BY <3>1, <3>2
  <2> QED  BY <2>1, <2>2 DEF SteadyOK
<1>6. Quiet(r, s)  BY DEF Quiet
<1> QED  BY <1>4, <1>5, <1>6 DEF Routed, StateOK

LEMMA ExecuteIsOK ==
    ASSUME NEW s, NEW S, NEW m, StateOK(s, S, groups), InHand(m, s, S, groups), m.type # "answer",
           \A a \in S : StaysOn(a)
    PROVE  Routed(Execute(m, s), s, S)
<1> DEFINE x == [m EXCEPT !.result = IF Refused(m) THEN "refused" ELSE "none"]
           n == [s.ran EXCEPT ![m.call] = IF Refused(m) THEN s.ran[m.call] ELSE s.ran[m.call] + 1]
           k == IF m.type # "ask" THEN s.running ELSE s.running \cup {x}
           r == [s EXCEPT !.ran = n, !.running = k]
<1>1. m \in Messages /\ s \in States /\ m.call \in Calls  BY MessageTypes DEF InHand, StateOK
<1>2. Refused(m) \in BOOLEAN  BY DEF Refused
<1>3. /\ x \in Messages /\ x.call = m.call /\ x.type = m.type
      /\ x.result = IF Refused(m) THEN "refused" ELSE "none"
  BY <1>1, MessageTypes DEF Messages, Results
<1>4. \A a \in S : a.call = m.call => ~ Refused(m)
  <2>1. ASSUME NEW a \in S, a.call = m.call  PROVE ~ Refused(m)
    <3>1. m.dest = a.to /\ m.groups = groups[a.from]  BY <2>1 DEF InHand, Meets
    <3>2. StaysOn(a)  OBVIOUS
    <3> QED  BY <3>1, <3>2 DEF StaysOn, Refused
  <2> QED  BY <2>1
<1>5. n \in [Calls -> 0 .. 1]
  <2>1. s.ran \in [Calls -> 0 .. 1] /\ s.ran[m.call] = 0  BY <1>1, StateTypes DEF InHand, Carries
  <2> QED  BY <1>1, <2>1
<1>6. Execute(m, s) = r  BY <1>1, StateTypes DEF Execute
<1> HIDE DEF x
<1>7. k \subseteq Messages  BY <1>1, <1>3, StateTypes
<1> HIDE DEF n, k
<1>8. r \in States /\ r.wire = s.wire /\ r.outcome = s.outcome /\ r.running = k /\ r.ran = n
  BY <1>1, <1>5, <1>7, StateTypes DEF States
<1> HIDE DEF r
<1>9. Routed(r, s, S)
  <2>1. r.running = IF m.type # "ask" THEN s.running ELSE s.running \cup {x}  BY <1>8 DEF k
  <2>2. r.ran = [s.ran EXCEPT ![m.call] = IF Refused(m) THEN s.ran[m.call] ELSE s.ran[m.call] + 1]
    BY <1>8 DEF n
  <2> QED  BY <1>2, <1>3, <1>4, <1>8, <2>1, <2>2, ExecutedIsOK
<1> QED  BY <1>6, <1>9

\* An answer to an ask in hand, or to one that has run.
LEMMA AnswerTypes ==
    ASSUME NEW m \in Messages, NEW result \in Results
    PROVE  /\ AnswerTo(m, result) \in Messages /\ AnswerTo(m, result).type = "answer"
           /\ AnswerTo(m, result).call = m.call /\ AnswerTo(m, result).result = result
<1> DEFINE v == [b \in Buses |-> 0]
<1>1. v \in [Buses -> 0 .. 2 * MaxJoins + 3]
  <2>1. 0 \in 0 .. 2 * MaxJoins + 3  BY TreeAssumption
  <2> QED  BY <2>1
<1> DEFINE x == [m EXCEPT !.type = "answer", !.source = m.dest, !.dest = m.source, !.result = result,
                         !.visited = v]
<1>2. AnswerTo(m, result) = x  BY DEF AnswerTo
<1> HIDE DEF v
<1>3. x \in Messages /\ x.type = "answer" /\ x.call = m.call /\ x.result = result
  BY <1>1, MessageTypes DEF Messages
<1> HIDE DEF x
<1> QED  BY <1>2, <1>3

LEMMA RouteIsOK ==
    ASSUME NEW s, NEW S, NEW b \in Buses, NEW m, KnownOver, RoutesHold, stack \subseteq Links,
           StateOK(s, S, groups), InHand(m, s, S, groups), \A a \in S : StaysOn(a)
    PROVE  Routed(RouteP2P(b, m, s), s, S)
<1> DEFINE hop == NextHop(b, m.dest)
<1>1. /\ m \in Messages /\ s \in States /\ m.dest \in Nodes /\ m.call \in Calls
      /\ m.type \in {"ask", "tell", "answer"}
  BY MessageTypes DEF InHand, StateOK
<1>2. hop \in {"local", "none"} \cup Buses  BY <1>1, HopKinds
<1>3. CASE m.type = "answer"  BY <1>3, RouteAnswerIsOK DEF RouteP2P
<1> HIDE DEF hop
<1>4. CASE m.type # "answer" /\ hop = "local"
  <2>1. hop \notin Buses  BY <1>4, TreeAssumption
  <2>2. RouteP2P(b, m, s) = Execute(m, s)  BY <1>4, <2>1 DEF RouteP2P, hop
  <2> QED  BY <1>4, <2>2, ExecuteIsOK
<1>5. CASE m.type # "answer" /\ hop = "none"
  <2>0. hop \notin Buses  BY <1>5, TreeAssumption
  <2>1. RouteP2P(b, m, s) = RouteNowhere(b, m, s)  BY <1>5, <2>0 DEF RouteP2P, hop
  <2>2. CASE m.type = "ask"
    <3> DEFINE x == AnswerTo(m, "notFound")
    <3>1. x \in Messages /\ x.type = "answer" /\ x.call = m.call /\ x.result = "notFound"
      BY <1>1, AnswerTypes DEF Results
    <3> HIDE DEF x
    <3>2. ASSUME NEW a \in S, a.call = m.call  PROVE FALSE
      <4>1. StaysOn(a) /\ m.dest = a.to  BY <2>2, <3>2 DEF InHand, Meets
      <4> QED  BY <1>1, <1>5, <4>1, AlwaysARoute DEF StaysOn, hop
    <3>3. Carries(x, s.ran[x.call])  BY <2>2, <3>1 DEF InHand, Carries
    <3>4. InHand(x, s, S, groups)  BY <3>1, <3>2, <3>3 DEF InHand
    <3> QED  BY <2>1, <2>2, <3>1, <3>4, RouteAnswerIsOK DEF RouteNowhere, x
  <2>3. CASE m.type # "ask"  BY <1>1, <2>1, <2>3, LostIsOK DEF RouteNowhere
  <2> QED  BY <2>2, <2>3
<1>6. CASE m.type # "answer" /\ hop \in Buses
  <2>1. hop # "local" /\ hop # "none"  BY <1>6, TreeAssumption
  <2>2. RouteP2P(b, m, s) = Send(b, hop, m, s)  BY <1>6, <2>1 DEF RouteP2P, hop
  <2> QED  BY <2>2, SendIsOK
<1> QED  BY <1>2, <1>3, <1>4, <1>5, <1>6

-----------------------------------------------------------------------------
(* The invariant and its parts. *)

Kinds == {"idle", "told", "asked"} \cup Results

LEMMA Parts ==
    ASSUME CallsInv
    PROVE  /\ node \in [Nodes -> Lives \cup {"out"}] /\ groups \in [Nodes -> GroupSets] /\ ready \subseteq Nodes
           /\ known \in [Buses -> [Nodes -> GroupSets \cup {Unknown}]]
           /\ stack \subseteq Links /\ alive \subseteq Links /\ clients \subseteq Nodes \X Nodes
           /\ joins \in 0 .. MaxJoins /\ troubles \in 0 .. MaxTroubles
           /\ Now \in States /\ StateOK(Now, steady, groups)
           /\ \A a \in steady : StaysOn(a)
           /\ KnownOver /\ RoutesHold
BY DEF CallsInv, CTypeOK, StateOK

LEMMA NowIs ==
    /\ Now.wire = wire /\ Now.pending = pending /\ Now.outcome = outcome
    /\ Now.running = running /\ Now.ran = ran /\ Now.lost = lost
BY DEF Now

LEMMA NowTypes ==
    ASSUME CallsInv
    PROVE  /\ wire \in Wires /\ pending \in [Buses -> SUBSET Calls]
           /\ outcome \in [Calls -> Kinds]
           /\ running \subseteq Messages /\ ran \in [Calls -> 0 .. 1] /\ lost \subseteq Calls
BY Parts, StateTypes, NowIs DEF Kinds

\* The whole after a step, from the parts.
LEMMA Whole ==
    ASSUME node' \in [Nodes -> Lives \cup {"out"}], groups' \in [Nodes -> GroupSets], ready' \subseteq Nodes,
           known' \in [Buses -> [Nodes -> GroupSets \cup {Unknown}]],
           stack' \subseteq Links, alive' \subseteq Links, clients' \subseteq Nodes \X Nodes,
           joins' \in 0 .. MaxJoins, troubles' \in 0 .. MaxTroubles,
           StateOK(Now', steady', groups'), \A a \in steady' : StaysOn(a)', KnownOver', RoutesHold'
    PROVE  CallsInv'
<1>0. /\ Now'.wire = wire' /\ Now'.pending = pending' /\ Now'.outcome = outcome'
      /\ Now'.running = running' /\ Now'.ran = ran' /\ Now'.lost = lost'
  BY DEF Now
<1>1. /\ wire' \in Wires /\ pending' \in [Buses -> SUBSET Calls]
      /\ outcome' \in [Calls -> Kinds]
      /\ running' \subseteq Messages /\ ran' \in [Calls -> 0 .. 1] /\ lost' \subseteq Calls
  BY <1>0, StateTypes DEF StateOK, Kinds
<1>2. groups' \in [Nodes -> GroupSets \cup {{}}]  OBVIOUS
<1>3. CTypeOK'  BY <1>1, <1>2 DEF CTypeOK, Wires, Carried, Kinds
<1> QED  BY <1>3 DEF CallsInv

LEMMA Becomes ==
    ASSUME NEW r \in States, Become(r)
    PROVE  Now' = r
<1>1. Now' = [wire |-> wire', pending |-> pending', outcome |-> outcome', running |-> running',
              ran |-> ran', lost |-> lost']
  BY DEF Now
<1> QED  BY <1>1, StateTypes DEF Become

LEMMA NowStays == ASSUME UNCHANGED callVars  PROVE Now' = Now
BY DEF callVars, Now

\* The announcements come and go of other nodes only.
LEMMA RouteStays ==
    ASSUME NEW n \in Nodes, RouteHolds(n), node'[n] = node[n],
           \A b \in Buses : known[b][n] # Unknown => known'[b][n] # Unknown,
           \A k \in Links : InSeq(wire'[k], {Gone(n)}) => InSeq(wire[k], {Gone(n)}),
           Once(wire, {Gone(n)}) => Once(wire', {Gone(n)})
    PROVE  RouteHolds(n)'
<1>1. In(wire', {Gone(n)}) => In(wire, {Gone(n)})  BY DEF In
<1>2. \A l \in Links : KnownFrom(l[2], n) => KnownFrom(l[2], n)'  BY LinkEnds, AboveFacts DEF KnownFrom
<1>3. Over(n) \subseteq Buses  BY TreeAssumption, AboveFacts DEF Over
<1> QED  BY <1>1, <1>2, <1>3 DEF RouteHolds

LEMMA RoutesStay ==
    ASSUME RoutesHold, UNCHANGED <<node, known, stack, alive, troubles>>, Quiet(Now', Now)
    PROVE  RoutesHold'
<1>1. Now'.wire = wire' /\ Now.wire = wire  BY DEF Now
<1>2. ASSUME NEW n \in Nodes, RouteHolds(n)  PROVE RouteHolds(n)'  BY <1>1, <1>2, RouteStays DEF Quiet
<1> QED  BY <1>2 DEF RoutesHold

LEMMA KnownStays ==
    ASSUME KnownOver, UNCHANGED <<known, undo>>
    PROVE  KnownOver'
BY DEF KnownOver

LEMMA Onward ==
    ASSUME CallsInv, NEW r, NEW S, Become(r), StateOK(r, S, groups), Quiet(r, Now), steady' = S,
           \A a \in S : StaysOn(a), clients' = clients,
           UNCHANGED <<nodeVars, routeVars, linkVars>>
    PROVE  CallsInv'
<1>1. Now' = r  BY Becomes DEF StateOK
<1>2. /\ node' = node /\ groups' = groups /\ ready' = ready /\ joins' = joins
      /\ known' = known /\ undo' = undo /\ stack' = stack /\ alive' = alive /\ troubles' = troubles
  BY DEF nodeVars, routeVars, linkVars
<1>3. RoutesHold' /\ KnownOver'  BY <1>1, <1>2, Parts, RoutesStay, KnownStays
<1>4. \A a : StaysOn(a)' <=> StaysOn(a)  BY <1>2 DEF StaysOn
<1>5. StateOK(Now', steady', groups')  BY <1>1, <1>2
<1>6. \A a \in steady' : StaysOn(a)'  BY <1>4
<1>7. /\ node' \in [Nodes -> Lives \cup {"out"}] /\ groups' \in [Nodes -> GroupSets] /\ ready' \subseteq Nodes
      /\ known' \in [Buses -> [Nodes -> GroupSets \cup {Unknown}]]
      /\ stack' \subseteq Links /\ alive' \subseteq Links /\ clients' \subseteq Nodes \X Nodes
      /\ joins' \in 0 .. MaxJoins /\ troubles' \in 0 .. MaxTroubles
  BY <1>2, Parts
<1> QED  BY <1>3, <1>5, <1>6, <1>7, Whole

-----------------------------------------------------------------------------
(* The actions. *)

LEMMA Starts == ASSUME CInit  PROVE CallsInv
<1>1. /\ node = [n \in Nodes |-> "in"] /\ ready = Nodes /\ groups = FirstGroups
      /\ known = [b \in Buses |-> [n \in Nodes |-> IF b \in Over(n) THEN groups[n] ELSE Unknown]]
      /\ undo = {} /\ stack = Links /\ alive = Links /\ wire = [l \in Links |-> <<>>]
      /\ clients = {} /\ pending = [b \in Buses |-> {}] /\ outcome = [c \in Calls |-> "idle"] /\ running = {}
      /\ ran = [c \in Calls |-> 0] /\ joins = 0 /\ troubles = 0 /\ lost = {} /\ steady = {}
  BY DEF CInit
<1>2. groups \in [Nodes -> GroupSets] /\ Unknown \notin GroupSets  BY <1>1, TreeAssumption
<1>3. known \in [Buses -> [Nodes -> GroupSets \cup {Unknown}]]  BY <1>1, <1>2
<1>4. \A n \in Nodes : \A b \in Buses : known[b][n] # Unknown <=> b \in Over(n)  BY <1>1, <1>2
<1>5. \A M : ~ In(wire, M) /\ Once(wire, M) /\ \A l \in Links : ~ InSeq(wire[l], M)
  BY <1>1 DEF In, Once, InSeq
<1>6. KnownOver  BY <1>1, <1>4 DEF KnownOver
<1>7. \A n \in Nodes : Over(n) \subseteq Buses  BY TreeAssumption, AboveFacts DEF Over
<1>8. RoutesHold  BY <1>1, <1>4, <1>5, <1>7 DEF RoutesHold, RouteHolds
<1>9. Now \in States
  <2>1. wire \in [Links -> Seq(Carried)]  BY <1>1
  <2>2. /\ pending \in [Buses -> SUBSET Calls] /\ outcome \in [Calls -> {"idle", "told", "asked"} \cup Results]
        /\ running \subseteq Messages /\ ran \in [Calls -> 0 .. 1] /\ lost \subseteq Calls
    BY <1>1
  <2> QED  BY <2>1, <2>2 DEF Now, States
<1>10. \A c \in Calls : CallOK(c, Now)  BY <1>1, <1>5, NowIs DEF CallOK, Busy
<1>11. StateOK(Now, steady, groups) /\ \A a \in steady : StaysOn(a)  BY <1>1, <1>9, <1>10 DEF StateOK
<1>12. CTypeOK
  <2>1. node \in [Nodes -> Lives \cup {"out"}]  BY <1>1 DEF Lives
  <2>2. joins \in 0 .. MaxJoins /\ troubles \in 0 .. MaxTroubles  BY <1>1, TreeAssumption
  <2>3. /\ ready \subseteq Nodes /\ stack \subseteq Links /\ alive \subseteq Links
        /\ clients \subseteq Nodes \X Nodes
    BY <1>1
  <2>4. groups \in [Nodes -> GroupSets \cup {{}}]  BY <1>2
  <2>5. /\ wire \in Wires /\ pending \in [Buses -> SUBSET Calls]
        /\ outcome \in [Calls -> Kinds]
        /\ running \subseteq Messages /\ ran \in [Calls -> 0 .. 1] /\ lost \subseteq Calls
    BY <1>9, StateTypes, NowIs DEF Kinds
  <2> QED  BY <1>3, <2>1, <2>2, <2>3, <2>4, <2>5 DEF CTypeOK, Wires, Carried, Kinds
<1> QED  BY <1>2, <1>6, <1>8, <1>11, <1>12 DEF CallsInv

LEMMA CallIsMade ==
    ASSUME CallsInv, NEW c \in Calls, NEW s \in Nodes, NEW d \in Nodes, NEW type \in {"ask", "tell"},
           NEW r, NEW S, outcome[c] = "idle",
           r \in States, r.wire = wire, r.running = running, r.ran = ran,
           r.outcome = [outcome EXCEPT ![c] = IF type = "ask" THEN "asked" ELSE "told"],
           \A a \in S : a \in steady \/ (type = "ask" /\ a = [call |-> c, from |-> s, to |-> d])
    PROVE  /\ StateOK(r, S, groups) /\ InHand(Message(type, c, s, d), r, S, groups)
           /\ Quiet(r, Now)
<1> DEFINE m == Message(type, c, s, d)
           v == [b \in Buses |-> 0]
<1>1. v \in [Buses -> 0 .. 2 * MaxJoins + 3]
  <2>1. 0 \in 0 .. 2 * MaxJoins + 3  BY TreeAssumption
  <2> QED  BY <2>1
<1>2. m = [type |-> type, call |-> c, source |-> s, groups |-> groups[s], dest |-> d,
           result |-> "none", visited |-> v]
  BY DEF Message
<1> HIDE DEF v
<1>3. /\ m \in Messages /\ m.type = type /\ m.call = c /\ m.dest = d /\ m.groups = groups[s] /\ m.result = "none"
  BY <1>1, <1>2, Parts DEF Messages
<1> HIDE DEF m
<1>4. \A e \in Calls : r.outcome[e] = IF e = c THEN (IF type = "ask" THEN "asked" ELSE "told") ELSE outcome[e]
  BY NowTypes
<1>5. CallOK(c, Now) /\ ran[c] = 0 /\ ~ Busy(c, Now)  BY Parts, NowIs DEF StateOK, CallOK
<1>6. \A e : Busy(e, r) <=> Busy(e, Now)  BY NowIs DEF Busy
<1>7. ASSUME NEW e \in Calls  PROVE CallOK(e, r)
  <2>1. CallOK(e, Now)  BY Parts DEF StateOK
  <2>2. CASE e = c  BY <1>4, <1>5, <1>6, <2>1, <2>2, NowIs DEF CallOK
  <2>3. CASE e # c  BY <1>4, <1>6, <2>1, <2>3, NowIs DEF CallOK
  <2> QED  BY <2>2, <2>3
<1>8. ASSUME NEW a \in S  PROVE SteadyOK(a, r, groups[a.from]) /\ (a.call = c => Meets(m, a, groups[a.from]))
  <2>1. CASE a \in steady
    <3>1. SteadyOK(a, Now, groups[a.from]) /\ a.call \in Calls
      BY <2>1, Parts DEF StateOK, StaysOn, SteadyAsks
    <3>2. a.call # c  BY <3>1, NowIs DEF SteadyOK
    <3> QED  BY <1>4, <3>1, <3>2, NowIs DEF SteadyOK
  <2>2. CASE type = "ask" /\ a = [call |-> c, from |-> s, to |-> d]
    <3>1. a.call = c /\ a.from = s /\ a.to = d  BY <2>2
    <3>2. Unmet(a, groups[s]) \in SUBSET Of(c)  BY <3>1 DEF Unmet
    <3>3. ~ In(wire, Of(c)) /\ \A k \in running : k.call # c  BY <1>5, NowIs DEF Busy
    <3>4. ~ In(wire, Unmet(a, groups[s]))  BY <3>2, <3>3, PartOf
    <3>5. SteadyOK(a, r, groups[a.from])  BY <1>4, <2>2, <3>1, <3>3, <3>4 DEF SteadyOK
    <3>6. Meets(m, a, groups[a.from])  BY <1>3, <2>2, <3>1 DEF Meets
    <3> QED  BY <3>5, <3>6
  <2> QED  BY <2>1, <2>2
<1>9. Carries(m, r.ran[c])  BY <1>3, <1>5 DEF Carries
<1>10. InHand(m, r, S, groups)  BY <1>3, <1>4, <1>5, <1>6, <1>8, <1>9 DEF InHand
<1>11. Quiet(r, Now)  BY NowIs DEF Quiet
<1> QED  BY <1>7, <1>8, <1>10, <1>11 DEF StateOK, m

LEMMA Routes ==
    ASSUME CallsInv, NEW s, NEW S, NEW b \in Buses, NEW m,
           StateOK(s, S, groups), InHand(m, s, S, groups), Quiet(s, Now), \A a \in S : StaysOn(a),
           Become(RouteP2P(b, m, s)), steady' = S, clients' = clients,
           UNCHANGED <<nodeVars, routeVars, linkVars>>
    PROVE  CallsInv'
<1>1. Routed(RouteP2P(b, m, s), s, S)  BY Parts, RouteIsOK
<1>2. StateOK(RouteP2P(b, m, s), S, groups) /\ Quiet(RouteP2P(b, m, s), Now)  BY <1>1, QuietYet DEF Routed
<1> QED  BY <1>2, Onward

LEMMA AskKeeps ==
    ASSUME CallsInv, NEW c \in Calls, NEW s \in Nodes, NEW d \in Nodes, Ask(c, s, d)
    PROVE  CallsInv'
<1> DEFINE p == [pending EXCEPT ![HomeOf[s]] = pending[HomeOf[s]] \cup {c}]
           o == [outcome EXCEPT ![c] = "asked"]
           r == [Now EXCEPT !.pending = p, !.outcome = o]
           S == steady'
<1>1. /\ outcome[c] = "idle" /\ node[s] = "in"
      /\ Become(RouteP2P(HomeOf[s], Message("ask", c, s, d),
                         [Now EXCEPT !.pending[HomeOf[s]] = @ \cup {c}, !.outcome[c] = "asked"]))
      /\ steady' = IF troubles = 0 /\ node[d] = "in" /\ d \in ready /\ groups[s] \cap groups[d] # {}
                   THEN steady \cup {[call |-> c, from |-> s, to |-> d]} ELSE steady
      /\ UNCHANGED <<nodeVars, routeVars, linkVars>> /\ clients' = clients
  BY DEF Ask, MayCall
<1>2. HomeOf[s] \in Buses  BY TreeAssumption
<1>3. p \in [Buses -> SUBSET Calls] /\ o \in [Calls -> Kinds]  BY <1>2, NowTypes DEF Kinds
<1>4. [Now EXCEPT !.pending[HomeOf[s]] = @ \cup {c}, !.outcome[c] = "asked"] = r  BY DEF Now
<1> HIDE DEF p, o
<1>5. r \in States /\ r.wire = wire /\ r.running = running /\ r.ran = ran /\ r.outcome = o
  BY <1>3, NowTypes DEF Now, States, Kinds, Wires
<1> HIDE DEF r, S
<1>6. \A a \in S : a \in steady \/ a = [call |-> c, from |-> s, to |-> d]  BY <1>1 DEF S
<1>7. StateOK(r, S, groups) /\ InHand(Message("ask", c, s, d), r, S, groups) /\ Quiet(r, Now)
  BY <1>1, <1>5, <1>6, CallIsMade DEF o
<1>8. ASSUME NEW a \in S  PROVE StaysOn(a)
  <2>1. CASE a \in steady  BY <2>1, Parts
  <2>2. CASE a \notin steady
    <3>1. /\ a = [call |-> c, from |-> s, to |-> d]
          /\ troubles = 0 /\ node[d] = "in" /\ d \in ready /\ groups[s] \cap groups[d] # {}
      BY <1>1, <2>2 DEF S
    <3> QED  BY <1>1, <3>1 DEF StaysOn, SteadyAsks
  <2> QED  BY <2>1, <2>2
<1>9. Become(RouteP2P(HomeOf[s], Message("ask", c, s, d), r)) /\ steady' = S  BY <1>1, <1>4 DEF S
<1> QED  BY <1>1, <1>2, <1>7, <1>8, <1>9, Routes

LEMMA TellKeeps ==
    ASSUME CallsInv, NEW c \in Calls, NEW s \in Nodes, NEW d \in Nodes, Tell(c, s, d)
    PROVE  CallsInv'
<1> DEFINE o == [outcome EXCEPT ![c] = "told"]
           r == [Now EXCEPT !.outcome = o]
<1>1. /\ outcome[c] = "idle"
      /\ Become(RouteP2P(HomeOf[s], Message("tell", c, s, d), [Now EXCEPT !.outcome[c] = "told"]))
      /\ UNCHANGED <<nodeVars, routeVars, linkVars>> /\ clients' = clients /\ steady' = steady
  BY DEF Tell, MayCall
<1>2. HomeOf[s] \in Buses  BY TreeAssumption
<1>3. o \in [Calls -> Kinds]  BY NowTypes DEF Kinds
<1>4. [Now EXCEPT !.outcome[c] = "told"] = r  BY DEF Now
<1> HIDE DEF o
<1>5. r \in States /\ r.wire = wire /\ r.running = running /\ r.ran = ran /\ r.outcome = o
  BY <1>3, NowTypes DEF Now, States, Kinds, Wires
<1> HIDE DEF r
<1>6. StateOK(r, steady, groups) /\ InHand(Message("tell", c, s, d), r, steady, groups) /\ Quiet(r, Now)
  BY <1>1, <1>5, CallIsMade DEF o
<1>7. Become(RouteP2P(HomeOf[s], Message("tell", c, s, d), r))  BY <1>1, <1>4
<1> QED  BY <1>1, <1>2, <1>6, <1>7, Parts, Routes

LEMMA ReceiveKeeps ==
    ASSUME CallsInv, NEW l \in Links, Receive(l)
    PROVE  CallsInv'
<1> DEFINE w == [wire EXCEPT ![l] = Tail(wire[l])]
           r == [Now EXCEPT !.wire = w]
           m == Head(wire[l])
<1>1. /\ wire[l] # <<>> /\ m.type # "gone"
      /\ Become(RouteP2P(l[2], m, [Now EXCEPT !.wire[l] = Tail(@)]))
      /\ UNCHANGED <<nodeVars, routeVars, linkVars>> /\ clients' = clients /\ steady' = steady
  BY DEF Receive
<1>2. l[2] \in Buses  BY LinkEnds
<1>3. Fewer(w, wire) /\ Taken(w, wire, m)  BY <1>1, NowTypes, FirstTaken
<1>4. m \in Messages  BY <1>1, <1>3 DEF Taken, Carried
<1>5. [Now EXCEPT !.wire[l] = Tail(@)] = r  BY DEF Now
<1> HIDE DEF w, m
<1>6. /\ r \in States /\ r.wire = w /\ r.running = running /\ r.ran = ran /\ r.outcome = outcome
  BY <1>3, NowTypes DEF Now, States, Kinds, Wires, Fewer
<1> HIDE DEF r
<1>7. StateOK(r, steady, groups) /\ Quiet(r, Now) /\ InHand(m, r, steady, groups)
  BY <1>3, <1>4, <1>6, Parts, NowIs, FewerIsOK
<1>8. Become(RouteP2P(l[2], m, r))  BY <1>1, <1>5
<1> QED  BY <1>1, <1>2, <1>7, <1>8, Parts, Routes

LEMMA ReturnsKeeps ==
    ASSUME CallsInv, NEW m \in running, Returns(m)
    PROVE  CallsInv'
<1>1. PICK result \in IF m.result = "none" THEN {"data", "error"} ELSE {m.result} :
          Become(RouteAnswer(HomeOf[m.dest], AnswerTo(m, result), [Now EXCEPT !.running = @ \ {m}]))
  BY DEF Returns
<1>2. UNCHANGED <<nodeVars, routeVars, linkVars>> /\ clients' = clients /\ steady' = steady  BY DEF Returns
<1> DEFINE r == [Now EXCEPT !.running = running \ {m}]
           x == AnswerTo(m, result)
<1>3. m \in Messages /\ m.call \in Calls /\ HomeOf[m.dest] \in Buses
  BY NowTypes, MessageTypes, TreeAssumption
<1>4. /\ r \in States /\ r.wire = wire /\ r.running = running \ {m} /\ r.ran = ran /\ r.outcome = outcome
      /\ r = [Now EXCEPT !.running = @ \ {m}]
  BY NowTypes DEF Now, States, Kinds, Wires
<1> HIDE DEF r
<1>5. /\ CallOK(m.call, Now) /\ Holds(m, ran[m.call]) /\ ~ In(wire, Of(m.call))
      /\ \A k \in running : k.call = m.call => k = m
      /\ outcome[m.call] \in {"told", "asked", "closed"}
  BY <1>3, Parts, NowIs DEF StateOK, CallOK, Busy
<1>6. \/ result \in {"data", "error"} /\ ran[m.call] = 1
      \/ result = "refused" /\ ran[m.call] = 0 /\ m.result = "refused"
  BY <1>1, <1>5 DEF Holds
<1>7. /\ x \in Messages /\ x.type = "answer" /\ x.call = m.call /\ x.result = result
  BY <1>3, <1>6, AnswerTypes DEF Results
<1> HIDE DEF x
<1>8. ASSUME NEW c \in Calls  PROVE CallOK(c, r)
  <2>1. CallOK(c, Now)  BY Parts DEF StateOK
  <2>2. Busy(c, r) => Busy(c, Now)  BY <1>4, NowIs DEF Busy
  <2> QED  BY <1>4, <2>1, <2>2, NowIs DEF CallOK
<1>9. \A a \in steady : SteadyOK(a, r, groups[a.from])  BY <1>4, Parts, NowIs DEF StateOK, SteadyOK
<1>10. StateOK(r, steady, groups)  BY <1>4, <1>8, <1>9 DEF StateOK
<1>11. ASSUME NEW a \in steady, a.call = x.call  PROVE Meets(x, a, groups[a.from])
  <2>1. m.result = "none"  BY <1>7, <1>11, Parts, NowIs DEF StateOK, SteadyOK
  <2> QED  BY <1>6, <1>7, <2>1 DEF Meets
<1>12. InHand(x, r, steady, groups)
  <2>1. Carries(x, r.ran[x.call])  BY <1>4, <1>6, <1>7 DEF Carries
  <2>2. ~ Busy(x.call, r)  BY <1>4, <1>5, <1>7 DEF Busy
  <2> QED  BY <1>4, <1>5, <1>7, <1>11, <2>1, <2>2 DEF InHand
<1>13. Quiet(r, Now)  BY <1>4, NowIs DEF Quiet
<1>14. Routed(RouteAnswer(HomeOf[m.dest], x, r), r, steady)
  BY <1>3, <1>7, <1>10, <1>12, Parts, RouteAnswerIsOK
<1>15. /\ StateOK(RouteAnswer(HomeOf[m.dest], x, r), steady, groups)
       /\ Quiet(RouteAnswer(HomeOf[m.dest], x, r), Now)
  BY <1>13, <1>14, QuietYet DEF Routed
<1>16. Become(RouteAnswer(HomeOf[m.dest], x, r))  BY <1>1, <1>4 DEF x
<1> QED  BY <1>2, <1>15, <1>16, Parts, Onward

LEMMA OnlyClients ==
    ASSUME CallsInv, UNCHANGED <<nodeVars, routeVars, linkVars, callVars, steady>>, clients' \subseteq Nodes \X Nodes
    PROVE  CallsInv'
<1>1. /\ node' = node /\ groups' = groups /\ ready' = ready /\ joins' = joins
      /\ known' = known /\ undo' = undo /\ stack' = stack /\ alive' = alive /\ troubles' = troubles
      /\ steady' = steady /\ Now' = Now
  BY NowStays DEF nodeVars, routeVars, linkVars
<1>2. Quiet(Now', Now)  BY <1>1 DEF Quiet
<1>3. RoutesHold' /\ KnownOver'  BY <1>1, <1>2, Parts, RoutesStay, KnownStays
<1>4. \A a \in steady' : StaysOn(a)'  BY <1>1, Parts DEF StaysOn
<1> QED  BY <1>1, <1>3, <1>4, Parts, Whole

LEMMA ConnectToKeeps ==
    ASSUME CallsInv, NEW s \in Nodes, NEW d \in Nodes, ConnectTo(s, d)
    PROVE  CallsInv'
<1>1. /\ clients' = clients \cup {<<s, d>>}
      /\ UNCHANGED <<nodeVars, routeVars, linkVars, callVars, steady>>
  BY DEF ConnectTo
<1>2. clients' \subseteq Nodes \X Nodes  BY <1>1, Parts
<1> QED  BY <1>1, <1>2, OnlyClients

\* Nodes that have joined stay as they are.
LEMMA NodesStay ==
    ASSUME CallsInv, UNCHANGED <<callVars, steady, troubles>>,
           \A k \in Nodes : node[k] = "in" =>
               node'[k] = "in" /\ groups'[k] = groups[k] /\ (k \in ready => k \in ready')
    PROVE  StateOK(Now', steady', groups') /\ \A a \in steady' : StaysOn(a)'
<1>1. Now' = Now /\ steady' = steady /\ troubles' = troubles  BY NowStays
<1>2. ASSUME NEW a \in steady  PROVE StaysOn(a)' /\ groups'[a.from] = groups[a.from]
  <2>1. /\ a.from \in Nodes /\ a.to \in Nodes /\ StaysOn(a)  BY Parts DEF StaysOn, SteadyAsks
  <2>2. /\ groups'[a.from] = groups[a.from] /\ groups'[a.to] = groups[a.to]
        /\ node'[a.from] = "in" /\ node'[a.to] = "in" /\ a.to \in ready'
    BY <2>1 DEF StaysOn
  <2> QED  BY <1>1, <2>1, <2>2 DEF StaysOn
<1>3. StateOK(Now, steady, groups)  BY Parts
<1>4. StateOK(Now, steady, groups')  BY <1>2, <1>3 DEF StateOK
<1> QED  BY <1>1, <1>2, <1>4

\* A step of one node, that the buses above do not notice.
LEMMA NodeStep ==
    ASSUME CallsInv, NEW n \in Nodes,
           node' \in [Nodes -> Lives \cup {"out"}], groups' \in [Nodes -> GroupSets], ready' \subseteq Nodes,
           joins' \in 0 .. MaxJoins,
           UNCHANGED <<routeVars, linkVars, callVars, clients, steady>>,
           \A k \in Nodes : k # n => node'[k] = node[k] /\ groups'[k] = groups[k] /\ (k \in ready => k \in ready'),
           node[n] = "in" => node'[n] = "in" /\ groups'[n] = groups[n] /\ (n \in ready => n \in ready'),
           RoutesHold /\ troubles = 0 => RouteHolds(n)'
    PROVE  CallsInv'
<1>1. /\ known' = known /\ undo' = undo /\ stack' = stack /\ alive' = alive /\ troubles' = troubles
      /\ steady' = steady /\ clients' = clients /\ wire' = wire
  BY DEF routeVars, linkVars, callVars
<1>2. StateOK(Now', steady', groups') /\ \A a \in steady' : StaysOn(a)'  BY <1>1, NodesStay
<1>3. RoutesHold'
  <2>1. SUFFICES ASSUME troubles = 0  PROVE /\ stack' = Links /\ alive' = Links
                                            /\ \A k \in Nodes : RouteHolds(k)'
    BY <1>1 DEF RoutesHold
  <2>2. stack' = Links /\ alive' = Links /\ \A k \in Nodes : RouteHolds(k)
    BY <1>1, <2>1, Parts DEF RoutesHold
  <2>3. ASSUME NEW k \in Nodes  PROVE RouteHolds(k)'
    <3>1. CASE k = n  BY <2>1, <3>1, Parts
    <3>2. CASE k # n  BY <1>1, <2>2, <3>2, RouteStays
    <3> QED  BY <3>1, <3>2
  <2> QED  BY <2>2, <2>3
<1>4. KnownOver'  BY <1>1, Parts, KnownStays
<1> QED  BY <1>1, <1>2, <1>3, <1>4, Parts, Whole

\* No bus above is cut off while no link breaks.
LEMMA AllReachable ==
    ASSUME CallsInv, NEW n \in Nodes, troubles = 0
    PROVE  Reachable(n) = Over(n)
<1>1. stack = Links /\ alive = Links  BY Parts DEF RoutesHold
<1>2. ASSUME NEW b \in Over(n), NEW c \in Above[HomeOf[n]], b \in Above[c] \ {c}
      PROVE  Ends(c) \subseteq Links
  <2>1. c \in Buses /\ c # Root
    <3>1. c \in Buses  BY TreeAssumption, AboveFacts
    <3>2. c # Root  BY <1>2, AboveRoot
    <3> QED  BY <3>1, <3>2
  <2> QED  BY <2>1, ChildLinks DEF Ends
<1> QED  BY <1>1, <1>2 DEF Reachable

LEMMA JoinKeeps ==
    ASSUME CallsInv, NEW n \in Nodes, NEW g \in GroupSets, NEW api \in BOOLEAN, Join(n, g, api)
    PROVE  CallsInv'
<1>1. /\ joins < MaxJoins /\ joins' = joins + 1 /\ node[n] = "out"
      /\ node' = [node EXCEPT ![n] = "joining"] /\ groups' = [groups EXCEPT ![n] = g]
      /\ ready' = IF api THEN ready \cup {n} ELSE ready
      /\ UNCHANGED <<routeVars, linkVars, callVars, clients, steady>>
  BY DEF Join
<1>2. /\ node' \in [Nodes -> Lives \cup {"out"}] /\ groups' \in [Nodes -> GroupSets] /\ ready' \subseteq Nodes
      /\ \A k \in Nodes : k # n => node'[k] = node[k] /\ groups'[k] = groups[k] /\ (k \in ready => k \in ready')
      /\ node'[n] = "joining"
  BY <1>1, Parts DEF Lives
<1>3. joins' \in 0 .. MaxJoins  BY <1>1, Parts, TreeAssumption
<1>4. ASSUME RoutesHold, troubles = 0  PROVE RouteHolds(n)'
  <2>1. wire' = wire  BY <1>1 DEF callVars
  <2>2. RouteHolds(n)  BY <1>4 DEF RoutesHold
  <2>3. ~ In(wire, {Gone(n)}) /\ Once(wire, {Gone(n)})  BY <1>1, <2>2 DEF RouteHolds
  <2> QED  BY <1>2, <2>1, <2>3 DEF RouteHolds, In
<1> QED  BY <1>1, <1>2, <1>3, <1>4, NodeStep

LEMMA JoinedKeeps ==
    ASSUME CallsInv, NEW n \in Nodes, Joined(n)
    PROVE  CallsInv'
<1>1. /\ node[n] = "joining" /\ \A b \in Reachable(n) : known[b][n] # Unknown
      /\ node' = [node EXCEPT ![n] = "in"]
      /\ groups' = groups /\ ready' = ready /\ joins' = joins
      /\ UNCHANGED <<routeVars, linkVars, callVars, clients, steady>>
  BY DEF Joined
<1>2. /\ node' \in [Nodes -> Lives \cup {"out"}] /\ node'[n] = "in"
      /\ \A k \in Nodes : k # n => node'[k] = node[k]
  BY <1>1, Parts DEF Lives
<1>3. ASSUME RoutesHold, troubles = 0  PROVE RouteHolds(n)'
  <2>1. wire' = wire /\ known' = known  BY <1>1 DEF callVars, routeVars
  <2>2. RouteHolds(n) /\ Reachable(n) = Over(n)  BY <1>3, AllReachable DEF RoutesHold
  <2>3. ~ In(wire, {Gone(n)}) /\ Once(wire, {Gone(n)})  BY <1>1, <2>2 DEF RouteHolds
  <2> QED  BY <1>1, <1>2, <2>1, <2>2, <2>3 DEF RouteHolds, In
<1> QED  BY <1>1, <1>2, <1>3, Parts, NodeStep

LEMMA SetApiKeeps ==
    ASSUME CallsInv, NEW n \in Nodes, SetApi(n)
    PROVE  CallsInv'
<1>1. /\ node' = node /\ groups' = groups /\ joins' = joins /\ ready' = ready \cup {n}
      /\ UNCHANGED <<routeVars, linkVars, callVars, clients, steady>>
  BY DEF SetApi
<1>2. ASSUME RoutesHold, troubles = 0  PROVE RouteHolds(n)'
  <2>1. wire' = wire /\ known' = known  BY <1>1 DEF callVars, routeVars
  <2>2. RouteHolds(n)  BY <1>2 DEF RoutesHold
  <2> QED  BY <1>1, <2>1, <2>2, RouteStays
<1> QED  BY <1>1, <1>2, Parts, NodeStep

LEMMA MarkAsClosingKeeps ==
    ASSUME CallsInv, NEW n \in Nodes, MarkAsClosing(n)
    PROVE  CallsInv'
<1>1. /\ node[n] = "leaving"
      /\ (\A b \in Reachable(n) : known[b][n] = Unknown) \/ CutOff(n)
      /\ node' = [node EXCEPT ![n] = "closing"]
      /\ groups' = groups /\ ready' = ready /\ joins' = joins
      /\ UNCHANGED <<routeVars, linkVars, callVars, clients, steady>>
  BY DEF MarkAsClosing
<1>2. /\ node' \in [Nodes -> Lives \cup {"out"}] /\ node'[n] = "closing"
      /\ \A k \in Nodes : k # n => node'[k] = node[k]
  BY <1>1, Parts DEF Lives
<1>3. ASSUME RoutesHold, troubles = 0  PROVE RouteHolds(n)'
  <2>1. wire' = wire  BY <1>1 DEF callVars
  <2>2. RouteHolds(n)  BY <1>3 DEF RoutesHold
  <2>3. \A b \in Over(n) : known[b][n] = Unknown  BY <1>1, <1>3, AllReachable DEF CutOff
  <2>4. ASSUME NEW l \in Links, InSeq(wire[l], {Gone(n)})  PROVE FALSE
    <3>1. KnownFrom(l[2], n) /\ l[2] \in Above[l[2]]  BY <2>2, <2>4, LinkEnds, AboveFacts DEF RouteHolds
    <3> QED  BY <2>3, <3>1 DEF KnownFrom
  <2>5. Once(wire, {Gone(n)}) /\ ~ In(wire, {Gone(n)})  BY <2>2, <2>4 DEF RouteHolds, In
  <2> QED  BY <1>2, <2>1, <2>4, <2>5 DEF RouteHolds
<1> QED  BY <1>1, <1>2, <1>3, Parts, NodeStep

LEMMA RemoveNodeKeeps ==
    ASSUME CallsInv, NEW n \in Nodes, RemoveNode(n)
    PROVE  CallsInv'
<1>1. /\ node[n] = "closing" /\ node' = [node EXCEPT ![n] = "out"] /\ ready' = ready \ {n}
      /\ groups' = groups /\ joins' = joins
      /\ UNCHANGED <<routeVars, linkVars, callVars, clients, steady>>
  BY DEF RemoveNode
<1>2. /\ node' \in [Nodes -> Lives \cup {"out"}] /\ node'[n] = "out" /\ ready' \subseteq Nodes
      /\ \A k \in Nodes : k # n => node'[k] = node[k] /\ (k \in ready => k \in ready')
  BY <1>1, Parts DEF Lives
<1>3. ASSUME RoutesHold, troubles = 0  PROVE RouteHolds(n)'
  <2>1. wire' = wire  BY <1>1 DEF callVars
  <2>2. RouteHolds(n)  BY <1>3 DEF RoutesHold
  <2>3. ~ In(wire, {Gone(n)}) /\ Once(wire, {Gone(n)})  BY <1>1, <2>2 DEF RouteHolds
  <2> QED  BY <1>2, <2>1, <2>3 DEF RouteHolds, In
<1> QED  BY <1>1, <1>2, <1>3, Parts, NodeStep

LEMMA LearnKeeps ==
    ASSUME CallsInv, NEW b \in Buses, NEW n \in Nodes, Learn(b, n)
    PROVE  CallsInv'
<1>1. /\ b \in Reachable(n) /\ known[b][n] = Unknown
      /\ known' = [known EXCEPT ![b][n] = groups[n]]
      /\ undo' = undo /\ UNCHANGED <<nodeVars, linkVars, callVars>> /\ clients' = clients /\ steady' = steady
  BY DEF Learn
<1>2. /\ node' = node /\ groups' = groups /\ ready' = ready /\ joins' = joins
      /\ stack' = stack /\ alive' = alive /\ troubles' = troubles /\ wire' = wire
  BY <1>1 DEF nodeVars, linkVars, callVars
<1> DEFINE row == [known[b] EXCEPT ![n] = groups[n]]
<1>3. groups[n] \in GroupSets /\ groups[n] # Unknown  BY Parts, TreeAssumption
<1>4. row \in [Nodes -> GroupSets \cup {Unknown}] /\ row[n] = groups[n] /\ \A k \in Nodes : k # n => row[k] = known[b][k]
  BY <1>3, Parts
<1>5. known' = [known EXCEPT ![b] = row]  BY <1>1
<1> HIDE DEF row
<1>6. /\ known' \in [Buses -> [Nodes -> GroupSets \cup {Unknown}]]
      /\ known'[b] = row /\ \A q \in Buses : q # b => known'[q] = known[q]
  BY <1>4, <1>5, Parts
<1>7. b \in Over(n)  BY <1>1 DEF Reachable
<1>8. KnownOver'  BY <1>1, <1>4, <1>6, <1>7, Parts DEF KnownOver
<1>9. ASSUME NEW k \in Nodes, RouteHolds(k)  PROVE RouteHolds(k)'
  <2>1. \A q \in Buses : known[q][k] # Unknown => known'[q][k] # Unknown  BY <1>3, <1>4, <1>6
  <2> QED  BY <1>2, <1>9, <2>1, RouteStays
<1>10. RoutesHold'  BY <1>2, <1>9, Parts DEF RoutesHold
<1>11. StateOK(Now', steady', groups') /\ \A a \in steady' : StaysOn(a)'  BY <1>1, <1>2, NodesStay
<1> QED  BY <1>1, <1>2, <1>6, <1>8, <1>10, <1>11, Parts, Whole

-----------------------------------------------------------------------------
(* Announcements. *)

UpLink(b) == <<b, ParentOf[b]>>

LEMMA AnnounceIsOK ==
    ASSUME NEW s, NEW S, NEW gr, NEW b \in Buses, NEW G \in SUBSET Nodes, stack \subseteq Links, StateOK(s, S, gr)
    PROVE  StateOK(Announce(b, G, s), S, gr)
<1> DEFINE q == SetToSeq({[type |-> "gone", dest |-> n] : n \in G})
           u == [s.wire EXCEPT ![UpLink(b)] = s.wire[UpLink(b)] \o q]
           r == [s EXCEPT !.wire = u]
<1>1. s \in States /\ s.wire \in Wires  BY StateTypes DEF StateOK
<1>2. CASE HasParent(b) /\ UpLink(b) \in alive
  <2>1. UpLink(b) \in Links
    <3>1. b # Root  BY <1>2 DEF HasParent, Parents
    <3> QED  BY <3>1, ChildLinks DEF UpLink
  <2>2. q \in Seq([type : {"gone"}, dest : Nodes])
    <3> DEFINE Q == {[type |-> "gone", dest |-> n] : n \in G}
    <3>1. SetToSeq(Q) \in Seq(Q)  BY AsSequence
    <3>2. Q \subseteq [type : {"gone"}, dest : Nodes]  OBVIOUS
    <3> HIDE DEF Q
    <3>3. SetToSeq(Q) \in Seq([type : {"gone"}, dest : Nodes])  BY <3>1, <3>2, SeqMonotonic
    <3> QED  BY <3>3 DEF Q
  <2>3. Announce(b, G, s) = r  BY <1>1, <1>2, StateTypes DEF Announce, UpLink
  <2> HIDE DEF q
  <2>4. Announced(u, s.wire, UpLink(b))  BY <1>1, <2>1, <2>2, ManyAppended
  <2> HIDE DEF u
  <2>5. /\ r \in States /\ r.wire = u /\ r.outcome = s.outcome /\ r.running = s.running /\ r.ran = s.ran
    BY <1>1, <2>4, StateTypes DEF States, Wires, Announced
  <2> HIDE DEF r
  <2>6. ASSUME NEW c \in Calls  PROVE CallOK(c, r)
    <3>1. CallOK(c, s)  BY DEF StateOK
    <3>2. Of(c) \in SUBSET Of(c) /\ Wrong(c, s.ran[c]) \in SUBSET Of(c)  BY DEF Wrong
    <3>3. /\ In(u, Of(c)) => In(s.wire, Of(c))
          /\ Once(s.wire, Of(c)) => Once(u, Of(c))
          /\ In(u, Wrong(c, s.ran[c])) => In(s.wire, Wrong(c, s.ran[c]))
      BY <2>4, <3>2 DEF Announced
    <3>4. Busy(c, r) => Busy(c, s)  BY <2>5, <3>3 DEF Busy
    <3> QED  BY <2>5, <3>1, <3>3, <3>4 DEF CallOK
  <2>7. ASSUME NEW a \in S  PROVE SteadyOK(a, r, gr[a.from])
    <3>1. Unmet(a, gr[a.from]) \in SUBSET Of(a.call)  BY DEF Unmet
    <3>2. In(u, Unmet(a, gr[a.from])) => In(s.wire, Unmet(a, gr[a.from]))  BY <2>4, <3>1 DEF Announced
    <3> QED  BY <2>5, <3>2 DEF StateOK, SteadyOK
  <2> QED  BY <2>3, <2>5, <2>6, <2>7 DEF StateOK
<1>3. CASE ~ (HasParent(b) /\ UpLink(b) \in alive)  BY <1>3 DEF Announce, UpLink
<1> QED  BY <1>2, <1>3

\* The announcement of one node.
LEMMA AnnounceOne ==
    ASSUME NEW s \in States, NEW b \in Buses, NEW n \in Nodes
    PROVE  \/ Announce(b, {n}, s).wire = s.wire
           \/ b # Root /\ AfterAppend(Announce(b, {n}, s).wire, s.wire, UpLink(b), Gone(n))
<1> DEFINE q == SetToSeq({[type |-> "gone", dest |-> k] : k \in {n}})
           u == [s.wire EXCEPT ![UpLink(b)] = s.wire[UpLink(b)] \o q]
<1>1. CASE HasParent(b) /\ UpLink(b) \in alive
  <2>1. b # Root  BY <1>1 DEF HasParent, Parents
  <2>2. UpLink(b) \in Links  BY <2>1, ChildLinks DEF UpLink
  <2>3. q = <<Gone(n)>>  BY AsSequence
  <2>4. Announce(b, {n}, s).wire = u  BY <1>1, StateTypes DEF Announce, UpLink
  <2> HIDE DEF q
  <2>5. Gone(n) \in Carried  BY DEF Gone, Carried
  <2>6. s.wire \in Wires /\ s.wire[UpLink(b)] \in Seq(Carried)  BY <2>2, StateTypes DEF Wires
  <2>7. s.wire[UpLink(b)] \o q = Append(s.wire[UpLink(b)], Gone(n))  BY <2>3, <2>5, <2>6, AppendIsConcat
  <2>8. AfterAppend([s.wire EXCEPT ![UpLink(b)] = Append(s.wire[UpLink(b)], Gone(n))], s.wire, UpLink(b), Gone(n))
    BY <2>2, <2>5, <2>6, Appended
  <2> QED  BY <2>1, <2>4, <2>7, <2>8
<1>2. CASE ~ (HasParent(b) /\ UpLink(b) \in alive)  BY <1>2 DEF Announce, UpLink
<1> QED  BY <1>1, <1>2

\* What the announcement that n leaves b does to the routes, w the links before it.
Passes(u, w, b, n) == u = w \/ (b # Root /\ AfterAppend(u, w, UpLink(b), Gone(n)))

LEMMA OthersPass ==
    ASSUME NEW w, NEW u, NEW b, NEW n, NEW k, Passes(u, w, b, n), k # n
    PROVE  /\ \A l \in Links : InSeq(u[l], {Gone(k)}) => InSeq(w[l], {Gone(k)})
           /\ Once(w, {Gone(k)}) => Once(u, {Gone(k)})
<1>1. Gone(n) \notin {Gone(k)}  BY DEF Gone
<1>2. CASE u = w  BY <1>2
<1>3. CASE AfterAppend(u, w, UpLink(b), Gone(n))  BY <1>1, <1>3 DEF AfterAppend
<1> QED  BY <1>2, <1>3 DEF Passes

LEMMA ItPasses ==
    ASSUME NEW w, NEW u, NEW b, NEW n, Passes(u, w, b, n), ~ In(w, {Gone(n)})
    PROVE  /\ Once(w, {Gone(n)}) => Once(u, {Gone(n)})
           /\ \A l \in Links : InSeq(u[l], {Gone(n)}) => b # Root /\ l = UpLink(b)
<1>1. \A l \in Links : ~ InSeq(w[l], {Gone(n)})  BY DEF In
<1>2. CASE u = w  BY <1>1, <1>2
<1>3. CASE b # Root /\ AfterAppend(u, w, UpLink(b), Gone(n))  BY <1>1, <1>3 DEF AfterAppend
<1> QED  BY <1>2, <1>3 DEF Passes

LEMMA LeaveKeeps ==
    ASSUME CallsInv, NEW n \in Nodes, Leave(n)
    PROVE  CallsInv'
<1> DEFINE b == HomeOf[n]
           r == Announce(b, {n}, Now)
<1>1. /\ node[n] = "in" /\ node' = [node EXCEPT ![n] = "leaving"]
      /\ steady' = Unsteady(n) /\ Become(r)
      /\ groups' = groups /\ ready' = ready /\ joins' = joins
      /\ UNCHANGED <<routeVars, linkVars>> /\ clients' = clients
  BY DEF Leave
<1>2. /\ known' = known /\ undo' = undo /\ stack' = stack /\ alive' = alive /\ troubles' = troubles
  BY <1>1 DEF routeVars, linkVars
<1>3. b \in Buses  BY TreeAssumption
<1> HIDE DEF b
<1>4. StateOK(r, steady, groups)  BY <1>3, Parts, AnnounceIsOK
<1>5. Passes(r.wire, wire, b, n)  BY <1>3, Parts, NowIs, AnnounceOne DEF Passes
<1> HIDE DEF r
<1>6. Now' = r /\ wire' = r.wire
  <2>1. Now' = r  BY <1>1, <1>4, Becomes DEF StateOK
  <2> QED  BY <1>1, <2>1 DEF Become
<1>7. /\ node' \in [Nodes -> Lives \cup {"out"}] /\ node'[n] = "leaving"
      /\ \A k \in Nodes : k # n => node'[k] = node[k]
  BY <1>1, Parts DEF Lives
<1>8. steady' \subseteq steady /\ \A a \in steady' : n # a.from /\ n # a.to  BY <1>1 DEF Unsteady
<1>9. StateOK(Now', steady', groups')  BY <1>1, <1>4, <1>6, <1>8 DEF StateOK
<1>10. ASSUME NEW a \in steady'  PROVE StaysOn(a)'
  <2>1. StaysOn(a) /\ a.from \in Nodes /\ a.to \in Nodes  BY <1>8, Parts DEF StaysOn, SteadyAsks
  <2> QED  BY <1>1, <1>2, <1>7, <1>8, <2>1 DEF StaysOn
<1>11. RoutesHold'
  <2>1. SUFFICES ASSUME troubles = 0  PROVE /\ stack' = Links /\ alive' = Links
                                            /\ \A k \in Nodes : RouteHolds(k)'
    BY <1>2 DEF RoutesHold
  <2>2. stack' = Links /\ alive' = Links /\ \A k \in Nodes : RouteHolds(k)
    BY <1>2, <2>1, Parts DEF RoutesHold
  <2>4. ASSUME NEW k \in Nodes, k # n  PROVE RouteHolds(k)'
    <3>1. /\ \A l \in Links : InSeq(wire'[l], {Gone(k)}) => InSeq(wire[l], {Gone(k)})
          /\ Once(wire, {Gone(k)}) => Once(wire', {Gone(k)})
      BY <1>5, <1>6, <2>4, OthersPass
    <3> QED  BY <1>2, <1>7, <2>2, <2>4, <3>1, RouteStays
  <2>5. RouteHolds(n)'
    <3>1. /\ Once(wire, {Gone(n)}) /\ ~ In(wire, {Gone(n)})
          /\ \A q \in Over(n) : known[q][n] # Unknown
      BY <1>1, <2>2 DEF RouteHolds
    <3>2. /\ Once(wire', {Gone(n)})
          /\ \A l \in Links : InSeq(wire'[l], {Gone(n)}) => b # Root /\ l = UpLink(b)
      BY <1>5, <1>6, <3>1, ItPasses
    <3>3. b # Root => KnownFrom(ParentOf[b], n)'
      <4>1. SUFFICES ASSUME b # Root, NEW q \in Above[ParentOf[b]]  PROVE q \in Over(n)
        BY <1>2, <3>1 DEF KnownFrom
      <4>2. q \in Above[b] /\ q # b  BY <1>3, <4>1, AboveStep, TreeAssumption
      <4> QED  BY <4>2 DEF Over, b
    <3>4. \A l \in Links : InSeq(wire'[l], {Gone(n)}) => KnownFrom(l[2], n)'  BY <3>2, <3>3 DEF UpLink
    <3> QED  BY <1>7, <3>2, <3>4 DEF RouteHolds
  <2> QED  BY <2>2, <2>4, <2>5
<1>12. KnownOver'  BY <1>2, Parts, KnownStays
<1> QED  BY <1>1, <1>2, <1>7, <1>9, <1>10, <1>11, <1>12, Parts, Whole

LEMMA ForgetKeeps ==
    ASSUME CallsInv, NEW l \in Links, Forget(l)
    PROVE  CallsInv'
<1> DEFINE b == l[2]
           w == [wire EXCEPT ![l] = Tail(wire[l])]
           s == [Now EXCEPT !.wire = w]
<1>1. wire[l] # <<>> /\ Head(wire[l]).type = "gone"  BY DEF Forget
<1>2. Fewer(w, wire) /\ Taken(w, wire, Head(wire[l])) /\ \A M : Head(wire[l]) \in M => InSeq(wire[l], M)
  BY <1>1, NowTypes, FirstTaken
<1>3. PICK n \in Nodes : Head(wire[l]) = Gone(n)
  <2>1. Head(wire[l]) \in Carried  BY <1>2 DEF Taken
  <2>2. Head(wire[l]) \in [type : {"gone"}, dest : Nodes]  BY <1>1, <2>1 DEF Carried, Messages
  <2> QED  BY <2>2 DEF Gone
<1> DEFINE r == Announce(b, {n}, s)
<1>4. /\ known' = [known EXCEPT ![b][n] = Unknown]
      /\ undo' = IF HasParent(b)
                 THEN undo \cup {u \in {[at |-> b, node |-> n, groups |-> known[b][n]]} : u.groups # Unknown}
                 ELSE {u \in undo : u.node # n \/ b \notin Above[u.at]}
      /\ Become(Announce(b, {n}, [Now EXCEPT !.wire[l] = Tail(@)]))
      /\ UNCHANGED <<nodeVars, linkVars>> /\ clients' = clients /\ steady' = steady
  <2>1. Head(wire[l]).dest = n  BY <1>3 DEF Gone
  <2> QED  BY <2>1 DEF Forget
<1>5. /\ node' = node /\ groups' = groups /\ ready' = ready /\ joins' = joins
      /\ stack' = stack /\ alive' = alive /\ troubles' = troubles
  BY <1>4 DEF nodeVars, linkVars
<1>6. b \in Buses  BY LinkEnds
<1>7. [Now EXCEPT !.wire[l] = Tail(@)] = s  BY DEF Now
<1> HIDE DEF b, w
<1>8. /\ s \in States /\ s.wire = w /\ s.running = running /\ s.ran = ran /\ s.outcome = outcome
  BY <1>2, NowTypes DEF Now, States, Kinds, Wires, Fewer
<1> HIDE DEF s
<1>9. StateOK(s, steady, groups)  BY <1>2, <1>8, Parts, NowIs, FewerIsOK
<1>10. StateOK(r, steady, groups)  BY <1>6, <1>3, <1>9, Parts, AnnounceIsOK
<1>11. Passes(r.wire, w, b, n)  BY <1>6, <1>3, <1>8, AnnounceOne DEF Passes
<1>12. Become(r)  BY <1>4, <1>7
<1> HIDE DEF r
<1>13. Now' = r /\ wire' = r.wire
  <2>1. Now' = r  BY <1>10, <1>12, Becomes DEF StateOK
  <2> QED  BY <1>12, <2>1 DEF Become
<1> DEFINE row == [known[b] EXCEPT ![n] = Unknown]
<1>14. row \in [Nodes -> GroupSets \cup {Unknown}] /\ row[n] = Unknown /\ \A k \in Nodes : k # n => row[k] = known[b][k]
  BY <1>6, <1>3, Parts
<1>15. known' = [known EXCEPT ![b] = row]  BY <1>4
<1> HIDE DEF row
<1>16. /\ known' \in [Buses -> [Nodes -> GroupSets \cup {Unknown}]]
       /\ known'[b] = row /\ \A q \in Buses : q # b => known'[q] = known[q]
  BY <1>6, <1>14, <1>15, Parts
<1>17. KnownOver'
  <2>1. ASSUME NEW q \in Buses, NEW k \in Nodes, known'[q][k] # Unknown  PROVE q \in Over(k)
    <3>1. known'[q][k] = known[q][k]  BY <1>14, <1>16, <2>1
    <3> QED  BY <2>1, <3>1, Parts DEF KnownOver
  <2>2. ASSUME NEW u \in undo'  PROVE u \in [at : Buses, node : Nodes, groups : GroupSets] /\ u.at \in Over(u.node)
    <3>1. CASE u \in undo  BY <3>1, Parts DEF KnownOver
    <3>2. CASE u \notin undo
      <4>1. u = [at |-> b, node |-> n, groups |-> known[b][n]] /\ known[b][n] # Unknown  BY <1>4, <3>2
      <4>2. known[b][n] \in GroupSets /\ b \in Over(n)  BY <1>6, <1>3, <4>1, Parts DEF KnownOver
      <4> QED  BY <1>6, <1>3, <4>1, <4>2
    <3> QED  BY <3>1, <3>2
  <2>3. undo' \subseteq [at : Buses, node : Nodes, groups : GroupSets] /\ \A u \in undo' : u.at \in Over(u.node)
    BY <2>2
  <2> QED  BY <2>1, <2>3 DEF KnownOver
<1>18. RoutesHold'
  <2>1. SUFFICES ASSUME troubles = 0  PROVE /\ stack' = Links /\ alive' = Links
                                            /\ \A k \in Nodes : RouteHolds(k)'
    BY <1>5 DEF RoutesHold
  <2>2. stack' = Links /\ alive' = Links /\ \A k \in Nodes : RouteHolds(k)
    BY <1>5, <2>1, Parts DEF RoutesHold
  <2>4. ASSUME NEW k \in Nodes, k # n  PROVE RouteHolds(k)'
    <3>1. /\ \A m \in Links : InSeq(wire'[m], {Gone(k)}) => InSeq(w[m], {Gone(k)})
          /\ Once(w, {Gone(k)}) => Once(wire', {Gone(k)})
      BY <1>11, <1>13, <2>4, OthersPass
    <3>2. /\ \A m \in Links : InSeq(w[m], {Gone(k)}) => InSeq(wire[m], {Gone(k)})
          /\ Once(wire, {Gone(k)}) => Once(w, {Gone(k)})
      BY <1>2 DEF Fewer
    <3>3. \A q \in Buses : known[q][k] # Unknown => known'[q][k] # Unknown  BY <1>14, <1>16, <2>4
    <3> QED  BY <1>5, <2>2, <3>1, <3>2, <3>3, RouteStays
  <2>5. RouteHolds(n)'
    <3>1. InSeq(wire[l], {Gone(n)}) /\ In(wire, {Gone(n)})  BY <1>2, <1>3 DEF In
    <3>2. /\ Once(wire, {Gone(n)}) /\ node[n] = "leaving" /\ KnownFrom(b, n)
      BY <1>3, <2>2, <3>1 DEF RouteHolds, b
    <3>3. Once(w, {Gone(n)}) /\ ~ In(w, {Gone(n)})  BY <1>2, <1>3, <3>2 DEF Fewer, Taken
    <3>4. /\ Once(wire', {Gone(n)})
          /\ \A m \in Links : InSeq(wire'[m], {Gone(n)}) => b # Root /\ m = UpLink(b)
      BY <1>11, <1>13, <3>3, ItPasses
    <3>5. b # Root => KnownFrom(ParentOf[b], n)'
      <4>1. SUFFICES ASSUME b # Root, NEW q \in Above[ParentOf[b]]  PROVE q \in Over(n) /\ known'[q][n] # Unknown
        BY DEF KnownFrom
      <4>2. q \in Above[b] /\ q # b /\ q \in Buses  BY <1>6, <4>1, AboveStep, AboveFacts, TreeAssumption
      <4> QED  BY <1>16, <3>2, <4>2 DEF KnownFrom
    <3>6. \A m \in Links : InSeq(wire'[m], {Gone(n)}) => KnownFrom(m[2], n)'  BY <3>4, <3>5 DEF UpLink
    <3> QED  BY <1>5, <3>2, <3>4, <3>6 DEF RouteHolds
  <2> QED  BY <2>2, <2>4, <2>5
<1>19. StateOK(Now', steady', groups') /\ \A a \in steady' : StaysOn(a)'
  <2>1. \A a \in steady : StaysOn(a) => StaysOn(a)'  BY <1>5 DEF StaysOn
  <2> QED  BY <1>4, <1>5, <1>10, <1>13, <2>1, Parts
<1> QED  BY <1>4, <1>5, <1>16, <1>17, <1>18, <1>19, Parts, Whole

-----------------------------------------------------------------------------
(* Trouble: nothing is steady any more, and routes need not hold. *)

LEMMA InTrouble ==
    ASSUME CallsInv, troubles # 0
    PROVE  steady = {}
BY Parts DEF StaysOn

LEMMA PutBackKeeps ==
    ASSUME CallsInv, NEW u \in undo, PutBack(u)
    PROVE  CallsInv'
<1>1. /\ \E c \in Above[u.at] \ {Root} : ~ (Ends(c) \subseteq alive)
      /\ undo' = undo \ {u} /\ known' = [known EXCEPT ![u.at][u.node] = u.groups]
      /\ UNCHANGED <<nodeVars, linkVars, callVars>> /\ clients' = clients /\ steady' = steady
  BY DEF PutBack
<1>2. /\ node' = node /\ groups' = groups /\ ready' = ready /\ joins' = joins
      /\ stack' = stack /\ alive' = alive /\ troubles' = troubles
  BY <1>1 DEF nodeVars, linkVars
<1>3. u.at \in Buses /\ u.node \in Nodes /\ u.groups \in GroupSets /\ u.at \in Over(u.node)
  BY Parts DEF KnownOver
<1> DEFINE row == [known[u.at] EXCEPT ![u.node] = u.groups]
<1>4. row \in [Nodes -> GroupSets \cup {Unknown}] /\ \A k \in Nodes : k # u.node => row[k] = known[u.at][k]
  BY <1>3, Parts
<1>5. known' = [known EXCEPT ![u.at] = row]  BY <1>1
<1> HIDE DEF row
<1>6. /\ known' \in [Buses -> [Nodes -> GroupSets \cup {Unknown}]]
      /\ known'[u.at] = row /\ \A q \in Buses : q # u.at => known'[q] = known[q]
  BY <1>3, <1>4, <1>5, Parts
<1>7. KnownOver'
  <2>1. ASSUME NEW q \in Buses, NEW k \in Nodes, known'[q][k] # Unknown  PROVE q \in Over(k)
    <3>1. CASE q = u.at /\ k = u.node  BY <1>3, <3>1
    <3>2. CASE ~ (q = u.at /\ k = u.node)
      <4>1. known'[q][k] = known[q][k]  BY <1>4, <1>6, <3>2
      <4> QED  BY <2>1, <4>1, Parts DEF KnownOver
    <3> QED  BY <3>1, <3>2
  <2> QED  BY <1>1, <2>1, Parts DEF KnownOver
<1>8. troubles # 0
  <2>1. PICK c \in Above[u.at] \ {Root} : ~ (Ends(c) \subseteq alive)  BY <1>1
  <2>2. c \in Buses /\ Ends(c) \subseteq Links  BY <1>3, <2>1, AboveFacts, ChildLinks DEF Ends
  <2> QED  BY <2>1, <2>2, Parts DEF RoutesHold
<1>9. RoutesHold'  BY <1>2, <1>8 DEF RoutesHold
<1>10. StateOK(Now', steady', groups') /\ \A a \in steady' : StaysOn(a)'  BY <1>1, <1>2, NodesStay
<1> QED  BY <1>1, <1>2, <1>6, <1>7, <1>9, <1>10, Parts, Whole

LEMMA NoticeDropKeeps ==
    ASSUME CallsInv, NEW l \in Links, NoticeDrop(l)
    PROVE  CallsInv'
<1> DEFINE b == l[1]
           c == l[2]
           gone == {n \in Nodes : known[b][n] # Unknown /\ c \in Above[HomeOf[n]]}
           row == [n \in Nodes |-> IF n \in gone THEN Unknown ELSE known[b][n]]
<1>1. /\ l \in stack \ alive /\ stack' = stack \ {l}
      /\ \/ UNCHANGED <<known, callVars>>
         \/ known' = [known EXCEPT ![b] = row] /\ Become(Announce(b, gone, Now))
      /\ undo' = undo /\ alive' = alive /\ troubles' = troubles /\ UNCHANGED nodeVars
      /\ clients' = clients /\ steady' = steady
  BY DEF NoticeDrop
<1>2. /\ node' = node /\ groups' = groups /\ ready' = ready /\ joins' = joins  BY <1>1 DEF nodeVars
<1>3. b \in Buses  BY LinkEnds
<1>4. troubles # 0 /\ steady = {}
  <2>1. troubles # 0  BY <1>1, Parts DEF RoutesHold
  <2> QED  BY <2>1, InTrouble
<1>5. RoutesHold'  BY <1>1, <1>4 DEF RoutesHold
<1>6. /\ row \in [Nodes -> GroupSets \cup {Unknown}] /\ gone \in SUBSET Nodes
      /\ \A k \in Nodes : row[k] # Unknown => row[k] = known[b][k]
  BY <1>3, Parts
<1> HIDE DEF row, gone, b
<1>7. /\ known' \in [Buses -> [Nodes -> GroupSets \cup {Unknown}]]
      /\ \A q \in Buses, k \in Nodes : known'[q][k] # Unknown => known[q][k] # Unknown
  <2>1. CASE known' = known  BY <2>1, Parts
  <2>2. CASE known' = [known EXCEPT ![b] = row]
    <3>1. known'[b] = row /\ \A q \in Buses : q # b => known'[q] = known[q]  BY <1>3, <2>2, Parts
    <3> QED  BY <1>3, <1>6, <2>2, <3>1, Parts
  <2> QED  BY <1>1, <2>1, <2>2
<1>8. KnownOver'  BY <1>1, <1>7, Parts DEF KnownOver
<1>9. StateOK(Now', steady', groups')
  <2>1. CASE UNCHANGED callVars  BY <1>1, <1>2, <2>1, Parts, NowStays
  <2>2. CASE Become(Announce(b, gone, Now))
    <3>1. StateOK(Announce(b, gone, Now), steady, groups)  BY <1>3, <1>6, Parts, AnnounceIsOK
    <3>2. Now' = Announce(b, gone, Now)  BY <2>2, <3>1, Becomes DEF StateOK
    <3> QED  BY <1>1, <1>2, <3>1, <3>2
  <2> QED  BY <1>1, <2>1, <2>2
<1>10. stack' \subseteq Links  BY <1>1, Parts
<1>11. \A a \in steady' : StaysOn(a)'  BY <1>1, <1>4
<1> QED  BY <1>1, <1>2, <1>5, <1>7, <1>8, <1>9, <1>10, <1>11, Parts, Whole

LEMMA InWireTypes ==
    ASSUME CallsInv, NEW L \in SUBSET Links
    PROVE  InWire(L) \subseteq Calls
<1>1. SUFFICES ASSUME NEW c \in InWire(L)  PROVE c \in Calls  OBVIOUS
<1>2. PICK l \in L : \E x \in Range(wire[l]) : x.type # "gone" /\ x.call = c  BY <1>1 DEF InWire
<1>3. PICK i \in DOMAIN wire[l] : wire[l][i].type # "gone" /\ wire[l][i].call = c  BY <1>2 DEF Range
<1>4. wire[l] \in Seq(Carried)  BY NowTypes DEF Wires
<1>5. wire[l][i] \in Carried  BY <1>3, <1>4
<1>6. wire[l][i] \in Messages  BY <1>3, <1>5 DEF Carried
<1> QED  BY <1>3, <1>6, MessageTypes

LEMMA LinkBreaksKeeps ==
    ASSUME CallsInv, NEW c \in Buses \ {Root}, LinkBreaks(c)
    PROVE  CallsInv'
<1> DEFINE L == Ends(c)
           w == [l \in Links |-> IF l \in L THEN <<>> ELSE wire[l]]
<1>1. /\ troubles < MaxTroubles /\ troubles' = troubles + 1 /\ alive' = alive \ L
      /\ wire' = w /\ steady' = {} /\ lost' = lost \cup InWire(L)
      /\ UNCHANGED <<nodeVars, routeVars>> /\ stack' = stack /\ clients' = clients
      /\ pending' = pending /\ outcome' = outcome /\ running' = running /\ ran' = ran
  BY DEF LinkBreaks, Break
<1>2. /\ node' = node /\ groups' = groups /\ ready' = ready /\ joins' = joins /\ known' = known /\ undo' = undo
  BY <1>1 DEF nodeVars, routeVars
<1>3. troubles' \in 0 .. MaxTroubles /\ troubles' # 0  BY <1>1, Parts, TreeAssumption
<1>4. RoutesHold' /\ KnownOver'  BY <1>2, <1>3, Parts, KnownStays DEF RoutesHold
<1>5. Fewer(w, wire)  BY NowTypes, Emptied
<1>6. L \subseteq Links  BY ChildLinks DEF Ends
<1> HIDE DEF w, L
<1>7. /\ Now' \in States /\ Now'.wire = w /\ Now'.outcome = outcome /\ Now'.running = running /\ Now'.ran = ran
  <2>1. lost' \subseteq Calls  BY <1>1, <1>6, NowTypes, InWireTypes
  <2> QED  BY <1>1, <1>5, <2>1, NowTypes DEF Now, States, Kinds, Wires, Fewer
<1>8. StateOK(Now', steady, groups)  BY <1>5, <1>7, Parts, NowIs, FewerIsOK
<1>9. StateOK(Now', steady', groups') /\ \A a \in steady' : StaysOn(a)'  BY <1>1, <1>2, <1>8 DEF StateOK
<1>10. alive' \subseteq Links  BY <1>1, Parts
<1> QED  BY <1>1, <1>2, <1>3, <1>4, <1>9, <1>10, Parts, Whole

LEMMA CloseBusKeeps ==
    ASSUME CallsInv, NEW b \in Buses, CloseBus(b)
    PROVE  CallsInv'
<1> DEFINE L == UNION {Ends(c) : c \in (Children(b) \cup {b}) \ {Root}}
           w == [l \in Links |-> IF l \in L THEN <<>> ELSE wire[l]]
           o == [c \in Calls |-> IF c \in pending[b] THEN "closed" ELSE outcome[c]]
           gone == {n \in Nodes : HomeOf[n] = b}
           row == [n \in Nodes |-> Unknown]
<1>1. /\ outcome' = o /\ pending' = [pending EXCEPT ![b] = {}]
      /\ node' = [n \in Nodes |-> IF n \in gone THEN "out" ELSE node[n]] /\ ready' = ready \ gone
      /\ known' = [known EXCEPT ![b] = row] /\ undo' = {u \in undo : u.at # b}
      /\ troubles < MaxTroubles /\ troubles' = troubles + 1 /\ alive' = alive \ L
      /\ wire' = w /\ steady' = {} /\ stack' = {l \in stack : l[1] # b} /\ lost' = lost \cup InWire(L)
      /\ groups' = groups /\ joins' = joins /\ running' = running /\ ran' = ran /\ clients' = clients
  BY DEF CloseBus, Break, RejectPendingCalls
<1>2. troubles' \in 0 .. MaxTroubles /\ troubles' # 0  BY <1>1, Parts, TreeAssumption
<1>3. RoutesHold'  BY <1>2 DEF RoutesHold
<1>4. /\ node' \in [Nodes -> Lives \cup {"out"}] /\ ready' \subseteq Nodes
      /\ alive' \subseteq Links /\ stack' \subseteq Links
  BY <1>1, Parts
<1>5. Fewer(w, wire)  BY NowTypes, Emptied
<1>6. L \subseteq Links
  <2>1. \A c \in (Children(b) \cup {b}) \ {Root} : Ends(c) \subseteq Links
    <3>1. \A c \in (Children(b) \cup {b}) \ {Root} : c \in Buses  BY ChildLinks
    <3> QED  BY <3>1, ChildLinks DEF Ends
  <2> QED  BY <2>1
<1>7. /\ known' \in [Buses -> [Nodes -> GroupSets \cup {Unknown}]]
      /\ \A q \in Buses, k \in Nodes : known'[q][k] # Unknown => known[q][k] # Unknown
  <2>1. row \in [Nodes -> GroupSets \cup {Unknown}] /\ \A k \in Nodes : row[k] = Unknown  OBVIOUS
  <2> HIDE DEF row
  <2>2. known'[b] = row /\ \A q \in Buses : q # b => known'[q] = known[q]  BY <1>1, Parts
  <2> QED  BY <1>1, <2>1, <2>2, Parts
<1>8. KnownOver'  BY <1>1, <1>7, Parts DEF KnownOver
<1>9. \A c \in Calls : outcome'[c] = "closed" \/ outcome'[c] = outcome[c]  BY <1>1
<1>10. outcome' \in [Calls -> Kinds] /\ pending' \in [Buses -> SUBSET Calls]
  BY <1>1, NowTypes DEF Kinds, Results
<1> HIDE DEF w, L, o, row, gone
<1>11. /\ Now' \in States /\ Now'.wire = w /\ Now'.outcome = outcome' /\ Now'.running = running /\ Now'.ran = ran
  <2>1. lost' \subseteq Calls  BY <1>1, <1>6, NowTypes, InWireTypes
  <2> QED  BY <1>1, <1>5, <1>10, <2>1, NowTypes DEF Now, States, Kinds, Wires, Fewer
<1>12. ASSUME NEW c \in Calls  PROVE CallOK(c, Now')
  <2>1. CallOK(c, Now)  BY Parts DEF StateOK
  <2>2. /\ In(w, Of(c)) => In(wire, Of(c))
        /\ Once(wire, Of(c)) => Once(w, Of(c))
        /\ In(w, Wrong(c, ran[c])) => In(wire, Wrong(c, ran[c]))
    BY <1>5 DEF Fewer
  <2>3. Busy(c, Now') => Busy(c, Now)  BY <1>11, <2>2, NowIs DEF Busy
  <2> QED  BY <1>9, <1>11, <2>1, <2>2, <2>3, NowIs DEF CallOK
<1>13. StateOK(Now', steady', groups') /\ \A a \in steady' : StaysOn(a)'  BY <1>1, <1>11, <1>12 DEF StateOK
<1> QED  BY <1>1, <1>2, <1>3, <1>4, <1>7, <1>8, <1>13, Parts, Whole

-----------------------------------------------------------------------------

\* What an ask is told is true (executeP2PProcedure, routeP2PMessage).
THEOREM AnswersAreAlwaysTrue == CSpec => []AnswersAreTrue
<1>1. ASSUME CInit  PROVE CallsInv  BY <1>1, Starts
<1>2. ASSUME CallsInv, [CNext]_cvars  PROVE CallsInv'
  <2>1. CASE UNCHANGED cvars  BY <1>2, <2>1, Parts, OnlyClients DEF cvars
  <2>2. ASSUME NEW c \in Calls, NEW s \in Nodes, NEW d \in Nodes, Ask(c, s, d) \/ Tell(c, s, d)  PROVE CallsInv'
    BY <1>2, <2>2, AskKeeps, TellKeeps
  <2>3. ASSUME NEW s \in Nodes, NEW d \in Nodes, ConnectTo(s, d)  PROVE CallsInv'
    BY <1>2, <2>3, ConnectToKeeps
  <2>4. ASSUME NEW l \in Links, Receive(l) \/ Forget(l) \/ NoticeDrop(l)  PROVE CallsInv'
    BY <1>2, <2>4, ReceiveKeeps, ForgetKeeps, NoticeDropKeeps
  <2>5. ASSUME NEW m \in running, Returns(m)  PROVE CallsInv'  BY <1>2, <2>5, ReturnsKeeps
  <2>6. ASSUME NEW n \in Nodes, NEW g \in GroupSets, NEW api \in BOOLEAN, Join(n, g, api)  PROVE CallsInv'
    BY <1>2, <2>6, JoinKeeps
  <2>7. ASSUME NEW n \in Nodes, Joined(n) \/ SetApi(n) \/ Leave(n) \/ MarkAsClosing(n) \/ RemoveNode(n)
        PROVE  CallsInv'
    BY <1>2, <2>7, JoinedKeeps, SetApiKeeps, LeaveKeeps, MarkAsClosingKeeps, RemoveNodeKeeps
  <2>8. ASSUME NEW b \in Buses, NEW n \in Nodes, Learn(b, n)  PROVE CallsInv'  BY <1>2, <2>8, LearnKeeps
  <2>9. ASSUME NEW u \in undo, PutBack(u)  PROVE CallsInv'  BY <1>2, <2>9, PutBackKeeps
  <2>10. ASSUME NEW c \in Buses \ {Root}, LinkBreaks(c)  PROVE CallsInv'  BY <1>2, <2>10, LinkBreaksKeeps
  <2>11. ASSUME NEW b \in Buses, CloseBus(b)  PROVE CallsInv'  BY <1>2, <2>11, CloseBusKeeps
  <2> QED  BY <1>2, <2>1, <2>2, <2>3, <2>4, <2>5, <2>6, <2>7, <2>8, <2>9, <2>10, <2>11 DEF CNext
<1>3. ASSUME CallsInv  PROVE AnswersAreTrue
  <2>1. CTypeOK /\ StateOK(Now, steady, groups)  BY <1>3 DEF CallsInv
  <2>2. \A c \in Calls : /\ outcome[c] \in {"data", "error"} => ran[c] = 1
                         /\ outcome[c] \in {"refused", "notFound"} => ran[c] = 0
    BY <2>1, NowIs DEF StateOK, CallOK
  <2>3. \A a \in steady : outcome[a.call] \in {"asked", "data", "error"}  BY <2>1, NowIs DEF StateOK, SteadyOK
  <2> QED  BY <2>1, <2>2, <2>3 DEF AnswersAreTrue
<1> QED  BY <1>1, <1>2, <1>3, PTL DEF CSpec

-----------------------------------------------------------------------------
(* Streams that a broadcast shares among its targets.                      *)

ConsumerStates == {"readable", "closing", "closed", "errored", "cancelled"}
AConsumer == [queue : Seq(Nat), taken : Nat, state : ConsumerStates]
ContributorStates == {"open", "writing", "interrupted", "closing", "closed", "errored"}
AWrite == [from : Targets, n : Nat]
AContributor == [state : ContributorStates, wrote : Nat, acked : Nat, aborts : {"no", "reason", "none"}]
AWriter == [queue : Seq(AWrite), took : Seq(AWrite), state : {"writable", "closing", "aborting", "closed", "errored"}]

Handled == source.given - (IF read = "chunk" THEN 1 ELSE 0)

\* The numbers from d + 1 to h.
Numbers(d, h) == [i \in 1 .. h - d |-> d + i]

\* What is queued at a stream when h chunks were handed out.
WholeAt(c, h) == c.queue = Numbers(c.taken, h) /\ c.taken <= h

OutTypeOK ==
    /\ state \in {"pulling", "closed", "errored"}
    /\ read \in {"none", "waiting", "chunk", "done", "failed"}
    /\ source \in [given : Nat, ended : {"no", "done", "failed"}]
    /\ consumer \in [Targets -> AConsumer]

\* As long as it is read, every target is handed every chunk, and none has failed.
Pulling ==
    state = "pulling" =>
        /\ controllers = Targets /\ \A t \in Targets : consumer[t].state = "readable"
        /\ read # "none"

\* Afterwards nobody is handed anything.
PulledOut ==
    state # "pulling" =>
        /\ controllers = {} /\ \A t \in Targets : consumer[t].state # "readable"
        /\ state = "closed" => read = "none"

\* The chunk that has been read, there is one.
ReadIsTrue ==
    /\ read \in {"waiting", "chunk"} => source.ended = "no"
    /\ read \in {"done", "failed"} => source.ended = read
    /\ read = "chunk" => source.given > 0

ChunkIsNext ==
    \A t \in Targets :
        /\ consumer[t].state \in {"readable", "closing", "closed"} =>
              WholeAt(consumer[t], Handled)
        /\ consumer[t].state \in {"closing", "closed"} => source.ended = "done" /\ state # "pulling" /\ read = "none"

OutInv == OutTypeOK /\ Pulling /\ PulledOut /\ ReadIsTrue /\ ChunkIsNext

-----------------------------------------------------------------------------

InTypeOK ==
    /\ contributor \in [Targets -> AContributor] /\ writer \in AWriter
    /\ active \in Int
    /\ terminated \in {"no", "close", "abort", "failed"} /\ completion \in {"pending", "resolved", "rejected"}

\* A contributor writes one chunk after the other, and none once it aborts.
OneAtATime ==
    /\ \A t \in Targets :
        /\ contributor[t].state = "open" => contributor[t].wrote = contributor[t].acked /\ contributor[t].aborts = "no"
        /\ contributor[t].state = "writing" => contributor[t].wrote = contributor[t].acked + 1
        /\ contributor[t].state = "interrupted" => contributor[t].aborts # "no"

QueueIsWrites ==
    /\ \A i \in 1 .. Len(writer.queue) :
          LET c == contributor[writer.queue[i].from]
          IN c.state = "writing" /\ writer.queue[i].n = c.acked + 1
    /\ \A i, j \in 1 .. Len(writer.queue) : i # j => writer.queue[i].from # writer.queue[j].from

TookInOrder ==
    /\ \A t \in Targets :
          { w.n : w \in { x \in Range(writer.took) : x.from = t } } = 1 .. contributor[t].acked
    /\ \A i, j \in DOMAIN writer.took :
          i < j /\ writer.took[i].from = writer.took[j].from => writer.took[i].n < writer.took[j].n

\* Those who have not closed are counted until something ends it all.
StillOpen == { t \in Targets : contributor[t].state # "closing" }
Counted ==
    terminated = "no" =>
        /\ active = Cardinality(StillOpen) /\ completion = "pending"
        /\ \A t \in Targets : /\ contributor[t].state \in {"open", "writing", "interrupted", "closing"}
                              /\ contributor[t].state = "closing" => contributor[t].aborts = "no"

AllClosed == \A t \in Targets : contributor[t].state \in {"closing", "closed"} /\ contributor[t].aborts = "no"

EndedRight ==
    /\ terminated = "no" <=> writer.state = "writable"
    /\ writer.state = "closing" => completion = "pending"
    /\ writer.state = "closed" => completion = "resolved"
    /\ writer.state \in {"closing", "closed"} => AllClosed \/ \E t \in Targets : contributor[t].aborts = "none"

InInv == InTypeOK /\ OneAtATime /\ QueueIsWrites /\ TookInOrder /\ Counted /\ EndedRight

-----------------------------------------------------------------------------
(* The readable stream. *)

LEMMA NumbersAreSeq ==
  ASSUME NEW d \in Nat, NEW h \in Nat, d <= h
  PROVE  Numbers(d, h) \in Seq(Nat) /\ Len(Numbers(d, h)) = h - d
<1>1. h - d \in Nat  OBVIOUS
<1> QED  BY <1>1 DEF Numbers

LEMMA OneMoreHanded ==
  ASSUME NEW d \in Nat, NEW h \in Nat, d <= h
  PROVE  Append(Numbers(d, h), h + 1) = Numbers(d, h + 1)
<1>1. Numbers(d, h) \in Seq(Nat) /\ Len(Numbers(d, h)) = h - d /\ Numbers(d, h + 1) \in Seq(Nat) /\ Len(Numbers(d, h + 1)) = h - d + 1
  <2>1. h + 1 \in Nat /\ d <= h + 1 /\ h + 1 - d = h - d + 1  OBVIOUS
  <2>2. Numbers(d, h + 1) \in Seq(Nat) /\ Len(Numbers(d, h + 1)) = h + 1 - d  BY <2>1, NumbersAreSeq
  <2> QED  BY <2>1, <2>2, NumbersAreSeq
<1> DEFINE q == Append(Numbers(d, h), h + 1)
<1>2. q \in Seq(Nat) /\ Len(q) = h - d + 1
  <2> DEFINE r == Numbers(d, h)
  <2>1. r \in Seq(Nat) /\ Len(r) = h - d /\ h + 1 \in Nat  BY <1>1
  <2> HIDE DEF r
  <2>2. Append(r, h + 1) \in Seq(Nat) /\ Len(Append(r, h + 1)) = Len(r) + 1  BY <2>1
  <2> QED  BY <2>1, <2>2 DEF r
<1>3. ASSUME NEW i \in 1 .. h - d + 1
      PROVE  q[i] = Numbers(d, h + 1)[i]
  <2>1. Numbers(d, h + 1)[i] = d + i  BY DEF Numbers
  <2>2. CASE i = h - d + 1
    <3> DEFINE r == Numbers(d, h)
    <3>1. r \in Seq(Nat) /\ Len(r) = h - d /\ h + 1 \in Nat  BY <1>1
    <3> HIDE DEF r
    <3>2. Append(r, h + 1)[Len(r) + 1] = h + 1  BY <3>1
    <3>3. d + i = h + 1  BY <2>2
    <3> QED  BY <2>1, <2>2, <3>1, <3>2, <3>3 DEF r
  <2>3. CASE i # h - d + 1
    <3>1. i \in 1 .. h - d  BY <2>3
    <3>2. q[i] = Numbers(d, h)[i]  BY <1>1, <3>1
    <3> QED  BY <2>1, <3>1, <3>2 DEF Numbers
  <2> QED  BY <2>2, <2>3
<1>4. Len(q) = Len(Numbers(d, h + 1)) /\ \A i \in 1 .. Len(q) : q[i] = Numbers(d, h + 1)[i]
  BY <1>1, <1>2, <1>3
<1>5. q = Numbers(d, h + 1)
  <2> HIDE DEF q
  <2> QED  BY <1>1, <1>2, <1>4, SeqEqual
<1> QED  BY <1>5

LEMMA OneTaken ==
  ASSUME NEW d \in Nat, NEW h \in Nat, d <= h, Numbers(d, h) # <<>>
  PROVE  Head(Numbers(d, h)) = d + 1 /\ d + 1 <= h /\ Tail(Numbers(d, h)) = Numbers(d + 1, h)
<1>1. Numbers(d, h) \in Seq(Nat) /\ Len(Numbers(d, h)) = h - d  BY NumbersAreSeq
<1>2. d + 1 <= h  BY <1>1
<1>3. Numbers(d + 1, h) \in Seq(Nat) /\ Len(Numbers(d + 1, h)) = h - d - 1
  <2>1. d + 1 \in Nat /\ h - (d + 1) = h - d - 1  OBVIOUS
  <2>2. Numbers(d + 1, h) \in Seq(Nat) /\ Len(Numbers(d + 1, h)) = h - (d + 1)  BY <1>2, <2>1, NumbersAreSeq
  <2> QED  BY <2>1, <2>2
<1>4. Head(Numbers(d, h)) = d + 1
  <2>1. Head(Numbers(d, h)) = Numbers(d, h)[1] /\ 1 \in 1 .. h - d  BY <1>1, <1>2
  <2> QED  BY <2>1 DEF Numbers
<1> DEFINE q == Tail(Numbers(d, h))
<1>5. q \in Seq(Nat) /\ Len(q) = h - d - 1 /\ \A i \in 1 .. h - d - 1 : q[i] = Numbers(d, h)[i + 1]
  BY <1>1, <1>2
<1>6. ASSUME NEW i \in 1 .. h - d - 1
      PROVE  q[i] = Numbers(d + 1, h)[i]
  <2>1. q[i] = Numbers(d, h)[i + 1] /\ i + 1 \in 1 .. h - d /\ i \in 1 .. h - (d + 1)  BY <1>5
  <2> HIDE DEF q
  <2> QED  BY <2>1 DEF Numbers
<1> HIDE DEF q
<1>7. q = Numbers(d + 1, h)
  <2>1. Len(q) = Len(Numbers(d + 1, h)) /\ \A i \in 1 .. Len(q) : q[i] = Numbers(d + 1, h)[i]
    BY <1>3, <1>5, <1>6
  <2> QED  BY <1>3, <1>5, <2>1, SeqEqual
<1> QED  BY <1>2, <1>4, <1>7 DEF q

\* A stream that ends in state st and loses what is queued.
InState(c, st) == [c EXCEPT !.state = st, !.queue = <<>>]

LEMMA QueueEmptied ==
  ASSUME NEW c \in AConsumer, NEW st \in ConsumerStates
  PROVE  InState(c, st) \in AConsumer /\ InState(c, st).state = st
<1>1. <<>> \in Seq(Nat)  OBVIOUS
<1> QED  BY <1>1 DEF AConsumer, InState

LEMMA HandledIsNat ==
  ASSUME OutInv
  PROVE  Handled \in Nat
<1>1. source.given \in Nat /\ (read = "chunk" => source.given > 0)
  BY DEF OutInv, OutTypeOK, AConsumer, ReadIsTrue
<1> QED  BY <1>1 DEF Handled

LEMMA OutInitOK == OutInit => OutInv
<1> SUFFICES ASSUME OutInit PROVE OutInv  OBVIOUS
<1>1. OutTypeOK /\ Pulling /\ PulledOut /\ ReadIsTrue
  BY DEF OutInit, OutTypeOK, Pulling, PulledOut, ReadIsTrue, ConsumerStates, AConsumer
<1>2. ASSUME NEW t \in Targets PROVE WholeAt(consumer[t], Handled)
  <2>1. consumer[t].queue = <<>> /\ consumer[t].taken = 0 /\ Handled = 0  BY DEF OutInit, Handled
  <2>2. Numbers(0, 0) \in Seq(Nat) /\ Len(Numbers(0, 0)) = 0  BY NumbersAreSeq
  <2>3. Numbers(0, 0) = <<>>  BY <2>2
  <2> QED  BY <2>1, <2>3 DEF WholeAt
<1> QED  BY <1>1, <1>2 DEF OutInit, OutInv, ChunkIsNext

LEMMA SourceGivesOK == OutInv /\ SourceGives => OutInv'
<1> SUFFICES ASSUME OutInv, SourceGives PROVE OutInv'  OBVIOUS
<1>1. Handled' = Handled
  <2>1. source.given \in Nat /\ read = "waiting" /\ read' = "chunk" /\ source'.given = source.given + 1
    BY DEF OutInv, OutTypeOK, AConsumer, SourceGives
  <2> QED  BY <2>1 DEF Handled
<1>2. OutTypeOK' /\ ReadIsTrue'  BY DEF OutInv, OutTypeOK, AConsumer, ReadIsTrue, SourceGives
<1>3. Pulling' /\ PulledOut'  BY DEF OutInv, Pulling, PulledOut, SourceGives
<1>4. ChunkIsNext'  BY <1>1 DEF OutInv, OutTypeOK, AConsumer, ChunkIsNext, SourceGives
<1> QED  BY <1>2, <1>3, <1>4 DEF OutInv

LEMMA SourceEndsOK == \A how \in {"done", "failed"} : OutInv /\ SourceEnds(how) => OutInv'
<1> SUFFICES ASSUME NEW how \in {"done", "failed"}, OutInv, SourceEnds(how) PROVE OutInv'  OBVIOUS
<1>1. Handled' = Handled
  <2>1. source.given \in Nat /\ read = "waiting" /\ read' # "chunk" /\ source'.given = source.given
    BY DEF OutInv, OutTypeOK, AConsumer, SourceEnds
  <2> QED  BY <2>1 DEF Handled
<1>2. OutTypeOK' /\ ReadIsTrue'  BY DEF OutInv, OutTypeOK, AConsumer, ReadIsTrue, SourceEnds
<1>3. Pulling' /\ PulledOut'  BY DEF OutInv, Pulling, PulledOut, SourceEnds
<1>4. ChunkIsNext'  BY <1>1 DEF OutInv, OutTypeOK, AConsumer, ChunkIsNext, SourceEnds
<1> QED  BY <1>2, <1>3, <1>4 DEF OutInv

\* Every target gets the next chunk.
LEMMA PullChunkOK == OutInv /\ PullChunk => OutInv'
<1> SUFFICES ASSUME OutInv, PullChunk PROVE OutInv'  OBVIOUS
<1>1. /\ Handled \in Nat /\ source.given \in Nat /\ source.given = Handled + 1 /\ Handled' = Handled + 1
      /\ read = "chunk" /\ source' = source /\ state' = state /\ controllers' = controllers
      /\ read' = IF state = "pulling" THEN "waiting" ELSE "none"
  <2>1. source.given \in Nat /\ read = "chunk" /\ read' # "chunk" /\ source' = source
    BY DEF OutInv, OutTypeOK, AConsumer, PullChunk
  <2>2. source.given = Handled + 1 /\ Handled' = Handled + 1  BY <2>1 DEF Handled
  <2> QED  BY <2>1, <2>2, HandledIsNat DEF PullChunk
<1>2. CASE state = "pulling"
  <2>1. controllers = Targets /\ \A t \in Targets : consumer[t].state = "readable" /\ WholeAt(consumer[t], Handled)
    BY <1>2 DEF OutInv, Pulling, ChunkIsNext
  <2>2. consumer' = [t \in Targets |-> [consumer[t] EXCEPT !.queue = Append(@, Handled + 1)]]
    <3>1. consumer' = IF controllers = {} THEN consumer ELSE Enqueued(Handled + 1)  BY <1>1 DEF PullChunk
    <3>2. CASE controllers = {}
      <4>1. Targets = {} /\ consumer' = consumer  BY <2>1, <3>1, <3>2
      <4> QED  BY <4>1 DEF OutInv, OutTypeOK, AConsumer
    <3>3. CASE controllers # {}  BY <2>1, <3>1, <3>3 DEF Enqueued
    <3> QED  BY <3>2, <3>3
  <2>3. \A t \in Targets : consumer[t].queue \in Seq(Nat) /\ consumer[t].taken \in Nat /\ consumer[t].state \in ConsumerStates
    BY DEF OutInv, OutTypeOK, AConsumer
  <2>4. ASSUME NEW t \in Targets
        PROVE  /\ consumer'[t] \in AConsumer
               /\ consumer'[t].state = "readable" /\ WholeAt(consumer'[t], Handled + 1)
    <3> DEFINE c == consumer[t]
    <3>1. consumer'[t] = [c EXCEPT !.queue = Append(@, Handled + 1)]  BY <2>2
    <3>2. consumer[t] \in AConsumer  BY DEF OutInv, OutTypeOK, AConsumer
    <3>3. Append(c.queue, Handled + 1) \in Seq(Nat)  BY <1>1, <2>3
    <3>4. /\ consumer'[t].queue = Append(c.queue, Handled + 1)
          /\ consumer'[t].taken = c.taken /\ consumer'[t].state = c.state
      BY <3>1, <3>2
    <3>5. Append(c.queue, Handled + 1) = Numbers(c.taken, Handled + 1) /\ c.taken <= Handled + 1
      <4>1. c.queue = Numbers(c.taken, Handled) /\ c.taken <= Handled /\ c.taken \in Nat
        BY <2>1, <2>3 DEF WholeAt
      <4> HIDE DEF c
      <4>2. Append(Numbers(c.taken, Handled), Handled + 1) = Numbers(c.taken, Handled + 1)
        BY <1>1, <4>1, OneMoreHanded
      <4> QED  BY <1>1, <4>1, <4>2
    <3>6. consumer'[t] \in AConsumer  BY <3>1, <3>2, <3>3 DEF AConsumer
    <3> QED  BY <2>1, <3>4, <3>5, <3>6 DEF WholeAt
  <2>5. consumer' \in [Targets -> AConsumer]  BY <2>2, <2>4
  <2>6. OutTypeOK' /\ ReadIsTrue'  BY <1>1, <1>2, <2>5 DEF OutInv, OutTypeOK, AConsumer, ReadIsTrue
  <2>7. Pulling' /\ PulledOut'  BY <1>1, <1>2, <2>1, <2>4 DEF Pulling, PulledOut
  <2>8. ChunkIsNext'  BY <1>1, <2>4 DEF ChunkIsNext
  <2> QED  BY <2>6, <2>7, <2>8 DEF OutInv
<1>3. CASE state # "pulling"
  <2>1. controllers = {} /\ consumer' = consumer /\ \A t \in Targets : consumer[t].state \in {"errored", "cancelled"}
    BY <1>1, <1>3 DEF OutInv, OutTypeOK, AConsumer, PulledOut, ChunkIsNext, PullChunk, ConsumerStates
  <2>2. OutTypeOK' /\ ReadIsTrue'  BY <1>1, <1>3, <2>1 DEF OutInv, OutTypeOK, AConsumer, ReadIsTrue
  <2>3. Pulling' /\ PulledOut' /\ ChunkIsNext'
    BY <1>1, <1>3, <2>1 DEF OutInv, Pulling, PulledOut, ChunkIsNext
  <2> QED  BY <2>2, <2>3 DEF OutInv
<1> QED  BY <1>2, <1>3

LEMMA PullEndOK == OutInv /\ PullEnd => OutInv'
<1> SUFFICES ASSUME OutInv, PullEnd PROVE OutInv'  OBVIOUS
<1>1. /\ read \in {"done", "failed"} /\ read' = "none" /\ source' = source /\ controllers' = {}
      /\ state' = IF read = "done" THEN "closed" ELSE "errored"
      /\ source.ended = read /\ Handled' = Handled
  BY DEF OutInv, ReadIsTrue, PullEnd, Handled
<1>2. consumer' = IF read = "done" THEN Ended(Closed, controllers) ELSE Ended(Errored, controllers)
  BY DEF PullEnd
<1>3. ASSUME NEW t \in Targets
      PROVE  /\ consumer'[t] \in AConsumer
             /\ consumer'[t].state # "readable"
             /\ consumer'[t].state \in {"closing", "closed"} => read = "done" /\ WholeAt(consumer'[t], Handled)
  <2>1. consumer[t] \in AConsumer  BY DEF OutInv, OutTypeOK, AConsumer
  <2>2. CASE state = "pulling"
    <3>1. t \in controllers /\ consumer[t].state = "readable" /\ WholeAt(consumer[t], Handled)
      BY <2>2 DEF OutInv, Pulling, ChunkIsNext
    <3>2. CASE read = "done"
      <4>1. consumer'[t] = [consumer[t] EXCEPT !.state = IF consumer[t].queue = <<>> THEN "closed" ELSE "closing"]
        BY <1>2, <3>1, <3>2 DEF Ended, Closed
      <4>2. consumer'[t] \in AConsumer /\ consumer'[t].state \in {"closed", "closing"}
        BY <2>1, <4>1 DEF AConsumer, ConsumerStates
      <4>3. consumer'[t].queue = consumer[t].queue /\ consumer'[t].taken = consumer[t].taken
        BY <2>1, <4>1 DEF AConsumer
      <4> QED  BY <3>1, <3>2, <4>2, <4>3 DEF WholeAt
    <3>3. CASE read = "failed"
      <4>1. consumer'[t] = InState(consumer[t], "errored")  BY <1>2, <3>1, <3>3 DEF Ended, Errored, InState
      <4>2. "errored" \in ConsumerStates  BY DEF ConsumerStates
      <4>3. consumer'[t] \in AConsumer /\ consumer'[t].state = "errored"  BY <2>1, <4>1, <4>2, QueueEmptied
      <4> QED  BY <4>3
    <3> QED  BY <1>1, <3>2, <3>3
  <2>3. CASE state # "pulling"
    <3>1. consumer'[t] = consumer[t] /\ consumer[t].state \in {"errored", "cancelled"}
      BY <1>1, <1>2, <2>1, <2>3 DEF OutInv, PulledOut, ChunkIsNext, Ended, ConsumerStates, AConsumer
    <3> QED  BY <2>1, <3>1
  <2> QED  BY <2>2, <2>3
<1>4. consumer' \in [Targets -> AConsumer]
  <2>1. consumer' = [t \in Targets |-> consumer'[t]]  BY <1>2 DEF Ended
  <2> QED  BY <1>3, <2>1
<1>5. OutTypeOK' /\ ReadIsTrue'  BY <1>1, <1>4 DEF OutInv, OutTypeOK, AConsumer, ReadIsTrue
<1>6. Pulling' /\ PulledOut'  BY <1>1, <1>3 DEF Pulling, PulledOut
<1>7. ChunkIsNext'  BY <1>1, <1>3 DEF ChunkIsNext
<1> QED  BY <1>5, <1>6, <1>7 DEF OutInv

LEMMA TakeOK == \A t \in Targets : OutInv /\ Take(t) => OutInv'
<1> SUFFICES ASSUME NEW t \in Targets, OutInv, Take(t) PROVE OutInv'  OBVIOUS
<1> DEFINE c == consumer[t]
<1>1. /\ c.queue # <<>> /\ state' = state /\ source' = source /\ read' = read /\ controllers' = controllers
      /\ consumer' = [consumer EXCEPT ![t] =
              [queue |-> Tail(c.queue), taken |-> Head(c.queue),
               state |-> IF c.state = "closing" /\ Len(c.queue) = 1 THEN "closed" ELSE c.state]]
  BY DEF Take
<1>2. /\ c \in AConsumer
      /\ consumer \in [Targets -> AConsumer]
  BY DEF OutInv, OutTypeOK, AConsumer
<1>3. Tail(c.queue) \in Seq(Nat) /\ Head(c.queue) \in Nat  BY <1>1, <1>2 DEF AConsumer
<1>4. /\ consumer' \in [Targets -> AConsumer]
      /\ consumer'[t].queue = Tail(c.queue) /\ consumer'[t].taken = Head(c.queue)
      /\ consumer'[t].state = c.state \/ (c.state = "closing" /\ consumer'[t].state = "closed")
      /\ \A s \in Targets : s # t => consumer'[s] = consumer[s]
  BY <1>1, <1>2, <1>3 DEF ConsumerStates, AConsumer
<1>5. Handled' = Handled /\ Handled \in Nat  BY <1>1, HandledIsNat DEF Handled
<1>6. c.state \in {"readable", "closing", "closed"} => WholeAt(consumer'[t], Handled)
  <2> SUFFICES ASSUME c.state \in {"readable", "closing", "closed"} PROVE WholeAt(consumer'[t], Handled)
    OBVIOUS
  <2>1. c.queue = Numbers(c.taken, Handled) /\ c.taken <= Handled /\ c.taken \in Nat
    BY <1>2 DEF OutInv, ChunkIsNext, WholeAt, AConsumer
  <2>2. Head(c.queue) = c.taken + 1 /\ c.taken + 1 <= Handled /\ Tail(c.queue) = Numbers(c.taken + 1, Handled)
    BY <1>1, <1>5, <2>1, OneTaken
  <2> QED  BY <1>4, <2>2 DEF WholeAt
<1>7. OutTypeOK' /\ ReadIsTrue'  BY <1>1, <1>4 DEF OutInv, OutTypeOK, AConsumer, ReadIsTrue
<1>8. Pulling' /\ PulledOut'  BY <1>1, <1>4 DEF OutInv, Pulling, PulledOut
<1>9. ChunkIsNext'  BY <1>1, <1>4, <1>5, <1>6 DEF OutInv, ChunkIsNext
<1> QED  BY <1>7, <1>8, <1>9 DEF OutInv

LEMMA CancelOK == \A t \in Targets : OutInv /\ Cancel(t) => OutInv'
<1> SUFFICES ASSUME NEW t \in Targets, OutInv, Cancel(t) PROVE OutInv'  OBVIOUS
<1> DEFINE before == IF state = "pulling" THEN Ended(Errored, controllers) ELSE consumer
<1>1. /\ consumer[t].state \in {"readable", "closing"} /\ source' = source /\ read' = read
      /\ state' = IF state = "pulling" THEN "errored" ELSE state
      /\ controllers' = IF state = "pulling" THEN {} ELSE controllers
      /\ consumer' = [before EXCEPT ![t].state = "cancelled", ![t].queue = <<>>]
  BY DEF Cancel
<1>2. consumer \in [Targets -> AConsumer]  BY DEF OutInv, OutTypeOK, AConsumer
<1>3. /\ before \in [Targets -> AConsumer]
      /\ state = "pulling" => \A s \in Targets : before[s].state = "errored"
      /\ state # "pulling" => before = consumer
  <2>1. CASE state = "pulling"
    <3>1. \A s \in Targets : consumer[s].state = "readable" /\ s \in controllers  BY <2>1 DEF OutInv, Pulling
    <3>2. before = [s \in Targets |-> InState(consumer[s], "errored")]
      BY <2>1, <3>1 DEF Ended, Errored, InState
    <3>3. "errored" \in ConsumerStates  BY DEF ConsumerStates
    <3> QED
      <4>1. \A s \in Targets : /\ InState(consumer[s], "errored") \in AConsumer
                               /\ InState(consumer[s], "errored").state = "errored"
        BY <1>2, <3>3, QueueEmptied
      <4> QED  BY <2>1, <3>2, <4>1
  <2>2. CASE state # "pulling"  BY <1>2, <2>2
  <2> QED  BY <2>1, <2>2
<1> HIDE DEF before
<1>4. /\ consumer' \in [Targets -> AConsumer]
      /\ consumer'[t].state = "cancelled"
      /\ \A s \in Targets : s # t => consumer'[s] = before[s]
  <2>1. consumer' = [before EXCEPT ![t] = InState(before[t], "cancelled")]  BY <1>1, <1>3 DEF InState
  <2>2. "cancelled" \in ConsumerStates /\ before[t] \in AConsumer  BY <1>3 DEF ConsumerStates
  <2> QED  BY <1>3, <2>1, <2>2, QueueEmptied
<1>5. Handled' = Handled  BY <1>1 DEF Handled
<1>6. OutTypeOK' /\ ReadIsTrue'  BY <1>1, <1>4 DEF OutInv, OutTypeOK, AConsumer, ReadIsTrue
<1>7. Pulling' /\ PulledOut'  BY <1>1, <1>3, <1>4 DEF OutInv, OutTypeOK, AConsumer, Pulling, PulledOut
<1>8. ChunkIsNext'  BY <1>1, <1>3, <1>4, <1>5 DEF OutInv, ChunkIsNext
<1> QED  BY <1>6, <1>7, <1>8 DEF OutInv

\* FanoutGivesAll, but for the order, which the numbers say.
LEMMA OutInvImplies == OutInv => FanoutGivesAll
<1> SUFFICES ASSUME OutInv PROVE FanoutGivesAll  OBVIOUS
<1>1. ASSUME NEW t \in Targets, consumer[t].state = "readable", NEW s \in Targets
      PROVE  consumer[s].state \notin {"errored", "cancelled"}
  <2>1. state = "pulling"  BY <1>1 DEF OutInv, PulledOut
  <2> QED  BY <2>1 DEF OutInv, Pulling
<1>2. \A t \in Targets : consumer[t].state \in {"readable", "closing", "closed"} => WholeAt(consumer[t], Handled)
  BY DEF OutInv, ChunkIsNext
<1>3. \A t \in Targets : consumer[t].state \in {"closing", "closed"} => source.ended = "done"
  BY DEF OutInv, ChunkIsNext
<1> QED  BY <1>1, <1>2, <1>3 DEF FanoutGivesAll, WholeAt, Numbers, Handled

-----------------------------------------------------------------------------
(* The writable stream. *)

LEMMA InTypes ==
  ASSUME InInv
  PROVE  /\ contributor \in [Targets -> AContributor]
         /\ \A t \in Targets : /\ contributor[t] \in AContributor /\ contributor[t].state \in ContributorStates
                               /\ contributor[t].wrote \in Nat /\ contributor[t].acked \in Nat
                               /\ contributor[t].aborts \in {"no", "reason", "none"}
         /\ writer \in AWriter /\ writer.queue \in Seq(AWrite) /\ writer.took \in Seq(AWrite)
         /\ active \in Int
         /\ terminated \in {"no", "close", "abort", "failed"} /\ completion \in {"pending", "resolved", "rejected"}
  BY DEF InInv, InTypeOK, AContributor, AWriter

LEMMA WritesOf ==
  ASSUME NEW q \in Seq(AWrite)
  PROVE  /\ Len(q) \in Nat /\ DOMAIN q = 1 .. Len(q)
         /\ \A i \in 1 .. Len(q) : q[i] \in AWrite /\ q[i].from \in Targets /\ q[i].n \in Nat
<1>1. \A i \in 1 .. Len(q) : q[i] \in AWrite  OBVIOUS
<1> QED  BY <1>1 DEF AWrite

LEMMA OneMoreWrite ==
  ASSUME NEW q \in Seq(AWrite), NEW w \in AWrite
  PROVE  /\ Append(q, w) \in Seq(AWrite) /\ Len(Append(q, w)) = Len(q) + 1
         /\ \A i \in 1 .. Len(q) : Append(q, w)[i] = q[i]
         /\ Append(q, w)[Len(q) + 1] = w
<1>1. Append(q, w) \in Seq(AWrite) /\ Len(Append(q, w)) = Len(q) + 1  OBVIOUS
<1>2. \A i \in 1 .. Len(q) : Append(q, w)[i] = q[i]  OBVIOUS
<1>3. Append(q, w)[Len(q) + 1] = w  OBVIOUS
<1> QED  BY <1>1, <1>2, <1>3

\* What was taken is in order as long as nothing is taken.
LEMMA SameTook ==
  ASSUME InInv, writer'.took = writer.took, \A t \in Targets : contributor'[t].acked = contributor[t].acked
  PROVE  TookInOrder'
  BY DEF InInv, TookInOrder

\* The queue, as long as it is the same and nobody in it does anything.
LEMMA SameQueue ==
  ASSUME InInv, writer'.queue = writer.queue,
         \A t \in Targets : contributor[t].state = "writing" =>
             contributor'[t].state = "writing" /\ contributor'[t].acked = contributor[t].acked
  PROVE  QueueIsWrites'
<1>1. \A i \in 1 .. Len(writer.queue) : writer.queue[i].from \in Targets  BY InTypes, WritesOf
<1> QED  BY <1>1 DEF InInv, QueueIsWrites

LEMMA NoQueue ==
  ASSUME writer'.queue = <<>>
  PROVE  QueueIsWrites'
  BY DEF QueueIsWrites

\* The count, as long as nobody closes.
LEMMA SameCount ==
  ASSUME InInv, active' = active, terminated' = terminated, completion' = completion,
         \A t \in Targets :
            /\ contributor[t].state = "closing" => contributor'[t] = contributor[t]
            /\ contributor[t].state # "closing" /\ terminated = "no" =>
                  contributor'[t].state \in {"open", "writing", "interrupted"}
  PROVE  Counted'
<1> SUFFICES ASSUME terminated = "no" PROVE Counted'  BY DEF Counted
<1>1. StillOpen' = StillOpen  BY DEF StillOpen
<1> QED  BY <1>1 DEF InInv, Counted

\* Once all have closed, nothing but the end follows.
LEMMA NobodyWrites ==
  ASSUME InInv, AllClosed
  PROVE  writer.queue = <<>>
<1>1. \A i \in 1 .. Len(writer.queue) : writer.queue[i].from \in Targets /\ contributor[writer.queue[i].from].state = "writing"
  BY InTypes, WritesOf DEF InInv, QueueIsWrites
<1>2. Len(writer.queue) = 0
  <2> SUFFICES ASSUME Len(writer.queue) # 0 PROVE FALSE  OBVIOUS
  <2>1. 1 \in 1 .. Len(writer.queue)  BY InTypes
  <2> QED  BY <1>1, <2>1 DEF AllClosed
<1> QED  BY <1>2, InTypes

LEMMA InInitOK == IsFiniteSet(Targets) /\ InInit => InInv
<1> SUFFICES ASSUME IsFiniteSet(Targets), InInit PROVE InInv  OBVIOUS
<1>1. <<>> \in Seq(AWrite) /\ Len(<<>>) = 0 /\ DOMAIN <<>> = {}  OBVIOUS
<1>2. \A t \in Targets : contributor[t] = [state |-> "open", wrote |-> 0, acked |-> 0, aborts |-> "no"]
  BY DEF InInit
<1>3. StillOpen = Targets  BY <1>2 DEF StillOpen
<1>4. InTypeOK
  <2>1. contributor \in [Targets -> AContributor] /\ writer \in AWriter
    BY <1>1 DEF InInit, AContributor, AWriter, ContributorStates
  <2>2. active \in Int  BY FS_CardinalityType DEF InInit
  <2> QED  BY <2>1, <2>2 DEF InInit, InTypeOK
<1>5. OneAtATime /\ QueueIsWrites  BY <1>1, <1>2 DEF InInit, OneAtATime, QueueIsWrites
<1>6. TookInOrder  BY <1>1, <1>2 DEF InInit, TookInOrder, Range
<1>7. Counted /\ EndedRight  BY <1>2, <1>3 DEF InInit, Counted, EndedRight
<1> QED  BY <1>4, <1>5, <1>6, <1>7 DEF InInv

LEMMA WriteOK == \A t \in Targets : InInv /\ Write(t) => InInv'
<1> SUFFICES ASSUME NEW t \in Targets, InInv, Write(t) PROVE InInv'  OBVIOUS
<1>1. /\ contributor[t].state = "open" /\ active' = active /\ terminated' = terminated /\ completion' = completion
      /\ contributor[t].wrote = contributor[t].acked /\ contributor[t].aborts = "no"
  BY DEF Write, InInv, OneAtATime
<1>2. CASE terminated # "no"
  <2>1. contributor' = [contributor EXCEPT ![t].state = "errored"] /\ writer' = writer  BY <1>2 DEF Write
  <2>2. /\ contributor' \in [Targets -> AContributor]
        /\ contributor'[t].state = "errored" /\ contributor'[t].acked = contributor[t].acked
        /\ contributor'[t].aborts = contributor[t].aborts
        /\ \A s \in Targets : s # t => contributor'[s] = contributor[s]
    BY <2>1, InTypes DEF AContributor, ContributorStates
  <2>3. InTypeOK' /\ OneAtATime'  BY <1>1, <2>1, <2>2 DEF InInv, InTypeOK, OneAtATime
  <2>4. QueueIsWrites' /\ TookInOrder'  BY <1>1, <2>1, <2>2, SameQueue, SameTook
  <2>5. Counted'  BY <1>1, <1>2 DEF Counted
  <2>6. EndedRight'  BY <1>1, <2>1, <2>2 DEF InInv, EndedRight, AllClosed
  <2> QED  BY <2>3, <2>4, <2>5, <2>6 DEF InInv
<1>3. CASE terminated = "no"
  <2> DEFINE w == [from |-> t, n |-> contributor[t].wrote + 1]
  <2>1. /\ contributor' = [contributor EXCEPT ![t].state = "writing", ![t].wrote = @ + 1]
        /\ writer' = [writer EXCEPT !.queue = Append(@, w)]
    BY <1>3 DEF Write
  <2>2. /\ contributor' \in [Targets -> AContributor]
        /\ contributor'[t].state = "writing" /\ contributor'[t].acked = contributor[t].acked
        /\ contributor'[t].wrote = contributor[t].wrote + 1
        /\ contributor'[t].aborts = contributor[t].aborts
        /\ \A s \in Targets : s # t => contributor'[s] = contributor[s]
    BY <2>1, InTypes DEF AContributor, ContributorStates
  <2>3. w \in AWrite /\ w.from = t /\ w.n = contributor[t].acked + 1  BY <1>1, InTypes DEF AWrite
  <2> HIDE DEF w
  <2>4. Append(writer.queue, w) \in Seq(AWrite)  BY <2>3, InTypes
  <2>5. /\ writer' \in AWriter /\ writer'.queue = Append(writer.queue, w) /\ writer'.took = writer.took
        /\ writer'.state = writer.state
    BY <2>1, <2>4, InTypes DEF AWriter
  <2>6. InTypeOK' /\ OneAtATime'  BY <1>1, <2>2, <2>5, InTypes DEF InInv, InTypeOK, OneAtATime
  <2>7. QueueIsWrites'
    <3> DEFINE q == writer.queue
    <3>1. /\ Len(writer'.queue) = Len(q) + 1 /\ Len(q) \in Nat
          /\ \A i \in 1 .. Len(q) : writer'.queue[i] = q[i] /\ q[i].from \in Targets
          /\ writer'.queue[Len(q) + 1] = w
      <4>1. q \in Seq(AWrite) /\ w \in AWrite /\ writer'.queue = Append(q, w)  BY <2>3, <2>5, InTypes
      <4>2. Len(q) \in Nat /\ \A i \in 1 .. Len(q) : q[i].from \in Targets  BY <4>1, WritesOf
      <4> HIDE DEF q
      <4>3. /\ Len(Append(q, w)) = Len(q) + 1 /\ Append(q, w)[Len(q) + 1] = w
            /\ \A i \in 1 .. Len(q) : Append(q, w)[i] = q[i]
        BY <4>1, OneMoreWrite
      <4> QED  BY <4>1, <4>2, <4>3
    <3>2. \A i \in 1 .. Len(q) : contributor[q[i].from].state = "writing" /\ q[i].n = contributor[q[i].from].acked + 1
      BY DEF InInv, QueueIsWrites
    <3>3. \A i \in 1 .. Len(q) : q[i].from # t  BY <1>1, <3>2
    <3>4. \A i, j \in 1 .. Len(q) : i # j => q[i].from # q[j].from  BY DEF InInv, QueueIsWrites
    <3> HIDE DEF q
    <3>5. ASSUME NEW i \in 1 .. Len(writer'.queue)
          PROVE  i \in 1 .. Len(q) \/ i = Len(q) + 1
      BY <3>1, <3>5
    <3>6. ASSUME NEW i \in 1 .. Len(writer'.queue)
          PROVE  /\ contributor'[writer'.queue[i].from].state = "writing"
                 /\ writer'.queue[i].n = contributor'[writer'.queue[i].from].acked + 1
      BY <2>2, <2>3, <3>1, <3>2, <3>3, <3>5
    <3>7. ASSUME NEW i \in 1 .. Len(writer'.queue), NEW j \in 1 .. Len(writer'.queue), i # j
          PROVE  writer'.queue[i].from # writer'.queue[j].from
      BY <2>3, <3>1, <3>3, <3>4, <3>5, <3>7
    <3> QED  BY <3>6, <3>7 DEF QueueIsWrites
  <2>8. TookInOrder'  BY <2>2, <2>5, SameTook
  <2>9. Counted'  BY <1>1, <2>2, SameCount DEF InInv, Counted
  <2>10. EndedRight'  BY <1>1, <1>3, <2>2, <2>5 DEF InInv, EndedRight, AllClosed
  <2> QED  BY <2>6, <2>7, <2>8, <2>9, <2>10 DEF InInv
<1> QED  BY <1>2, <1>3

\* The last to close ends the original.
LEMMA CloseContributorOK == \A t \in Targets : IsFiniteSet(Targets) /\ InInv /\ CloseContributor(t) => InInv'
<1> SUFFICES ASSUME NEW t \in Targets, IsFiniteSet(Targets), InInv, CloseContributor(t) PROVE InInv'  OBVIOUS
<1>1. /\ contributor[t].state = "open" /\ completion' = completion /\ contributor[t].aborts = "no"
      /\ contributor' = [contributor EXCEPT ![t].state = "closing"]
  BY DEF CloseContributor, InInv, OneAtATime
<1>2. /\ contributor' \in [Targets -> AContributor]
      /\ contributor'[t].state = "closing" /\ contributor'[t].acked = contributor[t].acked
      /\ contributor'[t].aborts = contributor[t].aborts
      /\ \A s \in Targets : s # t => contributor'[s] = contributor[s]
  BY <1>1, InTypes DEF AContributor, ContributorStates
<1>3. CASE terminated # "no"
  <2>1. active' = active /\ terminated' = terminated /\ writer' = writer  BY <1>3 DEF CloseContributor
  <2>2. InTypeOK' /\ OneAtATime'  BY <1>1, <1>2, <2>1 DEF InInv, InTypeOK, OneAtATime
  <2>3. QueueIsWrites' /\ TookInOrder'  BY <1>1, <1>2, <2>1, SameQueue, SameTook
  <2>4. Counted'  BY <1>3, <2>1 DEF Counted
  <2>5. EndedRight'  BY <1>1, <1>2, <2>1 DEF InInv, EndedRight, AllClosed
  <2> QED  BY <2>2, <2>3, <2>4, <2>5 DEF InInv
<1>4. CASE terminated = "no"
  <2>1. /\ active' = active - 1
        /\ terminated' = IF active - 1 = 0 THEN "close" ELSE terminated
        /\ writer' = IF active - 1 = 0 THEN [writer EXCEPT !.state = "closing"] ELSE writer
    BY <1>4 DEF CloseContributor, TerminateNow
  <2>2. /\ active = Cardinality(StillOpen) /\ completion = "pending"
        /\ \A s \in Targets : /\ contributor[s].state \in {"open", "writing", "interrupted", "closing"}
                              /\ contributor[s].state = "closing" => contributor[s].aborts = "no"
    BY <1>4 DEF InInv, Counted
  <2>3. t \in StillOpen /\ IsFiniteSet(StillOpen) /\ StillOpen' = StillOpen \ {t}
    <3>1. StillOpen \subseteq Targets  BY DEF StillOpen
    <3>2. IsFiniteSet(StillOpen)  BY <3>1, FS_Subset
    <3> QED  BY <1>1, <1>2, <3>2 DEF StillOpen
  <2>4. Cardinality(StillOpen') = active - 1 /\ IsFiniteSet(StillOpen')  BY <2>2, <2>3, FS_RemoveElement
  <2>5. active - 1 = 0 => AllClosed'
    <3> SUFFICES ASSUME active - 1 = 0 PROVE AllClosed'  OBVIOUS
    <3>1. StillOpen' = {}  BY <2>4, FS_EmptySet
    <3> QED  BY <1>1, <1>2, <2>2, <3>1 DEF StillOpen, AllClosed
  <2>6. /\ writer' \in AWriter /\ writer'.queue = writer.queue /\ writer'.took = writer.took
        /\ writer'.state = IF active - 1 = 0 THEN "closing" ELSE writer.state
    BY <2>1, InTypes DEF AWriter
  <2>7. InTypeOK' /\ OneAtATime'  BY <1>1, <1>2, <2>1, <2>6, InTypes DEF InInv, InTypeOK, OneAtATime
  <2>8. QueueIsWrites' /\ TookInOrder'  BY <1>1, <1>2, <2>6, SameQueue, SameTook
  <2>9. Counted'  BY <1>1, <1>2, <2>1, <2>2, <2>4 DEF Counted
  <2>10. EndedRight'  BY <1>1, <1>4, <2>1, <2>2, <2>5, <2>6 DEF InInv, EndedRight
  <2> QED  BY <2>7, <2>8, <2>9, <2>10 DEF InInv
<1> QED  BY <1>3, <1>4

\* An abort ends the original, or comes too late.
LEMMA AbortNowOK ==
  ASSUME InInv, NEW t \in Targets, NEW why \in {"reason", "none"}, NEW c \in [Targets -> AContributor],
         contributor[t].state \in {"open", "interrupted"},
         c[t].acked = contributor[t].acked, c[t].aborts = why, contributor[t].aborts \in {"no", why},
         \A s \in Targets : s # t => c[s] = contributor[s],
         AbortNow(t, why, c), UNCHANGED <<active, completion>>
  PROVE  InInv'
<1>1. /\ contributor' = [c EXCEPT ![t].state = "closing"]
      /\ terminated' = IF terminated = "no" THEN (IF why = "reason" THEN "abort" ELSE "close") ELSE terminated
      /\ writer' = IF terminated # "no" THEN writer
                   ELSE [writer EXCEPT !.state = IF why = "reason" THEN "aborting" ELSE "closing"]
      /\ active' = active /\ completion' = completion
  BY DEF AbortNow
<1>2. /\ contributor' \in [Targets -> AContributor]
      /\ contributor'[t].state = "closing" /\ contributor'[t].acked = contributor[t].acked
      /\ contributor'[t].aborts = why
      /\ \A s \in Targets : s # t => contributor'[s] = contributor[s]
  BY <1>1 DEF AContributor, ContributorStates
<1>3. /\ writer' \in AWriter /\ writer'.queue = writer.queue /\ writer'.took = writer.took
      /\ writer'.state = IF terminated # "no" THEN writer.state
                         ELSE IF why = "reason" THEN "aborting" ELSE "closing"
  BY <1>1, InTypes DEF AWriter
<1>4. InTypeOK' /\ OneAtATime'  BY <1>1, <1>2, <1>3, InTypes DEF InInv, InTypeOK, OneAtATime
<1>5. QueueIsWrites' /\ TookInOrder'  BY <1>2, <1>3, SameQueue, SameTook
<1>6. Counted'  BY <1>1 DEF Counted
<1>7. EndedRight'
  <2>1. CASE terminated = "no"  BY <1>1, <1>2, <1>3, <2>1 DEF InInv, Counted, EndedRight
  <2>2. CASE terminated # "no"
    <3>1. ~ AllClosed  BY DEF AllClosed
    <3> QED  BY <1>1, <1>2, <1>3, <2>2, <3>1 DEF InInv, EndedRight
  <2> QED  BY <2>1, <2>2
<1> QED  BY <1>4, <1>5, <1>6, <1>7 DEF InInv

LEMMA AbortsOK ==
  \A t \in Targets, why \in {"reason", "none"} :
      InInv /\ (AbortContributor(t, why) \/ AbortLater(t, why) \/ AbortGoesOn(t)) => InInv'
<1> SUFFICES ASSUME NEW t \in Targets, NEW why \in {"reason", "none"}, InInv,
                    AbortContributor(t, why) \/ AbortLater(t, why) \/ AbortGoesOn(t)
             PROVE  InInv'
  OBVIOUS
<1>1. CASE AbortContributor(t, why)
  <2> DEFINE c == [contributor EXCEPT ![t].aborts = why]
  <2>1. contributor[t].state = "open" /\ AbortNow(t, why, c) /\ UNCHANGED <<active, completion>>
    BY <1>1 DEF AbortContributor
  <2>2. /\ c \in [Targets -> AContributor] /\ c[t].acked = contributor[t].acked /\ c[t].aborts = why
        /\ \A s \in Targets : s # t => c[s] = contributor[s]
    BY InTypes DEF AContributor
  <2>3. contributor[t].aborts = "no"  BY <2>1 DEF InInv, OneAtATime
  <2> HIDE DEF c
  <2> QED  BY <2>1, <2>2, <2>3, AbortNowOK
<1>2. CASE AbortLater(t, why)
  <2>1. /\ contributor[t].state = "writing" /\ contributor[t].aborts = "no"
        /\ contributor' = [contributor EXCEPT ![t].aborts = why]
        /\ writer' = writer /\ active' = active /\ terminated' = terminated /\ completion' = completion
    BY <1>2 DEF AbortLater
  <2>2. /\ contributor' \in [Targets -> AContributor]
        /\ contributor'[t].state = "writing" /\ contributor'[t].acked = contributor[t].acked
        /\ contributor'[t].wrote = contributor[t].wrote /\ contributor'[t].aborts = why
        /\ \A s \in Targets : s # t => contributor'[s] = contributor[s]
    BY <2>1, InTypes DEF AContributor
  <2>3. InTypeOK' /\ OneAtATime'  BY <2>1, <2>2 DEF InInv, InTypeOK, OneAtATime
  <2>4. QueueIsWrites' /\ TookInOrder'  BY <2>1, <2>2, SameQueue, SameTook
  <2>5. Counted'  BY <2>1, <2>2, SameCount DEF InInv, Counted
  <2>6. EndedRight'
    <3>1. ~ AllClosed  BY <2>1 DEF AllClosed
    <3> QED  BY <2>1, <2>2, <3>1 DEF InInv, EndedRight
  <2> QED  BY <2>3, <2>4, <2>5, <2>6 DEF InInv
<1>3. CASE AbortGoesOn(t)
  <2>1. contributor[t].state = "interrupted" /\ AbortNow(t, contributor[t].aborts, contributor) /\ UNCHANGED <<active, completion>>
    BY <1>3 DEF AbortGoesOn
  <2>2. contributor[t].aborts \in {"reason", "none"}  BY <2>1, InTypes DEF InInv, OneAtATime
  <2> QED  BY <2>1, <2>2, InTypes, AbortNowOK
<1> QED  BY <1>1, <1>2, <1>3

\* What has been taken, and the chunks among it that are t's.
NumbersOf(q, t) == { w.n : w \in { x \in Range(q) : x.from = t } }

LEMMA NumbersIs ==
  ASSUME NEW q \in Seq(AWrite), NEW t
  PROVE  NumbersOf(q, t) = { q[i].n : i \in { j \in 1 .. Len(q) : q[j].from = t } }
<1>1. DOMAIN q = 1 .. Len(q)  BY WritesOf
<1> QED  BY <1>1 DEF NumbersOf, Range

\* The next chunk of a contributor is taken.
LEMMA OneMoreTaken ==
  ASSUME InInv, NEW w \in AWrite, w.n = contributor[w.from].acked + 1,
         writer'.took = Append(writer.took, w), contributor'[w.from].acked = w.n,
         \A t \in Targets : t # w.from => contributor'[t].acked = contributor[t].acked
  PROVE  TookInOrder'
<1> DEFINE q == writer.took
<1> DEFINE p == writer'.took
<1>1. /\ q \in Seq(AWrite) /\ p \in Seq(AWrite) /\ Len(q) \in Nat /\ Len(p) = Len(q) + 1
      /\ \A i \in 1 .. Len(q) : p[i] = q[i] /\ q[i].from \in Targets /\ q[i].n \in Nat
      /\ p[Len(q) + 1] = w /\ w.from \in Targets /\ w.n \in Nat
      /\ DOMAIN p = 1 .. Len(q) + 1 /\ DOMAIN q = 1 .. Len(q)
  <2>1. q \in Seq(AWrite) /\ p = Append(q, w)  BY InTypes
  <2> HIDE DEF q, p
  <2>2. p \in Seq(AWrite) /\ Len(p) = Len(q) + 1 /\ p[Len(q) + 1] = w /\ \A i \in 1 .. Len(q) : p[i] = q[i]
    BY <2>1, OneMoreWrite
  <2>3. w.from \in Targets /\ w.n \in Nat  BY DEF AWrite
  <2> QED  BY <2>1, <2>2, <2>3, WritesOf
<1>2. /\ \A t \in Targets : NumbersOf(q, t) = 1 .. contributor[t].acked
      /\ \A i, j \in DOMAIN q : i < j /\ q[i].from = q[j].from => q[i].n < q[j].n
  BY DEF InInv, TookInOrder, NumbersOf
<1>3. \A t \in Targets : contributor[t].acked \in Nat  BY InTypes
<1> HIDE DEF q, p
<1>4. ASSUME NEW t \in Targets PROVE NumbersOf(p, t) = 1 .. contributor'[t].acked
  <2>1. /\ NumbersOf(p, t) = { p[i].n : i \in { j \in 1 .. Len(q) + 1 : p[j].from = t } }
        /\ NumbersOf(q, t) = { q[i].n : i \in { j \in 1 .. Len(q) : q[j].from = t } }
    BY <1>1, NumbersIs
  <2>2. \A i \in 1 .. Len(q) + 1 : i \in 1 .. Len(q) \/ i = Len(q) + 1  BY <1>1
  <2>3. 1 .. Len(q) \subseteq 1 .. Len(q) + 1 /\ Len(q) + 1 \in 1 .. Len(q) + 1  BY <1>1
  <2>4. NumbersOf(p, t) = NumbersOf(q, t) \cup (IF w.from = t THEN {w.n} ELSE {})  BY <1>1, <2>1, <2>2, <2>3
  <2>5. CASE w.from = t
    <3>1. NumbersOf(p, t) = 1 .. contributor[t].acked \cup {contributor[t].acked + 1}  BY <1>2, <2>4, <2>5
    <3> QED  BY <1>3, <2>5, <3>1
  <2>6. CASE w.from # t  BY <1>2, <2>4, <2>6
  <2> QED  BY <2>5, <2>6
<1>5. ASSUME NEW i \in DOMAIN p, NEW j \in DOMAIN p, i < j, p[i].from = p[j].from
      PROVE  p[i].n < p[j].n
  <2>1. i \in 1 .. Len(q) /\ p[i] = q[i]  BY <1>1, <1>5
  <2>2. CASE j \in 1 .. Len(q)  BY <1>1, <1>2, <1>5, <2>1, <2>2
  <2>3. CASE j = Len(q) + 1
    <3>1. q[i].from = w.from /\ p[j] = w  BY <1>1, <1>5, <2>1, <2>3
    <3>2. q[i].n \in NumbersOf(q, w.from)  BY <1>1, <2>1, <3>1, NumbersIs
    <3>3. q[i].n \in 1 .. contributor[w.from].acked  BY <1>1, <1>2, <3>2
    <3> QED  BY <1>1, <1>3, <2>1, <3>1, <3>3
  <2> QED  BY <1>1, <2>2, <2>3
<1> QED  BY <1>4, <1>5 DEF TookInOrder, NumbersOf, p

LEMMA TakesOK == InInv /\ Takes => InInv'
<1> SUFFICES ASSUME InInv, Takes PROVE InInv'  OBVIOUS
<1> DEFINE q == writer.queue
<1> DEFINE w == Head(q)
<1> DEFINE st == IF contributor[w.from].aborts = "no" THEN "open" ELSE "interrupted"
<1>1. /\ q # <<>> /\ writer.state \in {"writable", "closing"}
      /\ writer' = [writer EXCEPT !.queue = Tail(q), !.took = Append(writer.took, w)]
      /\ contributor' = [contributor EXCEPT ![w.from].acked = w.n, ![w.from].state = st]
      /\ active' = active /\ terminated' = terminated /\ completion' = completion
  BY DEF Takes
<1>2. /\ q \in Seq(AWrite) /\ Len(q) \in Nat /\ Len(q) >= 1 /\ w = q[1] /\ w \in AWrite /\ w.from \in Targets /\ w.n \in Nat
      /\ Tail(q) \in Seq(AWrite) /\ Len(Tail(q)) = Len(q) - 1
      /\ \A i \in 1 .. Len(q) - 1 : Tail(q)[i] = q[i + 1]
  <2>1. q \in Seq(AWrite)  BY InTypes
  <2>2. Len(q) \in Nat /\ Len(q) >= 1 /\ w = q[1]  BY <1>1, <2>1
  <2>3. q[1] \in AWrite /\ q[1].from \in Targets /\ q[1].n \in Nat  BY <2>1, <2>2, WritesOf
  <2>4. Tail(q) \in Seq(AWrite) /\ Len(Tail(q)) = Len(q) - 1  BY <1>1, <2>1
  <2>5. \A i \in 1 .. Len(q) - 1 : Tail(q)[i] = q[i + 1]  BY <1>1, <2>1
  <2> QED  BY <2>1, <2>2, <2>3, <2>4, <2>5
<1>3. /\ \A i \in 1 .. Len(q) : contributor[q[i].from].state = "writing" /\ q[i].n = contributor[q[i].from].acked + 1
      /\ \A i, j \in 1 .. Len(q) : i # j => q[i].from # q[j].from
  BY DEF InInv, QueueIsWrites
<1> HIDE DEF w, st
<1>4. contributor[w.from].state = "writing" /\ w.n = contributor[w.from].acked + 1  BY <1>2, <1>3
<1>5. st \in {"open", "interrupted"} /\ (st = "open" <=> contributor[w.from].aborts = "no")  BY DEF st
<1>6. /\ contributor' \in [Targets -> AContributor]
      /\ contributor'[w.from].state = st /\ contributor'[w.from].acked = w.n
      /\ contributor'[w.from].wrote = contributor[w.from].wrote /\ contributor'[w.from].aborts = contributor[w.from].aborts
      /\ \A s \in Targets : s # w.from => contributor'[s] = contributor[s]
  <2> DEFINE c == [contributor EXCEPT ![w.from].acked = w.n]
  <2>1. contributor' = [c EXCEPT ![w.from].state = st]  BY <1>1
  <2>2. /\ c \in [Targets -> AContributor] /\ c[w.from].acked = w.n
        /\ c[w.from].wrote = contributor[w.from].wrote /\ c[w.from].aborts = contributor[w.from].aborts
        /\ \A s \in Targets : s # w.from => c[s] = contributor[s]
    <3> DEFINE b == [contributor[w.from] EXCEPT !.acked = w.n]
    <3>1. /\ b \in AContributor /\ b.acked = w.n
          /\ b.wrote = contributor[w.from].wrote /\ b.aborts = contributor[w.from].aborts
      BY <1>2, InTypes DEF AContributor
    <3>2. c = [contributor EXCEPT ![w.from] = b]  OBVIOUS
    <3> HIDE DEF b, c
    <3> QED  BY <1>2, <3>1, <3>2, InTypes
  <2>3. st \in ContributorStates  BY <1>5 DEF ContributorStates
  <2> HIDE DEF c
  <2> QED  BY <1>2, <2>1, <2>2, <2>3 DEF AContributor
<1>7. Append(writer.took, w) \in Seq(AWrite)  BY <1>2, InTypes, OneMoreWrite
<1>8. /\ writer' \in AWriter /\ writer'.queue = Tail(q) /\ writer'.took = Append(writer.took, w)
      /\ writer'.state = writer.state
  BY <1>1, <1>2, <1>7, InTypes DEF AWriter
<1>9. InTypeOK' /\ OneAtATime'
  <2>1. contributor[w.from].wrote = w.n  BY <1>2, <1>4 DEF InInv, OneAtATime
  <2>2. InTypeOK'  BY <1>1, <1>6, <1>8, InTypes DEF InTypeOK
  <2>3. OneAtATime'  BY <1>2, <1>5, <1>6, <2>1 DEF InInv, OneAtATime
  <2> QED  BY <2>2, <2>3
<1>10. QueueIsWrites'
  <2>1. \A i \in 1 .. Len(q) - 1 : i + 1 \in 1 .. Len(q) /\ i + 1 # 1 /\ 1 \in 1 .. Len(q)  BY <1>2
  <2>2. \A i \in 1 .. Len(q) - 1 : q[i + 1].from # w.from /\ q[i + 1].from \in Targets
    BY <1>2, <1>3, <2>1, WritesOf
  <2>3. /\ \A i \in 1 .. Len(q) - 1 : /\ contributor'[Tail(q)[i].from].state = "writing"
                                      /\ Tail(q)[i].n = contributor'[Tail(q)[i].from].acked + 1
    <3>1. ASSUME NEW i \in 1 .. Len(q) - 1
          PROVE  /\ contributor'[q[i + 1].from] = contributor[q[i + 1].from]
                 /\ contributor[q[i + 1].from].state = "writing"
                 /\ q[i + 1].n = contributor[q[i + 1].from].acked + 1
      BY <1>3, <1>6, <2>1, <2>2
    <3> QED  BY <1>2, <3>1
  <2>4. \A i, j \in 1 .. Len(q) - 1 : i # j => i + 1 # j + 1  BY <1>2
  <2>5. \A i, j \in 1 .. Len(q) - 1 : i # j => Tail(q)[i].from # Tail(q)[j].from
    <3>1. ASSUME NEW i \in 1 .. Len(q) - 1, NEW j \in 1 .. Len(q) - 1, i # j
          PROVE  q[i + 1].from # q[j + 1].from
      BY <1>3, <2>1, <2>4, <3>1
    <3> QED  BY <1>2, <3>1
  <2> QED  BY <1>2, <1>8, <2>3, <2>5 DEF QueueIsWrites
<1>11. TookInOrder'  BY <1>2, <1>4, <1>6, <1>8, OneMoreTaken
<1>12. Counted'
  <2>1. \A s \in Targets : /\ contributor[s].state = "closing" => contributor'[s] = contributor[s]
                           /\ contributor[s].state # "closing" /\ terminated = "no" =>
                                 contributor'[s].state \in {"open", "writing", "interrupted"}
    BY <1>4, <1>5, <1>6 DEF InInv, Counted
  <2> QED  BY <1>1, <2>1, SameCount
<1>13. EndedRight'
  <2>1. ~ AllClosed  BY <1>2, <1>4 DEF AllClosed
  <2>2. \A s \in Targets : contributor'[s].aborts = contributor[s].aborts  BY <1>6
  <2> QED  BY <1>1, <1>8, <2>1, <2>2 DEF InInv, EndedRight
<1> QED  BY <1>9, <1>10, <1>11, <1>12, <1>13 DEF InInv

\* Those who were writing are refused.
LEMMA RefusedOnly ==
  ASSUME InInv, contributor' = WritersErrored(contributor)
  PROVE  /\ contributor' \in [Targets -> AContributor]
         /\ \A t \in Targets : /\ contributor'[t].acked = contributor[t].acked
                               /\ contributor'[t].wrote = contributor[t].wrote
                               /\ contributor'[t].state = IF contributor[t].state = "writing" THEN "errored" ELSE contributor[t].state
                               /\ contributor'[t].aborts = contributor[t].aborts
<1>1. \A t \in Targets : contributor'[t] = IF t \in Writing THEN [contributor[t] EXCEPT !.state = "errored"] ELSE contributor[t]
  BY DEF WritersErrored
<1>2. \A t \in Targets : contributor'[t] \in AContributor
  BY <1>1, InTypes DEF AContributor, ContributorStates
<1>3. contributor' \in [Targets -> AContributor]  BY <1>2 DEF WritersErrored
<1> QED  BY <1>1, <1>3, InTypes DEF Writing, AContributor

LEMMA FailsOK == InInv /\ Fails => InInv'
<1> SUFFICES ASSUME InInv, Fails PROVE InInv'  OBVIOUS
<1>1. /\ writer' = [writer EXCEPT !.queue = <<>>, !.state = "errored"]
      /\ contributor' = WritersErrored(contributor) /\ terminated' = IF terminated = "no" THEN "failed" ELSE terminated
      /\ completion' = "rejected" /\ active' = active
  BY DEF Fails
<1>2. writer' \in AWriter /\ writer'.queue = <<>> /\ writer'.took = writer.took /\ writer'.state = "errored"
  <2>1. <<>> \in Seq(AWrite)  OBVIOUS
  <2> QED  BY <1>1, <2>1, InTypes DEF AWriter
<1>3. InTypeOK' /\ OneAtATime'  BY <1>1, <1>2, RefusedOnly, InTypes DEF InInv, InTypeOK, OneAtATime
<1>4. QueueIsWrites' /\ TookInOrder'  BY <1>1, <1>2, RefusedOnly, NoQueue, SameTook
<1>5. Counted' /\ EndedRight'  BY <1>1, <1>2 DEF Counted, EndedRight
<1> QED  BY <1>3, <1>4, <1>5 DEF InInv

LEMMA CompletesOK == InInv /\ Completes => InInv'
<1> SUFFICES ASSUME InInv, Completes PROVE InInv'  OBVIOUS
<1>1. active' = active /\ terminated' = terminated /\ terminated # "no"  BY DEF Completes, InInv, EndedRight
<1>2. CASE /\ writer.state = "closing" /\ writer.queue = <<>>
           /\ writer' = [writer EXCEPT !.state = "closed"]
           /\ completion' = "resolved"
           /\ UNCHANGED contributor
  <2>1. writer' \in AWriter /\ writer'.queue = <<>> /\ writer'.took = writer.took /\ writer'.state = "closed"
    BY <1>2, InTypes DEF AWriter
  <2>2. InTypeOK' /\ OneAtATime'  BY <1>1, <1>2, <2>1 DEF InInv, InTypeOK, OneAtATime
  <2>3. QueueIsWrites' /\ TookInOrder'  BY <1>2, <2>1, NoQueue, SameTook
  <2>4. Counted' /\ EndedRight'  BY <1>1, <1>2, <2>1 DEF InInv, Counted, EndedRight, AllClosed
  <2> QED  BY <2>2, <2>3, <2>4 DEF InInv
<1>3. CASE /\ writer.state = "aborting"
           /\ writer' = [writer EXCEPT !.state = "errored", !.queue = <<>>]
           /\ completion' = "rejected"
           /\ contributor' = WritersErrored(contributor)
  <2>1. writer' \in AWriter /\ writer'.queue = <<>> /\ writer'.took = writer.took /\ writer'.state = "errored"
    <3>1. <<>> \in Seq(AWrite)  OBVIOUS
    <3> QED  BY <1>3, <3>1, InTypes DEF AWriter
  <2>2. InTypeOK' /\ OneAtATime'  BY <1>1, <1>3, <2>1, RefusedOnly, InTypes DEF InInv, InTypeOK, OneAtATime
  <2>3. QueueIsWrites' /\ TookInOrder'  BY <1>3, <2>1, RefusedOnly, NoQueue, SameTook
  <2>4. Counted' /\ EndedRight'  BY <1>1, <2>1 DEF Counted, EndedRight
  <2> QED  BY <2>2, <2>3, <2>4 DEF InInv
<1> QED  BY <1>2, <1>3 DEF Completes

LEMMA SettlesOK == \A t \in Targets : InInv /\ Settles(t) => InInv'
<1> SUFFICES ASSUME NEW t \in Targets, InInv, Settles(t) PROVE InInv'  OBVIOUS
<1> DEFINE st == IF completion = "resolved" THEN "closed" ELSE "errored"
<1>1. /\ contributor[t].state = "closing" /\ completion # "pending"
      /\ contributor' = [contributor EXCEPT ![t].state = st]
      /\ writer' = writer /\ active' = active /\ terminated' = terminated /\ completion' = completion
  BY DEF Settles, Told
<1>2. st \in {"closed", "errored"} /\ (completion = "resolved" => st = "closed")  OBVIOUS
<1> HIDE DEF st
<1>3. /\ contributor' \in [Targets -> AContributor]
      /\ contributor'[t].state = st /\ contributor'[t].acked = contributor[t].acked
      /\ contributor'[t].aborts = contributor[t].aborts
      /\ \A s \in Targets : s # t => contributor'[s] = contributor[s]
  <2>1. st \in ContributorStates  BY <1>2 DEF ContributorStates
  <2> QED  BY <1>1, <2>1, InTypes DEF AContributor
<1>4. terminated # "no"  BY <1>1 DEF InInv, Counted
<1>5. InTypeOK' /\ OneAtATime'  BY <1>1, <1>2, <1>3 DEF InInv, InTypeOK, OneAtATime
<1>6. QueueIsWrites' /\ TookInOrder'  BY <1>1, <1>3, SameQueue, SameTook
<1>7. Counted'  BY <1>1, <1>4 DEF Counted
<1>8. EndedRight'  BY <1>1, <1>2, <1>3 DEF InInv, EndedRight, AllClosed
<1> QED  BY <1>5, <1>6, <1>7, <1>8 DEF InInv

LEMMA InInvImplies == InInv => FaninTakesAll
  BY DEF InInv, EndedRight, TookInOrder, FaninTakesAll, AllClosed

-----------------------------------------------------------------------------

LEMMA SharedInit == IsFiniteSet(Targets) /\ OutInit /\ InInit => OutInv /\ InInv
  BY OutInitOK, InInitOK

\* What one of the two does leaves the other alone.
LEMMA SharedStep == IsFiniteSet(Targets) /\ OutInv /\ InInv /\ [OutNext \/ InNext]_fanvars => OutInv' /\ InInv'
<1> SUFFICES ASSUME IsFiniteSet(Targets), OutInv, InInv, [OutNext \/ InNext]_fanvars PROVE OutInv' /\ InInv'
  OBVIOUS
<1>1. ASSUME UNCHANGED outvars PROVE OutInv'
  BY <1>1 DEF outvars, OutInv, OutTypeOK, Pulling, PulledOut, ReadIsTrue, ChunkIsNext, Handled
<1>2. ASSUME UNCHANGED invars PROVE InInv'
  BY <1>2 DEF invars, InInv, InTypeOK, OneAtATime, QueueIsWrites, TookInOrder, Counted, StillOpen, EndedRight, AllClosed
<1>3. CASE OutNext
  <2>1. UNCHANGED invars  BY <1>3 DEF OutNext, SourceGives, SourceEnds, PullChunk, PullEnd, Take, Cancel
  <2>2. OutInv'  BY <1>3, SourceGivesOK, SourceEndsOK, PullChunkOK, PullEndOK, TakeOK, CancelOK DEF OutNext
  <2> QED  BY <1>2, <2>1, <2>2
<1>4. CASE InNext
  <2>1. UNCHANGED outvars
    BY <1>4 DEF InNext, Write, CloseContributor, AbortGoesOn, Settles, AbortContributor, AbortLater, Takes, Fails, Completes
  <2>2. InInv'
    <3>1. CASE Takes \/ Fails \/ Completes  BY <3>1, TakesOK, FailsOK, CompletesOK
    <3>2. ASSUME NEW t \in Targets, Write(t) \/ CloseContributor(t) \/ Settles(t)
          PROVE  InInv'
      BY <3>2, WriteOK, CloseContributorOK, SettlesOK
    <3>3. ASSUME NEW t \in Targets, AbortGoesOn(t)
          PROVE  InInv'
      <4>1. "none" \in {"reason", "none"}  OBVIOUS
      <4> QED  BY <3>3, <4>1, AbortsOK
    <3>4. ASSUME NEW t \in Targets, NEW why \in {"reason", "none"}, AbortContributor(t, why) \/ AbortLater(t, why)
          PROVE  InInv'
      BY <3>4, AbortsOK
    <3> QED  BY <1>4, <3>1, <3>2, <3>3, <3>4 DEF InNext
  <2> QED  BY <1>1, <2>1, <2>2
<1>5. CASE UNCHANGED fanvars  BY <1>1, <1>2, <1>5 DEF fanvars
<1> QED  BY <1>3, <1>4, <1>5

\* Whatever the targets of a broadcast do with the streams they share, each reads
\* every chunk as long as none cancels, and the original of a writable stream takes
\* what they wrote and ends as they did.
THEOREM StreamsAreShared == FanSpec => []SharedStreamsAgree
<1>1. OutInit /\ InInit => OutInv /\ InInv  BY TargetsAssumption, SharedInit
<1>2. OutInv /\ InInv /\ [OutNext \/ InNext]_fanvars => OutInv' /\ InInv'  BY TargetsAssumption, SharedStep
<1>3. OutInv /\ InInv => SharedStreamsAgree  BY OutInvImplies, InInvImplies DEF SharedStreamsAgree
<1> QED  BY <1>1, <1>2, <1>3, PTL DEF FanSpec

=============================================================================
