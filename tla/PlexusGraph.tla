----------------------------- MODULE PlexusGraph -----------------------------
(***************************************************************************)
(* Dependency graphs and the plans between them, as                        *)
(* packages/plexus/src/dependency-graph.ts and diff-result.ts build them.  *)
(*                                                                         *)
(* A plugin is a name and a version; Requires gives the version range of   *)
(* each name it depends on, a range being the sequence of its alternatives *)
(* (separated by || in its text), each the set of versions in it; texts    *)
(* that are empty or write an alternative as "a - b" are left out.  The    *)
(* graphs that are compared and sorted come from the resolver and hold one *)
(* version of a name, so that a graph is a function from names to          *)
(* versions, and a plugin's lock is read off it.  The order in which a Map *)
(* or a Set holds its members is left open.                                *)
(***************************************************************************)
EXTENDS Integers, Sequences, SequencesExt

CONSTANTS Names, Versions, Plugins, Requires

ASSUME PlexusAssumption ==
    /\ Versions \subseteq Nat
    /\ Plugins \subseteq Names \X Versions
    /\ \A p \in Plugins : /\ DOMAIN Requires[p] \subseteq Names
                          /\ \A d \in DOMAIN Requires[p] : Requires[p][d] \in Seq(SUBSET Versions) \ {<<>>}

Graphs == UNION { [S -> Versions] : S \in SUBSET Names }

Id(g, n) == <<n, g[n]>>
Ids(g)   == { Id(g, n) : n \in DOMAIN g }

Needs(p)   == DOMAIN Requires[p]
Lock(g, n) == [d \in Needs(Id(g, n)) \cap DOMAIN g |-> g[d]]

\* invertedAdj, and the names from which dependents() reaches n, n included.
Dependents(g, n) == { m \in DOMAIN g : n \in DOMAIN Lock(g, m) }
AllDependents(g, n) ==
    { m \in DOMAIN g : \A S \in SUBSET DOMAIN g :
          n \in S /\ (\A k \in S : Dependents(g, k) \subseteq S) => m \in S }

Missing(g) == \E n \in DOMAIN g : ~ (Needs(Id(g, n)) \subseteq DOMAIN g)
Cyclic(g)  == \E S \in SUBSET DOMAIN g \ {{}} : \A n \in S : DOMAIN Lock(g, n) \cap S # {}

IsCompleted(g) == ~ Missing(g) /\ ~ Cyclic(g)

\* Kahn's algorithm: every order in which it may list an acyclic graph.
Sorts(g) ==
    LET list[sorted \in Seq(Names), queue \in Seq(Names)] ==
            IF queue = <<>> THEN {sorted}
            ELSE LET now   == Append(sorted, Head(queue))
                     ready == { m \in Dependents(g, Head(queue)) : DOMAIN Lock(g, m) \subseteq ToSet(now) }
                 IN UNION { list[now, Tail(queue) \o r] : r \in SetToSeqs(ready) }
    IN UNION { list[<<>>, q] : q \in SetToSeqs({ n \in DOMAIN g : DOMAIN Lock(g, n) = {} }) }

\* A lock entry that is new does not make a plugin modified.
Modified(new, old) ==
    { n \in DOMAIN new \cap DOMAIN old :
        /\ new[n] = old[n]
        /\ \E d \in DOMAIN Lock(old, n) : d \notin DOMAIN Lock(new, n) \/ new[d] # old[d] }

Added(new, old) == { n \in DOMAIN new : n \in DOMAIN old => old[n] # new[n] }

Entries(op, g, order, chosen) ==
    LET taken == SelectSeq(order, LAMBDA n : n \in chosen)
    IN [i \in DOMAIN taken |-> [op |-> op, id |-> Id(g, taken[i])]]

\* Mutant: what is stopped is not listed backwards.
PlansForwards(new, old) ==
    { Entries("stop", old, s, Added(old, new) \cup Modified(new, old))
      \o Entries("start", new, t, Added(new, old) \cup Modified(new, old)) : s \in Sorts(old), t \in Sorts(new) }

\* DiffResult.sort: removed and replaced plugins are stopped, dependents
\* first; then added and modified ones are started, dependencies first.
Plans(new, old) ==
    { Entries("stop", old, Reverse(s), Added(old, new) \cup Modified(new, old))
      \o Entries("start", new, t, Added(new, old) \cup Modified(new, old)) : s \in Sorts(old), t \in Sorts(new) }
==============================================================================
