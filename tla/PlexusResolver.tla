---------------------------- MODULE PlexusResolver ----------------------------
(***************************************************************************)
(* The backtracking resolver of packages/plexus/src/dependency-resolver.ts *)
(* over one provider, and what it is for.  known[n] is the set of versions *)
(* of n that the resolver sees.                                            *)
(***************************************************************************)
EXTENDS PlexusGraph

CONSTANT Prereleases    \* the versions that are prereleases; no range of a plugin names one

ASSUME PrereleaseAssumption == Prereleases \subseteq Versions

\* A range of each name, or <<>> where nothing is asked of it.
Constraints == [Names -> Seq(SUBSET Versions)]

Constrained(ranges) == { n \in Names : ranges[n] # <<>> }

\* The versions in a range.
Within(range) == UNION ToSet(range)

\* Mutant: only the best candidate is tried.
CandidatesFirst(n, range, known, locked) ==
    LET fit  == known[n] \cap Within(range)
        down == SetToSortSeq(fit, LAMBDA v, w : v > w)
    IN IF fit = {} THEN <<>> ELSE <<down[1]>>

\* getAvailableVersions: the locked version first, then the newest first.
Candidates(n, range, known, locked) ==
    LET fit  == known[n] \cap Within(range)
        down == SetToSortSeq(fit, LAMBDA v, w : v > w)
    IN IF n \in DOMAIN locked /\ locked[n] \in fit
       THEN <<locked[n]>> \o SelectSeq(down, LAMBDA v : v # locked[n])
       ELSE down

\* What is resolved already is compared without includePrerelease.
Conflicts(g, p) == \E d \in Needs(p) \cap DOMAIN g : g[d] \notin Within(Requires[p][d]) \ Prereleases

\* #intersectRanges writes one range after the other: only the last alternative of
\* the one and the first of the other are intersected, the others are let through.
Joined(r, s) == IF r = <<>> THEN s ELSE Front(r) \o <<Last(r) \cap Head(s)>> \o Tail(s)

Narrowed(ranges, p) ==
    [n \in Names |-> IF n \in Needs(p) THEN Joined(ranges[n], Requires[p][n]) ELSE ranges[n]]

\* #selectNextDependency: one of the names left with the fewest candidates; ties are
\* open.  Every name left is asked for.
Fewest(unresolved, ranges, known) ==
    LET Count(n) == Cardinality(known[n] \cap Within(ranges[n]))
    IN { n \in unresolved : \A m \in unresolved : Count(n) <= Count(m) }

\* #solve: every outcome, with the names whose versions were asked for.  The memo
\* only saves work.
Solve(known, locked) ==
    LET solve[g \in Graphs, ranges \in Constraints] ==
            LET unresolved == Constrained(ranges) \ DOMAIN g
                Explore(n) ==
                    LET vs == Candidates(n, ranges[n], known, locked)
                        from[i \in 1 .. Len(vs) + 1] ==
                            IF i > Len(vs) THEN { [solved |-> FALSE, graph |-> <<>>, asked |-> unresolved] }
                            ELSE IF Conflicts(g, <<n, vs[i]>>) THEN from[i + 1]
                            ELSE UNION { IF o.solved THEN { [o EXCEPT !.asked = @ \cup unresolved] }
                                         ELSE { [t EXCEPT !.asked = @ \cup o.asked] : t \in from[i + 1] } :
                                         o \in solve[g @@ (n :> vs[i]), Narrowed(ranges, <<n, vs[i]>>)] }
                    IN from[1]
            IN IF unresolved = {} THEN { [solved |-> TRUE, graph |-> g, asked |-> {}] }
               ELSE UNION { Explore(n) : n \in Fewest(unresolved, ranges, known) }
    IN solve

\* resolve: nothing is resolved at first, and the requirements are all there is.
Outcomes(requirements, known, locked) == Solve(known, locked)[<<>>, requirements]

----------------------------------------------------------------------------
(* What a resolution is, whatever finds it.                                *)

Solves(g, requirements, known) ==
    /\ Constrained(requirements) \subseteq DOMAIN g
    /\ \A n \in DOMAIN g :
          /\ g[n] \in known[n]
          /\ n \in Constrained(requirements) => g[n] \in Within(requirements[n])
          /\ \A d \in Needs(Id(g, n)) : d \in DOMAIN g /\ g[d] \in Within(Requires[Id(g, n)][d])

\* ... and what others depend on is no prerelease.
SolvableByReleases(requirements, known) ==
    \E g \in Graphs : /\ Solves(g, requirements, known)
                      /\ \A n \in DOMAIN g : Dependents(g, n) # {} => g[n] \notin Prereleases

RangesOn(g, requirements, n) ==
    { requirements[m] : m \in {n} \cap Constrained(requirements) }
    \cup { Requires[Id(g, m)][n] : m \in Dependents(g, n) }

\* What is found where ranges have alternatives: a name on which there is such a range
\* may have a version that only one of its ranges admits.
SolvesWherePlain(g, requirements) ==
    /\ Constrained(requirements) \subseteq DOMAIN g
    /\ ~ Missing(g)
    /\ \A n \in DOMAIN g :
          LET ranges == RangesOn(g, requirements, n)
              fits   == { range \in ranges : g[n] \in Within(range) }
          IN fits = ranges \/ (fits # {} /\ \E range \in ranges : Len(range) > 1)
===============================================================================
