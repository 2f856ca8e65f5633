------------------------------ MODULE ErpcApi ------------------------------
(***************************************************************************)
(* From a client's proxy to a procedure's handler (packages/erpc: client,  *)
(* router, middleware, inject and the procedure builder; packages/ebus:    *)
(* the publisher's proxy and the contexts its local node manager injects). *)
(* A proxy gathers a path and metadata; the server finds the procedure and *)
(* runs the call down its chain of middlewares to the handler, and the     *)
(* outcome back up.  An API is a tree whose routers have keys; a key with  *)
(* a dot in it stands for several segments of a path.                      *)
(***************************************************************************)
EXTENDS Naturals, Sequences, FiniteSets, SequencesExt

CONSTANTS
    Keys,        \* keys of routers, as the sequences of segments they hold
    Subpaths,    \* paths the program gives to invoke()
    Chains,      \* middlewares of a procedure: "input", "output", "retry"
    Arity,       \* number of arguments an input validator asks for
    MaxDepth,    \* bound: keys on the way to a procedure, and properties taken of a proxy
    MaxEntries,  \* bound: procedures of an API
    MaxMeta      \* bound: calls of meta()

\* The segments of paths; an empty path is one when it is joined to another.
Segments == {""} \cup UNION {ToSet(k) : k \in Keys \cup Subpaths}

ASSUME ApiAssumption ==
    /\ Keys \subseteq Seq(Segments) /\ Subpaths \subseteq Seq(Segments)
    /\ Chains \subseteq Seq({"input", "output", "retry"})
    /\ Arity \in Nat /\ MaxDepth \in Nat /\ MaxEntries \in Nat /\ MaxMeta \in Nat

VARIABLES
    api,      \* the procedures, in the order in which the tree is traversed
    chain,    \* the middlewares of the one that is called
    route,    \* how the call travels: "server", "p2p" or "broadcast"
    client,   \* the proxy in the program's hands: its path and metadata
    call,     \* the call made of it
    level,    \* the middleware whose turn it is; the handler's comes after the last
    dir,      \* "down" to the handler, "up" with the outcome
    opts,     \* what each level has been given: context, metadata, input
    outcome,  \* "returned" by the handler, "checked" by an output validator, or "failed"
    retried   \* whether the retrying middleware has called next() twice

apivars == <<api, chain, route, client, call, level, dir, opts, outcome, retried>>

Actions   == {"ask", "tell"}
Unmade    == [state |-> "none", path |-> <<>>, action |-> "ask", count |-> 0, meta |-> <<>>, found |-> 0]

\* The input of a call; ebus may lose it.
Input(n) == [there |-> TRUE, list |-> [i \in 1 .. n |-> "raw"]]
NoInput  == [there |-> FALSE, list |-> <<>>]

KeyLists == UNION {[1 .. n -> Keys] : n \in 0 .. MaxDepth}
PathOf(e) == FlattenSeq(e.keys)

\* No procedure lies below another one.
IsTree(a) == \A i, j \in DOMAIN a : IsPrefix(a[i].keys, a[j].keys) => i = j
ApiEntry == [keys : KeyLists, type : Actions \cup {"dynamic"}]
Apis == {a \in UNION {[1 .. n -> ApiEntry] : n \in 1 .. MaxEntries} : IsTree(a)}

ApiInit ==
    /\ api \in Apis /\ chain \in Chains
    /\ route \in {"server", "p2p", "broadcast"}
    /\ client = [path |-> <<>>, meta |-> <<>>]
    /\ call = Unmade
    /\ level = 0 /\ dir = "down" /\ opts = <<>> /\ outcome = "none" /\ retried = FALSE

----------------------------------------------------------------------------
(* The client's and the publisher's proxies.                               *)

Idle == call.state = "none"

Get(k) ==
    /\ Idle /\ Len(client.path) < MaxDepth
    /\ client' = [client EXCEPT !.path = @ \o k]
    /\ UNCHANGED <<api, chain, route, call, level, dir, opts, outcome, retried>>

\* The metadata so far, and one value more.
Meta ==
    /\ Idle /\ Len(client.meta) < MaxMeta
    /\ client' = [client EXCEPT !.meta = Append(@, Len(@) + 1)]
    /\ UNCHANGED <<api, chain, route, call, level, dir, opts, outcome, retried>>

\* The trie of dynamic procedures, a node being the path that leads to it.
TrieNodes(a) == UNION {{SubSeq(PathOf(a[i]), 1, n) : n \in 0 .. Len(PathOf(a[i]))} :
                       i \in {j \in DOMAIN a : a[j].type = "dynamic"}}

\* What buildProcedureMaps has put under a path last; 0 stands for nothing.
StoredAt(a, path, types) ==
    LET put == {i \in DOMAIN a : PathOf(a[i]) = path /\ a[i].type \in types}
    IN IF put = {} THEN 0 ELSE CHOOSE i \in put : \A j \in put : j <= i

\* findLongestPrefix: from the root as far as the path goes in the trie.
LongestPrefix(a, path) ==
    LET on    == {n \in 0 .. Len(path) : \A m \in 0 .. n : SubSeq(path, 1, m) \in TrieNodes(a)}
        found == {n \in on : StoredAt(a, SubSeq(path, 1, n), {"dynamic"}) # 0}
    IN IF found = {} THEN 0
       ELSE StoredAt(a, SubSeq(path, 1, CHOOSE n \in found : \A m \in found : m <= n), {"dynamic"})

\* findProcedure.
FindProcedure(a, path) ==
    IF StoredAt(a, path, Actions) # 0 THEN StoredAt(a, path, Actions) ELSE LongestPrefix(a, path)

\* inject: a context provider before every procedure's middlewares.
Injected(c) == IF route = "server" THEN c ELSE <<"inject">> \o c

\* What a middleware is given, and may give on to the next.
Opts(ctx, meta, input) == [ctx |-> ctx, meta |-> meta, input |-> input]

\* What reaches the procedure: a node's manager puts the caller's context before
\* the metadata; a broadcast hands every target a column of its arguments, and
\* without arguments there is no column.
Arriving(n, meta) ==
    Opts("none",
         IF route = "server" THEN meta ELSE <<"caller">> \o meta,
         IF route = "broadcast" /\ n = 0 THEN NoInput ELSE Input(n))

\* The call is made, travels, and is looked up; one that finds no procedure fails.
Requested(path, action, n) ==
    LET found == FindProcedure(api, path)
    IN /\ Idle
       /\ call' = [state |-> IF found = 0 THEN "over" ELSE "running", path |-> path, action |-> action,
                   count |-> n, meta |-> client.meta, found |-> found]
       /\ chain' = Injected(chain)
       /\ opts' = <<Arriving(n, client.meta)>>
       /\ outcome' = IF found = 0 THEN "failed" ELSE "none"
       /\ level' = 1 /\ dir' = "down"
       /\ UNCHANGED <<api, route, client, retried>>

Call(action, n) == route # "broadcast" /\ Requested(client.path, action, n)

\* Of a publisher: all(...) is an ask of everyone who listens.
Publish(action, n) == route = "broadcast" /\ Requested(client.path, action, n)

\* A path of no segments is the empty string, which makes a segment of its own
\* when it is joined to another.
Joined(p, q) == IF p = <<>> THEN q ELSE p \o IF q = <<>> THEN <<"">> ELSE q

Invoke(sub, action, n) == route # "broadcast" /\ Requested(Joined(client.path, sub), action, n)

----------------------------------------------------------------------------
(* executeMiddlewareChain.                                                 *)

Running    == call.state = "running"
Middleware == chain[level]
AtHandler  == Running /\ dir = "down" /\ level = Len(chain) + 1

\* next(): the level below is given o.
CallsNext(o) ==
    /\ level' = level + 1 /\ opts' = Append(opts, o)
    /\ UNCHANGED <<dir, outcome>>

\* The level ends with an outcome for the one above.
HandsUp(result) ==
    /\ level' = level - 1 /\ dir' = "up" /\ outcome' = result
    /\ opts' = SubSeq(opts, 1, level - 1)

\* Mutant: the context stays in the metadata.
InjectsOnly(o) == CallsNext([o EXCEPT !.ctx = Head(o.meta)])

\* The injector takes its context out of the metadata.
Inject(o) ==
    IF o.meta # <<>> /\ Head(o.meta) = "caller"
    THEN CallsNext([o EXCEPT !.ctx = Head(o.meta), !.meta = Tail(@)])
    ELSE HandsUp("failed")

\* An input validator counts the arguments, then parses each.
Validate(o) ==
    \/ /\ o.input.there /\ Len(o.input.list) = Arity
       /\ CallsNext([o EXCEPT !.input.list = [i \in 1 .. Arity |-> "parsed"]])
    \/ HandsUp("failed")

Enter ==
    /\ Running /\ dir = "down" /\ level <= Len(chain)
    /\ LET o == opts[level]
       IN CASE Middleware = "inject" -> Inject(o)
            [] Middleware = "input"  -> Validate(o)
            [] OTHER                 -> CallsNext(o)
    /\ UNCHANGED <<api, chain, route, client, call, retried>>

\* An ask or a tell spreads its arguments, whichever of them it is called by;
\* a dynamic procedure is handed them as they are.
Handle ==
    /\ AtHandler
    /\ \E result \in {"returned", "failed"} :
          /\ result = "returned" => opts[level].input.there \/ api[call.found].type = "dynamic"
          /\ HandsUp(result)
    /\ UNCHANGED <<api, chain, route, client, call, retried>>

\* A level hands the outcome up, an output validator having parsed what was
\* returned; a middleware that tries again gives next() what it was given itself.
Leave ==
    /\ Running /\ dir = "up" /\ level > 0
    /\ \/ /\ Middleware = "output" /\ outcome # "failed"
          /\ \E result \in {"checked", "failed"} : HandsUp(result)
          /\ UNCHANGED retried
       \/ /\ Middleware = "retry" /\ outcome = "failed" /\ ~retried
          /\ retried' = TRUE /\ dir' = "down" /\ outcome' = "none"
          /\ level' = level + 1 /\ opts' = Append(SubSeq(opts, 1, level), opts[level])
       \/ /\ Middleware = "output" => outcome = "failed"
          /\ Middleware = "retry" /\ outcome = "failed" => retried
          /\ HandsUp(outcome)
          /\ UNCHANGED retried
    /\ UNCHANGED <<api, chain, route, client, call>>

\* execute: an ask is told the outcome, a tell is not.
Finish ==
    /\ Running /\ dir = "up" /\ level = 0
    /\ call' = [call EXCEPT !.state = "over"]
    /\ UNCHANGED <<api, chain, route, client, level, dir, opts, outcome, retried>>

ApiNext ==
    \/ \E k \in Keys : Get(k)
    \/ Meta
    \/ \E action \in Actions, n \in 0 .. Arity : Call(action, n) \/ Publish(action, n) \/ \E sub \in Subpaths : Invoke(sub, action, n)
    \/ Enter \/ Handle \/ Leave \/ Finish

ApiSpec == ApiInit /\ [][ApiNext]_apivars

----------------------------------------------------------------------------
(* Properties.                                                             *)

\* How much of a path an entry answers for; nothing it does not match.
AnswersFor(e, path) == IF e.type = "dynamic" THEN IsPrefix(PathOf(e), path) ELSE PathOf(e) = path

\* The procedure that runs answers for the path of the call, and none that
\* answers for more of it was passed over, an exact one before a dynamic one;
\* a call fails for want of a procedure only when none answers for its path
\* (findProcedure, Trie.findLongestPrefix).
RightProcedureRuns ==
    ~Idle =>
    LET able == {i \in DOMAIN api : AnswersFor(api[i], call.path)}
    IN /\ call.found = 0 <=> able = {}
       /\ call.found # 0 => /\ call.found \in able
                            /\ \A i \in able : LET p == api[i]
                                                   f == api[call.found]
                                               IN /\ Len(PathOf(p)) <= Len(PathOf(f))
                                                  /\ f.type = "dynamic" => p.type = "dynamic"

\* However the call came, however often a middleware tries again, the handler
\* sees the caller's context and the caller's metadata, and input that every
\* validator has accepted; and an ask is told of success only when the handler
\* returned and every output validator accepted what it did (inject,
\* executeMiddlewareChain, createProcedureBuilder).
HandlerSeesCaller ==
    /\ AtHandler =>
         LET o == opts[level]
         IN /\ o.ctx = (IF route = "server" THEN "none" ELSE "caller")
            /\ o.meta = call.meta
            /\ o.input.there => Len(o.input.list) = call.count
            /\ ~o.input.there => route = "broadcast" /\ call.count = 0
            /\ Contains(chain, "input") => o.input = [there |-> TRUE, list |-> [i \in 1 .. Arity |-> "parsed"]]
    /\ call.state = "over" /\ call.found # 0 /\ outcome # "failed" =>
         outcome = (IF Contains(chain, "output") THEN "checked" ELSE "returned")

\* A call is answered by the right procedure, which sees what its caller sent
\* and whose outcome is what the caller is told.
CallsAreHandled == RightProcedureRuns /\ HandlerSeesCaller

=============================================================================
