--------------------------- MODULE ErpcSerializer ---------------------------
(***************************************************************************)
(* A value on its way (packages/erpc: Serializer, its handlers of types;   *)
(* packages/ebus: Dispatcher, which copies what is broadcast).  A value is *)
(* a graph of nodes; serialized, it is the sequence of tokens of its tree. *)
(* All copies of a broadcast have the same shape, so that one stands for   *)
(* them all.                                                               *)
(***************************************************************************)
EXTENDS Naturals, Sequences, FiniteSets, SequencesExt, FiniteSetsExt

CONSTANTS
    Nodes, Root,   \* the nodes of the value's graph
    MaxItems       \* bound: items of a node

VARIABLES
    value,   \* kind and items of each node
    way,     \* "call", or "broadcast": copied first
    phase,   \* "copying", "serializing", "deserializing", "over", "failed"
    sent,    \* the value that is serialized: the original, or its copy
    frames,  \* the calls of _dispatch or _serialize under way: node and next item
    done,    \* what seen holds of a copy; the streams already used
    wire,    \* the tokens
    result,  \* the tokens after deserialization
    lent     \* references taken in the ResourceManager

valvars == <<value, way, phase, sent, frames, done, wire, result, lent>>

\* A "posing" node is a plain object that has an _erpc_type nobody registered;
\* a "held" one is the proxy of what another peer has pinned, a function.
ByValue    == {"data", "held"}
Containers == {"box", "posing"}
Streams    == {"stream"}
Special    == {"error", "pinned", "transport"}

Item == [kind : ByValue \cup Streams \cup Special, items : {<<>>}]
          \cup [kind : Containers, items : SeqOf(Nodes, MaxItems)]

ValStart ==
    /\ phase = IF way = "call" THEN "serializing" ELSE "copying"
    /\ sent = IF way = "call" THEN value
              ELSE [n \in Nodes |-> [kind |-> IF n = Root THEN "box" ELSE "data", items |-> <<>>]]
    /\ frames = <<[node |-> Root, next |-> 1]>>
    /\ done = {Root}
    /\ wire = IF way = "call" THEN <<[is |-> "open", of |-> Root]>> ELSE <<>>
    /\ result = <<>>
    /\ lent = [n \in Nodes |-> 0]

ValInit ==
    /\ value \in {v \in [Nodes -> Item] : v[Root].kind = "box"}
    /\ way \in {"call", "broadcast"}
    /\ ValStart

Top       == Last(frames)
Pushed(n) == Append([frames EXCEPT ![Len(frames)].next = @ + 1], [node |-> n, next |-> 1])
Passed    == [frames EXCEPT ![Len(frames)].next = @ + 1]
HasNext(v) == Top.next <= Len(v[Top.node].items)
NextOf(v)  == v[Top.node].items[Top.next]

----------------------------------------------------------------------------
(* Dispatcher._dispatch.                                                   *)

\* What the copy of a node is before its items: an object without a handler
\* becomes a plain one with its enumerable properties, which an Error and the
\* mark of pin() are not.
CopyKind(k) == IF k \in Special THEN "box" ELSE k

\* The copy of the node on top has one item more.
WithItem(n) == [sent EXCEPT ![Top.node].items = Append(@, n)]

\* seen: registered before its items are copied.
Copied(n) == n \in done

\* The top node has an item to copy: registered, by value, a stream or an object.
CopyItem ==
    /\ phase = "copying" /\ HasNext(value)
    /\ LET n == NextOf(value)
           k == value[n].kind
       IN \/ /\ k \in ByValue \/ (k \notin Streams /\ Copied(n))
             /\ sent' = IF k \in ByValue THEN [WithItem(n) EXCEPT ![n] = value[n]] ELSE WithItem(n)
             /\ frames' = Passed
             /\ UNCHANGED <<phase, done>>
          \/ /\ k \in Streams
             /\ IF n \in done
                THEN phase' = "failed" /\ UNCHANGED <<sent, frames, done>>
                ELSE /\ sent' = [WithItem(n) EXCEPT ![n] = value[n]]
                     /\ frames' = Passed /\ done' = done \cup {n}
                     /\ UNCHANGED phase
          \/ /\ k \in Containers \cup Special /\ ~Copied(n)
             /\ sent' = [WithItem(n) EXCEPT ![n].kind = CopyKind(k)]
             /\ frames' = Pushed(n) /\ done' = done \cup {n}
             /\ UNCHANGED phase
    /\ UNCHANGED <<value, way, wire, result, lent>>

\* All items are copied; when it was the root's turn, the copy is serialized,
\* its streams being new ones.
CopyDone ==
    /\ phase = "copying" /\ ~HasNext(value)
    /\ IF Len(frames) = 1
       THEN /\ phase' = "serializing" /\ done' = {Root}
            /\ frames' = <<[node |-> Root, next |-> 1]>>
            /\ wire' = <<[is |-> "open", of |-> Root]>>
       ELSE frames' = Front(frames) /\ UNCHANGED <<phase, done, wire>>
    /\ UNCHANGED <<value, way, sent, result, lent>>

----------------------------------------------------------------------------
(* Serializer._serialize.                                                  *)

\* Mutant: what has been serialized once is taken for a cycle.
SeenBefore(n) == n \in done
\* seen holds the objects whose items are being serialized.
OnTheWay(n) == \E i \in DOMAIN frames : frames[i].node = n

\* The placeholder of a handler of types, or the value as it is; a stream that
\* is piped already has no data for a second placeholder.
Token(n) ==
    LET k == sent[n].kind
    IN [is |-> IF k = "stream" /\ n \in done THEN "dry" ELSE k, of |-> n]

\* pin handler: the placeholder stands for one reference in the ResourceManager.
LendsTo(k, n) == lent' = IF k = "pinned" THEN [lent EXCEPT ![n] = @ + 1] ELSE lent

SerializeItem ==
    /\ phase = "serializing" /\ HasNext(sent)
    /\ LET n == NextOf(sent)
           k == sent[n].kind
       IN \/ /\ k \notin Containers
             /\ wire' = Append(wire, Token(n))
             /\ frames' = Passed
             /\ done' = IF k = "stream" THEN done \cup {n} ELSE done
             /\ LendsTo(k, n)
             /\ UNCHANGED phase
          \/ /\ k \in Containers /\ OnTheWay(n)
             /\ phase' = "failed"
             /\ UNCHANGED <<wire, frames, done, lent>>
          \/ /\ k \in Containers /\ ~OnTheWay(n)
             /\ wire' = Append(wire, [is |-> IF k = "box" THEN "open" ELSE "posing", of |-> n])
             /\ frames' = Pushed(n) /\ done' = done \cup {n}
             /\ UNCHANGED <<phase, lent>>
    /\ UNCHANGED <<value, way, sent, result>>

SerializeDone ==
    /\ phase = "serializing" /\ ~HasNext(sent)
    /\ wire' = Append(wire, [is |-> "close", of |-> Top.node])
    /\ frames' = Front(frames)
    /\ phase' = IF Len(frames) = 1 THEN "deserializing" ELSE phase
    /\ UNCHANGED <<value, way, sent, done, result, lent>>

----------------------------------------------------------------------------
(* Serializer.deserialize.                                                 *)

\* What a placeholder becomes.
Restored(k) ==
    CASE k = "pinned" -> "proxy" [] k = "stream" -> "remote stream" [] k = "dry" -> "silent stream"
      [] k = "transport" -> "proxy transport" [] OTHER -> k

\* Whether the token is inside an object that poses as a placeholder, which is
\* returned as it came.
Inside(i) == \E j \in 1 .. i - 1 : /\ wire[j].is = "posing"
                                   /\ \A m \in j .. i - 1 : ~(wire[m].is = "close" /\ wire[m].of = wire[j].of)

Deserialize ==
    /\ phase = "deserializing"
    /\ result' = [i \in DOMAIN wire |-> IF Inside(i) THEN wire[i] ELSE [wire[i] EXCEPT !.is = Restored(@)]]
    /\ phase' = "over"
    /\ UNCHANGED <<value, way, sent, frames, done, wire, lent>>

ValNext == CopyItem \/ CopyDone \/ SerializeItem \/ SerializeDone \/ Deserialize

----------------------------------------------------------------------------
(* Properties.                                                             *)

\* The tree of a value as its receiver should see it.
RECURSIVE Unfolded(_, _)
Unfolded(n, raw) ==
    LET k == IF way = "broadcast" THEN CopyKind(value[n].kind) ELSE value[n].kind
    IN IF k \in Containers
       THEN <<IF k = "box" THEN "open" ELSE "posing">>
            \o FlattenSeq([i \in DOMAIN value[n].items |-> Unfolded(value[n].items[i], raw \/ k = "posing")])
            \o <<"close">>
       ELSE <<IF raw THEN k ELSE Restored(k)>>

RECURSIVE Visits(_, _)
Visits(n, path) ==
    IF n \in path \/ value[n].items = <<>> THEN {path \cup {n}}
    ELSE UNION {Visits(value[n].items[i], path \cup {n}) : i \in DOMAIN value[n].items} \cup {path \cup {n}}
Reached == UNION Visits(Root, {})
Leads   == {e \in Reached \X Reached : Contains(value[e[1]].items, e[2])}
Cyclic  == \E n \in Reached : \E p \in SUBSET Reached :
               /\ n \in p
               /\ \A m \in p : \E o \in p : <<m, o>> \in Leads

Places(s) == {e \in Reached \X (1 .. MaxItems) : e[2] \in DOMAIN value[e[1]].items /\ value[e[1]].items[e[2]] = s}

\* Whatever handlers, sharing and cycles a value has, the receiver gets the
\* tree that was sent, with a proxy for every reference that was taken to a
\* pinned object; a call is refused only for a cycle, and a broadcast also for
\* a stream that two copies of one message would share (Serializer, Dispatcher).
ArrivesAsSent ==
    /\ phase = "over" =>
         /\ ~Cyclic
         /\ [i \in DOMAIN result |-> IF result[i].is = "silent stream" THEN "remote stream"
                                     ELSE IF result[i].is = "dry" THEN "stream" ELSE result[i].is]
              = Unfolded(Root, FALSE)
         /\ \A n \in Nodes : lent[n] = Cardinality({i \in DOMAIN wire : wire[i] = [is |-> "pinned", of |-> n]})
    /\ phase = "failed" =>
         \/ Cyclic
         \/ way = "broadcast" /\ \E s \in Reached : value[s].kind = "stream" /\ Cardinality(Places(s)) > 1

=============================================================================
