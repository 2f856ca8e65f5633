---------------------------- MODULE MemTransport ----------------------------
(***************************************************************************)
(* Two linked MemoryTransports in one process.  The methods of one call    *)
(* those of the other directly; messages, resumed sends and the closing of *)
(* a transport are microtasks, which run in the order they were queued,    *)
(* with steps of the programs between them.                                *)
(*                                                                         *)
(* The listener of a channel is "none", "on" or "once", and "spent" after  *)
(* a "once" has had the one message it takes: hasListener stays true.      *)
(* A channel made again under its id after it left the map is another      *)
(* object; the old one is closed, and only the newest is kept here.        *)
(*                                                                         *)
(* A channel is announced to the program of its side, whose handler runs   *)
(* there and then, before the channel is linked or is given a message: it  *)
(* may listen, send and close at once, or do none of these.  Whatever else *)
(* a callback does is a later step of the programs.                        *)
(***************************************************************************)
EXTENDS Naturals, Sequences, FiniteSets, SequencesExt, Ends

CONSTANTS
    Ids,        \* stream channels
    OpenerOf,   \* [Ids -> Sides], who opens it
    MaxSends    \* bounds the messages sent

CtlId == "control"

ASSUME MemAssumption ==
    /\ IsFiniteSet(Ids) /\ CtlId \notin Ids
    /\ OpenerOf \in [Ids -> Sides]
    /\ MaxSends \in Nat

VARIABLES
    down,       \* per side, _isClosed
    control,    \* per side, its control channel
    chan,       \* per side and id, the stream channel
    waiting,    \* per side and id, sends waiting for the ready signal of the other end
    tasks,      \* the queue of microtasks
    sent,       \* per side and channel, how many messages send() was given (history)
    gone        \* per side and channel, those that were refused or dropped (history)

mvars == <<down, control, chan, waiting, tasks, sent, gone>>

Channels == Ids \cup {CtlId}

Listeners == {"none", "on", "once", "spent"}
Answers == {"none", "on", "once"}      \* what a handler sets as it is called
HasListener(c) == c.listener # "none"
Usable(c) == c.linked /\ ~c.isClosed

ControlChannel == [made : BOOLEAN, isClosed : BOOLEAN, listener : Listeners,
                   queue : Seq(1..MaxSends), heard : Seq(1..MaxSends)]
StreamChannel == [known : BOOLEAN, isClosed : BOOLEAN, listener : Listeners, linked : BOOLEAN,
                  early : BOOLEAN,   \* closed by its handler as it was announced (history)
                  heard : Seq(1..MaxSends)]

NewControl == [made |-> TRUE, isClosed |-> FALSE, listener |-> "none", queue |-> <<>>, heard |-> <<>>]
NoControl == [NewControl EXCEPT !.made = FALSE]
NoStream == [known |-> FALSE, isClosed |-> FALSE, listener |-> "none", linked |-> FALSE,
             early |-> FALSE, heard |-> <<>>]

Tasks == [type : {"message"}, to : Sides, id : Channels, n : 1..MaxSends]
         \cup [type : {"resume"}, at : Sides, id : Ids, n : 1..MaxSends]
         \cup [type : {"destroy"}]

MemTypeOK ==
    /\ down \in [Sides -> BOOLEAN]
    /\ control \in [Sides -> ControlChannel]
    /\ chan \in [Sides -> [Ids -> StreamChannel]]
    /\ waiting \in [Sides -> [Ids -> Seq(1..MaxSends)]]
    /\ tasks \in Seq(Tasks)
    /\ sent \in [Sides -> [Channels -> 0..MaxSends]]
    /\ gone \in [Sides -> [Channels -> SUBSET (1..MaxSends)]]

MemInit ==
    /\ down = [x \in Sides |-> FALSE]
    /\ control = [x \in Sides |-> NoControl]
    /\ chan = [x \in Sides |-> [i \in Ids |-> NoStream]]
    /\ waiting = [x \in Sides |-> [i \in Ids |-> <<>>]]
    /\ tasks = <<>>
    /\ sent = [x \in Sides |-> [i \in Channels |-> 0]]
    /\ gone = [x \in Sides |-> [i \in Channels |-> {}]]

-----------------------------------------------------------------------------
(* Channels. *)

\* emitting a message on a channel: whether a listener hears it
Hears(c) == c.listener \in {"on", "once"}
Emitted(c, n) ==
    IF Hears(c)
    THEN [c EXCEPT !.heard = Append(@, n), !.listener = IF @ = "once" THEN "spent" ELSE @]
    ELSE c

\* Mutant: the queue is not flushed
SetControlListenerOnly(c, kind) == [c EXCEPT !.listener = kind, !.queue = <<>>]

\* MemoryControlChannel._setListener(): the queue is flushed to the new listener,
\* one message after the other
SetControlListener(c, kind) ==
    [c EXCEPT !.listener = IF kind = "once" /\ c.queue # <<>> THEN "spent" ELSE kind,
              !.queue    = <<>>,
              !.heard    = @ \o IF kind = "once" /\ c.queue # <<>> THEN <<Head(c.queue)>> ELSE c.queue]

\* ... and those after the first find no listener any more
FlushedToNobody(c, kind) ==
    IF kind = "once" /\ c.queue # <<>> THEN ToSet(Tail(c.queue)) ELSE {}

\* _getOrCreateStreamChannel(): a new channel is announced, and its handler sets a
\* listener or none, and may close it
Obtained(c, kind, closes) ==
    IF c.known THEN c
    ELSE [NoStream EXCEPT !.known = TRUE, !.heard = c.heard, !.listener = kind, !.isClosed = closes, !.early = closes]

\* the ready signal: a channel has had a listener, or is closed
IsReady(c) == HasListener(c) \/ c.isClosed

\* the sends that wait for an end are resumed when it gets its first listener, or
\* is closed without one
Resumes(x, i) ==
    [k \in 1..Len(waiting[x][i]) |-> [type |-> "resume", at |-> x, id |-> i, n |-> waiting[x][i][k]]]

\* ... those of every end that is closed, one end after the other
AllResumes(closed) == FlattenSeq(SetToSeq({Resumes(x, i) : x \in Sides, i \in closed}))

\* _destroy() of one end destroys the other, through the maps of both transports
EndsClosed(closed, before) ==
    /\ chan' = [x \in Sides |-> [i \in Ids |->
                   IF i \in closed /\ chan[x][i].known
                   THEN [chan[x][i] EXCEPT !.isClosed = TRUE, !.known = FALSE] ELSE chan[x][i]]]
    /\ waiting' = [x \in Sides |-> [i \in Ids |-> IF i \in closed THEN <<>> ELSE waiting[x][i]]]
    /\ tasks' = before \o AllResumes(closed)

-----------------------------------------------------------------------------
(* The programs. *)

AllSent == MapThenSumSet(LAMBDA p : sent[p[1]][p[2]], Sides \X Channels)

\* getControlChannel()
GetControl(x) ==
    /\ ~down[x]
    /\ ~control[x].made
    /\ control' = [control EXCEPT ![x] = NewControl]
    /\ UNCHANGED <<down, chan, waiting, tasks, sent, gone>>

SendControl(x) ==
    /\ control[x].made
    /\ AllSent < MaxSends
    /\ sent' = [sent EXCEPT ![x][CtlId] = @ + 1]
    /\ IF control[x].isClosed
       THEN /\ gone' = [gone EXCEPT ![x][CtlId] = @ \cup {sent[x][CtlId] + 1}]
            /\ UNCHANGED tasks
       ELSE /\ tasks' = Append(tasks, [type |-> "message", to |-> Peer(x), id |-> CtlId,
                                       n |-> sent[x][CtlId] + 1])
            /\ UNCHANGED gone
    /\ UNCHANGED <<down, control, chan, waiting>>

OnMessage(x, kind) ==
    /\ control[x].made
    /\ ~control[x].isClosed
    /\ control' = [control EXCEPT ![x] = SetControlListener(@, kind)]
    /\ gone' = [gone EXCEPT ![Peer(x)][CtlId] = @ \cup FlushedToNobody(control[x], kind)]
    /\ UNCHANGED <<down, chan, waiting, tasks, sent>>

\* the other side's control channel is not told
CloseControl(x) ==
    /\ control[x].made
    /\ ~control[x].isClosed
    /\ control' = [control EXCEPT ![x].isClosed = TRUE, ![x].queue = <<>>]
    /\ gone' = [gone EXCEPT ![Peer(x)][CtlId] = @ \cup ToSet(control[x].queue)]
    /\ UNCHANGED <<down, chan, waiting, tasks, sent>>

\* openOutgoingStreamChannel(): the other end is made and announced before it is
\* linked, so its handler closes it alone and what it sends is refused
OpenOutgoing(i, kind, closes, sends) ==
    LET x == OpenerOf[i]
        y == Peer(x)
    IN /\ ~down[x]
       /\ ~chan[x][i].known /\ ~chan[x][i].isClosed
       /\ chan' = [chan EXCEPT ![x][i] = [NoStream EXCEPT !.known = TRUE, !.linked = TRUE],
                               ![y][i] = [Obtained(@, kind, closes) EXCEPT !.linked = TRUE]]
       /\ IF sends
          THEN /\ AllSent < MaxSends
               /\ sent' = [sent EXCEPT ![y][i] = @ + 1]
               /\ gone' = [gone EXCEPT ![y][i] = @ \cup {sent[y][i] + 1}]
          ELSE UNCHANGED <<sent, gone>>
       /\ UNCHANGED <<down, control, waiting, tasks>>

\* Mutant: send() does not wait for the other end
SendsAtOnce(x, i) ==
    /\ Usable(chan[x][i])
    /\ AllSent < MaxSends
    /\ sent' = [sent EXCEPT ![x][i] = @ + 1]
    /\ tasks' = Append(tasks, [type |-> "resume", at |-> x, id |-> i, n |-> sent[x][i] + 1])
    /\ UNCHANGED <<down, control, chan, waiting, gone>>

\* send() of a stream channel: refused, or waiting for the ready signal
SendData(x, i) ==
    LET n == sent[x][i] + 1
    IN /\ chan[x][i].known \/ chan[x][i].isClosed
       /\ AllSent < MaxSends
       /\ sent' = [sent EXCEPT ![x][i] = n]
       /\ \/ /\ ~Usable(chan[x][i])
             /\ gone' = [gone EXCEPT ![x][i] = @ \cup {n}]
             /\ UNCHANGED <<waiting, tasks>>
          \/ /\ Usable(chan[x][i]) /\ IsReady(chan[Peer(x)][i])
             /\ tasks' = Append(tasks, [type |-> "resume", at |-> x, id |-> i, n |-> n])
             /\ UNCHANGED <<waiting, gone>>
          \/ /\ Usable(chan[x][i]) /\ ~IsReady(chan[Peer(x)][i])
             /\ waiting' = [waiting EXCEPT ![x][i] = Append(@, n)]
             /\ UNCHANGED <<tasks, gone>>
       /\ UNCHANGED <<down, control, chan>>

\* onData(), onceData(): the first listener is the ready signal
OnData(x, i, kind) ==
    /\ chan[x][i].known
    /\ chan' = [chan EXCEPT ![x][i].listener = kind]
    /\ tasks' = tasks \o Resumes(Peer(x), i)
    /\ waiting' = [waiting EXCEPT ![Peer(x)][i] = <<>>]
    /\ UNCHANGED <<down, control, sent, gone>>

\* close() of a stream channel.  One that is not linked, made again by late data,
\* closes alone and stays in the map; and so does the opener's, when the other end was
\* closed as it was announced: nobody calls back to take it out.
CloseStream(x, i) ==
    /\ chan[x][i].known /\ ~chan[x][i].isClosed
    /\ \/ /\ chan[x][i].linked /\ ~chan[Peer(x)][i].isClosed
          /\ EndsClosed({i}, tasks)
       \/ /\ chan[x][i].linked /\ chan[Peer(x)][i].isClosed
          /\ chan' = [chan EXCEPT ![x][i].isClosed = TRUE, ![Peer(x)][i].known = FALSE]
          /\ UNCHANGED <<waiting, tasks>>
       \/ /\ ~chan[x][i].linked
          /\ chan' = [chan EXCEPT ![x][i].isClosed = TRUE]
          /\ UNCHANGED <<waiting, tasks>>
    /\ UNCHANGED <<down, control, sent, gone>>

\* close() and abort() leave the work to a microtask
CloseTransport(x) ==
    /\ ~down[x]
    /\ ~\E k \in 1..Len(tasks) : tasks[k].type = "destroy"
    /\ tasks' = Append(tasks, [type |-> "destroy"])
    /\ UNCHANGED <<down, control, chan, waiting, sent, gone>>

-----------------------------------------------------------------------------
(* Microtasks. *)

Task(type) == tasks # <<>> /\ Head(tasks).type = type

\* _receiveControlMessage(), _receiveMessage()
ReceiveControl ==
    /\ Task("message") /\ Head(tasks).id = CtlId
    /\ tasks' = Tail(tasks)
    /\ LET x == Head(tasks).to
           n == Head(tasks).n
           c == IF control[x].made THEN control[x] ELSE NewControl
       IN \/ /\ down[x] \/ c.isClosed \/ c.listener = "spent"
             /\ gone' = [gone EXCEPT ![Peer(x)][CtlId] = @ \cup {n}]
             /\ UNCHANGED control
          \/ /\ ~down[x] /\ ~c.isClosed /\ Hears(c)
             /\ control' = [control EXCEPT ![x] = Emitted(c, n)]
             /\ UNCHANGED gone
          \/ /\ ~down[x] /\ ~c.isClosed /\ ~HasListener(c)
             /\ control' = [control EXCEPT ![x] = [c EXCEPT !.queue = Append(@, n)]]
             /\ UNCHANGED gone
    /\ UNCHANGED <<down, chan, waiting, sent>>

\* what send() does once the other end is ready
ResumeSend ==
    /\ Task("resume")
    /\ LET t == Head(tasks)
       IN IF ~Usable(chan[t.at][t.id])
          THEN /\ gone' = [gone EXCEPT ![t.at][t.id] = @ \cup {t.n}]
               /\ tasks' = Tail(tasks)
          ELSE /\ tasks' = Append(Tail(tasks), [type |-> "message", to |-> Peer(t.at), id |-> t.id, n |-> t.n])
               /\ UNCHANGED gone
    /\ UNCHANGED <<down, control, chan, waiting, sent>>

\* _receiveStreamMessage(): data for a channel that has left the map makes another,
\* which is announced first, so a handler that listens at once hears it
ReceiveData(kind, closes) ==
    /\ Task("message") /\ Head(tasks).id # CtlId
    /\ tasks' = Tail(tasks)
    /\ LET x == Head(tasks).to
           i == Head(tasks).id
           n == Head(tasks).n
           c == Obtained(chan[x][i], kind, closes)
       IN /\ chan' = IF down[x] THEN chan
                     ELSE [chan EXCEPT ![x][i] = IF c.isClosed THEN c ELSE Emitted(c, n)]
          /\ gone' = IF ~down[x] /\ ~c.isClosed /\ Hears(c) THEN gone
                     ELSE [gone EXCEPT ![Peer(x)][i] = @ \cup {n}]
    /\ UNCHANGED <<down, control, waiting, sent>>

\* _destroy() of both transports
Destroy ==
    /\ Task("destroy")
    /\ down' = [x \in Sides |-> TRUE]
    /\ control' = [x \in Sides |-> [control[x] EXCEPT !.isClosed = TRUE, !.queue = <<>>]]
    /\ EndsClosed(Ids, Tail(tasks))
    /\ gone' = [x \in Sides |-> [gone[x] EXCEPT ![CtlId] = @ \cup ToSet(control[Peer(x)].queue)]]
    /\ UNCHANGED sent


-----------------------------------------------------------------------------
ControlProgram ==
    \E x \in Sides : \/ GetControl(x) \/ SendControl(x) \/ CloseControl(x)
                     \/ \E kind \in {"on", "once"} : OnMessage(x, kind)

StreamProgram ==
    \/ \E i \in Ids, kind \in Answers, closes, sends \in BOOLEAN : OpenOutgoing(i, kind, closes, sends)
    \/ \E x \in Sides, i \in Ids : \/ SendData(x, i) \/ CloseStream(x, i)
                                  \/ \E kind \in {"on", "once"} : OnData(x, i, kind)

Microtask ==
    \/ ReceiveControl \/ ResumeSend \/ Destroy
    \/ \E kind \in Answers, closes \in BOOLEAN : ReceiveData(kind, closes)

Closing == \E x \in Sides : CloseTransport(x)

MemSpec == MemInit /\ [][ControlProgram \/ StreamProgram \/ Microtask \/ Closing]_mvars

-----------------------------------------------------------------------------
(* Properties. *)

\* The ends of a stream channel are open together, unless the handler that is told of
\* one closes it there and then, which nobody tells the opener; a send waits only for
\* the first listener of an open end; and after the end of the transports nothing is
\* open, what late data made included.
MemEndsAgree ==
    /\ MemTypeOK
    /\ \A x \in Sides, i \in Ids :
        /\ Usable(chan[x][i]) => /\ chan[x][i].known
                                 /\ chan[Peer(x)][i].known
                                 /\ \/ Usable(chan[Peer(x)][i])
                                    \/ x = OpenerOf[i] /\ chan[Peer(x)][i].early
        /\ waiting[x][i] # <<>> => Usable(chan[x][i]) /\ ~IsReady(chan[Peer(x)][i])
        /\ down[x] => ~chan[x][i].known /\ waiting[x][i] = <<>>

\* Where the messages of a channel are that were not dropped, as <<stage, place, message>>:
\* heard, queued, and the tasks and the sends that wait, in the order they will be.
In(stage, messages) == {<<stage, k, messages[k]>> : k \in DOMAIN messages}

IsOf(t, type, x, ch) == t.type = type /\ t.id = ch /\ IF type = "message" THEN t.to = Peer(x) ELSE t.at = x

TasksOf(stage, type, x, ch) ==
    {<<stage, k, tasks[k].n>> : k \in {j \in DOMAIN tasks : IsOf(tasks[j], type, x, ch)}}

Heard(x, ch) == IF ch = CtlId THEN control[Peer(x)].heard ELSE chan[Peer(x)][ch].heard
Queued(x, ch) == IF ch = CtlId THEN control[Peer(x)].queue ELSE <<>>
Waiting(x, ch) == IF ch = CtlId THEN <<>> ELSE waiting[x][ch]

Kept(x, ch) == In(1, Heard(x, ch)) \cup In(2, Queued(x, ch)) \cup TasksOf(3, "message", x, ch)
               \cup TasksOf(4, "resume", x, ch) \cup In(5, Waiting(x, ch))

Before(m, p) == m[1] < p[1] \/ (m[1] = p[1] /\ m[2] < p[2])

\* Every message given to send() is heard or on its way, in the order of sending, or
\* was dropped.
MemKeepsOrder ==
    \A x \in Sides, ch \in Channels :
        LET kept == Kept(x, ch)
        IN /\ {m[3] : m \in kept} \cup gone[x][ch] = 1..sent[x][ch]
           /\ {m[3] : m \in kept} \cap gone[x][ch] = {}
           /\ \A m, p \in kept : Before(m, p) => m[3] < p[3]

\* A message to an open end is dropped only when the listener of that end was one
\* for a single message.  What its opener still sends to an end that was closed as it
\* was announced is dropped too, and send() reports no error.
MemDropsUnheard ==
    [][\A x \in Sides, ch \in Channels :
        gone'[x][ch] # gone[x][ch] =>
            IF ch = CtlId
            THEN \/ control'[x].isClosed \/ control'[Peer(x)].isClosed \/ down[Peer(x)]
                 \/ control'[Peer(x)].listener = "spent"
            ELSE \/ ~Usable(chan[x][ch]) \/ chan[Peer(x)][ch].listener = "spent"
                 \/ x = OpenerOf[ch] /\ chan[Peer(x)][ch].early]_mvars

=============================================================================
