-------------------------- MODULE TransportsProofs --------------------------
(***************************************************************************)
(* The streams of an HTTP/2 session are matched, whatever the number of    *)
(* streams and of what goes wrong; and the memory transport and a tunnel   *)
(* keep the order, and the first drops only what nobody can hear, whatever *)
(* the number of channels, streams and messages, and whatever closes when. *)
(*                                                                         *)
(* StreamsAreMatched is not inductive.  What is: that a stream the server  *)
(* wants is under way at one place only, as a signal, then as a request    *)
(* (AskedOnce); that a response comes from a server that has the stream    *)
(* (AnswersAreTrue); and, until the connection breaks, that whoever waits  *)
(* for a response has a frame on the wire that will end the wait, in front *)
(* of the end of the connection (NobodyIsLeft).                            *)
(*                                                                         *)
(* MemKeepsOrder is not inductive either.  What is (MemIInv): that of each *)
(* channel every message has one place, heard, queued, on its way, waiting *)
(* for the channel or given up, and that whoever stands before another was *)
(* sent before it (Lines); that a control channel queues until it has a    *)
(* listener, and then no more (Queues); and that the two ends of a stream  *)
(* are known, linked and closed in step (Pairs).  Ends that close together *)
(* put the messages that waited there back among the tasks in an order     *)
(* nothing promises, so the places of those come from what the flattening  *)
(* of sequences is; and from the sums over finite sets, that none of them  *)
(* is counted twice.                                                       *)
(*                                                                         *)
(* Of a tunnel the control messages that are heard, pending and on their   *)
(* way are, each way, the first numbers (NothingMissing), as long as no    *)
(* part of it is gone (BridgeSafe, ProxySafe); and what is on its way      *)
(* through the pump of a stream is a run that ends with what was sent last *)
(* (StreamSafe).                                                           *)
(***************************************************************************)
EXTENDS MCTransports, DataProofs

-----------------------------------------------------------------------------
(* Streams over HTTP/2. *)

H2Spec == H2Init /\ [][H2Next]_h2vars

Client == ends["client"]
Server == ends["server"]

Carries(w, f) == \E i \in DOMAIN w : w[i] = f
Once(w, f) == \A i, j \in DOMAIN w : w[i] = f /\ w[j] = f => i = j

IsLeave(f) == f.type \in {"goaway", "goaway-error"}
Leaving(w) == \E i \in DOMAIN w : IsLeave(w[i])

IsAnswer(f, s) == f = Frame("response", s) \/ f = Frame("rst", s)
Answered(w, s) == \E i \in DOMAIN w : IsAnswer(w[i], s)

\* A transport is closed with its session, on which nothing is left.
SessionShut ==
    \A x \in Sides :
        /\ ends[x].state = "closed" <=> ends[x].session = "destroyed"
        /\ ends[x].session = "destroyed" =>
             wire[x] = <<>> /\ \A s \in Streams : ~Live(ends[x].chan[s])

\* A stream the server wants is signalled once, and requested once.
AskedOnce(t) ==
    /\ Once(wire["client"], Frame("signal", t))
    /\ Once(wire["server"], Frame("request", t))
    /\ Carries(wire["client"], Frame("signal", t)) =>
         opening[t] \in {"pending", "failed"} /\ Client.chan[t] = "idle"
    /\ Carries(wire["server"], Frame("request", t)) =>
         opening[t] \in {"pending", "failed"} /\ t \notin taken /\ Client.chan[t] # "idle"
    /\ opening[t] \in {"idle", "waiting"} => Client.chan[t] = "idle"
    /\ opening[t] = "open" \/ t \in taken => Client.chan[t] # "idle"
    /\ opening[t] = "open" => t \notin taken
    /\ t \in taken => opening[t] = "failed"
    /\ opening[t] = "pending" => Server.state # "closed"

\* A response is from a server that has the stream.
AnswersAreTrue(s) ==
    Carries(wire["client"], Frame("response", s)) \/ Client.chan[s] \in {"open", "ending"}
      => Server.chan[s] # "idle"

\* Whoever waits at the client will hear: of its stream, or that the server leaves.
WillHear ==
    /\ \A s \in Streams : Client.chan[s] = "requested" =>
         \/ Leaving(wire["client"]) \/ Answered(wire["client"], s)
         \/ Server.session = "open" /\ Carries(wire["server"], Frame("request", s))
    /\ Server.session # "open" => Leaving(wire["client"]) \/ Client.session # "open"

\* What is on its way from a client e: nothing is requested behind its GOAWAY.
NothingBehind(w, e) ==
    \A i \in DOMAIN w :
      /\ w[i].type = "goaway" =>
           /\ e.session # "open"
           /\ \A j \in DOMAIN w : w[j].type = "request" => j < i
      /\ w[i].type \in {"fin", "goaway-error"} => e.session = "destroyed"

\* What is on its way to a client e: before the end of the connection comes what
\* whoever waits must hear.
HearsBefore(w, e) ==
    \A i \in DOMAIN w : w[i].type = "fin" =>
      /\ e.session = "open" => \E j \in DOMAIN w : j < i /\ IsLeave(w[j])
      /\ \A s \in Streams : e.chan[s] = "requested" =>
           \E j \in DOMAIN w : j < i /\ (IsLeave(w[j]) \/ IsAnswer(w[j], s))

NobodyIsLeft ==
    ~lost =>
      /\ WillHear
      /\ NothingBehind(wire["server"], Client)
      /\ HearsBefore(wire["client"], Client)
      /\ \A s \in Streams : Client.chan[s] # "silent"

H2Inv ==
    /\ H2TypeOK /\ SessionShut
    /\ \A t \in ServerStreams : AskedOnce(t)
    /\ \A s \in Streams : AnswersAreTrue(s)
    /\ NobodyIsLeft

-----------------------------------------------------------------------------
(* Frames on a wire. *)

LEMMA Joined ==
    ASSUME NEW w \in Seq(Frames), NEW u \in Seq(Frames)
    PROVE  /\ w \o u \in Seq(Frames)
           /\ Len(w) \in Nat /\ Len(u) \in Nat /\ Len(w \o u) = Len(w) + Len(u)
           /\ DOMAIN w = 1 .. Len(w) /\ DOMAIN u = 1 .. Len(u)
           /\ DOMAIN (w \o u) = 1 .. (Len(w) + Len(u))
           /\ \A i \in 1 .. Len(w) : (w \o u)[i] = w[i]
           /\ \A i \in 1 .. Len(u) : (w \o u)[Len(w) + i] = u[i]
           /\ \A i \in 1 .. (Len(w) + Len(u)) :
                i \in 1 .. Len(w) \/ \E j \in 1 .. Len(u) : i = Len(w) + j
<1>1. /\ w \o u \in Seq(Frames) /\ Len(w) \in Nat /\ Len(u) \in Nat
      /\ Len(w \o u) = Len(w) + Len(u)
      /\ DOMAIN w = 1 .. Len(w) /\ DOMAIN u = 1 .. Len(u)
      /\ DOMAIN (w \o u) = 1 .. (Len(w) + Len(u))
  BY ConcatProperties
<1>2. \A i \in 1 .. Len(w) : (w \o u)[i] = w[i]  BY <1>1, ConcatProperties
<1>3. ASSUME NEW i \in 1 .. Len(u)  PROVE (w \o u)[Len(w) + i] = u[i]  BY <1>1, <1>3, ConcatProperties
<1>4. ASSUME NEW i \in 1 .. (Len(w) + Len(u)), i \notin 1 .. Len(w)
      PROVE  \E j \in 1 .. Len(u) : i = Len(w) + j
  <2>1. i - Len(w) \in 1 .. Len(u) /\ i = Len(w) + (i - Len(w))  BY <1>1, <1>4
  <2> QED  BY <2>1
<1> QED  BY <1>1, <1>2, <1>3, <1>4

LEMMA TakenOff ==
    ASSUME NEW w \in Seq(Frames), w # <<>>
    PROVE  /\ Tail(w) \in Seq(Frames) /\ Head(w) = w[1] /\ Head(w) \in Frames
           /\ Len(w) \in Nat /\ Len(w) >= 1 /\ DOMAIN w = 1 .. Len(w)
           /\ DOMAIN Tail(w) = 1 .. (Len(w) - 1)
           /\ \A i \in 1 .. (Len(w) - 1) : Tail(w)[i] = w[i + 1]
OBVIOUS

LEMMA NoFrames ==
    /\ <<>> \in Seq(Frames)
    /\ \A f : ~Carries(<<>>, f) /\ Once(<<>>, f)
    /\ ~Leaving(<<>>) /\ \A s : ~Answered(<<>>, s)
BY DEF Carries, Once, Leaving, Answered

LEMMA OneFrame ==
    ASSUME NEW f \in Frames
    PROVE  /\ <<f>> \in Seq(Frames)
           /\ \A g : Carries(<<f>>, g) <=> g = f
           /\ \A g : Once(<<f>>, g)
           /\ Leaving(<<f>>) <=> IsLeave(f)
           /\ \A s : Answered(<<f>>, s) <=> IsAnswer(f, s)
BY DEF Carries, Once, Leaving, Answered

LEMMA TwoFrames ==
    ASSUME NEW f \in Frames, NEW h \in Frames
    PROVE  /\ <<f, h>> \in Seq(Frames)
           /\ \A g : Carries(<<f, h>>, g) <=> g = f \/ g = h
           /\ Leaving(<<f, h>>) <=> IsLeave(f) \/ IsLeave(h)
           /\ \A s : Answered(<<f, h>>, s) <=> IsAnswer(f, s) \/ IsAnswer(h, s)
BY DEF Carries, Leaving, Answered

LEMMA FramesTyped ==
    /\ \A s \in Streams : \A k \in {"request", "response", "end", "rst", "signal"} :
         Frame(k, s) \in Frames /\ Frame(k, s).type = k /\ Frame(k, s).stream = s
    /\ [type |-> "goaway"] \in Frames /\ [type |-> "goaway-error"] \in Frames
    /\ [type |-> "fin"] \in Frames
    /\ \A f \in Frames : f.type \in {"request", "response", "end", "rst", "signal"} =>
         f.stream \in Streams /\ f = Frame(f.type, f.stream)
BY DEF Frames, Frame

LEMMA JoinedCarries ==
    ASSUME NEW w \in Seq(Frames), NEW u \in Seq(Frames)
    PROVE  /\ \A f : Carries(w \o u, f) <=> Carries(w, f) \/ Carries(u, f)
           /\ \A f : Once(w, f) /\ ~Carries(u, f) => Once(w \o u, f)
           /\ \A f : ~Carries(w, f) /\ Once(u, f) => Once(w \o u, f)
           /\ Leaving(w \o u) <=> Leaving(w) \/ Leaving(u)
           /\ \A s : Answered(w \o u, s) <=> Answered(w, s) \/ Answered(u, s)
<1> DEFINE v == w \o u  n == Len(w)  m == Len(u)
<1>1. /\ n \in Nat /\ m \in Nat
      /\ DOMAIN w = 1 .. n /\ DOMAIN u = 1 .. m /\ DOMAIN v = 1 .. (n + m)
      /\ \A i \in 1 .. n : v[i] = w[i]
      /\ \A i \in 1 .. m : v[n + i] = u[i]
      /\ \A i \in 1 .. (n + m) : i \in 1 .. n \/ \E j \in 1 .. m : i = n + j
  BY Joined
<1> HIDE DEF v, n, m
<1>2. \A i \in DOMAIN w : i \in DOMAIN v /\ v[i] = w[i]  BY <1>1
<1>3. \A i \in DOMAIN u : n + i \in DOMAIN v /\ v[n + i] = u[i]  BY <1>1
<1>4. \A k \in DOMAIN v : k \in DOMAIN w \/ \E j \in DOMAIN u : k = n + j  BY <1>1
<1>5. \A k \in DOMAIN v : \/ k \in DOMAIN w /\ v[k] = w[k]
                          \/ \E j \in DOMAIN u : v[k] = u[j]
  <2> TAKE k \in DOMAIN v
  <2> QED  BY <1>2, <1>3, <1>4
<1>6. \A i \in DOMAIN u : \E k \in DOMAIN v : v[k] = u[i]  BY <1>3
<1>7. ASSUME NEW f  PROVE Carries(v, f) <=> Carries(w, f) \/ Carries(u, f)
  BY <1>2, <1>5, <1>6, Zenon DEF Carries
<1>8. ASSUME NEW f, Once(w, f), ~Carries(u, f)  PROVE Once(v, f)  BY <1>2, <1>5, <1>8, Zenon DEF Carries, Once
<1>9. ASSUME NEW f, ~Carries(w, f), Once(u, f)  PROVE Once(v, f)
  <2>1. \A k \in DOMAIN v : v[k] = f => \E j \in DOMAIN u : k = n + j /\ u[j] = f
    BY <1>2, <1>3, <1>4, <1>9 DEF Carries
  <2> QED  BY <1>9, <2>1, Zenon DEF Once
<1>10. Leaving(v) <=> Leaving(w) \/ Leaving(u)  BY <1>2, <1>5, <1>6, Zenon DEF Leaving
<1>11. ASSUME NEW s  PROVE Answered(v, s) <=> Answered(w, s) \/ Answered(u, s)
  BY <1>2, <1>5, <1>6, Zenon DEF Answered
<1> QED  BY <1>7, <1>8, <1>9, <1>10, <1>11 DEF v

LEMMA TailCarries ==
    ASSUME NEW w \in Seq(Frames), w # <<>>
    PROVE  /\ \A f : Carries(Tail(w), f) => Carries(w, f)
           /\ \A f : Carries(w, f) /\ f # Head(w) => Carries(Tail(w), f)
           /\ \A f : Once(w, f) => Once(Tail(w), f)
           /\ \A f : Once(w, f) /\ f = Head(w) => ~Carries(Tail(w), f)
           /\ Carries(w, Head(w))
           /\ Leaving(w) => IsLeave(Head(w)) \/ Leaving(Tail(w))
           /\ \A s : Answered(w, s) => IsAnswer(Head(w), s) \/ Answered(Tail(w), s)
<1> DEFINE v == Tail(w)  n == Len(w)
<1>1. /\ n \in Nat /\ n >= 1 /\ DOMAIN w = 1 .. n /\ DOMAIN v = 1 .. (n - 1)
      /\ Head(w) = w[1]
      /\ \A i \in 1 .. (n - 1) : v[i] = w[i + 1]
  BY TakenOff
<1> HIDE DEF v, n
<1>2. /\ \A i \in 1 .. (n - 1) : i + 1 \in 1 .. n /\ i + 1 # 1
      /\ \A i \in 1 .. n : i # 1 => i - 1 \in 1 .. (n - 1) /\ w[i] = v[i - 1]
      /\ 1 \in 1 .. n
      /\ \A i, j \in 1 .. (n - 1) : i + 1 = j + 1 => i = j
  BY <1>1
<1>3. ASSUME NEW f  PROVE Carries(v, f) => Carries(w, f)
  <2> SUFFICES ASSUME NEW i \in 1 .. (n - 1), v[i] = f
               PROVE  Carries(w, f)
    BY <1>1 DEF Carries
  <2>1. i + 1 \in DOMAIN w /\ w[i + 1] = f  BY <1>1, <1>2
  <2> QED  BY <2>1 DEF Carries
<1>4. ASSUME NEW f  PROVE Carries(w, f) /\ f # Head(w) => Carries(v, f)
  <2> SUFFICES ASSUME NEW i \in 1 .. n, w[i] = f, f # w[1]
               PROVE  Carries(v, f)
    BY <1>1 DEF Carries
  <2>1. i - 1 \in DOMAIN v /\ v[i - 1] = f  BY <1>1, <1>2
  <2> QED  BY <2>1 DEF Carries
<1>5. ASSUME NEW f, Once(w, f)  PROVE Once(v, f)
  <2> SUFFICES ASSUME NEW i \in 1 .. (n - 1), NEW j \in 1 .. (n - 1), v[i] = f, v[j] = f
               PROVE  i = j
    BY <1>1 DEF Once
  <2>1. w[i + 1] = f /\ w[j + 1] = f /\ i + 1 \in DOMAIN w /\ j + 1 \in DOMAIN w  BY <1>1, <1>2
  <2>2. i + 1 = j + 1  BY <2>1, <1>5 DEF Once
  <2> QED  BY <2>2
<1>6. ASSUME NEW f, Once(w, f), f = Head(w)  PROVE ~Carries(v, f)  BY <1>1, <1>2, <1>6 DEF Once, Carries
<1>7. Carries(w, Head(w))  BY <1>1, <1>2 DEF Carries
<1>8. Leaving(w) => IsLeave(Head(w)) \/ Leaving(v)  BY <1>1, <1>2 DEF Leaving
<1>9. ASSUME NEW s  PROVE Answered(w, s) => IsAnswer(Head(w), s) \/ Answered(v, s)  BY <1>1, <1>2 DEF Answered
<1> QED  BY <1>3, <1>4, <1>5, <1>6, <1>7, <1>8, <1>9 DEF v

-----------------------------------------------------------------------------
(* The ends. *)

EndTypes == [state   : {"open", "closing", "closed"},
             session : {"open", "closed", "destroyed"},
             chan    : [Streams -> Statuses],
             handler : BOOLEAN]

LEMMA Typed ==
    ASSUME H2TypeOK
    PROVE  /\ Client \in EndTypes /\ Server \in EndTypes
           /\ Client.chan \in [Streams -> Statuses] /\ Server.chan \in [Streams -> Statuses]
           /\ wire["client"] \in Seq(Frames) /\ wire["server"] \in Seq(Frames)
BY DEF H2TypeOK, EndTypes, Client, Server, Sides

\* Stream s of the end x, and nothing else, becomes v.
ChanGoes(x, s, v) ==
    /\ ends' \in [Sides -> EndTypes]
    /\ \A y \in Sides : /\ y # x => ends'[y] = ends[y]
                        /\ ends'[y].state = ends[y].state
                        /\ ends'[y].session = ends[y].session
    /\ ends'[x].chan[s] = v
    /\ \A r \in Streams : r # s => ends'[x].chan[r] = ends[x].chan[r]

LEMMA ChanSet ==
    ASSUME H2TypeOK, NEW x \in Sides, NEW s \in Streams, NEW v \in Statuses,
           ends' = [ends EXCEPT ![x].chan[s] = v]
    PROVE  ChanGoes(x, s, v)
BY DEF H2TypeOK, EndTypes, ChanGoes

LEMMA DestroyedTyped ==
    ASSUME NEW sts \in [Streams -> Statuses]
    PROVE  /\ StreamsDestroyed(sts, TRUE) \in [Streams -> Statuses]
           /\ StreamsDestroyed(sts, FALSE) \in [Streams -> Statuses]
BY DEF StreamsDestroyed, Statuses

\* The end x is over, and with it its streams.
SessionEnded(x) ==
    /\ ends' \in [Sides -> EndTypes]
    /\ \A y \in Sides : y # x => ends'[y] = ends[y]
    /\ ends'[x].state = "closed" /\ ends'[x].session = "destroyed"
    /\ \A s \in Streams : /\ ~Live(ends'[x].chan[s])
                          /\ ends'[x].chan[s] = "idle" <=> ends[x].chan[s] = "idle"

LEMMA EndedWithError ==
    ASSUME H2TypeOK, NEW x \in Sides, ends' = [ends EXCEPT ![x] = Cleaned(@, TRUE)]
    PROVE  /\ SessionEnded(x)
           /\ \A s \in Streams : ends'[x].chan[s] = "silent" => ends[x].chan[s] = "silent"
<1> DEFINE c == Cleaned(ends[x], TRUE)
<1>1. ends \in [Sides -> EndTypes]  BY DEF H2TypeOK, EndTypes
<1>2. ends[x].chan \in [Streams -> Statuses] /\ ends[x] \in EndTypes  BY <1>1 DEF EndTypes
<1>3. /\ c.state = "closed" /\ c.session = "destroyed" /\ c.handler = ends[x].handler
      /\ c.chan = StreamsDestroyed(ends[x].chan, TRUE)
      /\ c \in EndTypes
  BY <1>2, DestroyedTyped DEF Cleaned, EndTypes
<1>4. ends'[x] = c /\ \A y \in Sides : y # x => ends'[y] = ends[y]  BY <1>1
<1>5. ends' \in [Sides -> EndTypes]  BY <1>1, <1>3
<1>6. \A s \in Streams :
         /\ ~Live(c.chan[s])
         /\ c.chan[s] = "idle" <=> ends[x].chan[s] = "idle"
         /\ c.chan[s] = "silent" => ends[x].chan[s] = "silent"
  BY <1>2, <1>3 DEF StreamsDestroyed, Statuses, Live
<1> HIDE DEF c
<1> QED  BY <1>3, <1>4, <1>5, <1>6 DEF SessionEnded

LEMMA EndedQuietly ==
    ASSUME H2TypeOK, NEW x \in Sides, ends' = [ends EXCEPT ![x] = Cleaned(@, FALSE)]
    PROVE  /\ SessionEnded(x)
           /\ \A s \in Streams : ends'[x].chan[s] = "silent" => ends[x].chan[s] \in {"silent", "requested"}
<1> DEFINE c == Cleaned(ends[x], FALSE)
<1>1. ends \in [Sides -> EndTypes]  BY DEF H2TypeOK, EndTypes
<1>2. ends[x].chan \in [Streams -> Statuses] /\ ends[x] \in EndTypes  BY <1>1 DEF EndTypes
<1>3. /\ c.state = "closed" /\ c.session = "destroyed" /\ c.handler = ends[x].handler
      /\ c.chan = StreamsDestroyed(ends[x].chan, FALSE)
      /\ c \in EndTypes
  BY <1>2, DestroyedTyped DEF Cleaned, EndTypes
<1>4. ends'[x] = c /\ \A y \in Sides : y # x => ends'[y] = ends[y]  BY <1>1
<1>5. ends' \in [Sides -> EndTypes]  BY <1>1, <1>3
<1>6. \A s \in Streams :
         /\ ~Live(c.chan[s])
         /\ c.chan[s] = "idle" <=> ends[x].chan[s] = "idle"
         /\ c.chan[s] = "silent" => ends[x].chan[s] \in {"silent", "requested"}
  BY <1>2, <1>3 DEF StreamsDestroyed, Statuses, Live
<1> HIDE DEF c
<1> QED  BY <1>3, <1>4, <1>5, <1>6 DEF SessionEnded

LEMMA OpeningRejected ==
    ASSUME H2TypeOK, NEW x \in Sides, opening' = Rejected(x)
    PROVE  /\ opening' \in [ServerStreams -> Openings]
           /\ \A t \in ServerStreams :
                \/ opening'[t] = opening[t]
                \/ opening'[t] = "failed" /\ opening[t] \in {"waiting", "pending"}
           /\ x = "server" => \A t \in ServerStreams : opening'[t] # "pending"
BY DEF Rejected, H2TypeOK, Openings

-----------------------------------------------------------------------------
(* What a step does to a wire: an end takes the first frame or none, and the *)
(* other end sends.                                                          *)

Moves(w, v, frames) ==
    v = <<>> \/ v = w \o frames \/ (w # <<>> /\ v = Tail(w))

LEMMA Exchanges ==
    ASSUME NEW x \in Sides, NEW y \in Sides, x # y, NEW rest, NEW frames,
           wire' = Exchanged(x, rest, frames)
    PROVE  /\ wire'[x] = IF ends'[x].session = "destroyed" THEN <<>> ELSE rest
           /\ wire'[y] = IF ends'[y].session = "destroyed" THEN <<>> ELSE wire[y] \o frames
BY DEF Exchanged

LEMMA ClientExchanges ==
    ASSUME NEW rest, NEW frames, wire' = Exchanged("client", rest, frames)
    PROVE  /\ wire'["client"] = IF ends'["client"].session = "destroyed" THEN <<>> ELSE rest
           /\ wire'["server"] = IF ends'["server"].session = "destroyed"
                               THEN <<>> ELSE wire["server"] \o frames
BY DEF Exchanged, Sides

LEMMA ServerExchanges ==
    ASSUME NEW rest, NEW frames, wire' = Exchanged("server", rest, frames)
    PROVE  /\ wire'["server"] = IF ends'["server"].session = "destroyed" THEN <<>> ELSE rest
           /\ wire'["client"] = IF ends'["client"].session = "destroyed"
                               THEN <<>> ELSE wire["client"] \o frames
BY DEF Exchanged, Sides

LEMMA MovesTyped ==
    ASSUME NEW w \in Seq(Frames), NEW frames \in Seq(Frames), NEW v, Moves(w, v, frames)
    PROVE  v \in Seq(Frames)
BY Joined, TakenOff, NoFrames DEF Moves

LEMMA MovesLess ==
    ASSUME NEW w \in Seq(Frames), NEW frames \in Seq(Frames), NEW v, Moves(w, v, frames),
           NEW f, ~Carries(frames, f)
    PROVE  /\ Carries(v, f) => Carries(w, f)
           /\ Once(w, f) => Once(v, f)
<1>1. CASE v = <<>>  BY <1>1, NoFrames
<1>2. CASE v = w \o frames  BY <1>2, JoinedCarries
<1>3. CASE w # <<>> /\ v = Tail(w)  BY <1>3, TailCarries
<1> QED  BY <1>1, <1>2, <1>3 DEF Moves

(* A step that has nothing to do with stream t. *)
LEMMA AskedSame ==
    ASSUME H2TypeOK, NEW t \in ServerStreams, AskedOnce(t),
           NEW f \in Seq(Frames), Moves(wire["client"], wire'["client"], f),
           ~Carries(f, Frame("signal", t)),
           NEW g \in Seq(Frames), Moves(wire["server"], wire'["server"], g),
           ~Carries(g, Frame("request", t)),
           Client'.chan[t] = "idle" <=> Client.chan[t] = "idle",
           \/ opening'[t] = opening[t]
           \/ opening'[t] = "failed" /\ opening[t] \in {"waiting", "pending"},
           t \in taken' <=> t \in taken,
           opening'[t] = "pending" => Server'.state # "closed"
    PROVE  AskedOnce(t)'
BY Typed, MovesLess DEF AskedOnce

(* A step after which no more is said of stream s. *)
LEMMA AnswersSame ==
    ASSUME H2TypeOK, NEW s \in Streams, AnswersAreTrue(s),
           NEW f \in Seq(Frames), Moves(wire["client"], wire'["client"], f),
           Carries(f, Frame("response", s)) => Server'.chan[s] # "idle",
           Client'.chan[s] \in {"open", "ending"} =>
             Client.chan[s] \in {"open", "ending"} \/ Carries(wire["client"], Frame("response", s)),
           Server.chan[s] # "idle" => Server'.chan[s] # "idle"
    PROVE  AnswersAreTrue(s)'
<1>1. wire["client"] \in Seq(Frames)  BY Typed
<1>2. CASE Carries(f, Frame("response", s))  BY <1>2 DEF AnswersAreTrue
<1>3. CASE ~Carries(f, Frame("response", s))  BY <1>1, <1>3, MovesLess DEF AnswersAreTrue
<1> QED  BY <1>2, <1>3

-----------------------------------------------------------------------------
(* GOAWAYs, and the end of the connection. *)

LEMMA BehindKept ==
    ASSUME NEW w \in Seq(Frames), NEW v, NEW g \in Seq(Frames), NEW e, NEW d,
           Moves(w, v, g), NothingBehind(w, e),
           e.session # "open" => d.session # "open",
           e.session = "destroyed" => d.session = "destroyed",
           \A i \in DOMAIN g :
             /\ g[i].type # "goaway"
             /\ g[i].type = "request" => e.session = "open"
             /\ g[i].type \in {"fin", "goaway-error"} => d.session = "destroyed"
    PROVE  NothingBehind(v, d)
<1>1. CASE v = <<>>  BY <1>1 DEF NothingBehind
<1>2. CASE w # <<>> /\ v = Tail(w)
  <2> DEFINE n == Len(w)
  <2>1. /\ n \in Nat /\ DOMAIN w = 1 .. n /\ DOMAIN v = 1 .. (n - 1)
        /\ \A i \in 1 .. (n - 1) : v[i] = w[i + 1]
    BY <1>2, TakenOff
  <2> HIDE DEF n
  <2>2. \A i \in DOMAIN v : i \in Nat /\ i + 1 \in DOMAIN w /\ v[i] = w[i + 1]  BY <2>1
  <2>3. \A i, j \in DOMAIN v : j + 1 < i + 1 => j < i  BY <2>2
  <2> QED  BY <2>2, <2>3 DEF NothingBehind
<1>3. CASE v = w \o g
  <2> DEFINE n == Len(w)
  <2>1. /\ n \in Nat /\ DOMAIN w = 1 .. n
        /\ DOMAIN v = 1 .. (n + Len(g)) /\ Len(g) \in Nat /\ DOMAIN g = 1 .. Len(g)
        /\ \A i \in 1 .. n : v[i] = w[i]
        /\ \A i \in 1 .. (n + Len(g)) :
             i \in 1 .. n \/ \E j \in 1 .. Len(g) : i = n + j
        /\ \A j \in 1 .. Len(g) : v[n + j] = g[j]
    BY <1>3, Joined
  <2> HIDE DEF n
  <2>2. ASSUME NEW i \in DOMAIN v
        PROVE  \/ i \in DOMAIN w /\ v[i] = w[i]
               \/ \E j \in DOMAIN g : v[i] = g[j]
    <3>1. CASE i \in 1 .. n  BY <2>1, <3>1
    <3>2. CASE i \notin 1 .. n
      <4>1. PICK j \in 1 .. Len(g) : i = n + j  BY <2>1, <3>2
      <4>2. j \in DOMAIN g /\ v[i] = g[j]  BY <2>1, <4>1
      <4> QED  BY <4>2
    <3> QED  BY <3>1, <3>2
  <2>3. ASSUME NEW i \in DOMAIN v, v[i].type \in {"fin", "goaway-error"}
        PROVE  d.session = "destroyed"
    BY <2>2, <2>3 DEF NothingBehind
  <2>4. ASSUME NEW i \in DOMAIN v, v[i].type = "goaway"
        PROVE  i \in DOMAIN w /\ w[i].type = "goaway" /\ e.session # "open"
    BY <2>2, <2>4 DEF NothingBehind
  <2>5. ASSUME NEW i \in DOMAIN v, v[i].type = "goaway",
               NEW j \in DOMAIN v, v[j].type = "request"
        PROVE  j < i
    BY <2>2, <2>4, <2>5 DEF NothingBehind
  <2> QED  BY <2>3, <2>4, <2>5 DEF NothingBehind
<1> QED  BY <1>1, <1>2, <1>3 DEF Moves

LEMMA BehindGoaway ==
    ASSUME NEW w \in Seq(Frames), NEW e, NEW d, NothingBehind(w, e),
           e.session = "open", d.session # "open"
    PROVE  NothingBehind(w \o << [type |-> "goaway"] >>, d)
<1> DEFINE g == [type |-> "goaway"]  v == w \o << g >>  n == Len(w)
<1>1. g \in Frames /\ << g >> \in Seq(Frames) /\ Len(<< g >>) = 1 /\ << g >>[1] = g  BY FramesTyped
<1>2. /\ n \in Nat /\ DOMAIN w = 1 .. n /\ DOMAIN v = 1 .. (n + 1)
      /\ \A i \in 1 .. n : v[i] = w[i]
      /\ v[n + 1] = g
  BY <1>1, Joined
<1>3. g.type = "goaway"  OBVIOUS
<1> HIDE DEF v, n, g
<1>4. \A i \in DOMAIN v : i \in DOMAIN w \/ i = n + 1  BY <1>2
<1>5. \A i \in DOMAIN w : w[i].type \notin {"goaway", "fin", "goaway-error"}  BY DEF NothingBehind
<1>6. \A i \in DOMAIN v : v[i].type \notin {"fin", "goaway-error"}  BY <1>2, <1>3, <1>4, <1>5
<1>7. \A i \in DOMAIN v : v[i].type = "goaway" => i = n + 1  BY <1>2, <1>4, <1>5
<1>8. \A j \in DOMAIN v : v[j].type = "request" => j < n + 1  BY <1>2, <1>3, <1>4
<1>9. NothingBehind(v, d)  BY <1>6, <1>7, <1>8 DEF NothingBehind
<1> QED  BY <1>9 DEF v, g

LEMMA HearsJoined ==
    ASSUME NEW w \in Seq(Frames), NEW f \in Seq(Frames), NEW e, NEW d,
           HearsBefore(w, e),
           d.session = "open" => e.session = "open",
           \A s \in Streams :
             d.chan[s] = "requested" => e.chan[s] = "requested" \/ e.session = "open",
           \A i \in DOMAIN f : f[i].type # "fin"
    PROVE  HearsBefore(w \o f, d)
<1>0. ASSUME NEW i \in DOMAIN w, w[i].type = "fin"
      PROVE  /\ d.session = "open" => \E j \in DOMAIN w : j < i /\ IsLeave(w[j])
             /\ \A s \in Streams : d.chan[s] = "requested" =>
                  \E j \in DOMAIN w : j < i /\ (IsLeave(w[j]) \/ IsAnswer(w[j], s))
  BY <1>0 DEF HearsBefore
<1> DEFINE v == w \o f  n == Len(w)
<1>1. /\ n \in Nat /\ DOMAIN w = 1 .. n
      /\ DOMAIN v = 1 .. (n + Len(f)) /\ Len(f) \in Nat /\ DOMAIN f = 1 .. Len(f)
      /\ \A i \in 1 .. n : v[i] = w[i]
      /\ \A i \in 1 .. (n + Len(f)) :
           i \in 1 .. n \/ \E j \in 1 .. Len(f) : i = n + j
      /\ \A j \in 1 .. Len(f) : v[n + j] = f[j]
  BY Joined
<1> HIDE DEF v, n
<1>2. \A i \in DOMAIN w : i \in DOMAIN v /\ v[i] = w[i]  BY <1>1
<1>3. \A i \in DOMAIN v : v[i].type = "fin" => i \in DOMAIN w  BY <1>1
<1>4. HearsBefore(v, d)  BY <1>0, <1>2, <1>3 DEF HearsBefore
<1> QED  BY <1>4 DEF v

LEMMA HearsTaken ==
    ASSUME NEW w \in Seq(Frames), w # <<>>, NEW e, NEW d,
           HearsBefore(w, e),
           d.session = "open" => e.session = "open",
           \A s \in Streams :
             d.chan[s] = "requested" => e.chan[s] = "requested" \/ e.session = "open",
           ~IsLeave(Head(w)),
           \A s \in Streams : IsAnswer(Head(w), s) => d.chan[s] # "requested"
    PROVE  HearsBefore(Tail(w), d)
<1>0. ASSUME NEW i \in DOMAIN w, w[i].type = "fin"
      PROVE  /\ d.session = "open" => \E j \in DOMAIN w : j < i /\ IsLeave(w[j])
             /\ \A s \in Streams : d.chan[s] = "requested" =>
                  \E j \in DOMAIN w : j < i /\ (IsLeave(w[j]) \/ IsAnswer(w[j], s))
  BY <1>0 DEF HearsBefore
<1> DEFINE v == Tail(w)  n == Len(w)
<1>1. /\ n \in Nat /\ DOMAIN w = 1 .. n /\ DOMAIN v = 1 .. (n - 1)
      /\ \A i \in 1 .. (n - 1) : v[i] = w[i + 1]
      /\ Head(w) = w[1]
  BY TakenOff
<1> HIDE DEF v, n
<1>2. \A i \in DOMAIN v : i \in Nat /\ i + 1 \in DOMAIN w /\ v[i] = w[i + 1]  BY <1>1
<1>3. \A i \in DOMAIN v : \A j \in DOMAIN w :
        j < i + 1 /\ j # 1 => j - 1 \in DOMAIN v /\ j - 1 < i /\ v[j - 1] = w[j]
  BY <1>1
<1>4. ASSUME NEW i \in DOMAIN v, v[i].type = "fin"
      PROVE  /\ d.session = "open" => \E j \in DOMAIN v : j < i /\ IsLeave(v[j])
             /\ \A s \in Streams : d.chan[s] = "requested" =>
                  \E j \in DOMAIN v : j < i /\ (IsLeave(v[j]) \/ IsAnswer(v[j], s))
  <2>1. i + 1 \in DOMAIN w /\ w[i + 1].type = "fin"  BY <1>2, <1>4
  <2>2. ASSUME d.session = "open"  PROVE \E j \in DOMAIN v : j < i /\ IsLeave(v[j])
    <3>1. PICK j \in DOMAIN w : j < i + 1 /\ IsLeave(w[j])  BY <1>0, <2>1, <2>2
    <3>2. j # 1  BY <1>1, <3>1
    <3> QED  BY <1>3, <1>4, <3>1, <3>2
  <2>3. ASSUME NEW s \in Streams, d.chan[s] = "requested"
        PROVE  \E j \in DOMAIN v : j < i /\ (IsLeave(v[j]) \/ IsAnswer(v[j], s))
    <3>1. PICK j \in DOMAIN w : j < i + 1 /\ (IsLeave(w[j]) \/ IsAnswer(w[j], s))  BY <1>0, <2>1, <2>3
    <3>2. j # 1  BY <1>1, <2>3, <3>1
    <3> QED  BY <1>3, <1>4, <3>1, <3>2
  <2> QED  BY <2>2, <2>3
<1>5. HearsBefore(v, d)  BY <1>4 DEF HearsBefore
<1> QED  BY <1>5 DEF v

LEMMA HearsTheEnd ==
    ASSUME NEW w \in Seq(Frames), NEW e, HearsBefore(w, e),
           e.session = "open" => Leaving(w),
           \A s \in Streams : e.chan[s] = "requested" => Leaving(w) \/ Answered(w, s)
    PROVE  HearsBefore(w \o << [type |-> "fin"] >>, e)
<1> DEFINE g == [type |-> "fin"]  v == w \o << g >>  n == Len(w)
<1>1. g \in Frames /\ << g >> \in Seq(Frames) /\ Len(<< g >>) = 1 /\ << g >>[1] = g  BY FramesTyped
<1>2. /\ n \in Nat /\ DOMAIN w = 1 .. n /\ DOMAIN v = 1 .. (n + 1)
      /\ \A i \in 1 .. n : v[i] = w[i]
  BY <1>1, Joined
<1> HIDE DEF v, n, g
<1>3. \A i \in DOMAIN v : i \in DOMAIN w \/ i = n + 1  BY <1>2
<1>4. \A i \in DOMAIN w : i \in DOMAIN v /\ v[i] = w[i] /\ i < n + 1  BY <1>2
<1>5. ASSUME NEW i \in DOMAIN v, v[i].type = "fin"
      PROVE  /\ e.session = "open" => \E j \in DOMAIN v : j < i /\ IsLeave(v[j])
             /\ \A s \in Streams : e.chan[s] = "requested" =>
                  \E j \in DOMAIN v : j < i /\ (IsLeave(v[j]) \/ IsAnswer(v[j], s))
  <2>1. CASE i \in DOMAIN w  BY <1>4, <1>5, <2>1 DEF HearsBefore
  <2>2. CASE i = n + 1  BY <1>4, <2>2 DEF Leaving, Answered
  <2> QED  BY <1>3, <2>1, <2>2
<1>6. HearsBefore(v, e)  BY <1>5 DEF HearsBefore
<1> QED  BY <1>6 DEF v, g

-----------------------------------------------------------------------------
(* Types, and what a closed transport keeps. *)

LEMMA TypesKept ==
    ASSUME H2TypeOK, ends' \in [Sides -> EndTypes],
           NEW f \in Seq(Frames), Moves(wire["client"], wire'["client"], f),
           NEW g \in Seq(Frames), Moves(wire["server"], wire'["server"], g),
           opening' \in [ServerStreams -> Openings], taken' \in SUBSET Streams,
           troubles' \in 0..MaxTroubles, lost' \in BOOLEAN
    PROVE  H2TypeOK'
BY Typed, MovesTyped DEF H2TypeOK, EndTypes, Sides

\* One stream of x changes its state.
LEMMA ChanKept ==
    ASSUME H2TypeOK, SessionShut, NEW x \in Sides, NEW s \in Streams, NEW v \in Statuses,
           ChanGoes(x, s, v),
           Live(v) => ends[x].session # "destroyed",
           NEW f \in Seq(Frames), Moves(wire["client"], wire'["client"], f),
           NEW g \in Seq(Frames), Moves(wire["server"], wire'["server"], g),
           \A y \in Sides : ends[y].session = "destroyed" => wire'[y] = <<>>,
           opening' \in [ServerStreams -> Openings], taken' \in SUBSET Streams,
           troubles' \in 0..MaxTroubles, lost' \in BOOLEAN
    PROVE  H2TypeOK' /\ SessionShut'
<1>1. /\ ends' \in [Sides -> EndTypes]
      /\ \A y \in Sides : /\ y # x => ends'[y] = ends[y]
                          /\ ends'[y].state = ends[y].state
                          /\ ends'[y].session = ends[y].session
      /\ ends'[x].chan[s] = v
      /\ \A r \in Streams : r # s => ends'[x].chan[r] = ends[x].chan[r]
  BY DEF ChanGoes
<1>2. H2TypeOK'  BY <1>1, TypesKept
<1>3. ASSUME NEW y \in Sides, ends'[y].session = "destroyed", NEW r \in Streams
      PROVE  ~Live(ends'[y].chan[r])
  BY <1>1, <1>3 DEF SessionShut
<1> QED  BY <1>1, <1>2, <1>3 DEF SessionShut

LEMMA SameKept ==
    ASSUME H2TypeOK, SessionShut, ends' = ends,
           NEW f \in Seq(Frames), Moves(wire["client"], wire'["client"], f),
           NEW g \in Seq(Frames), Moves(wire["server"], wire'["server"], g),
           \A y \in Sides : ends[y].session = "destroyed" => wire'[y] = <<>>,
           opening' \in [ServerStreams -> Openings], taken' \in SUBSET Streams,
           troubles' \in 0..MaxTroubles, lost' \in BOOLEAN
    PROVE  H2TypeOK' /\ SessionShut'
BY TypesKept DEF H2TypeOK, EndTypes, SessionShut

LEMMA EndedKept ==
    ASSUME H2TypeOK, SessionShut, NEW x \in Sides, SessionEnded(x),
           NEW f \in Seq(Frames), Moves(wire["client"], wire'["client"], f),
           NEW g \in Seq(Frames), Moves(wire["server"], wire'["server"], g),
           wire'[x] = <<>>,
           \A y \in Sides : ends[y].session = "destroyed" => wire'[y] = <<>>,
           opening' \in [ServerStreams -> Openings], taken' \in SUBSET Streams,
           troubles' \in 0..MaxTroubles, lost' \in BOOLEAN
    PROVE  H2TypeOK' /\ SessionShut'
BY TypesKept DEF SessionEnded, SessionShut

-----------------------------------------------------------------------------
(* Nobody is left waiting. *)

\* The server takes a frame, or none, and answers a request that it takes.
LEMMA LeftByServer ==
    ASSUME H2TypeOK, NobodyIsLeft, lost' = lost, Client' = Client,
           Server'.session = Server.session,
           NEW f \in Seq(Frames), \A i \in DOMAIN f : f[i].type # "fin",
           \/ wire'["client"] = wire["client"] \o f
           \/ wire'["client"] = <<>> /\ Client.session = "destroyed"
                /\ \A s \in Streams : ~Live(Client.chan[s]),
           \/ wire'["server"] = wire["server"]
           \/ /\ wire["server"] # <<>> /\ wire'["server"] = Tail(wire["server"])
              /\ \A s \in Streams : Head(wire["server"]) = Frame("request", s) => Answered(f, s)
    PROVE  NobodyIsLeft'
<1> SUFFICES ASSUME ~lost
             PROVE  /\ WillHear'
                    /\ NothingBehind(wire'["server"], Client)
                    /\ HearsBefore(wire'["client"], Client)
                    /\ \A s \in Streams : Client.chan[s] # "silent"
  BY DEF NobodyIsLeft
<1>1. /\ WillHear /\ NothingBehind(wire["server"], Client)
      /\ HearsBefore(wire["client"], Client)
      /\ \A s \in Streams : Client.chan[s] # "silent"
  BY DEF NobodyIsLeft
<1>2. /\ wire["client"] \in Seq(Frames) /\ wire["server"] \in Seq(Frames)
      /\ <<>> \in Seq(Frames) /\ wire["server"] \o <<>> = wire["server"]
  BY Typed, NoFrames
<1>3. Moves(wire["server"], wire'["server"], <<>>)  BY <1>2 DEF Moves
<1>4. NothingBehind(wire'["server"], Client)
  <2> DEFINE w == wire["server"]  v == wire'["server"]  e == Client  g == <<>>
  <2>1. /\ w \in Seq(Frames) /\ g \in Seq(Frames) /\ Moves(w, v, g) /\ NothingBehind(w, e)
        /\ DOMAIN g = {}
    BY <1>1, <1>2, <1>3
  <2> HIDE DEF w, v, e, g
  <2>2. NothingBehind(v, e)  BY <2>1, BehindKept
  <2> QED  BY <2>2 DEF v, e
<1>5. HearsBefore(wire'["client"], Client)
  <2>1. CASE wire'["client"] = wire["client"] \o f
    <3> DEFINE w == wire["client"]  e == Client
    <3>1. w \in Seq(Frames) /\ HearsBefore(w, e)  BY <1>1, <1>2
    <3> HIDE DEF w, e
    <3>2. HearsBefore(w \o f, e)  BY <3>1, HearsJoined
    <3> QED  BY <2>1, <3>2 DEF w, e
  <2>2. CASE wire'["client"] = <<>>  BY <2>2 DEF HearsBefore
  <2> QED  BY <2>1, <2>2
<1>6. WillHear'
  <2>1. /\ Leaving(wire["client"]) => Leaving(wire["client"] \o f)
        /\ \A s \in Streams : Answered(wire["client"], s) \/ Answered(f, s) =>
             Answered(wire["client"] \o f, s)
    BY <1>2, JoinedCarries
  <2>2. \A s \in Streams : Carries(wire["server"], Frame("request", s)) =>
          \/ Carries(wire'["server"], Frame("request", s))
          \/ Answered(f, s)
    BY <1>2, TailCarries
  <2>3. CASE wire'["client"] = wire["client"] \o f  BY <1>1, <2>1, <2>2, <2>3 DEF WillHear
  <2>4. CASE wire'["client"] = <<>> /\ Client.session = "destroyed"
               /\ \A s \in Streams : ~Live(Client.chan[s])
    BY <2>4 DEF WillHear, Live
  <2> QED  BY <2>3, <2>4
<1> QED  BY <1>1, <1>4, <1>5, <1>6

\* The client takes a frame, or none, and waits for nothing else than before, or for
\* stream r, which it requests.
LEMMA LeftByClient ==
    ASSUME H2TypeOK, NobodyIsLeft, lost' = lost, Server' = Server,
           Client'.session = Client.session, Client.session # "destroyed",
           NEW r \in Streams, NEW requests \in BOOLEAN,
           requests => Client.session = "open",
           \A s \in Streams : Client'.chan[s] = "requested" =>
             Client.chan[s] = "requested" \/ (requests /\ s = r),
           \A s \in Streams : Client'.chan[s] = "silent" => Client.chan[s] = "silent",
           NEW g \in Seq(Frames),
           \A i \in DOMAIN g : g[i].type \notin {"fin", "goaway", "goaway-error"},
           \A i \in DOMAIN g : g[i].type = "request" => requests,
           requests => Carries(g, Frame("request", r)),
           \/ wire'["server"] = wire["server"] \o g
           \/ wire'["server"] = <<>> /\ Server.session = "destroyed",
           \/ wire'["client"] = wire["client"]
           \/ /\ wire["client"] # <<>> /\ wire'["client"] = Tail(wire["client"])
              /\ ~IsLeave(Head(wire["client"]))
              /\ \A s \in Streams :
                   IsAnswer(Head(wire["client"]), s) => Client'.chan[s] # "requested"
    PROVE  NobodyIsLeft'
<1> SUFFICES ASSUME ~lost
             PROVE  /\ WillHear'
                    /\ NothingBehind(wire'["server"], Client')
                    /\ HearsBefore(wire'["client"], Client')
                    /\ \A s \in Streams : Client'.chan[s] # "silent"
  BY DEF NobodyIsLeft
<1>1. /\ WillHear /\ NothingBehind(wire["server"], Client)
      /\ HearsBefore(wire["client"], Client)
      /\ \A s \in Streams : Client.chan[s] # "silent"
  BY DEF NobodyIsLeft
<1>2. /\ wire["client"] \in Seq(Frames) /\ wire["server"] \in Seq(Frames)
      /\ <<>> \in Seq(Frames) /\ wire["client"] \o <<>> = wire["client"]
      /\ \A i \in DOMAIN <<>> : <<>>[i].type # "fin"
  BY Typed, NoFrames
<1>3. Moves(wire["server"], wire'["server"], g)  BY <1>2 DEF Moves
<1>4. NothingBehind(wire'["server"], Client')  BY <1>1, <1>2, <1>3, BehindKept
<1>5. HearsBefore(wire'["client"], Client')
  <2> DEFINE w == wire["client"]  e == Client  d == Client'
  <2>1. /\ w \in Seq(Frames) /\ HearsBefore(w, e)
        /\ d.session = "open" => e.session = "open"
        /\ \A s \in Streams :
             d.chan[s] = "requested" => e.chan[s] = "requested" \/ e.session = "open"
    BY <1>1, <1>2
  <2>2. CASE wire'["client"] = wire["client"]
    <3> HIDE DEF w, e, d
    <3>1. HearsBefore(w, d)  BY <2>1 DEF HearsBefore
    <3> QED  BY <2>2, <3>1 DEF w, d
  <2>3. CASE wire'["client"] # wire["client"]
    <3>1. /\ w # <<>> /\ wire'["client"] = Tail(w) /\ ~IsLeave(Head(w))
          /\ \A s \in Streams : IsAnswer(Head(w), s) => d.chan[s] # "requested"
      BY <2>3
    <3> HIDE DEF w, e, d
    <3>2. HearsBefore(Tail(w), d)  BY <2>1, <3>1, HearsTaken
    <3> QED  BY <3>1, <3>2 DEF d
  <2> QED  BY <2>2, <2>3
<1>6. WillHear'
  <2>1. /\ Leaving(wire["client"]) => Leaving(wire'["client"])
        /\ \A s \in Streams :
             Answered(wire["client"], s) /\ Client'.chan[s] = "requested" =>
               Answered(wire'["client"], s)
    BY <1>2, TailCarries
  <2>2. Server.session = "open" => wire'["server"] = wire["server"] \o g  OBVIOUS
  <2>3. ASSUME NEW s \in Streams,
               Carries(wire["server"], Frame("request", s)) \/ Carries(g, Frame("request", s)),
               Server.session = "open"
        PROVE  Carries(wire'["server"], Frame("request", s))
    <3>1. wire'["server"] = wire["server"] \o g  BY <2>2, <2>3
    <3>2. Carries(wire["server"] \o g, Frame("request", s))  BY <1>2, <2>3, JoinedCarries
    <3> QED  BY <3>1, <3>2
  <2>4. ASSUME NEW s \in Streams, Client'.chan[s] = "requested", Client.chan[s] = "requested"
        PROVE  \/ Leaving(wire'["client"]) \/ Answered(wire'["client"], s)
               \/ Server.session = "open" /\ Carries(wire'["server"], Frame("request", s))
    BY <1>1, <2>1, <2>3, <2>4 DEF WillHear
  <2>5. ASSUME requests
        PROVE  \/ Leaving(wire'["client"])
               \/ Server.session = "open" /\ Carries(wire'["server"], Frame("request", r))
    BY <1>1, <2>1, <2>3, <2>5 DEF WillHear
  <2> QED  BY <1>1, <2>1, <2>4, <2>5 DEF WillHear
<1> QED  BY <1>1, <1>4, <1>5, <1>6

\* The client is gone.
LEMMA LeftByClientGone ==
    ASSUME H2TypeOK, NobodyIsLeft, lost' = lost,
           Client'.session = "destroyed", \A s \in Streams : ~Live(Client'.chan[s]),
           ~lost => \A s \in Streams : Client'.chan[s] = "silent" => Client.chan[s] = "silent",
           wire'["client"] = <<>>,
           NEW g \in Seq(Frames), \A i \in DOMAIN g : g[i].type \notin {"request", "goaway"},
           wire'["server"] = <<>> \/ wire'["server"] = wire["server"] \o g
    PROVE  NobodyIsLeft'
<1> SUFFICES ASSUME ~lost
             PROVE  /\ WillHear'
                    /\ NothingBehind(wire'["server"], Client')
                    /\ HearsBefore(wire'["client"], Client')
                    /\ \A s \in Streams : Client'.chan[s] # "silent"
  BY DEF NobodyIsLeft
<1>1. /\ NothingBehind(wire["server"], Client)
      /\ \A s \in Streams : Client.chan[s] # "silent"
  BY DEF NobodyIsLeft
<1>2. wire["server"] \in Seq(Frames)  BY Typed
<1>3. NothingBehind(wire'["server"], Client')
  <2>1. Moves(wire["server"], wire'["server"], g)  BY DEF Moves
  <2> DEFINE w == wire["server"]  v == wire'["server"]  e == Client  d == Client'
  <2>2. /\ w \in Seq(Frames) /\ Moves(w, v, g) /\ NothingBehind(w, e)
        /\ d.session = "destroyed"
        /\ e.session # "open" => d.session # "open"
        /\ e.session = "destroyed" => d.session = "destroyed"
    BY <1>1, <1>2, <2>1
  <2>3. \A i \in DOMAIN g : /\ g[i].type # "goaway"
                            /\ g[i].type = "request" => e.session = "open"
                            /\ g[i].type \in {"fin", "goaway-error"} => d.session = "destroyed"
    BY <2>2
  <2> HIDE DEF w, v, e, d
  <2>4. NothingBehind(v, d)  BY <2>2, <2>3, BehindKept
  <2> QED  BY <2>4 DEF v, d
<1>4. HearsBefore(wire'["client"], Client')  BY DEF HearsBefore
<1>5. WillHear'  BY DEF WillHear, Live
<1> QED  BY <1>1, <1>3, <1>4, <1>5

\* The server is gone: it has said so, or it had nothing left to answer.
LEMMA LeftByServerGone ==
    ASSUME H2TypeOK, NobodyIsLeft, lost' = lost, Client' = Client,
           Server'.session = "destroyed", wire'["server"] = <<>>,
           ~lost =>
             \/ /\ wire'["client"] = <<>> /\ Client.session = "destroyed"
                /\ \A s \in Streams : ~Live(Client.chan[s])
             \/ wire'["client"] = wire["client"] \o << [type |-> "goaway-error"], [type |-> "fin"] >>
             \/ /\ wire'["client"] = wire["client"] \o << [type |-> "fin"] >>
                /\ Server.session = "closed"
    PROVE  NobodyIsLeft'
<1> SUFFICES ASSUME ~lost
             PROVE  /\ WillHear'
                    /\ NothingBehind(wire'["server"], Client)
                    /\ HearsBefore(wire'["client"], Client)
                    /\ \A s \in Streams : Client.chan[s] # "silent"
  BY DEF NobodyIsLeft
<1> DEFINE w == wire["client"]  a == [type |-> "goaway-error"]  b == [type |-> "fin"]
<1>1. /\ WillHear /\ HearsBefore(w, Client)
      /\ \A s \in Streams : Client.chan[s] # "silent"
  BY DEF NobodyIsLeft
<1>2. NothingBehind(wire'["server"], Client)  BY DEF NothingBehind
<1>3. /\ w \in Seq(Frames) /\ a \in Frames /\ b \in Frames
      /\ << a >> \in Seq(Frames) /\ << b >> \in Seq(Frames)
  BY Typed, FramesTyped
<1>4. CASE /\ wire'["client"] = <<>> /\ Client.session = "destroyed"
           /\ \A s \in Streams : ~Live(Client.chan[s])
  BY <1>1, <1>2, <1>4 DEF WillHear, HearsBefore, Live
<1>5. CASE wire'["client"] = w \o << a, b >>
  <2> DEFINE v == w \o << a >>
  <2>1. w \o << a, b >> = v \o << b >> /\ v \in Seq(Frames)  BY <1>3
  <2>2. Leaving(<< a >>)  BY <1>3, OneFrame DEF IsLeave
  <2>3. Leaving(v)  BY <1>3, <2>2, JoinedCarries
  <2>4. HearsBefore(v, Client)
    <3> DEFINE f == << a >>  e == Client
    <3>1. \A i \in DOMAIN f : f[i].type # "fin"  OBVIOUS
    <3>2. f \in Seq(Frames) /\ w \in Seq(Frames) /\ HearsBefore(w, e)  BY <1>1, <1>3
    <3> HIDE DEF f, e, w
    <3>3. HearsBefore(w \o f, e)  BY <3>1, <3>2, HearsJoined
    <3> QED  BY <3>3 DEF f, e
  <2>5. HearsBefore(v \o << b >>, Client)
    <3> DEFINE e == Client
    <3>1. HearsBefore(v, e)  BY <2>4
    <3> HIDE DEF e, v
    <3>2. HearsBefore(v \o << [type |-> "fin"] >>, e)  BY <2>1, <2>3, <3>1, HearsTheEnd
    <3> QED  BY <3>2 DEF e
  <2>6. Leaving(v \o << b >>)  BY <1>3, <2>1, <2>3, JoinedCarries
  <2>7. wire'["client"] = v \o << b >>  BY <1>5, <2>1
  <2> HIDE DEF v, w, a, b
  <2>8. WillHear' /\ HearsBefore(wire'["client"], Client)  BY <2>5, <2>6, <2>7 DEF WillHear
  <2> QED  BY <1>1, <1>2, <2>8
<1>6. CASE wire'["client"] = w \o << b >> /\ Server.session = "closed"
  <2>1. /\ Client.session = "open" => Leaving(w)
        /\ \A s \in Streams : Client.chan[s] = "requested" => Leaving(w) \/ Answered(w, s)
    BY <1>1, <1>6 DEF WillHear
  <2>2. HearsBefore(w \o << b >>, Client)
    <3> DEFINE e == Client
    <3>1. /\ HearsBefore(w, e)
          /\ e.session = "open" => Leaving(w)
          /\ \A s \in Streams : e.chan[s] = "requested" => Leaving(w) \/ Answered(w, s)
      BY <1>1, <2>1
    <3> HIDE DEF e, w
    <3>2. HearsBefore(w \o << [type |-> "fin"] >>, e)  BY <1>3, <3>1, HearsTheEnd
    <3> QED  BY <3>2 DEF e
  <2>3. /\ Leaving(w) => Leaving(w \o << b >>)
        /\ \A s \in Streams : Answered(w, s) => Answered(w \o << b >>, s)
    BY <1>3, JoinedCarries
  <2>4. WillHear'  BY <1>1, <1>6, <2>1, <2>3 DEF WillHear
  <2> QED  BY <1>1, <1>2, <1>6, <2>2, <2>4
<1> QED  BY <1>4, <1>5, <1>6

-----------------------------------------------------------------------------
(* Steps that neither ask for a stream nor give one. *)

Harmless(f) ==
    f \in Seq(Frames) /\ \A i \in DOMAIN f : f[i].type \notin {"signal", "request", "response"}

LEMMA HarmlessCarries ==
    ASSUME NEW f, Harmless(f), NEW s \in Streams
    PROVE  /\ ~Carries(f, Frame("signal", s))
           /\ ~Carries(f, Frame("request", s))
           /\ ~Carries(f, Frame("response", s))
BY DEF Harmless, Carries, Frame

LEMMA HarmlessFrames ==
    /\ Harmless(<<>>)
    /\ \A s \in Streams : \A k \in {"end", "rst"} : Harmless(<< Frame(k, s) >>)
    /\ Harmless(<< [type |-> "goaway"] >>)
    /\ Harmless(<< [type |-> "goaway-error"], [type |-> "fin"] >>)
    /\ Harmless(<< [type |-> "fin"] >>)
<1>1. ASSUME NEW f \in Frames, f.type \notin {"signal", "request", "response"}
      PROVE  Harmless(<< f >>)
  BY <1>1, OneFrame DEF Harmless
<1>2. /\ [type |-> "goaway"] \in Frames /\ [type |-> "goaway-error"] \in Frames
      /\ [type |-> "fin"] \in Frames
      /\ \A s \in Streams : \A k \in {"end", "rst"} :
           Frame(k, s) \in Frames /\ Frame(k, s).type = k
  BY FramesTyped
<1>3. ASSUME NEW s \in Streams, NEW k \in {"end", "rst"}  PROVE Harmless(<< Frame(k, s) >>)  BY <1>1, <1>2
<1>4. Harmless(<< [type |-> "goaway"] >>) /\ Harmless(<< [type |-> "fin"] >>)  BY <1>1, <1>2
<1>5. Harmless(<< [type |-> "goaway-error"], [type |-> "fin"] >>)  BY <1>2 DEF Harmless
<1>6. Harmless(<<>>)  BY NoFrames DEF Harmless
<1> QED  BY <1>3, <1>4, <1>5, <1>6

LEMMA EndOrReset ==
    ASSUME NEW s \in Streams, NEW k \in {"end", "rst"}, NEW f, f = << Frame(k, s) >>
    PROVE  /\ Harmless(f)
           /\ \A i \in DOMAIN f : f[i].type \notin {"fin", "goaway", "goaway-error"}
<1>1. Harmless(f)  BY HarmlessFrames
<1>2. \A i \in DOMAIN f : f[i].type = k  BY DEF Frame
<1> QED  BY <1>1, <1>2

LEMMA Different == "client" \in Sides /\ "server" \in Sides /\ Sides = {"client", "server"}
BY DEF Sides

\* What Exchanged() is for the two wires.
LEMMA BothMove ==
    ASSUME H2TypeOK, SessionShut, NEW x \in Sides, NEW rest, NEW f,
           \/ rest = wire[x]
           \/ wire[x] # <<>> /\ rest = Tail(wire[x])
           \/ ends'[x].session = "destroyed",
           wire' = Exchanged(x, rest, f)
    PROVE  /\ x = "client" => Moves(wire["client"], wire'["client"], <<>>)
                           /\ Moves(wire["server"], wire'["server"], f)
           /\ x = "server" => Moves(wire["client"], wire'["client"], f)
                           /\ Moves(wire["server"], wire'["server"], <<>>)
           /\ \A y \in Sides : ends'[y].session = "destroyed" => wire'[y] = <<>>
<1>1. wire["client"] \o <<>> = wire["client"] /\ wire["server"] \o <<>> = wire["server"]  BY Typed
<1>2. wire[x] \o <<>> = wire[x]  BY <1>1, Different
<1>3. ASSUME NEW y \in Sides, y # x
      PROVE  /\ Moves(wire[x], wire'[x], <<>>) /\ Moves(wire[y], wire'[y], f)
             /\ ends'[x].session = "destroyed" => wire'[x] = <<>>
             /\ ends'[y].session = "destroyed" => wire'[y] = <<>>
  <2>1. /\ wire'[x] = IF ends'[x].session = "destroyed" THEN <<>> ELSE rest
        /\ wire'[y] = IF ends'[y].session = "destroyed" THEN <<>> ELSE wire[y] \o f
    BY <1>3, Exchanges
  <2> QED  BY <1>2, <2>1 DEF Moves
<1>4. CASE x = "client"  BY <1>3, <1>4, Different
<1>5. CASE x = "server"  BY <1>3, <1>5, Different
<1> QED  BY <1>4, <1>5, Different

LEMMA EndKeeps ==
    ASSUME H2Inv, NEW x \in Sides, NEW rest, SessionEnded(x),
           NEW f, Harmless(f), \A i \in DOMAIN f : f[i].type # "goaway",
           wire' = Exchanged(x, rest, f), opening' = Rejected(x),
           taken' = taken, lost' = lost, troubles' \in 0..MaxTroubles,
           x = "client" /\ ~lost =>
             \A s \in Streams : Client'.chan[s] = "silent" => Client.chan[s] = "silent",
           x = "server" /\ ~lost =>
             \/ Client.session = "destroyed"
             \/ f = << [type |-> "goaway-error"], [type |-> "fin"] >>
             \/ f = << [type |-> "fin"] >> /\ Server.session = "closed"
    PROVE  H2Inv'
<1> USE Different
<1>1. H2TypeOK /\ SessionShut /\ f \in Seq(Frames) /\ <<>> \in Seq(Frames)  BY NoFrames DEF H2Inv, Harmless
<1>2. /\ ends' \in [Sides -> EndTypes]
      /\ \A y \in Sides : y # x => ends'[y] = ends[y]
      /\ ends'[x].state = "closed" /\ ends'[x].session = "destroyed"
      /\ \A s \in Streams :
           /\ ~Live(ends'[x].chan[s])
           /\ ends'[x].chan[s] = "idle" <=> ends[x].chan[s] = "idle"
  BY DEF SessionEnded
<1>3. /\ x = "client" => Moves(wire["client"], wire'["client"], <<>>)
                      /\ Moves(wire["server"], wire'["server"], f)
      /\ x = "server" => Moves(wire["client"], wire'["client"], f)
                      /\ Moves(wire["server"], wire'["server"], <<>>)
      /\ \A y \in Sides : ends'[y].session = "destroyed" => wire'[y] = <<>>
  BY <1>1, <1>2, BothMove
<1>4. \A y \in Sides : ends[y].session = "destroyed" => wire'[y] = <<>>  BY <1>2, <1>3
<1>5. /\ opening' \in [ServerStreams -> Openings]
      /\ \A t \in ServerStreams :
           \/ opening'[t] = opening[t]
           \/ opening'[t] = "failed" /\ opening[t] \in {"waiting", "pending"}
      /\ x = "server" => \A t \in ServerStreams : opening'[t] # "pending"
  BY <1>1, OpeningRejected
<1>6. taken' \in SUBSET Streams /\ lost' \in BOOLEAN  BY <1>1 DEF H2TypeOK
<1>7. \E g, h \in Seq(Frames) : /\ Harmless(g) /\ Moves(wire["client"], wire'["client"], g)
                                /\ Harmless(h) /\ Moves(wire["server"], wire'["server"], h)
  BY <1>1, <1>3, HarmlessFrames
<1>8. PICK g \in Seq(Frames), h \in Seq(Frames) :
             /\ Harmless(g) /\ Moves(wire["client"], wire'["client"], g)
             /\ Harmless(h) /\ Moves(wire["server"], wire'["server"], h)
  BY <1>7
<1>9. wire'[x] = <<>>  BY <1>2, <1>3
<1>10. H2TypeOK' /\ SessionShut'  BY <1>1, <1>4, <1>5, <1>6, <1>8, <1>9, EndedKept
<1>11. ASSUME NEW t \in ServerStreams  PROVE AskedOnce(t)'
  <2>1. t \in Streams /\ AskedOnce(t)  BY DEF Streams, H2Inv
  <2>2. ~Carries(g, Frame("signal", t)) /\ ~Carries(h, Frame("request", t))  BY <1>8, <2>1, HarmlessCarries
  <2>3. Client'.chan[t] = "idle" <=> Client.chan[t] = "idle"  BY <1>2, <2>1 DEF Client
  <2>4. opening'[t] = "pending" => Server'.state # "closed"
    <3>1. CASE x = "server"  BY <1>5, <3>1
    <3>2. CASE x = "client"  BY <1>2, <1>5, <2>1, <3>2 DEF AskedOnce, Server
    <3> QED  BY <3>1, <3>2
  <2> QED  BY <1>1, <1>5, <1>8, <2>1, <2>2, <2>3, <2>4, AskedSame
<1>12. ASSUME NEW s \in Streams  PROVE AnswersAreTrue(s)'
  <2>1. AnswersAreTrue(s)  BY DEF H2Inv
  <2>2. ~Carries(g, Frame("response", s))  BY <1>8, HarmlessCarries
  <2>3. Client'.chan[s] \in {"open", "ending"} => Client.chan[s] \in {"open", "ending"}
    BY <1>2 DEF Client, Live
  <2>4. Server.chan[s] # "idle" => Server'.chan[s] # "idle"  BY <1>2 DEF Server
  <2> QED  BY <1>1, <1>8, <2>1, <2>2, <2>3, <2>4, AnswersSame
<1>13. NobodyIsLeft'
  <2>1. NobodyIsLeft  BY DEF H2Inv
  <2>2. CASE x = "client"
    <3>0. wire' = Exchanged("client", rest, f)  BY <2>2
    <3>1. wire'["server"] = <<>> \/ wire'["server"] = wire["server"] \o f  BY <3>0, ClientExchanges
    <3>2. \A i \in DOMAIN f : f[i].type \notin {"request", "goaway"}  BY DEF Harmless
    <3>3. ~lost => \A s \in Streams : Client'.chan[s] = "silent" => Client.chan[s] = "silent"  BY <2>2
    <3>4. /\ Client'.session = "destroyed" /\ \A s \in Streams : ~Live(Client'.chan[s])
          /\ wire'["client"] = <<>>
      BY <1>2, <1>9, <2>2 DEF Client
    <3> QED  BY <1>1, <2>1, <3>1, <3>2, <3>3, <3>4, LeftByClientGone
  <2>3. CASE x = "server"
    <3>1. Client' = Client /\ Server'.session = "destroyed" /\ wire'["server"] = <<>>
      BY <1>2, <1>9, <2>3 DEF Client, Server
    <3>2. CASE Client.session = "destroyed"
      BY <1>1, <1>4, <3>2, <2>1, <3>1, LeftByServerGone DEF SessionShut, Client
    <3>3. CASE Client.session # "destroyed"
      <4>1. wire'["client"] = wire["client"] \o f
        <5>1. ends'["client"].session # "destroyed"  BY <3>1, <3>3 DEF Client
        <5>2. wire'["client"] = IF ends'["client"].session = "destroyed"
                                THEN <<>> ELSE wire["client"] \o f
          BY <2>3, Exchanges
        <5> QED  BY <5>1, <5>2
      <4>2. ~lost =>
               \/ wire'["client"] = wire["client"] \o << [type |-> "goaway-error"], [type |-> "fin"] >>
               \/ /\ wire'["client"] = wire["client"] \o << [type |-> "fin"] >>
                  /\ Server.session = "closed"
        BY <2>3, <3>3, <4>1
      <4> QED  BY <1>1, <2>1, <3>1, <4>2, LeftByServerGone
    <3> QED  BY <3>2, <3>3
  <2> QED  BY <2>2, <2>3
<1> QED  BY <1>10, <1>11, <1>12, <1>13 DEF H2Inv

\* A stream that is live at x goes on to end, or ends.
LEMMA ChanStepKeeps ==
    ASSUME H2Inv, NEW x \in Sides, NEW s \in Streams, NEW v \in {"ending", "closed", "failed"},
           ChanGoes(x, s, v),
           Live(ends[x].chan[s]), v = "ending" => ends[x].chan[s] = "open",
           NEW f, Harmless(f),
           \A i \in DOMAIN f : f[i].type \notin {"fin", "goaway", "goaway-error"},
           NEW rest, wire' = Exchanged(x, rest, f),
           \/ rest = wire[x]
           \/ /\ wire[x] # <<>> /\ rest = Tail(wire[x])
              /\ Head(wire[x]) \in {Frame("end", s), Frame("rst", s)},
           opening' = opening, taken' = taken, lost' = lost, troubles' \in 0..MaxTroubles
    PROVE  H2Inv'
<1> USE Different
<1>1. H2TypeOK /\ SessionShut /\ f \in Seq(Frames) /\ <<>> \in Seq(Frames)  BY NoFrames DEF H2Inv, Harmless
<1>2. /\ ends' \in [Sides -> EndTypes]
      /\ \A y \in Sides : /\ y # x => ends'[y] = ends[y]
                          /\ ends'[y].state = ends[y].state
                          /\ ends'[y].session = ends[y].session
      /\ ends'[x].chan[s] = v
      /\ \A r \in Streams : r # s => ends'[x].chan[r] = ends[x].chan[r]
  BY DEF ChanGoes
<1>3. ends[x].session # "destroyed"  BY <1>1 DEF SessionShut
<1>4. /\ x = "client" => Moves(wire["client"], wire'["client"], <<>>)
                      /\ Moves(wire["server"], wire'["server"], f)
      /\ x = "server" => Moves(wire["client"], wire'["client"], f)
                      /\ Moves(wire["server"], wire'["server"], <<>>)
      /\ \A y \in Sides : ends'[y].session = "destroyed" => wire'[y] = <<>>
  BY <1>1, <1>2, BothMove
<1>5. PICK g \in Seq(Frames), k \in Seq(Frames) :
             /\ Harmless(g) /\ Moves(wire["client"], wire'["client"], g)
             /\ Harmless(k) /\ Moves(wire["server"], wire'["server"], k)
  BY <1>1, <1>4, HarmlessFrames
<1>6. /\ opening' \in [ServerStreams -> Openings] /\ taken' \in SUBSET Streams
      /\ lost' \in BOOLEAN
  BY <1>1 DEF H2TypeOK
<1>7. H2TypeOK' /\ SessionShut'
  <2>1. /\ \A y \in Sides : ends[y].session = "destroyed" => wire'[y] = <<>>
        /\ Live(v) => ends[x].session # "destroyed"
        /\ v \in Statuses
    BY <1>2, <1>3, <1>4 DEF Statuses
  <2> QED  BY <1>1, <1>5, <1>6, <2>1, ChanKept
<1>8. ASSUME NEW t \in ServerStreams  PROVE AskedOnce(t)'
  <2>1. t \in Streams /\ AskedOnce(t)  BY DEF Streams, H2Inv
  <2>2. ~Carries(g, Frame("signal", t)) /\ ~Carries(k, Frame("request", t))  BY <1>5, <2>1, HarmlessCarries
  <2>3. Client'.chan[t] = "idle" <=> Client.chan[t] = "idle"  BY <1>2, <2>1 DEF Client, Live
  <2>4. opening'[t] = "pending" => Server'.state # "closed"  BY <1>2, <2>1 DEF AskedOnce, Server
  <2> QED  BY <1>1, <1>5, <2>1, <2>2, <2>3, <2>4, AskedSame
<1>9. ASSUME NEW r \in Streams  PROVE AnswersAreTrue(r)'
  <2>1. AnswersAreTrue(r)  BY DEF H2Inv
  <2>2. ~Carries(g, Frame("response", r))  BY <1>5, HarmlessCarries
  <2>3. Client'.chan[r] \in {"open", "ending"} => Client.chan[r] \in {"open", "ending"}  BY <1>2 DEF Client
  <2>4. Server.chan[r] # "idle" => Server'.chan[r] # "idle"  BY <1>2 DEF Server
  <2> QED  BY <1>1, <1>5, <2>1, <2>2, <2>3, <2>4, AnswersSame
<1>10. NobodyIsLeft'
  <2>1. NobodyIsLeft  BY DEF H2Inv
  <2>2. CASE x = "client"
    <3>1. Server' = Server /\ Client'.session = Client.session /\ Client.session # "destroyed"
      BY <1>2, <1>3, <2>2 DEF Client, Server
    <3>2. /\ \A r \in Streams : Client'.chan[r] = "requested" => Client.chan[r] = "requested" /\ r # s
          /\ \A r \in Streams : Client'.chan[r] = "silent" => Client.chan[r] = "silent"
      BY <1>2, <2>2 DEF Client
    <3>3. \A i \in DOMAIN f : f[i].type \notin {"fin", "goaway", "goaway-error", "request"}  BY DEF Harmless
    <3>8. wire' = Exchanged("client", rest, f)  BY <2>2
    <3>4. \/ wire'["server"] = wire["server"] \o f
          \/ wire'["server"] = <<>> /\ Server.session = "destroyed"
      <4>1. ends'["server"].session = Server.session  BY <1>2 DEF Server
      <4>2. wire'["server"] = IF ends'["server"].session = "destroyed"
                              THEN <<>> ELSE wire["server"] \o f
        BY <3>8, ClientExchanges
      <4> QED  BY <4>1, <4>2
    <3>5. wire'["client"] = rest  BY <1>2, <1>3, <2>2, <3>8, ClientExchanges
    <3>6. \/ wire'["client"] = wire["client"]
          \/ /\ wire["client"] # <<>> /\ wire'["client"] = Tail(wire["client"])
             /\ ~IsLeave(Head(wire["client"]))
             /\ \A r \in Streams :
                  IsAnswer(Head(wire["client"]), r) => Client'.chan[r] # "requested"
      <4>1. CASE rest = wire["client"]  BY <3>5, <4>1
      <4>2. CASE /\ wire["client"] # <<>> /\ rest = Tail(wire["client"])
                 /\ Head(wire["client"]) \in {Frame("end", s), Frame("rst", s)}
        <5> DEFINE h == Head(wire["client"])
        <5>1. h = [type |-> "end", stream |-> s] \/ h = [type |-> "rst", stream |-> s]  BY <4>2 DEF Frame
        <5>2. h.type \in {"end", "rst"} /\ h.stream = s  BY <5>1
        <5>3. ~IsLeave(h)  BY <5>2 DEF IsLeave
        <5>4. ASSUME NEW r \in Streams, IsAnswer(h, r)  PROVE r = s  BY <5>2, <5>4 DEF IsAnswer, Frame
        <5> QED  BY <3>2, <3>5, <4>2, <5>3, <5>4
      <4> QED  BY <2>2, <4>1, <4>2
    <3>7. FALSE \in BOOLEAN  OBVIOUS
    <3> QED  BY <1>1, <2>1, <3>1, <3>2, <3>3, <3>4, <3>6, <3>7, LeftByClient
  <2>3. CASE x = "server"
    <3>1. Client' = Client /\ Server'.session = Server.session  BY <1>2, <2>3 DEF Client, Server
    <3>5. wire' = Exchanged("server", rest, f)  BY <2>3
    <3>2. \/ wire'["client"] = wire["client"] \o f
          \/ wire'["client"] = <<>> /\ Client.session = "destroyed"
               /\ \A r \in Streams : ~Live(Client.chan[r])
      <4>1. ends'["client"].session = Client.session  BY <1>2 DEF Client
      <4>2. wire'["client"] = IF ends'["client"].session = "destroyed"
                              THEN <<>> ELSE wire["client"] \o f
        BY <3>5, ServerExchanges
      <4>3. Client.session = "destroyed" => \A r \in Streams : ~Live(Client.chan[r])
        BY <1>1 DEF SessionShut, Client
      <4> QED  BY <4>1, <4>2, <4>3
    <3>3. wire'["server"] = rest  BY <1>2, <1>3, <2>3, <3>5, ServerExchanges
    <3>4. \/ wire'["server"] = wire["server"]
          \/ /\ wire["server"] # <<>> /\ wire'["server"] = Tail(wire["server"])
             /\ \A r \in Streams : Head(wire["server"]) = Frame("request", r) => Answered(f, r)
      <4>1. CASE rest = wire["server"]  BY <3>3, <4>1
      <4>2. CASE /\ wire["server"] # <<>> /\ rest = Tail(wire["server"])
                 /\ Head(wire["server"]) \in {Frame("end", s), Frame("rst", s)}
        <5> DEFINE h == Head(wire["server"])
        <5>1. h = [type |-> "end", stream |-> s] \/ h = [type |-> "rst", stream |-> s]  BY <4>2 DEF Frame
        <5>2. \A r \in Streams : h # Frame("request", r)  BY <5>1 DEF Frame
        <5> QED  BY <3>3, <4>2, <5>2
      <4> QED  BY <2>3, <4>1, <4>2
    <3> QED  BY <1>1, <2>1, <3>1, <3>2, <3>4, LeftByServer
  <2> QED  BY <2>2, <2>3
<1> QED  BY <1>7, <1>8, <1>9, <1>10 DEF H2Inv

\* A frame is taken, or a harmless one sent, and nothing else happens.
LEMMA StillKeeps ==
    ASSUME H2Inv, NEW x \in Sides, ends' = ends,
           NEW f, Harmless(f),
           \A i \in DOMAIN f : f[i].type \notin {"fin", "goaway", "goaway-error"},
           wire[x] # <<>>, wire' = Exchanged(x, Tail(wire[x]), f),
           ends[x].session # "destroyed",
           x = "client" => /\ ~IsLeave(Head(wire[x]))
                           /\ \A r \in Streams : IsAnswer(Head(wire[x]), r) =>
                                ends[x].chan[r] # "requested",
           x = "server" => \A r \in Streams : Head(wire[x]) = Frame("request", r) =>
                             Answered(f, r),
           opening' = opening, taken' = taken, lost' = lost, troubles' = troubles
    PROVE  H2Inv'
<1> USE Different
<1>1. H2TypeOK /\ SessionShut /\ f \in Seq(Frames) /\ <<>> \in Seq(Frames)  BY NoFrames DEF H2Inv, Harmless
<1>2. /\ x = "client" => Moves(wire["client"], wire'["client"], <<>>)
                      /\ Moves(wire["server"], wire'["server"], f)
      /\ x = "server" => Moves(wire["client"], wire'["client"], f)
                      /\ Moves(wire["server"], wire'["server"], <<>>)
      /\ \A y \in Sides : ends'[y].session = "destroyed" => wire'[y] = <<>>
  <2> DEFINE rest == Tail(wire[x])
  <2>1. wire[x] # <<>> /\ rest = Tail(wire[x]) /\ wire' = Exchanged(x, rest, f)  OBVIOUS
  <2> HIDE DEF rest
  <2> QED  BY <1>1, <2>1, BothMove
<1>3. PICK g \in Seq(Frames), h \in Seq(Frames) :
             /\ Harmless(g) /\ Moves(wire["client"], wire'["client"], g)
             /\ Harmless(h) /\ Moves(wire["server"], wire'["server"], h)
  BY <1>1, <1>2, HarmlessFrames
<1>4. H2TypeOK' /\ SessionShut'  BY <1>1, <1>2, <1>3, SameKept DEF H2TypeOK
<1>5. Client' = Client /\ Server' = Server  BY DEF Client, Server
<1>6. ASSUME NEW t \in ServerStreams  PROVE AskedOnce(t)'
  BY <1>3, HarmlessCarries, <1>5, <1>1, AskedSame DEF Streams, H2Inv, AskedOnce
<1>7. ASSUME NEW r \in Streams  PROVE AnswersAreTrue(r)'
  BY <1>3, HarmlessCarries, <1>1, <1>5, AnswersSame DEF H2Inv
<1>8. NobodyIsLeft'
  <2>1. NobodyIsLeft  BY DEF H2Inv
  <2>2. CASE x = "client"
    <3>1. /\ wire'["client"] = IF ends'["client"].session = "destroyed"
                               THEN <<>> ELSE Tail(wire["client"])
          /\ wire'["server"] = IF ends'["server"].session = "destroyed"
                               THEN <<>> ELSE wire["server"] \o f
      BY <2>2, ClientExchanges
    <3>2. /\ wire["client"] # <<>> /\ wire'["client"] = Tail(wire["client"])
          /\ ~IsLeave(Head(wire["client"]))
          /\ \A r \in Streams :
               IsAnswer(Head(wire["client"]), r) => Client'.chan[r] # "requested"
      BY <1>5, <2>2, <3>1 DEF Client
    <3>3. \/ wire'["server"] = wire["server"] \o f
          \/ wire'["server"] = <<>> /\ Server.session = "destroyed"
      BY <3>1 DEF Server
    <3>4. \A i \in DOMAIN f : f[i].type \notin {"fin", "goaway", "goaway-error", "request"}  BY DEF Harmless
    <3>5. FALSE \in BOOLEAN /\ Client.session # "destroyed"  BY <2>2 DEF Client
    <3>6. Ctl \in Streams  BY DEF Streams
    <3> QED  BY <1>1, <1>5, <2>1, <3>2, <3>3, <3>4, <3>5, <3>6, LeftByClient
  <2>3. CASE x = "server"
    <3>1. /\ wire'["server"] = IF ends'["server"].session = "destroyed"
                               THEN <<>> ELSE Tail(wire["server"])
          /\ wire'["client"] = IF ends'["client"].session = "destroyed"
                               THEN <<>> ELSE wire["client"] \o f
      BY <2>3, ServerExchanges
    <3>2. /\ wire["server"] # <<>> /\ wire'["server"] = Tail(wire["server"])
          /\ \A r \in Streams : Head(wire["server"]) = Frame("request", r) => Answered(f, r)
      BY <2>3, <3>1
    <3>3. \/ wire'["client"] = wire["client"] \o f
          \/ wire'["client"] = <<>> /\ Client.session = "destroyed"
               /\ \A r \in Streams : ~Live(Client.chan[r])
      BY <1>1, <3>1 DEF Client, SessionShut
    <3> QED  BY <1>1, <1>5, <2>1, <3>2, <3>3, LeftByServer
  <2> QED  BY <2>2, <2>3
<1> QED  BY <1>4, <1>6, <1>7, <1>8 DEF H2Inv

-----------------------------------------------------------------------------
(* The programs at both ends. *)

\* Only what the server asks for changes.
LEMMA OpeningKeeps ==
    ASSUME H2Inv, UNCHANGED <<ends, wire, taken, troubles, lost>>,
           opening' \in [ServerStreams -> Openings],
           \A t \in ServerStreams :
             \/ opening'[t] = opening[t]
             \/ opening'[t] = "waiting" /\ opening[t] = "idle"
             \/ opening'[t] = "failed" /\ opening[t] \in {"waiting", "pending"}
    PROVE  H2Inv'
<1>1. H2TypeOK /\ SessionShut /\ NobodyIsLeft  BY DEF H2Inv
<1>2. Client' = Client /\ Server' = Server  BY DEF Client, Server
<1>3. H2TypeOK'  BY <1>1 DEF H2TypeOK
<1>4. SessionShut'  BY <1>1 DEF SessionShut
<1>5. ASSUME NEW t \in ServerStreams  PROVE AskedOnce(t)'  BY <1>2 DEF H2Inv, AskedOnce
<1>6. ASSUME NEW s \in Streams  PROVE AnswersAreTrue(s)'  BY <1>2 DEF H2Inv, AnswersAreTrue
<1>7. NobodyIsLeft'  BY <1>1, <1>2 DEF NobodyIsLeft, WillHear
<1> QED  BY <1>3, <1>4, <1>5, <1>6, <1>7 DEF H2Inv

LEMMA OpenFromServerKeeps ==
    ASSUME H2Inv, NEW t \in ServerStreams, OpenFromServer(t)
    PROVE  H2Inv'
BY OpeningKeeps DEF H2Inv, H2TypeOK, OpenFromServer, Openings

LEMMA OpenTimesOutKeeps ==
    ASSUME H2Inv, NEW t \in ServerStreams, OpenTimesOut(t)
    PROVE  H2Inv'
BY OpeningKeeps DEF H2Inv, H2TypeOK, OpenTimesOut, Openings

LEMMA CloseChannelKeeps ==
    ASSUME H2Inv, NEW x \in Sides, NEW s \in Streams, CloseChannel(x, s)
    PROVE  H2Inv'
<1>1. H2TypeOK /\ MaxTroubles \in Nat /\ "ending" \in Statuses  BY H2Assumption DEF H2Inv, Statuses
<1>2. ChanGoes(x, s, "ending")  BY <1>1, ChanSet DEF CloseChannel
<1> DEFINE f == << Frame("end", s) >>
<1>3. Harmless(f) /\ \A i \in DOMAIN f : f[i].type \notin {"fin", "goaway", "goaway-error"}  BY EndOrReset
<1>4. /\ wire' = Exchanged(x, wire[x], f) /\ opening' = opening
      /\ taken' = taken /\ lost' = lost
      /\ ends[x].chan[s] = "open"
  BY DEF CloseChannel
<1>5. troubles' \in 0..MaxTroubles /\ Live(ends[x].chan[s])  BY <1>1, <1>4 DEF CloseChannel, H2TypeOK, Live
<1> HIDE DEF f
<1> QED  BY <1>2, <1>3, <1>4, <1>5, ChanStepKeeps

LEMMA CleanupKeeps ==
    ASSUME H2Inv, NEW x \in Sides, NEW rest, CleanupWithError(x, rest),
           taken' = taken, lost' = lost, troubles' \in 0..MaxTroubles
    PROVE  H2Inv'
<1>1. H2TypeOK  BY DEF H2Inv
<1> DEFINE f == << [type |-> "goaway-error"], [type |-> "fin"] >>
<1>2. /\ ends' = [ends EXCEPT ![x] = Cleaned(@, TRUE)]
      /\ wire' = Exchanged(x, rest, f) /\ opening' = Rejected(x)
  BY DEF CleanupWithError
<1>3. /\ SessionEnded(x)
      /\ \A s \in Streams : ends'[x].chan[s] = "silent" => ends[x].chan[s] = "silent"
  BY <1>1, <1>2, EndedWithError
<1>4. x = "client" => \A s \in Streams : Client'.chan[s] = "silent" => Client.chan[s] = "silent"
  BY <1>3 DEF Client
<1>5. Harmless(f) /\ \A i \in DOMAIN f : f[i].type # "goaway"  BY HarmlessFrames
<1> QED  BY <1>2, <1>3, <1>4, <1>5, EndKeeps

LEMMA AbortKeeps ==
    ASSUME H2Inv, NEW x \in Sides, Abort(x)
    PROVE  H2Inv'
BY H2Assumption, CleanupKeeps DEF Abort, H2Inv, H2TypeOK

\* A stream of x that is live is closed, at the end of another frame of it or not.
LEMMA ChannelClosesKeeps ==
    ASSUME H2Inv, NEW x \in Sides, NEW s \in Streams, Live(ends[x].chan[s]),
           NEW rest, NEW f, ChannelCloses(x, s, rest, f),
           f = <<>> \/ f = << Frame("rst", s) >>,
           \/ rest = wire[x]
           \/ /\ wire[x] # <<>> /\ rest = Tail(wire[x])
              /\ Head(wire[x]) \in {Frame("end", s), Frame("rst", s)},
           taken' = taken, lost' = lost, troubles' = troubles
    PROVE  H2Inv'
<1>1. H2TypeOK /\ troubles' \in 0..MaxTroubles  BY DEF H2Inv, H2TypeOK
<1>2. CASE CleanupWithError(x, rest)  BY <1>1, <1>2, CleanupKeeps
<1>3. CASE ~CleanupWithError(x, rest)
  <2> DEFINE v == IF ends[x].chan[s] = "requested" THEN "failed" ELSE "closed"
  <2>1. /\ ends' = [ends EXCEPT ![x].chan[s] = v]
        /\ wire' = Exchanged(x, rest, f) /\ opening' = opening
    BY <1>3 DEF ChannelCloses
  <2>2. v \in Statuses /\ v \in {"ending", "closed", "failed"} /\ v # "ending"  BY DEF Statuses
  <2> HIDE DEF v
  <2>3. ChanGoes(x, s, v)  BY <1>1, <2>1, <2>2, ChanSet
  <2>4. Harmless(f) /\ \A i \in DOMAIN f : f[i].type \notin {"fin", "goaway", "goaway-error"}
    <3>1. CASE f = <<>>  BY <3>1, HarmlessFrames
    <3>2. CASE f = << Frame("rst", s) >>  BY <3>2, EndOrReset
    <3> QED  BY <3>1, <3>2
  <2> QED  BY <1>1, <2>1, <2>2, <2>3, <2>4, ChanStepKeeps
<1> QED  BY <1>2, <1>3

LEMMA SignalTyped ==
    ASSUME NEW s \in Streams, NEW k \in {"request", "response", "signal"}
    PROVE  /\ << Frame(k, s) >> \in Seq(Frames)
           /\ \A i \in DOMAIN << Frame(k, s) >> : << Frame(k, s) >>[i].type = k
           /\ \A g : Carries(<< Frame(k, s) >>, g) <=> g = Frame(k, s)
           /\ \A g : Once(<< Frame(k, s) >>, g)
<1>1. Frame(k, s) \in Frames  BY FramesTyped
<1>2. \A i \in DOMAIN << Frame(k, s) >> : << Frame(k, s) >>[i].type = k  BY DEF Frame
<1> QED  BY <1>1, <1>2, OneFrame

\* The server sends the signal of stream t.
LEMMA SignalKeeps ==
    ASSUME H2Inv, NEW t \in ServerStreams,
           opening[t] = "waiting", opening' = [opening EXCEPT ![t] = "pending"],
           Server.chan[Ctl] = "open",
           ends' = ends, wire' = Exchanged("server", wire["server"], << Frame("signal", t) >>),
           UNCHANGED <<taken, troubles, lost>>
    PROVE  H2Inv'
<1> USE Different
<1> DEFINE f == << Frame("signal", t) >>
<1>1. H2TypeOK /\ SessionShut /\ <<>> \in Seq(Frames) /\ t \in Streams /\ Ctl \in Streams
  BY NoFrames DEF H2Inv, Streams
<1>2. /\ f \in Seq(Frames)
      /\ \A i \in DOMAIN f : f[i].type = "signal"
      /\ \A g : Carries(f, g) <=> g = Frame("signal", t)
      /\ \A g : Once(f, g)
  BY <1>1, SignalTyped
<1>3. /\ wire'["server"] = IF ends'["server"].session = "destroyed" THEN <<>> ELSE wire["server"]
      /\ wire'["client"] = IF ends'["client"].session = "destroyed"
                           THEN <<>> ELSE wire["client"] \o f
  BY ServerExchanges
<1> HIDE DEF f
<1>4. Server.session # "destroyed" /\ Server.state # "closed"  BY <1>1 DEF SessionShut, Server, Live
<1>5. Client' = Client /\ Server' = Server  BY DEF Client, Server
<1>6. /\ wire'["server"] = wire["server"]
      /\ \/ wire'["client"] = wire["client"] \o f
         \/ wire'["client"] = <<>> /\ Client.session = "destroyed"
              /\ \A r \in Streams : ~Live(Client.chan[r])
  BY <1>1, <1>3, <1>4 DEF Client, Server, SessionShut
<1>7. /\ Moves(wire["client"], wire'["client"], f)
      /\ Moves(wire["server"], wire'["server"], <<>>)
  BY <1>1, Typed, <1>6 DEF Moves
<1>8. H2TypeOK' /\ SessionShut'  BY <1>1, <1>3, <1>2, <1>7, SameKept DEF H2TypeOK, Openings
<1>9. ASSUME NEW u \in ServerStreams  PROVE AskedOnce(u)'
  <2>1. AskedOnce(u) /\ AskedOnce(t) /\ u \in Streams  BY DEF H2Inv, Streams
  <2>2. opening' \in [ServerStreams -> Openings] /\ opening'[t] = "pending"
        /\ (u # t => opening'[u] = opening[u])
    BY <1>1 DEF H2TypeOK, Openings
  <2>3. CASE u # t
    <3>1. /\ ~Carries(f, Frame("signal", u))
          /\ ~Carries(<<>>, Frame("request", u))
      BY <1>2, <2>3, NoFrames DEF Frame
    <3>2. opening'[u] = "pending" => Server'.state # "closed"  BY <1>4, <1>5
    <3> QED  BY <1>1, <1>2, <1>5, <1>7, <2>1, <2>2, <2>3, <3>1, <3>2, AskedSame
  <2>4. CASE u = t
    <3>1. ~Carries(wire["client"], Frame("signal", t)) /\ ~Carries(wire["server"], Frame("request", t))
      BY <2>1 DEF AskedOnce
    <3>2. Client.chan[t] = "idle" /\ t \notin taken  BY <2>1 DEF AskedOnce
    <3>3. Once(wire'["client"], Frame("signal", t))
      <4>1. Once(wire["client"] \o f, Frame("signal", t))  BY <1>1, <1>2, <3>1, Typed, JoinedCarries
      <4>2. Once(<<>>, Frame("signal", t))  BY NoFrames
      <4> QED  BY <1>6, <4>1, <4>2
    <3> QED  BY <1>4, <1>5, <1>6, <2>1, <2>2, <2>4, <3>1, <3>2, <3>3 DEF AskedOnce
  <2> QED  BY <2>3, <2>4
<1>10. ASSUME NEW r \in Streams  PROVE AnswersAreTrue(r)'
  BY <1>2, <1>1, <1>5, <1>7, AnswersSame DEF H2Inv, Frame
<1>11. NobodyIsLeft'  BY <1>2, <1>1, <1>5, <1>6, LeftByServer DEF H2Inv
<1> QED  BY <1>8, <1>9, <1>10, <1>11 DEF H2Inv

LEMMA SendSignalKeeps ==
    ASSUME H2Inv, NEW t \in ServerStreams, SendSignal(t)
    PROVE  H2Inv'
<1>1. /\ H2TypeOK /\ Ctl \in Streams /\ opening[t] = "waiting"
      /\ opening \in [ServerStreams -> Openings]
      /\ UNCHANGED <<taken, troubles, lost>> /\ troubles \in 0..MaxTroubles
  BY DEF SendSignal, H2Inv, H2TypeOK, Streams
<1>2. CASE opening' = [opening EXCEPT ![t] = "failed"] /\ UNCHANGED <<ends, wire>>
  BY <1>1, <1>2, OpeningKeeps DEF Openings
<1>3. CASE /\ ends["server"].chan[Ctl] = "open"
           /\ opening' = [opening EXCEPT ![t] = "pending"]
           /\ UNCHANGED ends
           /\ wire' = Exchanged("server", wire["server"], << Frame("signal", t) >>)
  BY <1>1, <1>3, SignalKeeps DEF Server
<1>4. CASE /\ ends["server"].chan[Ctl] = "ending"
           /\ ChannelCloses("server", Ctl, wire["server"], << Frame("rst", Ctl) >>)
  <2> DEFINE f == << Frame("rst", Ctl) >>  rest == wire["server"]
  <2>1. /\ ChannelCloses("server", Ctl, rest, f) /\ "server" \in Sides
        /\ Live(ends["server"].chan[Ctl]) /\ f = << Frame("rst", Ctl) >>
        /\ rest = wire["server"]
    BY <1>4 DEF Live, Sides
  <2> HIDE DEF f, rest
  <2> QED  BY <1>1, <2>1, ChannelClosesKeeps
<1> QED  BY <1>2, <1>3, <1>4 DEF SendSignal

\* The client requests stream s: of itself, or because it takes the signal.
LEMMA RequestKeeps ==
    ASSUME H2Inv, NEW s \in Streams, ChanGoes("client", s, "requested"),
           Client.session = "open",
           NEW rest, wire' = Exchanged("client", rest, << Frame("request", s) >>),
           \/ rest = wire["client"] /\ s \notin ServerStreams
           \/ /\ wire["client"] # <<>> /\ rest = Tail(wire["client"])
              /\ Head(wire["client"]) = Frame("signal", s),
           UNCHANGED <<opening, taken, troubles, lost>>
    PROVE  H2Inv'
<1> USE Different
<1> DEFINE f == << Frame("request", s) >>
<1>1. H2TypeOK /\ SessionShut /\ <<>> \in Seq(Frames)  BY NoFrames DEF H2Inv
<1>2. /\ f \in Seq(Frames)
      /\ \A i \in DOMAIN f : f[i].type = "request"
      /\ \A g : Carries(f, g) <=> g = Frame("request", s)
      /\ \A g : Once(f, g)
  BY SignalTyped
<1>3. /\ wire'["client"] = IF ends'["client"].session = "destroyed" THEN <<>> ELSE rest
      /\ wire'["server"] = IF ends'["server"].session = "destroyed"
                           THEN <<>> ELSE wire["server"] \o f
  BY ClientExchanges
<1> HIDE DEF f
<1>4. /\ Server' = Server /\ Client'.session = Client.session
      /\ Client'.chan[s] = "requested"
      /\ \A r \in Streams : r # s => Client'.chan[r] = Client.chan[r]
      /\ ends'["client"].session = Client.session
  BY DEF ChanGoes, Client, Server
<1>5. /\ wire'["client"] = rest
      /\ \/ wire'["server"] = wire["server"] \o f
         \/ wire'["server"] = <<>> /\ Server.session = "destroyed"
  BY <1>3, <1>4 DEF Server
<1>6. /\ Moves(wire["client"], wire'["client"], <<>>)
      /\ Moves(wire["server"], wire'["server"], f)
  <2>1. wire["client"] \o <<>> = wire["client"]  BY <1>1, Typed
  <2>2. Moves(wire["client"], wire'["client"], <<>>)  BY <1>5, <2>1 DEF Moves
  <2>3. Moves(wire["server"], wire'["server"], f)  BY <1>5 DEF Moves
  <2> QED  BY <2>2, <2>3
<1>7. H2TypeOK' /\ SessionShut'
  <2>1. /\ opening' \in [ServerStreams -> Openings] /\ taken' \in SUBSET Streams
        /\ lost' \in BOOLEAN /\ troubles' \in 0..MaxTroubles
    BY <1>1 DEF H2TypeOK
  <2>2. \A y \in Sides : ends[y].session = "destroyed" => wire'[y] = <<>>  BY <1>3 DEF Client, ChanGoes
  <2>3. "requested" \in Statuses /\ ends["client"].session # "destroyed"  BY DEF Statuses, Client
  <2> QED  BY <1>1, <1>2, <1>6, <2>1, <2>2, <2>3, ChanKept
<1>8. ASSUME NEW u \in ServerStreams  PROVE AskedOnce(u)'
  <2>1. AskedOnce(u) /\ u \in Streams  BY DEF H2Inv, Streams
  <2>2. CASE u # s
    <3>1. /\ ~Carries(<<>>, Frame("signal", u))
          /\ ~Carries(f, Frame("request", u))
      BY <1>2, <2>2, NoFrames DEF Frame
    <3>2. opening'[u] = "pending" => Server'.state # "closed"  BY <1>4, <2>1 DEF AskedOnce
    <3> QED  BY <1>1, <1>2, <1>4, <1>6, <2>1, <2>2, <3>1, <3>2, AskedSame
  <2>3. CASE u = s
    <3>1. wire["client"] # <<>> /\ rest = Tail(wire["client"])
          /\ Head(wire["client"]) = Frame("signal", s)
      BY <2>3
    <3>2. Carries(wire["client"], Frame("signal", s)) /\ wire["client"] \in Seq(Frames)
      BY <1>1, <3>1, Typed, TailCarries
    <3>3. /\ ~Carries(wire["server"], Frame("request", s))
          /\ opening[s] \in {"pending", "failed"} /\ s \notin taken
          /\ Once(wire["client"], Frame("signal", s))
          /\ opening[s] = "pending" => Server.state # "closed"
      BY <2>1, <2>3, <3>2 DEF AskedOnce
    <3>4. ~Carries(rest, Frame("signal", s)) /\ Once(rest, Frame("signal", s))
      BY <3>1, <3>2, <3>3, TailCarries
    <3>5. Once(wire'["server"], Frame("request", s))
      <4>1. Once(wire["server"] \o f, Frame("request", s))  BY <1>1, <1>2, <3>3, Typed, JoinedCarries
      <4>2. Once(<<>>, Frame("request", s))  BY NoFrames
      <4> QED  BY <1>5, <4>1, <4>2
    <3> QED  BY <1>4, <1>5, <2>3, <3>3, <3>4, <3>5 DEF AskedOnce
  <2> QED  BY <2>2, <2>3
<1>9. ASSUME NEW r \in Streams  PROVE AnswersAreTrue(r)'  BY NoFrames, <1>4, <1>1, <1>6, AnswersSame DEF H2Inv
<1>10. NobodyIsLeft'
  <2>1. NobodyIsLeft /\ TRUE \in BOOLEAN  BY DEF H2Inv
  <2>2. /\ \A i \in DOMAIN f : f[i].type \notin {"fin", "goaway", "goaway-error"}
        /\ Carries(f, Frame("request", s))
    BY <1>2
  <2>3. /\ \A r \in Streams : Client'.chan[r] = "requested" => Client.chan[r] = "requested" \/ r = s
        /\ \A r \in Streams : Client'.chan[r] = "silent" => Client.chan[r] = "silent"
    BY <1>4
  <2>4. \/ wire'["client"] = wire["client"]
        \/ /\ wire["client"] # <<>> /\ wire'["client"] = Tail(wire["client"])
           /\ ~IsLeave(Head(wire["client"]))
           /\ \A r \in Streams :
                IsAnswer(Head(wire["client"]), r) => Client'.chan[r] # "requested"
    <3>1. /\ ~IsLeave(Frame("signal", s))
          /\ \A r \in Streams : ~IsAnswer(Frame("signal", s), r)
      BY DEF IsLeave, IsAnswer, Frame
    <3> QED  BY <1>5, <3>1
  <2>5. Client.session # "destroyed"  OBVIOUS
  <2> QED  BY <1>1, <1>2, <1>4, <1>5, <2>1, <2>2, <2>3, <2>4, <2>5, LeftByClient
<1> QED  BY <1>7, <1>8, <1>9, <1>10 DEF H2Inv

\* The request fails.
LEMMA RefusedKeeps ==
    ASSUME H2Inv, NEW s \in Streams, s \notin ServerStreams, Client.chan[s] = "idle",
           ChanGoes("client", s, "failed"), UNCHANGED <<wire, opening, taken, troubles, lost>>
    PROVE  H2Inv'
<1> USE Different
<1>1. H2TypeOK /\ SessionShut /\ <<>> \in Seq(Frames)  BY NoFrames DEF H2Inv
<1>2. /\ Server' = Server /\ Client'.session = Client.session
      /\ Client'.chan[s] = "failed"
      /\ \A r \in Streams : r # s => Client'.chan[r] = Client.chan[r]
  BY DEF ChanGoes, Client, Server
<1>3. /\ Moves(wire["client"], wire'["client"], <<>>)
      /\ Moves(wire["server"], wire'["server"], <<>>)
  BY <1>1, Typed DEF Moves
<1>4. H2TypeOK' /\ SessionShut'  BY <1>1, <1>3, ChanKept DEF H2TypeOK, SessionShut, Statuses, Live
<1>5. ASSUME NEW u \in ServerStreams  PROVE AskedOnce(u)'  BY <1>2 DEF H2Inv, Streams, AskedOnce
<1>6. ASSUME NEW r \in Streams  PROVE AnswersAreTrue(r)'  BY <1>2 DEF H2Inv, AnswersAreTrue
<1>7. NobodyIsLeft'  BY <1>2 DEF H2Inv, NobodyIsLeft, WillHear, NothingBehind, HearsBefore
<1> QED  BY <1>4, <1>5, <1>6, <1>7 DEF H2Inv

LEMMA OwnRequestKeeps ==
    ASSUME H2Inv, NEW s \in {Ctl} \cup ClientStreams, ends["client"].chan[s] = "idle",
           Request(s), UNCHANGED <<opening, taken, troubles, lost>>
    PROVE  H2Inv'
<1>1. H2TypeOK /\ s \in Streams /\ s \notin ServerStreams /\ "client" \in Sides
  BY H2Assumption DEF H2Inv, Streams, Sides
<1>2. CASE ends["client"].session = "open"  BY <1>2, <1>1, ChanSet, RequestKeeps DEF Request, Statuses, Client
<1>3. CASE ends["client"].session # "open"  BY <1>3, <1>1, ChanSet, RefusedKeeps DEF Request, Statuses, Client
<1> QED  BY <1>2, <1>3

\* close() of a transport whose session is closed already.
LEMMA CloseAgainKeeps ==
    ASSUME H2Inv, NEW x \in Sides, Close(x), ends[x].session # "open"
    PROVE  H2Inv'
<1> USE Different
<1>1. H2TypeOK /\ SessionShut /\ ends \in [Sides -> EndTypes]  BY DEF H2Inv, H2TypeOK, EndTypes
<1>2. UNCHANGED <<wire, opening, taken, troubles, lost>>  BY DEF Close
<1>3. ends[x].state = "open" /\ ends[x].session = "closed" /\ ends[x] \in EndTypes
  BY <1>1 DEF Close, SessionShut, EndTypes
<1>4. /\ ends' \in [Sides -> EndTypes]
      /\ \A y \in Sides : y # x => ends'[y] = ends[y]
      /\ ends'[x].state = "closing" /\ ends'[x].session = "closed"
      /\ ends'[x].chan = ends[x].chan
  BY <1>1, <1>3 DEF Close, EndTypes
<1>5. /\ Client'.session = Client.session /\ Client'.chan = Client.chan
      /\ Server'.session = Server.session /\ Server'.chan = Server.chan
      /\ Server'.state = "closed" <=> Server.state = "closed"
  BY <1>3, <1>4 DEF Client, Server
<1>6. H2TypeOK'  BY <1>1, <1>2, <1>4 DEF H2TypeOK, EndTypes
<1>7. SessionShut'  BY <1>1, <1>2, <1>3, <1>4 DEF SessionShut
<1>8. ASSUME NEW t \in ServerStreams  PROVE AskedOnce(t)'  BY <1>2, <1>5 DEF H2Inv, AskedOnce
<1>9. ASSUME NEW s \in Streams  PROVE AnswersAreTrue(s)'  BY <1>2, <1>5 DEF H2Inv, AnswersAreTrue
<1>10. NobodyIsLeft'  BY <1>2, <1>5 DEF H2Inv, NobodyIsLeft, WillHear, NothingBehind, HearsBefore
<1> QED  BY <1>6, <1>7, <1>8, <1>9, <1>10 DEF H2Inv

\* The session of x is closed by its transport, or by the GOAWAY of the other end: x
\* has told the other end, or was told.
LEMMA SessionClosesKeeps ==
    ASSUME H2Inv, NEW x \in Sides, ends' \in [Sides -> EndTypes],
           \A y \in Sides : y # x => ends'[y] = ends[y],
           ends'[x].state # "closed", ends'[x].session = "closed",
           ends[x].state # "closed", ends[x].session # "destroyed",
           \A s \in Streams :
             /\ ends'[x].chan[s] = "idle" <=> ends[x].chan[s] = "idle"
             /\ ends'[x].chan[s] \in {"requested", "open", "ending", "silent"} =>
                  ends'[x].chan[s] = ends[x].chan[s],
           UNCHANGED <<opening, taken, troubles, lost>>,
           NEW f, Harmless(f), NEW rest, wire' = Exchanged(x, rest, f),
           \/ wire[x] # <<>> /\ rest = Tail(wire[x])
           \/ rest = wire[x],
           ~lost => NobodyIsLeft'
    PROVE  H2Inv'
<1> USE Different
<1>1. H2TypeOK /\ SessionShut /\ f \in Seq(Frames) /\ <<>> \in Seq(Frames)  BY NoFrames DEF H2Inv, Harmless
<1>2. /\ x = "client" => Moves(wire["client"], wire'["client"], <<>>)
                      /\ Moves(wire["server"], wire'["server"], f)
      /\ x = "server" => Moves(wire["client"], wire'["client"], f)
                      /\ Moves(wire["server"], wire'["server"], <<>>)
      /\ \A y \in Sides : ends'[y].session = "destroyed" => wire'[y] = <<>>
  BY <1>1, BothMove
<1>3. PICK g \in Seq(Frames), h \in Seq(Frames) :
             /\ Harmless(g) /\ Moves(wire["client"], wire'["client"], g)
             /\ Harmless(h) /\ Moves(wire["server"], wire'["server"], h)
  BY <1>1, <1>2, HarmlessFrames
<1>4. H2TypeOK'  BY <1>1, <1>3, TypesKept DEF H2TypeOK
<1>5. SessionShut'  BY <1>1, <1>2 DEF SessionShut
<1>6. ASSUME NEW t \in ServerStreams  PROVE AskedOnce(t)'
  <2>1. t \in Streams /\ AskedOnce(t)  BY DEF Streams, H2Inv
  <2>2. ~Carries(g, Frame("signal", t)) /\ ~Carries(h, Frame("request", t))  BY <1>3, <2>1, HarmlessCarries
  <2>3. Client'.chan[t] = "idle" <=> Client.chan[t] = "idle"  BY <2>1 DEF Client
  <2>4. opening'[t] = "pending" => Server'.state # "closed"  BY <2>1 DEF AskedOnce, Server
  <2> QED  BY <1>1, <1>3, <2>1, <2>2, <2>3, <2>4, AskedSame
<1>7. ASSUME NEW s \in Streams  PROVE AnswersAreTrue(s)'
  <2>1. AnswersAreTrue(s)  BY DEF H2Inv
  <2>2. ~Carries(g, Frame("response", s))  BY <1>3, HarmlessCarries
  <2>3. Client'.chan[s] \in {"open", "ending"} => Client.chan[s] \in {"open", "ending"}  BY DEF Client
  <2>4. Server.chan[s] # "idle" => Server'.chan[s] # "idle"  BY DEF Server
  <2> QED  BY <1>1, <1>3, <2>1, <2>2, <2>3, <2>4, AnswersSame
<1>8. NobodyIsLeft'  BY DEF NobodyIsLeft
<1> QED  BY <1>4, <1>5, <1>6, <1>7, <1>8 DEF H2Inv

LEMMA GoawayFrame ==
    LET f == << [type |-> "goaway"] >>
    IN  /\ f \in Seq(Frames) /\ Harmless(f) /\ Leaving(f)
        /\ \A i \in DOMAIN f : f[i].type = "goaway"
<1> DEFINE a == [type |-> "goaway"]
<1>1. a \in Frames /\ IsLeave(a)  BY FramesTyped DEF IsLeave
<1>2. << a >> \in Seq(Frames) /\ Leaving(<< a >>)  BY <1>1, OneFrame
<1>3. Harmless(<< a >>)  BY HarmlessFrames
<1>4. \A i \in DOMAIN << a >> : << a >>[i].type = "goaway"  OBVIOUS
<1> QED  BY <1>2, <1>3, <1>4

LEMMA CloseKeeps ==
    ASSUME H2Inv, NEW x \in Sides, Close(x)
    PROVE  H2Inv'
<1> USE Different
<1>1. CASE ends[x].session # "open"  BY <1>1, CloseAgainKeeps
<1>2. CASE ends[x].session = "open"
  <2> DEFINE f == << [type |-> "goaway"] >>  rest == wire[x]
  <2>1. H2TypeOK /\ SessionShut /\ NobodyIsLeft /\ ends \in [Sides -> EndTypes]
    BY DEF H2Inv, H2TypeOK, EndTypes
  <2>2. f \in Seq(Frames) /\ Harmless(f) /\ Leaving(f) /\ \A i \in DOMAIN f : f[i].type = "goaway"
    BY GoawayFrame
  <2>3. /\ ends' \in [Sides -> EndTypes]
        /\ \A y \in Sides : y # x => ends'[y] = ends[y]
        /\ ends'[x].state = "closing" /\ ends'[x].session = "closed"
        /\ ends'[x].chan = ends[x].chan /\ ends[x].state = "open"
    BY <2>1 DEF Close, EndTypes
  <2>4. UNCHANGED <<opening, taken, troubles, lost>> /\ wire' = Exchanged(x, rest, f)  BY <1>2 DEF Close
  <2> HIDE DEF f
  <2>5. ASSUME ~lost  PROVE NobodyIsLeft'
    <3>1. /\ WillHear /\ NothingBehind(wire["server"], Client)
          /\ HearsBefore(wire["client"], Client)
          /\ \A s \in Streams : Client.chan[s] # "silent"
      BY <2>1, <2>5 DEF NobodyIsLeft
    <3>2. wire["client"] \in Seq(Frames) /\ wire["server"] \in Seq(Frames)  BY <2>1, Typed
    <3>3. CASE x = "client"
      <4>1. /\ Server' = Server /\ Client'.session = "closed" /\ Client'.chan = Client.chan
            /\ Client.session = "open" /\ ends'["client"].session = "closed"
            /\ ends'["server"] = ends["server"]
        BY <1>2, <2>3, <3>3 DEF Client, Server
      <4>2. wire' = Exchanged("client", rest, f) /\ rest = wire["client"]  BY <2>4, <3>3
      <4>3. /\ wire'["client"] = wire["client"]
            /\ wire'["server"] = IF ends'["server"].session = "destroyed"
                                 THEN <<>> ELSE wire["server"] \o f
        BY <4>1, <4>2, ClientExchanges
      <4>4. WillHear'
        <5>1. ASSUME NEW s \in Streams, Server.session = "open",
                     Carries(wire["server"], Frame("request", s))
              PROVE  Carries(wire'["server"], Frame("request", s))
          BY <4>1, <4>3, <5>1, <2>2, <3>2, JoinedCarries DEF Server
        <5> QED  BY <3>1, <4>1, <4>3, <5>1 DEF WillHear
      <4>5. NothingBehind(wire'["server"], Client')
        <5> DEFINE w == wire["server"]  e == Client  d == Client'
        <5>1. w \in Seq(Frames) /\ NothingBehind(w, e) /\ e.session = "open" /\ d.session # "open"
          BY <3>1, <3>2, <4>1
        <5>2. CASE wire'["server"] = <<>>  BY <5>2 DEF NothingBehind
        <5>3. CASE wire'["server"] = w \o f
          <6> HIDE DEF w, e, d
          <6>1. NothingBehind(w \o f, d)  BY <5>1, BehindGoaway DEF f
          <6> QED  BY <5>3, <6>1 DEF d
        <5> QED  BY <4>3, <5>2, <5>3
      <4>6. HearsBefore(wire'["client"], Client')  BY <3>1, <4>1, <4>3 DEF HearsBefore
      <4> QED  BY <3>1, <4>1, <4>4, <4>5, <4>6 DEF NobodyIsLeft
    <3>4. CASE x = "server"
      <4>1. /\ Client' = Client /\ Server'.session = "closed"
            /\ ends'["client"] = Client /\ ends'["server"].session = "closed"
        BY <2>3, <3>4 DEF Client, Server
      <4>2. wire' = Exchanged("server", rest, f) /\ rest = wire["server"]  BY <2>4, <3>4
      <4>3. /\ wire'["server"] = wire["server"]
            /\ wire'["client"] = IF Client.session = "destroyed"
                                 THEN <<>> ELSE wire["client"] \o f
        BY <4>1, <4>2, ServerExchanges
      <4>4. Client.session = "destroyed" => \A s \in Streams : ~Live(Client.chan[s])
        BY <2>1 DEF SessionShut, Client
      <4>5. WillHear'
        <5>1. CASE Client.session = "destroyed"  BY <4>1, <4>4, <5>1 DEF WillHear, Live
        <5>2. CASE wire'["client"] = wire["client"] \o f
          BY <2>2, <3>2, <5>2, JoinedCarries, <4>1 DEF WillHear
        <5> QED  BY <4>3, <5>1, <5>2
      <4>6. HearsBefore(wire'["client"], Client)
        <5>1. CASE wire'["client"] = <<>>  BY <5>1 DEF HearsBefore
        <5>2. CASE wire'["client"] = wire["client"] \o f
          <6> DEFINE w == wire["client"]  e == Client
          <6>1. /\ w \in Seq(Frames) /\ HearsBefore(w, e)
                /\ \A i \in DOMAIN f : f[i].type # "fin"
            BY <2>2, <3>1, <3>2
          <6> HIDE DEF w, e
          <6>2. HearsBefore(w \o f, e)  BY <2>2, <6>1, HearsJoined
          <6> QED  BY <5>2, <6>2 DEF w, e
        <5> QED  BY <4>3, <5>1, <5>2
      <4> QED  BY <3>1, <4>1, <4>3, <4>5, <4>6 DEF NobodyIsLeft
    <3> QED  BY <3>3, <3>4
  <2>6. /\ ends'[x].state # "closed" /\ ends[x].state # "closed" /\ ends[x].session # "destroyed"
        /\ \A s \in Streams :
             /\ ends'[x].chan[s] = "idle" <=> ends[x].chan[s] = "idle"
             /\ ends'[x].chan[s] \in {"requested", "open", "ending", "silent"} =>
                  ends'[x].chan[s] = ends[x].chan[s]
    BY <1>2, <2>3
  <2>7. rest = wire[x]  OBVIOUS
  <2> HIDE DEF rest
  <2> QED  BY <2>2, <2>3, <2>4, <2>5, <2>6, <2>7, SessionClosesKeeps
<1> QED  BY <1>1, <1>2

LEMMA ReceiveGoawayKeeps ==
    ASSUME H2Inv, NEW x \in Sides, ReceiveGoaway(x)
    PROVE  H2Inv'
<1> USE Different
<1> DEFINE rest == Tail(wire[x])  h == Head(wire[x])
<1>1. H2TypeOK /\ SessionShut /\ NobodyIsLeft /\ ends \in [Sides -> EndTypes]
  BY DEF H2Inv, H2TypeOK, EndTypes
<1>2. /\ wire[x] # <<>> /\ h.type = "goaway" /\ ends[x].session # "destroyed"
      /\ UNCHANGED <<opening, taken, troubles, lost>>
      /\ wire' = Exchanged(x, rest, <<>>)
  BY DEF ReceiveGoaway, Received, Rest
<1>3. /\ ends' \in [Sides -> EndTypes]
      /\ \A y \in Sides : y # x => ends'[y] = ends[y]
      /\ ends'[x].state = ends[x].state /\ ends'[x].session = "closed"
      /\ \A s \in Streams : ends'[x].chan[s] = IF ends[x].chan[s] = "requested"
                                               THEN "failed" ELSE ends[x].chan[s]
  <2> DEFINE c == [s \in Streams |-> IF ends[x].chan[s] = "requested" THEN "failed" ELSE ends[x].chan[s]]
             d == [ends[x] EXCEPT !.session = "closed", !.chan = c]
  <2>1. ends[x] \in EndTypes /\ ends[x].chan \in [Streams -> Statuses]  BY <1>1 DEF EndTypes
  <2>2. c \in [Streams -> Statuses]  BY <2>1 DEF Statuses
  <2>3. d \in EndTypes /\ d.state = ends[x].state /\ d.session = "closed" /\ d.chan = c
    BY <2>1, <2>2 DEF EndTypes
  <2>4. ends' = [ends EXCEPT ![x] = d]  BY <1>1, <2>1 DEF ReceiveGoaway
  <2>5. ends'[x] = d /\ \A y \in Sides : y # x => ends'[y] = ends[y]  BY <1>1, <2>4
  <2>6. ends' \in [Sides -> EndTypes]  BY <1>1, <2>3, <2>4
  <2>7. \A s \in Streams : d.chan[s] = IF ends[x].chan[s] = "requested"
                                       THEN "failed" ELSE ends[x].chan[s]
    BY <2>3
  <2> HIDE DEF d
  <2> QED  BY <2>3, <2>5, <2>6, <2>7
<1>4. ends[x].state # "closed"  BY <1>1, <1>2 DEF SessionShut
<1>5. wire["client"] \in Seq(Frames) /\ wire["server"] \in Seq(Frames)  BY <1>1, Typed
<1>6. ASSUME ~lost  PROVE NobodyIsLeft'
  <2>1. /\ WillHear /\ NothingBehind(wire["server"], Client)
        /\ HearsBefore(wire["client"], Client)
        /\ \A s \in Streams : Client.chan[s] # "silent"
    BY <1>1, <1>6 DEF NobodyIsLeft
  <2>2. CASE x = "client"
    <3>1. /\ Server' = Server /\ Client'.session = "closed"
          /\ \A s \in Streams : Client'.chan[s] # "requested" /\ Client'.chan[s] # "silent"
          /\ ends'["server"] = ends["server"]
      BY <1>3, <2>1, <2>2 DEF Client, Server
    <3>2. wire' = Exchanged("client", rest, <<>>)  BY <1>2, <2>2
    <3>3. wire'["server"] = <<>> \/ wire'["server"] = wire["server"] \o <<>>  BY <3>2, ClientExchanges
    <3>4. WillHear'  BY <3>1 DEF WillHear
    <3>5. HearsBefore(wire'["client"], Client')  BY <3>1 DEF HearsBefore
    <3>6. NothingBehind(wire'["server"], Client')
      <4>1. CASE wire'["server"] = <<>>  BY <4>1 DEF NothingBehind
      <4>2. CASE wire'["server"] = wire["server"]  BY <1>2, <2>1, <2>2, <3>1, <4>2 DEF NothingBehind, Client
      <4>3. wire["server"] \o <<>> = wire["server"]  BY <1>5
      <4> QED  BY <3>3, <4>1, <4>2, <4>3
    <3> QED  BY <3>1, <3>4, <3>5, <3>6 DEF NobodyIsLeft
  <2>3. CASE x = "server"
    <3>1. /\ Client' = Client /\ Server'.session = "closed"
          /\ ends'["client"] = Client /\ ends'["server"].session = "closed"
      BY <1>3, <2>3 DEF Client, Server
    <3>2. wire' = Exchanged("server", rest, <<>>) /\ rest = Tail(wire["server"])
          /\ wire["server"] # <<>> /\ h = Head(wire["server"])
      BY <1>2, <2>3
    <3>3. /\ wire'["server"] = rest
          /\ wire'["client"] = IF Client.session = "destroyed"
                               THEN <<>> ELSE wire["client"] \o <<>>
      BY <3>1, <3>2, ServerExchanges
    <3>4. wire["client"] \o <<>> = wire["client"]  BY <1>5
    <3>5. /\ Client.session # "open"
          /\ \A s \in Streams : ~Carries(wire["server"], Frame("request", s))
      BY <1>5, <3>2, TakenOff, <1>2, <2>1 DEF NothingBehind, Frame, Carries
    <3>6. Client.session = "destroyed" => \A s \in Streams : ~Live(Client.chan[s])
      BY <1>1 DEF SessionShut, Client
    <3>7. WillHear'
      <4>1. CASE Client.session = "destroyed"  BY <3>1, <3>6, <4>1 DEF WillHear, Live
      <4>2. CASE wire'["client"] = wire["client"]  BY <2>1, <3>1, <3>5, <4>2 DEF WillHear
      <4> QED  BY <3>3, <3>4, <4>1, <4>2
    <3>8. HearsBefore(wire'["client"], Client)
      <4>1. CASE wire'["client"] = <<>>  BY <4>1 DEF HearsBefore
      <4>2. CASE wire'["client"] = wire["client"]  BY <2>1, <4>2
      <4> QED  BY <3>3, <3>4, <4>1, <4>2
    <3>9. NothingBehind(wire'["server"], Client)
      <4> DEFINE w == wire["server"]  e == Client  g == <<>>
      <4>1. /\ w \in Seq(Frames) /\ g \in Seq(Frames) /\ DOMAIN g = {}
            /\ Moves(w, Tail(w), g) /\ NothingBehind(w, e)
        BY <1>5, <2>1, <3>2, NoFrames DEF Moves
      <4> HIDE DEF w, e, g
      <4>2. NothingBehind(Tail(w), e)  BY <4>1, BehindKept
      <4> QED  BY <3>2, <3>3, <4>2 DEF w, e
    <3> QED  BY <2>1, <3>1, <3>7, <3>8, <3>9 DEF NobodyIsLeft
  <2> QED  BY <2>2, <2>3
<1>7. /\ ends'[x].state # "closed"
      /\ \A s \in Streams :
           /\ ends'[x].chan[s] = "idle" <=> ends[x].chan[s] = "idle"
           /\ ends'[x].chan[s] \in {"requested", "open", "ending", "silent"} =>
                ends'[x].chan[s] = ends[x].chan[s]
  BY <1>3, <1>4
<1>8. Harmless(<<>>) /\ rest = Tail(wire[x])  BY HarmlessFrames
<1> HIDE DEF rest
<1> QED  BY <1>2, <1>3, <1>4, <1>6, <1>7, <1>8, SessionClosesKeeps

-----------------------------------------------------------------------------
(* Frames. *)

\* The server takes a request and answers it.
LEMMA AcceptKeeps ==
    ASSUME H2Inv, NEW s \in Streams, NEW v \in {"open", "closed"}, ChanGoes("server", s, v),
           Server.session # "destroyed", wire["server"] # <<>>,
           Head(wire["server"]) = Frame("request", s),
           NEW f, f \in {<< Frame("response", s) >>, << Frame("response", s), Frame("rst", s) >>},
           wire' = Exchanged("server", Tail(wire["server"]), f),
           \/ /\ s \in ServerStreams /\ opening[s] = "pending"
              /\ opening' = [opening EXCEPT ![s] = "open"] /\ taken' = taken
           \/ /\ ~IsPending(s) /\ opening' = opening
              /\ taken' = taken \/ taken' = taken \cup {s},
           UNCHANGED <<troubles, lost>>
    PROVE  H2Inv'
<1> USE Different
<1>1. H2TypeOK /\ SessionShut /\ <<>> \in Seq(Frames)
      /\ wire["client"] \in Seq(Frames) /\ wire["server"] \in Seq(Frames)
  BY NoFrames, Typed DEF H2Inv
<1>2. /\ f \in Seq(Frames) /\ Answered(f, s)
      /\ \A i \in DOMAIN f : f[i].type \notin {"fin", "signal", "request"}
      /\ \A r : ~Carries(f, Frame("signal", r))
      /\ \A r : Carries(f, Frame("response", r)) => r = s
  <2> DEFINE a == Frame("response", s)  b == Frame("rst", s)
  <2>1. /\ a \in Frames /\ b \in Frames /\ IsAnswer(a, s)
        /\ a.type = "response" /\ b.type = "rst" /\ a.stream = s
    BY FramesTyped DEF IsAnswer
  <2>2. \A r : Frame("signal", r).type = "signal" /\ Frame("response", r).type = "response"
               /\ Frame("response", r).stream = r
    BY DEF Frame
  <2> HIDE DEF a, b
  <2>3. CASE f = << a >>  BY <2>1, <2>3, OneFrame, <2>2
  <2>4. CASE f = << a, b >>  BY <2>1, <2>4, TwoFrames, <2>2
  <2> QED  BY <2>3, <2>4 DEF a, b
<1>3. /\ Client' = Client /\ Server'.session = Server.session /\ Server'.state = Server.state
      /\ ends'["client"] = Client /\ ends'["server"].session = Server.session
      /\ \A r \in Streams : Server.chan[r] # "idle" => Server'.chan[r] # "idle"
      /\ Server'.chan[s] # "idle"
  BY DEF ChanGoes, Client, Server
<1>4. /\ wire'["server"] = Tail(wire["server"])
      /\ wire'["client"] = IF Client.session = "destroyed" THEN <<>> ELSE wire["client"] \o f
  BY <1>3, ServerExchanges
<1>5. /\ Moves(wire["client"], wire'["client"], f)
      /\ Moves(wire["server"], wire'["server"], <<>>)
  BY <1>4 DEF Moves
<1>6. H2TypeOK' /\ SessionShut'
  <2>1. /\ opening' \in [ServerStreams -> Openings] /\ taken' \in SUBSET Streams
        /\ lost' \in BOOLEAN /\ troubles' \in 0..MaxTroubles
    BY <1>1 DEF H2TypeOK, Openings
  <2>2. \A y \in Sides : ends[y].session = "destroyed" => wire'[y] = <<>>  BY <1>4 DEF Client, Server
  <2>3. v \in Statuses /\ ends["server"].session # "destroyed"  BY DEF Statuses, Server
  <2> QED  BY <1>1, <1>2, <1>5, <2>1, <2>2, <2>3, ChanKept
<1>7. ASSUME NEW t \in ServerStreams  PROVE AskedOnce(t)'
  <2>1. t \in Streams /\ AskedOnce(t)  BY DEF Streams, H2Inv
  <2>2. /\ opening \in [ServerStreams -> Openings]
        /\ t # s => opening'[t] = opening[t]
        /\ t # s => (t \in taken' <=> t \in taken)
    BY <1>1 DEF H2TypeOK
  <2>3. ~Carries(f, Frame("signal", t)) /\ ~Carries(<<>>, Frame("request", t))  BY <1>2, NoFrames
  <2>4. CASE t # s
    <3>1. opening'[t] = "pending" => Server'.state # "closed"  BY <1>3, <2>1, <2>2, <2>4 DEF AskedOnce
    <3>2. /\ Client'.chan[t] = "idle" <=> Client.chan[t] = "idle"
          /\ opening'[t] = opening[t]
          /\ t \in taken' <=> t \in taken
      BY <1>3, <2>2, <2>4
    <3> QED  BY <1>1, <1>2, <1>5, <2>1, <2>3, <3>1, <3>2, AskedSame
  <2>5. CASE t = s
    <3>1. Carries(wire["server"], Frame("request", t)) /\ Once(wire["server"], Frame("request", t))
      BY <1>1, <2>1, <2>5, TailCarries DEF AskedOnce
    <3>2. /\ opening[t] \in {"pending", "failed"} /\ t \notin taken /\ Client.chan[t] # "idle"
      BY <2>1, <3>1 DEF AskedOnce
    <3>3. ~Carries(wire'["server"], Frame("request", t)) /\ Once(wire'["server"], Frame("request", t))
      BY <1>1, <1>4, <2>5, <3>1, TailCarries
    <3>4. ~Carries(wire'["client"], Frame("signal", t)) /\ Once(wire'["client"], Frame("signal", t))
      BY <2>1, <3>2, <1>1, <1>2, <1>5, <2>3, MovesLess DEF AskedOnce
    <3>5. \/ opening[t] = "pending" /\ opening'[t] = "open" /\ taken' = taken
          \/ opening[t] = "failed" /\ opening' = opening
      BY <2>2, <2>5, <3>2 DEF IsPending
    <3> QED  BY <1>3, <3>2, <3>3, <3>4, <3>5 DEF AskedOnce
  <2> QED  BY <2>4, <2>5
<1>8. ASSUME NEW r \in Streams  PROVE AnswersAreTrue(r)'  BY <1>2, <1>3, <1>1, <1>5, AnswersSame DEF H2Inv
<1>9. NobodyIsLeft'
  <2>1. NobodyIsLeft /\ \A i \in DOMAIN f : f[i].type # "fin"  BY <1>2 DEF H2Inv
  <2>2. Client.session = "destroyed" => \A r \in Streams : ~Live(Client.chan[r])
    BY <1>1 DEF SessionShut, Client
  <2>3. \/ wire'["client"] = wire["client"] \o f
        \/ wire'["client"] = <<>> /\ Client.session = "destroyed"
             /\ \A r \in Streams : ~Live(Client.chan[r])
    BY <1>4, <2>2
  <2>4. \A r \in Streams : Head(wire["server"]) = Frame("request", r) => Answered(f, r)  BY <1>2 DEF Frame
  <2>5. lost' = lost  OBVIOUS
  <2> QED  BY <1>1, <1>2, <1>3, <1>4, <2>1, <2>3, <2>4, <2>5, LeftByServer
<1> QED  BY <1>6, <1>7, <1>8, <1>9 DEF H2Inv

LEMMA ReceiveRequestKeeps ==
    ASSUME H2Inv, ReceiveRequest
    PROVE  H2Inv'
<1> USE Different
<1> DEFINE h == Head(wire["server"])  s == h.stream  rest == Tail(wire["server"])
<1>1. H2TypeOK /\ wire["server"] \in Seq(Frames)  BY Typed DEF H2Inv
<1>2. /\ wire["server"] # <<>> /\ h.type = "request" /\ Server.session # "destroyed"
      /\ ends["server"].session # "destroyed" /\ UNCHANGED <<troubles, lost>>
  BY DEF ReceiveRequest, Received, Server
<1>3. s \in Streams /\ h = Frame("request", s)  BY <1>1, <1>2, TakenOff, FramesTyped
<1>4. Rest("server") = rest  BY DEF Rest
<1>5. \/ Refuse(s, rest)
      \/ ends["server"].state = "open" /\ s = Ctl /\ AcceptControl(rest)
      \/ ends["server"].state = "open" /\ s # Ctl /\ IsPending(s) /\ AcceptPending(s, rest)
      \/ ends["server"].state = "open" /\ s # Ctl /\ ~IsPending(s) /\ AcceptIncoming(s, rest)
  BY <1>4 DEF ReceiveRequest
<1>6. "open" \in Statuses /\ "closed" \in Statuses  BY DEF Statuses
<1> HIDE DEF h, s, rest
<1>7. CASE Refuse(s, rest)
  <2> DEFINE f == << Frame("rst", s) >>
  <2>1. /\ ends' = ends /\ opening' = opening /\ taken' = taken
        /\ wire' = Exchanged("server", Tail(wire["server"]), f)
    BY <1>7 DEF Refuse, rest
  <2>2. Harmless(f) /\ \A i \in DOMAIN f : f[i].type \notin {"fin", "goaway", "goaway-error"}
    BY <1>3, EndOrReset
  <2>3. Answered(f, s)  BY <1>3, FramesTyped, OneFrame DEF IsAnswer
  <2>4. \A r \in Streams : Head(wire["server"]) = Frame("request", r) => r = s  BY <1>3 DEF h, Frame
  <2> HIDE DEF f
  <2> QED  BY <1>2, <2>1, <2>2, <2>3, <2>4, StillKeeps
<1>8. CASE s = Ctl /\ AcceptControl(rest)
  <2> DEFINE f == << Frame("response", s) >>
  <2>1. /\ ends' = [ends EXCEPT !["server"].chan[s] = "open"]
        /\ opening' = opening /\ taken' = taken
        /\ wire' = Exchanged("server", Tail(wire["server"]), f)
    BY <1>8 DEF AcceptControl, rest
  <2>2. ChanGoes("server", s, "open")  BY <1>1, <1>3, <1>6, <2>1, ChanSet
  <2>3. ~IsPending(s)  BY <1>8, H2Assumption DEF IsPending
  <2>4. f \in {<< Frame("response", s) >>, << Frame("response", s), Frame("rst", s) >>}
        /\ "open" \in {"open", "closed"} /\ Head(wire["server"]) = Frame("request", s)
    BY <1>3 DEF h
  <2> HIDE DEF f
  <2> QED  BY <1>2, <1>3, <2>1, <2>2, <2>3, <2>4, AcceptKeeps
<1>9. CASE IsPending(s) /\ AcceptPending(s, rest)
  <2> DEFINE f == << Frame("response", s) >>
  <2>1. /\ ends' = [ends EXCEPT !["server"].chan[s] = "open"]
        /\ opening' = [opening EXCEPT ![s] = "open"] /\ taken' = taken
        /\ wire' = Exchanged("server", Tail(wire["server"]), f)
    BY <1>9 DEF AcceptPending, rest
  <2>2. ChanGoes("server", s, "open")  BY <1>1, <1>3, <1>6, <2>1, ChanSet
  <2>3. s \in ServerStreams /\ opening[s] = "pending"  BY <1>9 DEF IsPending
  <2>4. f \in {<< Frame("response", s) >>, << Frame("response", s), Frame("rst", s) >>}
        /\ "open" \in {"open", "closed"} /\ Head(wire["server"]) = Frame("request", s)
    BY <1>3 DEF h
  <2> HIDE DEF f
  <2> QED  BY <1>2, <1>3, <2>1, <2>2, <2>3, <2>4, AcceptKeeps
<1>10. CASE ~IsPending(s) /\ AcceptIncoming(s, rest)
  <2>1. opening' = opening /\ Head(wire["server"]) = Frame("request", s)  BY <1>3, <1>10 DEF AcceptIncoming, h
  <2>2. CASE ends["server"].handler
    <3> DEFINE f == << Frame("response", s) >>
    <3>1. /\ ends' = [ends EXCEPT !["server"].chan[s] = "open"]
          /\ taken' = taken \cup {s}
          /\ wire' = Exchanged("server", Tail(wire["server"]), f)
      BY <1>10, <2>2 DEF AcceptIncoming, rest
    <3>2. ChanGoes("server", s, "open")  BY <1>1, <1>3, <1>6, <3>1, ChanSet
    <3>3. f \in {<< Frame("response", s) >>, << Frame("response", s), Frame("rst", s) >>}
          /\ "open" \in {"open", "closed"}
      OBVIOUS
    <3> HIDE DEF f
    <3> QED  BY <1>2, <1>3, <1>10, <2>1, <3>1, <3>2, <3>3, AcceptKeeps
  <2>3. CASE ~ends["server"].handler
    <3> DEFINE f == << Frame("response", s), Frame("rst", s) >>
    <3>1. /\ ends' = [ends EXCEPT !["server"].chan[s] = "closed"]
          /\ taken' = taken
          /\ wire' = Exchanged("server", Tail(wire["server"]), f)
      BY <1>10, <2>3 DEF AcceptIncoming, rest
    <3>2. ChanGoes("server", s, "closed")  BY <1>1, <1>3, <1>6, <3>1, ChanSet
    <3>3. f \in {<< Frame("response", s) >>, << Frame("response", s), Frame("rst", s) >>}
          /\ "closed" \in {"open", "closed"}
      OBVIOUS
    <3> HIDE DEF f
    <3> QED  BY <1>2, <1>3, <1>10, <2>1, <3>1, <3>2, <3>3, AcceptKeeps
  <2> QED  BY <2>2, <2>3
<1> QED  BY <1>5, <1>7, <1>8, <1>9, <1>10

\* What a frame at the head of a wire is.
LEMMA HeadFrame ==
    ASSUME H2Inv, NEW x \in Sides, NEW k, Received(x, k)
    PROVE  /\ wire[x] # <<>> /\ ends[x].session # "destroyed" /\ Head(wire[x]).type = k
           /\ wire[x] \in Seq(Frames) /\ Rest(x) = Tail(wire[x])
           /\ k \in {"request", "response", "end", "rst", "signal"} =>
                Head(wire[x]).stream \in Streams /\ Head(wire[x]) = Frame(k, Head(wire[x]).stream)
BY TakenOff, FramesTyped DEF Received, Rest, H2Inv, H2TypeOK

LEMMA ReceiveResponseKeeps ==
    ASSUME H2Inv, ReceiveResponse
    PROVE  H2Inv'
<1> USE Different
<1> DEFINE h == Head(wire["client"])  s == h.stream
<1>1. H2TypeOK /\ SessionShut /\ wire["client"] \in Seq(Frames) /\ <<>> \in Seq(Frames)
  BY Typed, NoFrames DEF H2Inv
<1>2. Received("client", "response")  BY DEF ReceiveResponse
<1>3. /\ wire["client"] # <<>> /\ ends["client"].session # "destroyed"
      /\ s \in Streams /\ h = Frame("response", s) /\ Rest("client") = Tail(wire["client"])
  <2> HIDE DEF h, s
  <2> QED  BY <1>2, HeadFrame DEF h, s
<1>4. /\ wire' = Exchanged("client", Tail(wire["client"]), <<>>)
      /\ UNCHANGED <<opening, taken, troubles, lost>>
      /\ ends' = [ends EXCEPT !["client"].chan[s] =
                    IF ends["client"].chan[s] = "requested" THEN "open" ELSE ends["client"].chan[s]]
  BY <1>3 DEF ReceiveResponse
<1>5. /\ ~IsLeave(h) /\ \A r \in Streams : IsAnswer(h, r) => r = s  BY <1>3 DEF IsLeave, IsAnswer, Frame
<1>6. Carries(wire["client"], Frame("response", s))  BY <1>1, <1>3, TailCarries
<1> HIDE DEF h, s
<1>7. CASE ends["client"].chan[s] # "requested"
  <2> DEFINE f == <<>>
  <2>1. ends' = ends  BY <1>1, <1>3, <1>4, <1>7 DEF H2TypeOK
  <2>2. Harmless(f) /\ \A i \in DOMAIN f : f[i].type \notin {"fin", "goaway", "goaway-error"}
    BY HarmlessFrames
  <2>3. \A r \in Streams : IsAnswer(Head(wire["client"]), r) => ends["client"].chan[r] # "requested"
    BY <1>5, <1>7 DEF h
  <2>4. ~IsLeave(Head(wire["client"]))  BY <1>5 DEF h
  <2>5. wire' = Exchanged("client", Tail(wire["client"]), f)  BY <1>4
  <2> HIDE DEF f
  <2> QED  BY <1>3, <1>4, <2>1, <2>2, <2>3, <2>4, <2>5, StillKeeps
<1>8. CASE ends["client"].chan[s] = "requested"
  <2>1. ChanGoes("client", s, "open")  BY <1>4, <1>8, <1>1, <1>3, ChanSet DEF Statuses
  <2>2. /\ Server' = Server /\ Client'.session = Client.session /\ ends'["server"] = ends["server"]
        /\ Client'.chan[s] = "open" /\ Client.chan[s] = "requested"
        /\ \A r \in Streams : r # s => Client'.chan[r] = Client.chan[r]
        /\ ends'["client"].session = Client.session /\ Client.session # "destroyed"
    BY <1>3, <1>8, <2>1 DEF ChanGoes, Client, Server
  <2>3. /\ wire'["client"] = Tail(wire["client"])
        /\ wire'["server"] = IF Server.session = "destroyed" THEN <<>> ELSE wire["server"] \o <<>>
    BY <1>4, <2>2, ClientExchanges DEF Server
  <2>4. /\ Moves(wire["client"], wire'["client"], <<>>)
        /\ Moves(wire["server"], wire'["server"], <<>>)
    BY <1>3, <2>3 DEF Moves
  <2>5. H2TypeOK' /\ SessionShut'
    <3>1. /\ opening' \in [ServerStreams -> Openings] /\ taken' \in SUBSET Streams
          /\ lost' \in BOOLEAN /\ troubles' \in 0..MaxTroubles
      BY <1>1, <1>4 DEF H2TypeOK
    <3>2. \A y \in Sides : ends[y].session = "destroyed" => wire'[y] = <<>>  BY <1>3, <2>3 DEF Server
    <3>3. "open" \in Statuses  BY DEF Statuses
    <3> QED  BY <1>1, <1>3, <2>1, <2>4, <3>1, <3>2, <3>3, ChanKept
  <2>6. ASSUME NEW t \in ServerStreams  PROVE AskedOnce(t)'
    <3>1. AskedOnce(t) /\ t \in Streams  BY DEF H2Inv, Streams
    <3>2. /\ ~Carries(<<>>, Frame("signal", t)) /\ ~Carries(<<>>, Frame("request", t))  BY NoFrames
    <3>3. opening'[t] = "pending" => Server'.state # "closed"  BY <1>4, <2>2, <3>1 DEF AskedOnce
    <3>4. Client'.chan[t] = "idle" <=> Client.chan[t] = "idle"
      <4>1. CASE t = s  BY <2>2, <4>1
      <4>2. CASE t # s  BY <2>2, <3>1, <4>2
      <4> QED  BY <4>1, <4>2
    <3> QED  BY <1>1, <1>4, <2>4, <3>1, <3>2, <3>3, <3>4, AskedSame
  <2>7. ASSUME NEW r \in Streams  PROVE AnswersAreTrue(r)'
    BY NoFrames, <1>6, <2>2, <1>1, <2>4, AnswersSame DEF H2Inv
  <2>8. NobodyIsLeft'
    <3>1. NobodyIsLeft /\ FALSE \in BOOLEAN /\ DOMAIN <<>> = {}  BY DEF H2Inv
    <3>2. /\ \A r \in Streams : Client'.chan[r] = "requested" => Client.chan[r] = "requested"
          /\ \A r \in Streams : Client'.chan[r] = "silent" => Client.chan[r] = "silent"
      BY <2>2
    <3>3. /\ wire["client"] # <<>> /\ wire'["client"] = Tail(wire["client"])
          /\ ~IsLeave(Head(wire["client"]))
          /\ \A r \in Streams :
               IsAnswer(Head(wire["client"]), r) => Client'.chan[r] # "requested"
      BY <1>3, <1>5, <2>2, <2>3 DEF h
    <3>4. \/ wire'["server"] = wire["server"] \o <<>>
          \/ wire'["server"] = <<>> /\ Server.session = "destroyed"
      BY <2>3
    <3>5. lost' = lost  BY <1>4
    <3>6. /\ H2TypeOK /\ Server' = Server /\ Client'.session = Client.session
          /\ Client.session # "destroyed" /\ s \in Streams
      BY <1>1, <1>3, <2>2
    <3>7. <<>> \in Seq(Frames) /\ \A i \in DOMAIN <<>> : FALSE  BY NoFrames, <3>1
    <3> QED  BY <3>1, <3>2, <3>3, <3>4, <3>5, <3>6, <3>7, LeftByClient
  <2> QED  BY <2>5, <2>6, <2>7, <2>8 DEF H2Inv
<1> QED  BY <1>7, <1>8

LEMMA ReceiveSignalKeeps ==
    ASSUME H2Inv, ReceiveSignal
    PROVE  H2Inv'
<1> USE Different
<1> DEFINE h == Head(wire["client"])  t == h.stream  rest == Rest("client")
<1>1. H2TypeOK  BY DEF H2Inv
<1>2. Received("client", "signal") /\ UNCHANGED <<taken, troubles, lost>>  BY DEF ReceiveSignal
<1>3. /\ wire["client"] # <<>> /\ ends["client"].session # "destroyed"
      /\ t \in Streams /\ h = Frame("signal", t) /\ rest = Tail(wire["client"])
  <2> HIDE DEF h, t, rest
  <2> QED  BY <1>2, HeadFrame DEF h, t, rest
<1>4. \/ /\ ends' = ends /\ opening' = opening
         /\ wire' = Exchanged("client", rest, <<>>)
      \/ /\ ends["client"].session = "open" /\ opening' = opening
         /\ ends' = [ends EXCEPT !["client"].chan[t] = "requested"]
         /\ wire' = Exchanged("client", rest, <<Frame("request", t)>>)
      \/ CleanupWithError("client", rest)
  BY DEF ReceiveSignal
<1>5. ~IsLeave(h) /\ \A r \in Streams : ~IsAnswer(h, r)  BY <1>3 DEF IsLeave, IsAnswer, Frame
<1>6. ASSUME ends' = ends, opening' = opening, wire' = Exchanged("client", rest, <<>>)
      PROVE  H2Inv'
  <2> DEFINE f == <<>>
  <2>1. Harmless(f) /\ \A i \in DOMAIN f : f[i].type \notin {"fin", "goaway", "goaway-error"}
    BY HarmlessFrames
  <2>2. wire' = Exchanged("client", Tail(wire["client"]), f)  BY <1>3, <1>6
  <2> HIDE DEF f
  <2> QED  BY <1>2, <1>3, <1>5, <1>6, <2>1, <2>2, StillKeeps
<1>7. ASSUME ends["client"].session = "open", opening' = opening,
             ends' = [ends EXCEPT !["client"].chan[t] = "requested"],
             wire' = Exchanged("client", rest, <<Frame("request", t)>>)
      PROVE  H2Inv'
  <2> HIDE DEF h, t, rest
  <2>1. ChanGoes("client", t, "requested")  BY <1>1, <1>3, <1>7, ChanSet DEF Statuses
  <2>2. Head(wire["client"]) = Frame("signal", t) /\ Client.session = "open"  BY <1>3, <1>7 DEF h, Client
  <2> QED  BY <1>2, <1>3, <1>7, <2>1, <2>2, RequestKeeps
<1>8. ASSUME CleanupWithError("client", rest)  PROVE H2Inv'
  <2>1. troubles' \in 0..MaxTroubles  BY <1>1, <1>2 DEF H2TypeOK
  <2> HIDE DEF rest
  <2> QED  BY <1>2, <1>8, <2>1, CleanupKeeps
<1> QED  BY <1>4, <1>6, <1>7, <1>8

\* A frame about a stream that is over is taken, and nothing else happens.
LEMMA PassedOverKeeps ==
    ASSUME H2Inv, NEW x \in Sides, NEW k \in {"end", "rst"}, Received(x, k),
           ~Live(ends[x].chan[Head(wire[x]).stream]),
           wire' = Exchanged(x, Rest(x), <<>>),
           UNCHANGED <<ends, opening, taken, troubles, lost>>
    PROVE  H2Inv'
<1> DEFINE h == Head(wire[x])  s == h.stream  f == <<>>
<1>1. /\ wire[x] # <<>> /\ ends[x].session # "destroyed" /\ Rest(x) = Tail(wire[x])
      /\ s \in Streams /\ h = Frame(k, s)
  <2> HIDE DEF h, s
  <2>1. k \in {"request", "response", "end", "rst", "signal"}  OBVIOUS
  <2> QED  BY <2>1, HeadFrame DEF h, s
<1>2. /\ ~IsLeave(h) /\ \A r \in Streams : IsAnswer(h, r) => r = s
      /\ \A r \in Streams : h # Frame("request", r)
  BY <1>1 DEF IsLeave, IsAnswer, Frame
<1>3. ends[x].chan[s] # "requested"  BY DEF Live
<1>4. Harmless(f) /\ \A i \in DOMAIN f : f[i].type \notin {"fin", "goaway", "goaway-error"}  BY HarmlessFrames
<1>5. wire' = Exchanged(x, Tail(wire[x]), f)  BY <1>1
<1>6. /\ x = "client" => /\ ~IsLeave(Head(wire[x]))
                         /\ \A r \in Streams : IsAnswer(Head(wire[x]), r) =>
                              ends[x].chan[r] # "requested"
      /\ x = "server" => \A r \in Streams : Head(wire[x]) = Frame("request", r) => Answered(f, r)
  <2> HIDE DEF s, f
  <2> QED  BY <1>2, <1>3
<1> HIDE DEF f
<1> QED  BY <1>1, <1>4, <1>5, <1>6, StillKeeps

LEMMA ReceiveEndKeeps ==
    ASSUME H2Inv, NEW x \in Sides, ReceiveEnd(x)
    PROVE  H2Inv'
<1> DEFINE s == Head(wire[x]).stream  f == << Frame("rst", s) >>
<1>1. Received(x, "end") /\ UNCHANGED <<taken, troubles, lost>>  BY DEF ReceiveEnd
<1>2. CASE Live(ends[x].chan[s])
  <2>1. ChannelCloses(x, s, Rest(x), f)  BY <1>2 DEF ReceiveEnd
  <2>2. /\ wire[x] # <<>> /\ Rest(x) = Tail(wire[x]) /\ s \in Streams
        /\ Head(wire[x]) = Frame("end", s)
    <3> HIDE DEF s, f
    <3> QED  BY <1>1, HeadFrame DEF s
  <2> HIDE DEF s
  <2> QED  BY <1>1, <1>2, <2>1, <2>2, ChannelClosesKeeps
<1>3. CASE ~Live(ends[x].chan[s])  BY <1>3, <1>1, PassedOverKeeps DEF ReceiveEnd
<1> QED  BY <1>2, <1>3

LEMMA ReceiveResetKeeps ==
    ASSUME H2Inv, NEW x \in Sides, ReceiveReset(x)
    PROVE  H2Inv'
<1> DEFINE s == Head(wire[x]).stream  f == <<>>
<1>1. Received(x, "rst") /\ UNCHANGED <<taken, troubles, lost>>  BY DEF ReceiveReset
<1>2. CASE Live(ends[x].chan[s])
  <2>1. ChannelCloses(x, s, Rest(x), f)  BY <1>2 DEF ReceiveReset
  <2>2. /\ wire[x] # <<>> /\ Rest(x) = Tail(wire[x]) /\ s \in Streams
        /\ Head(wire[x]) = Frame("rst", s)
    <3> HIDE DEF s, f
    <3> QED  BY <1>1, HeadFrame DEF s
  <2> HIDE DEF s
  <2> QED  BY <1>1, <1>2, <2>1, <2>2, ChannelClosesKeeps
<1>3. CASE ~Live(ends[x].chan[s])  BY <1>3, <1>1, PassedOverKeeps DEF ReceiveReset
<1> QED  BY <1>2, <1>3

LEMMA ReceiveGoawayErrorKeeps ==
    ASSUME H2Inv, NEW x \in Sides, ReceiveGoawayError(x)
    PROVE  H2Inv'
BY CleanupKeeps DEF ReceiveGoawayError, H2Inv, H2TypeOK

\* The connection of x is gone.  Unless it broke, nobody waits any more: the peer has
\* ended its session, and told x in time.
LEMMA ReceiveFinKeeps ==
    ASSUME H2Inv, NEW x \in Sides, ReceiveFin(x)
    PROVE  H2Inv'
<1> USE Different
<1> DEFINE f == << [type |-> "fin"] >>  rest == Rest(x)
<1>1. H2TypeOK /\ NobodyIsLeft  BY DEF H2Inv
<1>2. /\ Received(x, "fin") /\ ends' = [ends EXCEPT ![x] = Cleaned(@, FALSE)]
      /\ wire' = Exchanged(x, rest, f) /\ opening' = Rejected(x)
      /\ taken' = taken /\ lost' = lost /\ troubles' \in 0..MaxTroubles
  BY <1>1 DEF ReceiveFin, H2TypeOK
<1>3. /\ SessionEnded(x)
      /\ \A s \in Streams : ends'[x].chan[s] = "silent" => ends[x].chan[s] \in {"silent", "requested"}
  BY <1>1, <1>2, EndedQuietly
<1>4. Harmless(f) /\ \A i \in DOMAIN f : f[i].type # "goaway"  BY HarmlessFrames
<1>5. 1 \in DOMAIN wire[x] /\ wire[x][1].type = "fin" /\ DOMAIN wire[x] \subseteq Nat \ {0}
  BY <1>2, HeadFrame, TakenOff
<1>6. ASSUME x = "client", ~lost, NEW s \in Streams, Client'.chan[s] = "silent"
      PROVE  Client.chan[s] = "silent"
  <2>1. HearsBefore(wire["client"], Client)  BY <1>1, <1>6 DEF NobodyIsLeft
  <2>2. ASSUME Client.chan[s] = "requested"  PROVE FALSE
    <3>1. PICK j \in DOMAIN wire["client"] : j < 1  BY <1>5, <1>6, <2>1, <2>2 DEF HearsBefore
    <3> QED  BY <1>5, <1>6, <3>1
  <2> QED  BY <1>3, <1>6, <2>2 DEF Client
<1>7. ASSUME x = "server", ~lost  PROVE Client.session = "destroyed"
  BY <1>1, <1>5, <1>7 DEF NobodyIsLeft, NothingBehind
<1> HIDE DEF f, rest
<1> QED  BY <1>2, <1>3, <1>4, <1>6, <1>7, EndKeeps

LEMMA SessionEndsKeeps ==
    ASSUME H2Inv, NEW x \in Sides, SessionEnds(x)
    PROVE  H2Inv'
<1> USE Different
<1> DEFINE f == << [type |-> "fin"] >>  rest == wire[x]
<1>1. H2TypeOK /\ NobodyIsLeft  BY DEF H2Inv
<1>2. /\ ends[x].session = "closed" /\ ends' = [ends EXCEPT ![x] = Cleaned(@, FALSE)]
      /\ wire' = Exchanged(x, rest, f) /\ opening' = Rejected(x)
      /\ taken' = taken /\ lost' = lost /\ troubles' \in 0..MaxTroubles
      /\ \A s \in Streams : ~Live(ends[x].chan[s])
  BY <1>1 DEF SessionEnds, H2TypeOK, HasStreams
<1>3. /\ SessionEnded(x)
      /\ \A s \in Streams : ends'[x].chan[s] = "silent" => ends[x].chan[s] \in {"silent", "requested"}
  BY <1>1, <1>2, EndedQuietly
<1>4. Harmless(f) /\ \A i \in DOMAIN f : f[i].type # "goaway"  BY HarmlessFrames
<1>5. x = "client" => \A s \in Streams : Client'.chan[s] = "silent" => Client.chan[s] = "silent"
  BY <1>2, <1>3 DEF Client, Live
<1>6. x = "server" => f = << [type |-> "fin"] >> /\ Server.session = "closed"  BY <1>2 DEF Server
<1> HIDE DEF f, rest
<1> QED  BY <1>2, <1>3, <1>4, <1>5, <1>6, EndKeeps

LEMMA LoseConnectionKeeps ==
    ASSUME H2Inv, LoseConnection
    PROVE  H2Inv'
<1> USE Different
<1> DEFINE f == << [type |-> "fin"] >>
<1>1. H2TypeOK /\ SessionShut /\ f \in Seq(Frames) /\ Harmless(f)  BY HarmlessFrames DEF H2Inv, Harmless
<1>2. /\ lost' = TRUE /\ UNCHANGED <<ends, opening, taken>>
      /\ \A x \in Sides : wire'[x] = IF ends[x].session = "destroyed" THEN <<>> ELSE f
      /\ troubles' \in 0..MaxTroubles
  BY <1>1, H2Assumption DEF LoseConnection, H2TypeOK
<1>3. Client' = Client /\ Server' = Server  BY <1>2 DEF Client, Server
<1>4. ASSUME NEW x \in Sides, NEW s \in Streams
      PROVE  /\ ~Carries(wire'[x], Frame("signal", s)) /\ ~Carries(wire'[x], Frame("request", s))
             /\ ~Carries(wire'[x], Frame("response", s))
  <2>1. wire'[x] = <<>> \/ wire'[x] = f  BY <1>2
  <2> HIDE DEF f
  <2> QED  BY <1>1, <2>1, NoFrames, HarmlessCarries
<1> HIDE DEF f
<1>5. H2TypeOK' /\ SessionShut'  BY <1>1, <1>2, NoFrames DEF H2TypeOK, SessionShut
<1>6. ASSUME NEW t \in ServerStreams  PROVE AskedOnce(t)'
  BY <1>4, <1>2, <1>3 DEF H2Inv, Streams, Once, Carries, AskedOnce
<1>7. ASSUME NEW s \in Streams  PROVE AnswersAreTrue(s)'  BY <1>3, <1>4 DEF H2Inv, AnswersAreTrue
<1>8. NobodyIsLeft'  BY <1>2 DEF NobodyIsLeft
<1> QED  BY <1>5, <1>6, <1>7, <1>8 DEF H2Inv

-----------------------------------------------------------------------------
(* The theorem. *)

LEMMA InitHolds ==
    ASSUME H2Init
    PROVE  H2Inv
<1> USE Different
<1>1. PICK h \in [Sides -> BOOLEAN] :
        ends = [x \in Sides |-> [state |-> "open", session |-> "open",
                                 chan |-> [s \in Streams |-> "idle"], handler |-> h[x]]]
  BY DEF H2Init
<1>2. /\ wire = [x \in Sides |-> <<>>] /\ opening = [t \in ServerStreams |-> "idle"]
      /\ taken = {} /\ troubles = 0 /\ lost = FALSE
  BY DEF H2Init
<1>3. /\ wire["client"] = <<>> /\ wire["server"] = <<>>
      /\ Client.session = "open" /\ Server.session = "open" /\ Server.state = "open"
      /\ \A s \in Streams : Client.chan[s] = "idle" /\ Server.chan[s] = "idle"
  BY <1>1, <1>2 DEF Client, Server
<1>4. H2TypeOK
  <2>1. \A x \in Sides : wire[x] \in Seq(Frames)  BY <1>2, NoFrames
  <2>2. [s \in Streams |-> "idle"] \in [Streams -> Statuses]  BY DEF Statuses
  <2>3. ends \in [Sides -> [state : {"open", "closing", "closed"},
                            session : {"open", "closed", "destroyed"},
                            chan : [Streams -> Statuses], handler : BOOLEAN]]
    BY <1>1, <2>2
  <2>4. opening \in [ServerStreams -> Openings]  BY <1>2 DEF Openings
  <2>5. troubles \in 0..MaxTroubles  BY <1>2, H2Assumption
  <2> QED  BY <1>2, <2>1, <2>3, <2>4, <2>5 DEF H2TypeOK
<1>5. SessionShut  BY <1>1 DEF SessionShut
<1>6. \A t \in ServerStreams : AskedOnce(t)
  <2>1. \A t \in ServerStreams : t \in Streams /\ opening[t] = "idle"  BY <1>2 DEF Streams
  <2> QED  BY <1>2, <1>3, <2>1, NoFrames DEF AskedOnce
<1>7. \A s \in Streams : AnswersAreTrue(s)  BY <1>3, NoFrames DEF AnswersAreTrue
<1>8. NobodyIsLeft  BY <1>3 DEF NobodyIsLeft, WillHear, NothingBehind, HearsBefore
<1> QED  BY <1>4, <1>5, <1>6, <1>7, <1>8 DEF H2Inv

LEMMA NothingKeeps ==
    ASSUME H2Inv, UNCHANGED h2vars
    PROVE  H2Inv'
<1> USE DEF h2vars, Client, Server
<1>1. H2TypeOK' /\ SessionShut'  BY DEF H2Inv, H2TypeOK, SessionShut
<1>2. ASSUME NEW t \in ServerStreams  PROVE AskedOnce(t)'  BY DEF H2Inv, AskedOnce
<1>3. ASSUME NEW s \in Streams  PROVE AnswersAreTrue(s)'  BY DEF H2Inv, AnswersAreTrue
<1>4. NobodyIsLeft'  BY DEF H2Inv, NobodyIsLeft, WillHear
<1> QED  BY <1>1, <1>2, <1>3, <1>4 DEF H2Inv

LEMMA H2StepKeeps ==
    ASSUME H2Inv, H2Next
    PROVE  H2Inv'
<1>1. CASE Program
  <2>1. CASE GetControlChannel  BY <2>1, OwnRequestKeeps DEF GetControlChannel
  <2>2. ASSUME NEW s \in ClientStreams, OpenFromClient(s)  PROVE H2Inv'
    BY <2>2, OwnRequestKeeps DEF OpenFromClient
  <2> QED  BY <1>1, <2>1, <2>2, OpenFromServerKeeps, CloseKeeps, AbortKeeps, CloseChannelKeeps DEF Program
<1>2. CASE Receive
  BY <1>2, ReceiveRequestKeeps, ReceiveResponseKeeps, ReceiveSignalKeeps, ReceiveEndKeeps,
     ReceiveResetKeeps, ReceiveFinKeeps, ReceiveGoawayKeeps, ReceiveGoawayErrorKeeps DEF Receive
<1>3. CASE \E t \in ServerStreams : SendSignal(t) \/ OpenTimesOut(t)
  BY <1>3, SendSignalKeeps, OpenTimesOutKeeps
<1>4. CASE \E x \in Sides : SessionEnds(x)  BY <1>4, SessionEndsKeeps
<1>5. CASE LoseConnection  BY <1>5, LoseConnectionKeeps
<1> QED  BY <1>1, <1>2, <1>3, <1>4, <1>5 DEF H2Next

LEMMA InvMatches ==
    ASSUME H2Inv
    PROVE  StreamsAreMatched
<1>1. H2TypeOK  BY DEF H2Inv
<1>2. ASSUME NEW t \in ServerStreams
      PROVE  /\ opening[t] = "open" => t \notin taken /\ ends["client"].chan[t] # "idle"
             /\ t \in taken => opening[t] = "failed"
             /\ opening[t] = "pending" => ends["server"].state # "closed"
  BY DEF H2Inv, AskedOnce, Client, Server
<1>3. ASSUME NEW s \in Streams
      PROVE  /\ ends["client"].chan[s] \in {"open", "ending"} => ends["server"].chan[s] # "idle"
             /\ ends["client"].chan[s] = "silent" => lost
  BY DEF H2Inv, AnswersAreTrue, NobodyIsLeft, Client, Server
<1> QED  BY <1>1, <1>2, <1>3 DEF StreamsAreMatched

\* Whatever the number of streams, and of channels that are closed, transports that
\* are aborted and connections that break: a stream the server asked for goes to the
\* program that asked or, after the ten seconds, to the handler of the client's
\* streams, never to both; a channel of the client is a stream the server accepted;
\* nothing waits in pendingOutgoingStreams of a server that is closed; and only a
\* broken connection leaves a promise of the client unsettled.
THEOREM StreamsAlwaysMatched == H2Spec => []StreamsAreMatched
BY InitHolds, H2StepKeeps, NothingKeeps, InvMatches, PTL DEF H2Spec

-----------------------------------------------------------------------------
(* A channel of the memory transport: what is heard, queued and on its way. *)

\* A message n is at place k of stage s, among those of h, q, ts and w.
Has(h, q, ts, w, x, ch, s, k, n) ==
    \/ s = 1 /\ k \in 1 .. Len(h) /\ n = h[k]
    \/ s = 2 /\ k \in 1 .. Len(q) /\ n = q[k]
    \/ s = 3 /\ k \in 1 .. Len(ts) /\ IsOf(ts[k], "message", x, ch) /\ n = ts[k].n
    \/ s = 4 /\ k \in 1 .. Len(ts) /\ IsOf(ts[k], "resume", x, ch) /\ n = ts[k].n
    \/ s = 5 /\ k \in 1 .. Len(w) /\ n = w[k]

Comes(s, k, z, l) == s < z \/ (s = z /\ k < l)

Ordered(h, q, ts, w, x, ch, G, N) ==
    /\ N \in Nat
    /\ h \in Seq(Nat) /\ q \in Seq(Nat) /\ w \in Seq(Nat) /\ ts \in Seq(Tasks)
    /\ G \subseteq 1 .. N
    /\ \A s, k, n \in Nat : Has(h, q, ts, w, x, ch, s, k, n) => n \in 1 .. N /\ n \notin G
    /\ \A n \in 1 .. N : n \in G \/ \E s, k \in Nat : Has(h, q, ts, w, x, ch, s, k, n)
    /\ \A s, k, n, z, l, m \in Nat :
         Has(h, q, ts, w, x, ch, s, k, n) /\ Has(h, q, ts, w, x, ch, z, l, m) /\ Comes(s, k, z, l) => n < m

\* What is there now was there before, in the same order; the rest is given up.
Taken(h, q, ts, w, h2, q2, ts2, w2, x, ch, G, G2, N, back) ==
    /\ \A s, k, n \in Nat : Has(h2, q2, ts2, w2, x, ch, s, k, n) =>
          Has(h, q, ts, w, x, ch, back[<<s, k>>][1], back[<<s, k>>][2], n)
    /\ \A s, k, n, z, l, m \in Nat :
          Has(h2, q2, ts2, w2, x, ch, s, k, n) /\ Has(h2, q2, ts2, w2, x, ch, z, l, m) /\ Comes(s, k, z, l)
            => Comes(back[<<s, k>>][1], back[<<s, k>>][2], back[<<z, l>>][1], back[<<z, l>>][2])
    /\ \A n \in G2 : n \in G \/ (n \in 1 .. N /\ \A s, k \in Nat : ~Has(h2, q2, ts2, w2, x, ch, s, k, n))
    /\ \A s, k, n \in Nat : Has(h, q, ts, w, x, ch, s, k, n) =>
          n \in G2 \/ \E z, l \in Nat : Has(h2, q2, ts2, w2, x, ch, z, l, n)
    /\ G \subseteq G2

LEMMA Carried ==
  ASSUME NEW h, NEW q, NEW ts, NEW w, NEW x, NEW ch, NEW G, NEW N, Ordered(h, q, ts, w, x, ch, G, N),
         NEW h2 \in Seq(Nat), NEW q2 \in Seq(Nat), NEW w2 \in Seq(Nat), NEW ts2 \in Seq(Tasks),
         NEW G2, NEW back \in [Nat \X Nat -> Nat \X Nat],
         Taken(h, q, ts, w, h2, q2, ts2, w2, x, ch, G, G2, N, back)
  PROVE  Ordered(h2, q2, ts2, w2, x, ch, G2, N)
<1> DEFINE Old(s, k, n) == Has(h, q, ts, w, x, ch, s, k, n)
           New(s, k, n) == Has(h2, q2, ts2, w2, x, ch, s, k, n)
<1>1. /\ N \in Nat /\ G \subseteq 1 .. N
      /\ \A s, k, n \in Nat : Old(s, k, n) => n \in 1 .. N /\ n \notin G
      /\ \A n \in 1 .. N : n \in G \/ \E s, k \in Nat : Old(s, k, n)
      /\ \A s, k, n, z, l, m \in Nat : Old(s, k, n) /\ Old(z, l, m) /\ Comes(s, k, z, l) => n < m
  BY DEF Ordered
<1>2. /\ \A s, k, n \in Nat : New(s, k, n) => Old(back[<<s, k>>][1], back[<<s, k>>][2], n)
      /\ \A s, k, n, z, l, m \in Nat : New(s, k, n) /\ New(z, l, m) /\ Comes(s, k, z, l)
              => Comes(back[<<s, k>>][1], back[<<s, k>>][2], back[<<z, l>>][1], back[<<z, l>>][2])
      /\ \A n \in G2 : n \in G \/ (n \in 1 .. N /\ \A s, k \in Nat : ~New(s, k, n))
      /\ \A s, k, n \in Nat : Old(s, k, n) => n \in G2 \/ \E z, l \in Nat : New(z, l, n)
      /\ G \subseteq G2
  BY DEF Taken
<1>3. \A s, k \in Nat : back[<<s, k>>][1] \in Nat /\ back[<<s, k>>][2] \in Nat  OBVIOUS
<1>g. \A s, k, n \in Nat : New(s, k, n) => n \in 1 .. N /\ n \notin G2
  <2> HIDE DEF Old, New
  <2> SUFFICES ASSUME NEW s \in Nat, NEW k \in Nat, NEW n \in Nat, New(s, k, n) PROVE n \in 1 .. N /\ n \notin G2
    OBVIOUS
  <2>1. Old(back[<<s, k>>][1], back[<<s, k>>][2], n)  BY <1>2
  <2>2. n \in 1 .. N /\ n \notin G  BY <1>1, <1>3, <2>1
  <2> QED  BY <1>2, <2>2
<1>o. \A s, k, n, z, l, m \in Nat : New(s, k, n) /\ New(z, l, m) /\ Comes(s, k, z, l) => n < m
  <2> HIDE DEF Old, New
  <2> SUFFICES ASSUME NEW s \in Nat, NEW k \in Nat, NEW n \in Nat, NEW z \in Nat, NEW l \in Nat, NEW m \in Nat,
                      New(s, k, n), New(z, l, m), Comes(s, k, z, l)
               PROVE  n < m
    OBVIOUS
  <2>1. Old(back[<<s, k>>][1], back[<<s, k>>][2], n) /\ Old(back[<<z, l>>][1], back[<<z, l>>][2], m)  BY <1>2
  <2>2. Comes(back[<<s, k>>][1], back[<<s, k>>][2], back[<<z, l>>][1], back[<<z, l>>][2])  BY <1>2
  <2> DEFINE s1 == back[<<s, k>>][1]
             k1 == back[<<s, k>>][2]
             z1 == back[<<z, l>>][1]
             l1 == back[<<z, l>>][2]
  <2>3. s1 \in Nat /\ k1 \in Nat /\ z1 \in Nat /\ l1 \in Nat  BY <1>3
  <2>4. Old(s1, k1, n) /\ Old(z1, l1, m) /\ Comes(s1, k1, z1, l1)  BY <2>1, <2>2
  <2> HIDE DEF s1, k1, z1, l1
  <2> QED  BY <1>1, <2>3, <2>4
<1>c. \A n \in 1 .. N : n \in G2 \/ \E s, k \in Nat : New(s, k, n)
  <2> HIDE DEF Old, New
  <2> SUFFICES ASSUME NEW n \in 1 .. N, n \notin G PROVE n \in G2 \/ \E s, k \in Nat : New(s, k, n)  BY <1>2
  <2>1. PICK s \in Nat, k \in Nat : Old(s, k, n)  BY <1>1
  <2>2. n \in Nat  BY <1>1
  <2> QED  BY <1>2, <2>1, <2>2
<1>s. G2 \subseteq 1 .. N
  <2> HIDE DEF Old, New
  <2> QED  BY <1>1, <1>2
<1> QED  BY <1>1, <1>g, <1>o, <1>c, <1>s DEF Ordered

\* One message more comes last.
LEMMA Added ==
  ASSUME NEW h, NEW q, NEW ts, NEW w, NEW x, NEW ch, NEW G, NEW N, Ordered(h, q, ts, w, x, ch, G, N),
         NEW ts2 \in Seq(Tasks), NEW w2 \in Seq(Nat), NEW s0 \in Nat, NEW k0 \in Nat,
         \A s, k, n \in Nat : Has(h, q, ts2, w2, x, ch, s, k, n) <=>
            Has(h, q, ts, w, x, ch, s, k, n) \/ (s = s0 /\ k = k0 /\ n = N + 1),
         \A s, k, n \in Nat : Has(h, q, ts, w, x, ch, s, k, n) => Comes(s, k, s0, k0)
  PROVE  Ordered(h, q, ts2, w2, x, ch, G, N + 1)
<1> DEFINE Old(s, k, n) == Has(h, q, ts, w, x, ch, s, k, n)
           New(s, k, n) == Has(h, q, ts2, w2, x, ch, s, k, n)
<1>1. /\ N \in Nat /\ G \subseteq 1 .. N /\ h \in Seq(Nat) /\ q \in Seq(Nat)
      /\ \A s, k, n \in Nat : Old(s, k, n) => n \in 1 .. N /\ n \notin G
      /\ \A n \in 1 .. N : n \in G \/ \E s, k \in Nat : Old(s, k, n)
      /\ \A s, k, n, z, l, m \in Nat : Old(s, k, n) /\ Old(z, l, m) /\ Comes(s, k, z, l) => n < m
  BY DEF Ordered
<1>2. /\ \A s, k, n \in Nat : New(s, k, n) <=> Old(s, k, n) \/ (s = s0 /\ k = k0 /\ n = N + 1)
      /\ \A s, k, n \in Nat : Old(s, k, n) => Comes(s, k, s0, k0)
  OBVIOUS
<1> HIDE DEF Old, New
<1>3. \A s, k, n \in Nat : New(s, k, n) => n \in 1 .. (N + 1) /\ n \notin G
  <2> SUFFICES ASSUME NEW s \in Nat, NEW k \in Nat, NEW n \in Nat, New(s, k, n)
               PROVE  n \in 1 .. (N + 1) /\ n \notin G
    OBVIOUS
  <2>1. CASE Old(s, k, n)  BY <1>1, <2>1
  <2>2. CASE n = N + 1  BY <1>1, <2>2
  <2> QED  BY <1>2, <2>1, <2>2
<1>4. \A n \in 1 .. (N + 1) : n \in G \/ \E s, k \in Nat : New(s, k, n)
  <2> TAKE n \in 1 .. (N + 1)
  <2>1. CASE n = N + 1
    <3>1. New(s0, k0, n)  BY <1>1, <1>2, <2>1
    <3> QED  BY <3>1
  <2>2. CASE n # N + 1
    <3>1. n \in 1 .. N /\ n \in Nat  BY <1>1, <2>2
    <3> QED  BY <1>1, <1>2, <3>1
  <2> QED  BY <2>1, <2>2
<1>5. \A s, k, n, z, l, m \in Nat : New(s, k, n) /\ New(z, l, m) /\ Comes(s, k, z, l) => n < m
  <2> SUFFICES ASSUME NEW s \in Nat, NEW k \in Nat, NEW n \in Nat, NEW z \in Nat, NEW l \in Nat, NEW m \in Nat,
                      New(s, k, n), New(z, l, m), Comes(s, k, z, l)
               PROVE  n < m
    OBVIOUS
  <2>1. CASE Old(s, k, n) /\ Old(z, l, m)  BY <1>1, <2>1
  <2>2. CASE Old(s, k, n) /\ m = N + 1  BY <1>1, <2>2
  <2>3. CASE s = s0 /\ k = k0 /\ n = N + 1
    <3>1. ~Comes(s0, k0, z, l)
      <4>1. CASE Old(z, l, m)  BY <1>2, <4>1 DEF Comes
      <4>2. CASE z = s0 /\ l = k0  BY <4>2 DEF Comes
      <4> QED  BY <1>2, <4>1, <4>2
    <3> QED  BY <2>3, <3>1
  <2> QED  BY <1>2, <2>1, <2>2, <2>3
<1>6. G \subseteq 1 .. (N + 1)  BY <1>1
<1> QED  BY <1>1, <1>3, <1>4, <1>5, <1>6 DEF Ordered, New

LEMMA AreGivenUp ==
  ASSUME NEW h, NEW q, NEW ts, NEW w, NEW x, NEW ch, NEW G, NEW N, Ordered(h, q, ts, w, x, ch, G, N)
  PROVE  Ordered(h, q, ts, w, x, ch, G \cup {N + 1}, N + 1)
<1> DEFINE Old(s, k, n) == Has(h, q, ts, w, x, ch, s, k, n)
<1>1. /\ N \in Nat /\ G \subseteq 1 .. N /\ h \in Seq(Nat) /\ q \in Seq(Nat) /\ w \in Seq(Nat) /\ ts \in Seq(Tasks)
      /\ \A s, k, n \in Nat : Old(s, k, n) => n \in 1 .. N /\ n \notin G
      /\ \A n \in 1 .. N : n \in G \/ \E s, k \in Nat : Old(s, k, n)
      /\ \A s, k, n, z, l, m \in Nat : Old(s, k, n) /\ Old(z, l, m) /\ Comes(s, k, z, l) => n < m
  BY DEF Ordered
<1> HIDE DEF Old
<1>2. \A s, k, n \in Nat : Old(s, k, n) => n \in 1 .. (N + 1) /\ n \notin G \cup {N + 1}  BY <1>1
<1>3. \A n \in 1 .. (N + 1) : n \in G \cup {N + 1} \/ \E s, k \in Nat : Old(s, k, n)  BY <1>1
<1>4. G \cup {N + 1} \subseteq 1 .. (N + 1)  BY <1>1
<1> QED  BY <1>1, <1>2, <1>3, <1>4 DEF Ordered, Old

LEMMA HasPlace ==
  ASSUME NEW h \in Seq(Nat), NEW q \in Seq(Nat), NEW ts \in Seq(Tasks), NEW w \in Seq(Nat), NEW x, NEW ch,
         NEW s \in Nat, NEW k \in Nat, NEW n \in Nat, Has(h, q, ts, w, x, ch, s, k, n)
  PROVE  /\ s \in 1 .. 5 /\ k >= 1
         /\ s = 1 => k <= Len(h)
         /\ s = 2 => k <= Len(q)
         /\ s \in {3, 4} => k <= Len(ts)
         /\ s = 5 => k <= Len(w)
  BY DEF Has

LEMMA TailHas ==
  ASSUME NEW h \in Seq(Nat), NEW q \in Seq(Nat), NEW ts \in Seq(Tasks), NEW w \in Seq(Nat), NEW x, NEW ch,
         ts # <<>>, NEW s \in Nat, NEW k \in Nat, NEW n \in Nat
  PROVE  Has(h, q, Tail(ts), w, x, ch, s, k, n) <=>
            IF s \in {3, 4} THEN k >= 1 /\ Has(h, q, ts, w, x, ch, s, k + 1, n) ELSE Has(h, q, ts, w, x, ch, s, k, n)
<1>1. Len(Tail(ts)) = Len(ts) - 1 /\ \A j \in 1 .. (Len(ts) - 1) : Tail(ts)[j] = ts[j + 1]  OBVIOUS
<1>2. Len(ts) \in Nat /\ (k \in 1 .. (Len(ts) - 1) <=> k >= 1 /\ k + 1 \in 1 .. Len(ts))  OBVIOUS
<1>3. CASE s \notin {3, 4}  BY <1>3 DEF Has
<1>4. CASE s = 3  BY <1>1, <1>2, <1>4 DEF Has
<1>5. CASE s = 4  BY <1>1, <1>2, <1>5 DEF Has
<1> QED  BY <1>3, <1>4, <1>5

LEMMA AppendHas ==
  ASSUME NEW h \in Seq(Nat), NEW q \in Seq(Nat), NEW ts \in Seq(Tasks), NEW w \in Seq(Nat), NEW x, NEW ch,
         NEW t \in Tasks, NEW s \in Nat, NEW k \in Nat, NEW n \in Nat
  PROVE  Has(h, q, Append(ts, t), w, x, ch, s, k, n) <=>
            \/ Has(h, q, ts, w, x, ch, s, k, n)
            \/ /\ k = Len(ts) + 1 /\ n = t.n
               /\ (s = 3 /\ IsOf(t, "message", x, ch)) \/ (s = 4 /\ IsOf(t, "resume", x, ch))
<1>1. /\ Len(ts) \in Nat /\ Len(Append(ts, t)) = Len(ts) + 1
      /\ \A j \in 1 .. Len(ts) : Append(ts, t)[j] = ts[j]
      /\ Append(ts, t)[Len(ts) + 1] = t
  OBVIOUS
<1>2. k \in 1 .. (Len(ts) + 1) <=> k \in 1 .. Len(ts) \/ k = Len(ts) + 1  BY <1>1
<1>3. CASE s \notin {3, 4}  BY <1>3 DEF Has
<1>4. CASE s = 3  BY <1>1, <1>2, <1>4 DEF Has
<1>5. CASE s = 4  BY <1>1, <1>2, <1>5 DEF Has
<1> QED  BY <1>3, <1>4, <1>5

LEMMA AppendMessageHas ==
  ASSUME NEW h \in Seq(Nat), NEW q \in Seq(Nat), NEW ts \in Seq(Tasks), NEW w \in Seq(Nat), NEW x, NEW ch,
         NEW v \in Nat, NEW s \in Nat, NEW k \in Nat, NEW n \in Nat
  PROVE  /\ Has(Append(h, v), q, ts, w, x, ch, s, k, n) <=>
               Has(h, q, ts, w, x, ch, s, k, n) \/ (s = 1 /\ k = Len(h) + 1 /\ n = v)
         /\ Has(h, Append(q, v), ts, w, x, ch, s, k, n) <=>
               Has(h, q, ts, w, x, ch, s, k, n) \/ (s = 2 /\ k = Len(q) + 1 /\ n = v)
         /\ Has(h, q, ts, Append(w, v), x, ch, s, k, n) <=>
               Has(h, q, ts, w, x, ch, s, k, n) \/ (s = 5 /\ k = Len(w) + 1 /\ n = v)
<1>1. ASSUME NEW z \in Seq(Nat)
      PROVE  (k \in 1 .. Len(Append(z, v)) /\ n = Append(z, v)[k]) <=>
                (k \in 1 .. Len(z) /\ n = z[k]) \/ (k = Len(z) + 1 /\ n = v)
  <2>1. /\ Len(z) \in Nat /\ Len(Append(z, v)) = Len(z) + 1
        /\ \A j \in 1 .. Len(z) : Append(z, v)[j] = z[j]
        /\ Append(z, v)[Len(z) + 1] = v
    OBVIOUS
  <2>2. k \in 1 .. (Len(z) + 1) <=> k \in 1 .. Len(z) \/ k = Len(z) + 1  BY <2>1
  <2> QED  BY <2>1, <2>2
<1>2. Has(Append(h, v), q, ts, w, x, ch, s, k, n) <=>
        Has(h, q, ts, w, x, ch, s, k, n) \/ (s = 1 /\ k = Len(h) + 1 /\ n = v)
  BY <1>1 DEF Has
<1>3. Has(h, Append(q, v), ts, w, x, ch, s, k, n) <=>
        Has(h, q, ts, w, x, ch, s, k, n) \/ (s = 2 /\ k = Len(q) + 1 /\ n = v)
  BY <1>1 DEF Has
<1>4. Has(h, q, ts, Append(w, v), x, ch, s, k, n) <=>
        Has(h, q, ts, w, x, ch, s, k, n) \/ (s = 5 /\ k = Len(w) + 1 /\ n = v)
  BY <1>1 DEF Has
<1> QED  BY <1>2, <1>3, <1>4

\* The head of the queue, if it carries a message of the channel.
LEMMA HeadHas ==
  ASSUME NEW h \in Seq(Nat), NEW q \in Seq(Nat), NEW ts \in Seq(Tasks), NEW w \in Seq(Nat), NEW x, NEW ch,
         ts # <<>>, NEW s \in Nat, NEW n \in Nat
  PROVE  Has(h, q, ts, w, x, ch, s, 1, n) /\ s \in {3, 4} <=>
            /\ n = Head(ts).n
            /\ (s = 3 /\ IsOf(Head(ts), "message", x, ch)) \/ (s = 4 /\ IsOf(Head(ts), "resume", x, ch))
BY DEF Has

LEMMA TailTasks ==
  ASSUME NEW ts \in Seq(Tasks), ts # <<>>
  PROVE  Tail(ts) \in Seq(Tasks) /\ Head(ts) \in Tasks
  OBVIOUS

-----------------------------------------------------------------------------
(* What the steps do to a line. *)

\* A task of others runs, or one of the channel, whose message is dropped.
LEMMA Popped ==
  ASSUME NEW h, NEW q, NEW ts, NEW w, NEW x, NEW ch, NEW G, NEW N, Ordered(h, q, ts, w, x, ch, G, N), ts # <<>>,
         NEW G2,
         G2 = IF IsOf(Head(ts), "message", x, ch) \/ IsOf(Head(ts), "resume", x, ch) THEN G \cup {Head(ts).n} ELSE G,
         Head(ts).type # "destroy" => Head(ts).n \in Nat
  PROVE  Ordered(h, q, Tail(ts), w, x, ch, G2, N)
<1>1. h \in Seq(Nat) /\ q \in Seq(Nat) /\ ts \in Seq(Tasks) /\ w \in Seq(Nat) /\ Tail(ts) \in Seq(Tasks)
  BY TailTasks DEF Ordered
<1> DEFINE Old(s, k, n) == Has(h, q, ts, w, x, ch, s, k, n)
           New(s, k, n) == Has(h, q, Tail(ts), w, x, ch, s, k, n)
           v == Head(ts).n
           mine == IsOf(Head(ts), "message", x, ch) \/ IsOf(Head(ts), "resume", x, ch)
<1>2. \A s, k, n \in Nat : New(s, k, n) <=> IF s \in {3, 4} THEN k >= 1 /\ Old(s, k + 1, n) ELSE Old(s, k, n)
  BY <1>1, TailHas
<1>3. \A s, k, n \in Nat : Old(s, k, n) => k >= 1  BY <1>1, HasPlace
<1>4. \A s, n \in Nat : Old(s, 1, n) /\ s \in {3, 4} => mine /\ n = v  BY <1>1, HeadHas
<1>5. mine => v \in Nat /\ (Old(3, 1, v) \/ Old(4, 1, v))  BY <1>1, HeadHas DEF IsOf
<1>6. G2 = IF mine THEN G \cup {v} ELSE G  OBVIOUS
<1>7. /\ \A s, k, n \in Nat : Old(s, k, n) => n \in 1 .. N /\ n \notin G
      /\ \A s, k, n, z, l, m \in Nat : Old(s, k, n) /\ Old(z, l, m) /\ Comes(s, k, z, l) => n < m
  BY DEF Ordered
<1> HIDE DEF Old, New, v, mine
<1>8. \A s, k, n \in Nat : New(s, k, n) => Old(Shift[<<s, k>>][1], Shift[<<s, k>>][2], n)  BY <1>2, ShiftIs
<1>9. \A s, k, z, l \in Nat : Comes(s, k, z, l)
         => Comes(Shift[<<s, k>>][1], Shift[<<s, k>>][2], Shift[<<z, l>>][1], Shift[<<z, l>>][2])
  <2>1. ASSUME NEW s \in Nat, NEW k \in Nat, NEW z \in Nat, NEW l \in Nat, Comes(s, k, z, l)
        PROVE  Comes(Shift[<<s, k>>][1], Shift[<<s, k>>][2], Shift[<<z, l>>][1], Shift[<<z, l>>][2])
    <3>1. /\ Shift[<<s, k>>][1] = s /\ Shift[<<s, k>>][2] = IF s \in {3, 4} THEN k + 1 ELSE k
          /\ Shift[<<z, l>>][1] = z /\ Shift[<<z, l>>][2] = IF z \in {3, 4} THEN l + 1 ELSE l
      BY ShiftIs
    <3> QED  BY ONLY <2>1, <3>1 DEF Comes
  <2> QED  BY <2>1
<1>10. \A n \in G2 : n \in G \/ (n \in 1 .. N /\ \A s, k \in Nat : ~New(s, k, n))
  <2> SUFFICES ASSUME mine, NEW s \in Nat, NEW k \in Nat, New(s, k, v) PROVE FALSE  BY <1>5, <1>6, <1>7
  <2>1. PICK z \in {3, 4} : Old(z, 1, v)  BY <1>5
  <2>2. PICK l \in Nat : Old(s, l, v) /\ (s \in {3, 4} => l >= 2)  BY <1>2, <1>5
  <2>3. ~Comes(s, l, z, 1) /\ ~Comes(z, 1, s, l)
    <3>1. v \in Nat /\ z \in Nat /\ 1 \in Nat /\ ~(v < v)  BY <1>5, <2>1
    <3> QED  BY <1>7, <2>1, <2>2, <3>1
  <2> QED  BY <2>1, <2>2, <2>3 DEF Comes
<1>11. ASSUME NEW s \in Nat, NEW k \in Nat, NEW n \in Nat, Old(s, k, n)
       PROVE  n \in G2 \/ \E z, l \in Nat : New(z, l, n)
  <2>1. CASE s \notin {3, 4}  BY <1>2, <1>11, <2>1
  <2>2. CASE s \in {3, 4} /\ k = 1  BY <1>4, <1>6, <1>11, <2>2
  <2>3. CASE s \in {3, 4} /\ k # 1
    <3>1. k - 1 \in Nat /\ k - 1 >= 1 /\ (k - 1) + 1 = k  BY <1>3, <1>11, <2>3
    <3>2. New(s, k - 1, n)  BY <1>2, <1>11, <2>3, <3>1
    <3> QED  BY <3>1, <3>2
  <2> QED  BY <2>1, <2>2, <2>3
<1>12. G \subseteq G2  BY <1>6
<1>13. Taken(h, q, ts, w, h, q, Tail(ts), w, x, ch, G, G2, N, Shift)
  BY <1>9, <1>8, <1>10, <1>11, <1>12 DEF Old, New, Taken
<1> QED  BY <1>1, <1>13, ShiftIs, Carried

LEMMA PoppedQueued ==
  ASSUME NEW h, NEW q, NEW ts, NEW w, NEW x, NEW ch, NEW G, NEW N, Ordered(h, q, ts, w, x, ch, G, N), ts # <<>>,
         IsOf(Head(ts), "message", x, ch), Head(ts).n \in Nat
  PROVE  Ordered(h, Append(q, Head(ts).n), Tail(ts), w, x, ch, G, N)
<1> DEFINE v == Head(ts).n
           q2 == Append(q, v)
           c == Len(q)
           back == ToQueue(c)
           Old(s, k, n) == Has(h, q, ts, w, x, ch, s, k, n)
           New(s, k, n) == Has(h, q2, Tail(ts), w, x, ch, s, k, n)
<1>1. h \in Seq(Nat) /\ q \in Seq(Nat) /\ ts \in Seq(Tasks) /\ w \in Seq(Nat) /\ Tail(ts) \in Seq(Tasks) /\ v \in Nat
  BY TailTasks DEF Ordered
<1>2. q2 \in Seq(Nat) /\ c \in Nat  BY <1>1
<1>3. ASSUME NEW s \in Nat, NEW k \in Nat, NEW n \in Nat
      PROVE  New(s, k, n) <=>
                \/ s \in {3, 4} /\ k >= 1 /\ Old(s, k + 1, n)
                \/ s \notin {3, 4} /\ Old(s, k, n)
                \/ s = 2 /\ k = c + 1 /\ n = v
  <2>1. Has(h, q2, Tail(ts), w, x, ch, s, k, n) <=>
          Has(h, q, Tail(ts), w, x, ch, s, k, n) \/ (s = 2 /\ k = Len(q) + 1 /\ n = v)
    BY <1>1, AppendMessageHas
  <2>2. Has(h, q, Tail(ts), w, x, ch, s, k, n) <=>
          IF s \in {3, 4} THEN k >= 1 /\ Has(h, q, ts, w, x, ch, s, k + 1, n) ELSE Has(h, q, ts, w, x, ch, s, k, n)
    BY <1>1, TailHas
  <2> QED  BY <2>1, <2>2
<1>4. \A s, k, n \in Nat : Old(s, k, n) => s \in 1 .. 5 /\ k >= 1 /\ (s = 2 => k <= c)  BY <1>1, HasPlace
<1>5. Old(3, 1, v) /\ \A s, n \in Nat : Old(s, 1, n) /\ s \in {3, 4} => n = v
  <2>1. \A s, n \in Nat : Old(s, 1, n) /\ s \in {3, 4} => n = v  BY <1>1, HeadHas
  <2>2. Old(3, 1, v)  BY <1>1, HeadHas
  <2> QED  BY <2>1, <2>2
<1>6. /\ back \in [Nat \X Nat -> Nat \X Nat]
      /\ \A s, k \in Nat :
              /\ s = 2 /\ k = c + 1 => back[<<s, k>>][1] = 3 /\ back[<<s, k>>][2] = 1
              /\ ~(s = 2 /\ k = c + 1) => /\ back[<<s, k>>][1] = s
                                         /\ back[<<s, k>>][2] = IF s \in {3, 4} THEN k + 1 ELSE k
  BY <1>2, ToQueueIs
<1> HIDE DEF Old, New, v, back, c
<1>7. ASSUME NEW s \in Nat, NEW k \in Nat, NEW n \in Nat, New(s, k, n)
      PROVE  Old(back[<<s, k>>][1], back[<<s, k>>][2], n)
  <2>1. CASE s = 2 /\ k = c + 1  BY <1>6, <2>1, <1>2, <1>3, <1>4, <1>7, <1>5
  <2>2. CASE ~(s = 2 /\ k = c + 1)  BY <1>6, <2>2, <1>3, <1>7
  <2> QED  BY <2>1, <2>2
<1>8. \A s, k, n, z, l, m \in Nat : New(s, k, n) /\ New(z, l, m) /\ Comes(s, k, z, l)
         => Comes(back[<<s, k>>][1], back[<<s, k>>][2], back[<<z, l>>][1], back[<<z, l>>][2])
  <2>1. \A s, k, n \in Nat : New(s, k, n) => s \in 1 .. 5 /\ k >= 1 /\ (s = 2 => k <= c + 1)
    BY <1>2, <1>3, <1>4
  <2>2. ASSUME NEW s \in Nat, NEW k \in Nat, NEW z \in Nat, NEW l \in Nat,
               Comes(s, k, z, l), k >= 1, l >= 1, s = 2 => k <= c + 1, z = 2 => l <= c + 1
        PROVE  Comes(back[<<s, k>>][1], back[<<s, k>>][2], back[<<z, l>>][1], back[<<z, l>>][2])
    <3>1. CASE s = 2 /\ k = c + 1
      <4>1. back[<<s, k>>][1] = 3 /\ back[<<s, k>>][2] = 1  BY <1>6, <3>1
      <4>2. z > 2  BY <1>2, <2>2, <3>1 DEF Comes
      <4>3. back[<<z, l>>][1] = z /\ back[<<z, l>>][2] = IF z \in {3, 4} THEN l + 1 ELSE l  BY <1>6, <4>2
      <4> QED  BY <2>2, <4>1, <4>2, <4>3 DEF Comes
    <3>2. CASE ~(s = 2 /\ k = c + 1) /\ z = 2 /\ l = c + 1
      <4>1. back[<<s, k>>][1] = s /\ back[<<z, l>>][1] = 3  BY <1>6, <3>2
      <4>2. s <= 2  BY <2>2, <3>2 DEF Comes
      <4> QED  BY <4>1, <4>2 DEF Comes
    <3>3. CASE ~(s = 2 /\ k = c + 1) /\ ~(z = 2 /\ l = c + 1)
      <4>1. back[<<s, k>>][1] = s /\ back[<<s, k>>][2] = IF s \in {3, 4} THEN k + 1 ELSE k  BY <1>6, <3>3
      <4>2. back[<<z, l>>][1] = z /\ back[<<z, l>>][2] = IF z \in {3, 4} THEN l + 1 ELSE l  BY <1>6, <3>3
      <4> QED  BY <2>2, <4>1, <4>2 DEF Comes
    <3> QED  BY <3>1, <3>2, <3>3
  <2> QED  BY <2>1, <2>2
<1>9. ASSUME NEW s \in Nat, NEW k \in Nat, NEW n \in Nat, Old(s, k, n)
       PROVE  \E z, l \in Nat : New(z, l, n)
  <2>1. CASE s \notin {3, 4}  BY <1>3, <1>9, <2>1
  <2>2. CASE s \in {3, 4} /\ k = 1
    <3>1. n = v  BY <1>5, <1>9, <2>2
    <3>2. New(2, c + 1, n)  BY <1>2, <1>3, <3>1
    <3> QED  BY <1>2, <3>2
  <2>3. CASE s \in {3, 4} /\ k # 1
    <3>1. k - 1 \in Nat /\ k - 1 >= 1 /\ (k - 1) + 1 = k  BY <1>4, <1>9, <2>3
    <3>2. New(s, k - 1, n)  BY <1>3, <1>9, <2>3, <3>1
    <3> QED  BY <3>1, <3>2
  <2> QED  BY <2>1, <2>2, <2>3
<1>10. Taken(h, q, ts, w, h, q2, Tail(ts), w, x, ch, G, G, N, back)  BY <1>7, <1>8, <1>9 DEF Old, New, Taken
<1> HIDE DEF q2
<1>11. Ordered(h, q2, Tail(ts), w, x, ch, G, N)  BY <1>1, <1>2, <1>6, <1>10, Carried
<1> QED  BY <1>11 DEF q2, v

LEMMA PoppedResent ==
  ASSUME NEW h, NEW q, NEW ts, NEW w, NEW x, NEW ch, NEW G, NEW N, Ordered(h, q, ts, w, x, ch, G, N), ts # <<>>,
         IsOf(Head(ts), "resume", x, ch), NEW t \in Tasks, IsOf(t, "message", x, ch), t.n = Head(ts).n, t.n \in Nat
  PROVE  Ordered(h, q, Append(Tail(ts), t), w, x, ch, G, N)
<1> DEFINE v == t.n
           ts2 == Append(Tail(ts), t)
           c == Len(ts)
           back == ToTasks(c)
           Old(s, k, n) == Has(h, q, ts, w, x, ch, s, k, n)
           New(s, k, n) == Has(h, q, ts2, w, x, ch, s, k, n)
<1>1. h \in Seq(Nat) /\ q \in Seq(Nat) /\ ts \in Seq(Tasks) /\ w \in Seq(Nat) /\ Tail(ts) \in Seq(Tasks) /\ v \in Nat
  BY TailTasks DEF Ordered
<1>2. ts2 \in Seq(Tasks) /\ c \in Nat /\ c >= 1 /\ Len(Tail(ts)) = c - 1  BY <1>1
<1>a. ~IsOf(t, "resume", x, ch)  BY DEF IsOf
<1>3. ASSUME NEW s \in Nat, NEW k \in Nat, NEW n \in Nat
      PROVE  New(s, k, n) <=>
                \/ s \in {3, 4} /\ k >= 1 /\ Old(s, k + 1, n)
                \/ s \notin {3, 4} /\ Old(s, k, n)
                \/ s = 3 /\ k = c /\ n = v
  <2>1. Has(h, q, ts2, w, x, ch, s, k, n) <=>
            \/ Has(h, q, Tail(ts), w, x, ch, s, k, n)
            \/ /\ k = Len(Tail(ts)) + 1 /\ n = t.n
               /\ (s = 3 /\ IsOf(t, "message", x, ch)) \/ (s = 4 /\ IsOf(t, "resume", x, ch))
    <3> DEFINE r == Tail(ts)
    <3>1. r \in Seq(Tasks)  BY <1>1
    <3> HIDE DEF r
    <3>2. Has(h, q, Append(r, t), w, x, ch, s, k, n) <=>
            \/ Has(h, q, r, w, x, ch, s, k, n)
            \/ /\ k = Len(r) + 1 /\ n = t.n
               /\ (s = 3 /\ IsOf(t, "message", x, ch)) \/ (s = 4 /\ IsOf(t, "resume", x, ch))
      <4>1. h \in Seq(Nat) /\ q \in Seq(Nat) /\ w \in Seq(Nat)  BY <1>1
      <4> QED  BY <3>1, <4>1, AppendHas
    <3> QED  BY <3>2 DEF r
  <2>2. Has(h, q, Tail(ts), w, x, ch, s, k, n) <=>
          IF s \in {3, 4} THEN k >= 1 /\ Has(h, q, ts, w, x, ch, s, k + 1, n) ELSE Has(h, q, ts, w, x, ch, s, k, n)
    BY <1>1, TailHas
  <2>3. Len(Tail(ts)) + 1 = c  BY <1>2
  <2> QED  BY <1>a, <2>1, <2>2, <2>3
<1>4. \A s, k, n \in Nat : Old(s, k, n) => s \in 1 .. 5 /\ k >= 1 /\ (s \in {3, 4} => k <= c)
  BY <1>1, HasPlace
<1>5. Old(4, 1, v) /\ \A s, n \in Nat : Old(s, 1, n) /\ s \in {3, 4} => n = v  BY <1>1, HeadHas
<1>6. /\ back \in [Nat \X Nat -> Nat \X Nat]
      /\ \A s, k \in Nat :
              /\ s = 3 /\ k = c => back[<<s, k>>][1] = 4 /\ back[<<s, k>>][2] = 1
              /\ ~(s = 3 /\ k = c) => /\ back[<<s, k>>][1] = s
                                     /\ back[<<s, k>>][2] = IF s \in {3, 4} THEN k + 1 ELSE k
  BY <1>2, ToTasksIs
<1> HIDE DEF Old, New, v, back, c
<1>7. ASSUME NEW s \in Nat, NEW k \in Nat, NEW n \in Nat, New(s, k, n)
      PROVE  Old(back[<<s, k>>][1], back[<<s, k>>][2], n)
  <2>1. CASE s = 3 /\ k = c
    <3>1. back[<<s, k>>][1] = 4 /\ back[<<s, k>>][2] = 1  BY <1>6, <2>1
    <3>2. n = v  BY <1>2, <1>4, <2>1, <1>3, <1>7
    <3> QED  BY <1>5, <3>1, <3>2
  <2>2. CASE ~(s = 3 /\ k = c)  BY <1>6, <2>2, <1>3, <1>7
  <2> QED  BY <2>1, <2>2
<1>8. \A s, k, n, z, l, m \in Nat : New(s, k, n) /\ New(z, l, m) /\ Comes(s, k, z, l)
         => Comes(back[<<s, k>>][1], back[<<s, k>>][2], back[<<z, l>>][1], back[<<z, l>>][2])
  <2>1. \A s, k, n \in Nat : New(s, k, n) => s \in 1 .. 5 /\ k >= 1 /\ (s \in {3, 4} => k <= c)
    <3> SUFFICES ASSUME NEW s \in Nat, NEW k \in Nat, NEW n \in Nat, New(s, k, n)
                 PROVE  s \in 1 .. 5 /\ k >= 1 /\ (s \in {3, 4} => k <= c)
      OBVIOUS
    <3>1. CASE s \in {3, 4} /\ k >= 1 /\ Old(s, k + 1, n)  BY <1>2, <1>4, <3>1
    <3>2. CASE s \notin {3, 4} /\ Old(s, k, n)  BY <1>4, <3>2
    <3>3. CASE s = 3 /\ k = c  BY <1>2, <3>3
    <3> QED  BY <1>3, <3>1, <3>2, <3>3
  <2>2. ASSUME NEW s \in Nat, NEW k \in Nat, NEW z \in Nat, NEW l \in Nat,
               Comes(s, k, z, l), k >= 1, l >= 1, s = 3 => k <= c, z = 3 => l <= c
        PROVE  Comes(back[<<s, k>>][1], back[<<s, k>>][2], back[<<z, l>>][1], back[<<z, l>>][2])
    <3>1. CASE s = 3 /\ k = c  BY <1>6, <3>1, <1>2, <2>2 DEF Comes
    <3>2. CASE ~(s = 3 /\ k = c) /\ z = 3 /\ l = c
      <4>1. back[<<s, k>>][1] = s /\ back[<<z, l>>][1] = 4  BY <1>6, <3>2
      <4>2. s <= 3  BY <2>2, <3>2 DEF Comes
      <4> QED  BY <4>1, <4>2 DEF Comes
    <3>3. CASE ~(s = 3 /\ k = c) /\ ~(z = 3 /\ l = c)
      <4>1. back[<<s, k>>][1] = s /\ back[<<s, k>>][2] = IF s \in {3, 4} THEN k + 1 ELSE k  BY <1>6, <3>3
      <4>2. back[<<z, l>>][1] = z /\ back[<<z, l>>][2] = IF z \in {3, 4} THEN l + 1 ELSE l  BY <1>6, <3>3
      <4> QED  BY <2>2, <4>1, <4>2 DEF Comes
    <3> QED  BY <3>1, <3>2, <3>3
  <2> QED  BY <2>1, <2>2
<1>9. ASSUME NEW s \in Nat, NEW k \in Nat, NEW n \in Nat, Old(s, k, n)
       PROVE  \E z, l \in Nat : New(z, l, n)
  <2>1. CASE s \notin {3, 4}  BY <1>3, <1>9, <2>1
  <2>2. CASE s \in {3, 4} /\ k = 1  BY <1>5, <1>9, <2>2, <1>2, <1>3
  <2>3. CASE s \in {3, 4} /\ k # 1
    <3>1. k - 1 \in Nat /\ k - 1 >= 1 /\ (k - 1) + 1 = k  BY <1>4, <1>9, <2>3
    <3>2. New(s, k - 1, n)  BY <1>3, <1>9, <2>3, <3>1
    <3> QED  BY <3>1, <3>2
  <2> QED  BY <2>1, <2>2, <2>3
<1>10. Taken(h, q, ts, w, h, q, ts2, w, x, ch, G, G, N, back)  BY <1>7, <1>8, <1>9 DEF Old, New, Taken
<1> HIDE DEF ts2
<1>11. Ordered(h, q, ts2, w, x, ch, G, N)  BY <1>1, <1>2, <1>6, <1>10, Carried
<1> QED  BY <1>11 DEF ts2

-----------------------------------------------------------------------------
(* Sending. *)

LEMMA SentMessageHas ==
  ASSUME NEW h \in Seq(Nat), NEW q \in Seq(Nat), NEW ts \in Seq(Tasks), NEW w \in Seq(Nat), NEW x, NEW ch,
         NEW t \in Tasks, IsOf(t, "message", x, ch)
  PROVE  \A s, k, n \in Nat : Has(h, q, Append(ts, t), w, x, ch, s, k, n) <=>
            Has(h, q, ts, w, x, ch, s, k, n) \/ (s = 3 /\ k = Len(ts) + 1 /\ n = t.n)
BY AppendHas DEF IsOf

LEMMA SentResumeHas ==
  ASSUME NEW h \in Seq(Nat), NEW q \in Seq(Nat), NEW ts \in Seq(Tasks), NEW w \in Seq(Nat), NEW x, NEW ch,
         NEW t \in Tasks, IsOf(t, "resume", x, ch)
  PROVE  \A s, k, n \in Nat : Has(h, q, Append(ts, t), w, x, ch, s, k, n) <=>
            Has(h, q, ts, w, x, ch, s, k, n) \/ (s = 4 /\ k = Len(ts) + 1 /\ n = t.n)
BY AppendHas DEF IsOf

LEMMA SentMessage ==
  ASSUME NEW h, NEW q, NEW ts, NEW w, NEW x, NEW ch, NEW G, NEW N, Ordered(h, q, ts, w, x, ch, G, N), Len(w) = 0,
         NEW t \in Tasks, IsOf(t, "message", x, ch), t.n = N + 1,
         \A k \in 1 .. Len(ts) : ~IsOf(ts[k], "resume", x, ch)
  PROVE  Ordered(h, q, Append(ts, t), w, x, ch, G, N + 1)
<1> DEFINE c == Len(ts) + 1
<1>1. h \in Seq(Nat) /\ q \in Seq(Nat) /\ ts \in Seq(Tasks) /\ w \in Seq(Nat) /\ N \in Nat  BY DEF Ordered
<1>2. Append(ts, t) \in Seq(Tasks) /\ c \in Nat  BY <1>1
<1>4. \A s, k, n \in Nat : Has(h, q, Append(ts, t), w, x, ch, s, k, n) <=>
            Has(h, q, ts, w, x, ch, s, k, n) \/ (s = 3 /\ k = c /\ n = t.n)
  <2>1. h \in Seq(Nat) /\ q \in Seq(Nat) /\ ts \in Seq(Tasks) /\ w \in Seq(Nat)  BY <1>1
  <2>2. IsOf(t, "message", x, ch) /\ t \in Tasks  OBVIOUS
  <2> QED  BY ONLY <2>1, <2>2, SentMessageHas
<1>5. ASSUME NEW s \in Nat, NEW k \in Nat, NEW n \in Nat, Has(h, q, ts, w, x, ch, s, k, n)
      PROVE  Comes(s, k, 3, c)
  BY <1>5, <1>1, HasPlace DEF Has, Comes
<1> HIDE DEF c
<1>6. \A s, k, n \in Nat : Has(h, q, Append(ts, t), w, x, ch, s, k, n) <=>
            Has(h, q, ts, w, x, ch, s, k, n) \/ (s = 3 /\ k = c /\ n = N + 1)
  BY <1>4
<1> DEFINE z == 3
<1>7. \A s, k, n \in Nat : Has(h, q, Append(ts, t), w, x, ch, s, k, n) <=>
            Has(h, q, ts, w, x, ch, s, k, n) \/ (s = z /\ k = c /\ n = N + 1)
  BY <1>6
<1>8. \A s, k, n \in Nat : Has(h, q, ts, w, x, ch, s, k, n) => Comes(s, k, z, c)  BY <1>5
<1>9. z \in Nat  OBVIOUS
<1> HIDE DEF z
<1> QED  BY <1>1, <1>2, <1>7, <1>8, <1>9, Added

LEMMA SentResume ==
  ASSUME NEW h, NEW q, NEW ts, NEW w, NEW x, NEW ch, NEW G, NEW N, Ordered(h, q, ts, w, x, ch, G, N), Len(w) = 0,
         NEW t \in Tasks, IsOf(t, "resume", x, ch), t.n = N + 1
  PROVE  Ordered(h, q, Append(ts, t), w, x, ch, G, N + 1)
<1> DEFINE c == Len(ts) + 1
<1>1. h \in Seq(Nat) /\ q \in Seq(Nat) /\ ts \in Seq(Tasks) /\ w \in Seq(Nat) /\ N \in Nat  BY DEF Ordered
<1>2. Append(ts, t) \in Seq(Tasks) /\ c \in Nat  BY <1>1
<1>4. \A s, k, n \in Nat : Has(h, q, Append(ts, t), w, x, ch, s, k, n) <=>
            Has(h, q, ts, w, x, ch, s, k, n) \/ (s = 4 /\ k = c /\ n = t.n)
  <2>1. h \in Seq(Nat) /\ q \in Seq(Nat) /\ ts \in Seq(Tasks) /\ w \in Seq(Nat)  BY <1>1
  <2>2. IsOf(t, "resume", x, ch) /\ t \in Tasks  OBVIOUS
  <2> QED  BY ONLY <2>1, <2>2, SentResumeHas
<1>5. ASSUME NEW s \in Nat, NEW k \in Nat, NEW n \in Nat, Has(h, q, ts, w, x, ch, s, k, n)
      PROVE  Comes(s, k, 4, c)
  BY <1>5, <1>1, HasPlace DEF Has, Comes
<1> HIDE DEF c
<1>6. \A s, k, n \in Nat : Has(h, q, Append(ts, t), w, x, ch, s, k, n) <=>
            Has(h, q, ts, w, x, ch, s, k, n) \/ (s = 4 /\ k = c /\ n = N + 1)
  BY <1>4
<1> DEFINE z == 4
<1>7. \A s, k, n \in Nat : Has(h, q, Append(ts, t), w, x, ch, s, k, n) <=>
            Has(h, q, ts, w, x, ch, s, k, n) \/ (s = z /\ k = c /\ n = N + 1)
  BY <1>6
<1>8. \A s, k, n \in Nat : Has(h, q, ts, w, x, ch, s, k, n) => Comes(s, k, z, c)  BY <1>5
<1>9. z \in Nat  OBVIOUS
<1> HIDE DEF z
<1> QED  BY <1>1, <1>2, <1>7, <1>8, <1>9, Added

LEMMA SentToWait ==
  ASSUME NEW h, NEW q, NEW ts, NEW w, NEW x, NEW ch, NEW G, NEW N, Ordered(h, q, ts, w, x, ch, G, N)
  PROVE  Ordered(h, q, ts, Append(w, N + 1), x, ch, G, N + 1)
<1>1. h \in Seq(Nat) /\ q \in Seq(Nat) /\ ts \in Seq(Tasks) /\ w \in Seq(Nat) /\ N + 1 \in Nat  BY DEF Ordered
<1>2. Append(w, N + 1) \in Seq(Nat) /\ Len(w) + 1 \in Nat  BY <1>1
<1>4. \A s, k, n \in Nat : Has(h, q, ts, Append(w, N + 1), x, ch, s, k, n) <=>
            Has(h, q, ts, w, x, ch, s, k, n) \/ (s = 5 /\ k = Len(w) + 1 /\ n = N + 1)
  BY <1>1, AppendMessageHas
<1>5. ASSUME NEW s \in Nat, NEW k \in Nat, NEW n \in Nat, Has(h, q, ts, w, x, ch, s, k, n)
      PROVE  Comes(s, k, 5, Len(w) + 1)
  BY <1>1, <1>5, HasPlace DEF Comes
<1> QED  BY <1>1, <1>2, <1>4, <1>5, Added

\* Tasks of others.
LEMMA OthersSent ==
  ASSUME NEW h, NEW q, NEW ts, NEW w, NEW x, NEW ch, NEW G, NEW N, Ordered(h, q, ts, w, x, ch, G, N),
         NEW F \in Seq(Tasks),
         \A k \in 1 .. Len(F) : ~IsOf(F[k], "message", x, ch) /\ ~IsOf(F[k], "resume", x, ch)
  PROVE  Ordered(h, q, ts \o F, w, x, ch, G, N)
<1>1. ts \in Seq(Tasks)  BY DEF Ordered
<1>2. /\ ts \o F \in Seq(Tasks) /\ Len(ts \o F) = Len(ts) + Len(F) /\ Len(ts) \in Nat /\ Len(F) \in Nat
      /\ \A k \in 1 .. Len(ts) : (ts \o F)[k] = ts[k]
      /\ \A k \in 1 .. (Len(ts) + Len(F)) : k > Len(ts) => k - Len(ts) \in 1 .. Len(F) /\ (ts \o F)[k] = F[k - Len(ts)]
  BY <1>1
<1> DEFINE tf == ts \o F
<1> HIDE DEF tf
<1>3. /\ Len(tf) = Len(ts) + Len(F)
      /\ \A k \in 1 .. Len(ts) : tf[k] = ts[k]
      /\ \A k \in 1 .. Len(tf) : k \notin 1 .. Len(ts) =>
            ~IsOf(tf[k], "message", x, ch) /\ ~IsOf(tf[k], "resume", x, ch)
  BY <1>2 DEF tf
<1>4. ASSUME NEW s \in Nat, NEW k \in Nat, NEW n \in Nat
      PROVE  Has(h, q, tf, w, x, ch, s, k, n) <=> Has(h, q, ts, w, x, ch, s, k, n)
  <2>1. CASE s \notin {3, 4}  BY <2>1 DEF Has
  <2>2. CASE k \in 1 .. Len(ts)  BY <1>2, <1>3, <2>2 DEF Has
  <2>3. CASE s \in {3, 4} /\ k \notin 1 .. Len(ts)  BY <1>3, <2>3 DEF Has
  <2> QED  BY <2>1, <2>2, <2>3
<1>5. tf \in Seq(Tasks)  BY <1>2 DEF tf
<1>6. Ordered(h, q, tf, w, x, ch, G, N)
  <2> DEFINE Old(s, k, n) == Has(h, q, ts, w, x, ch, s, k, n)
             New(s, k, n) == Has(h, q, tf, w, x, ch, s, k, n)
  <2>1. \A s, k, n \in Nat : New(s, k, n) <=> Old(s, k, n)  BY <1>4
  <2>2. /\ N \in Nat /\ G \subseteq 1 .. N /\ h \in Seq(Nat) /\ q \in Seq(Nat) /\ w \in Seq(Nat)
        /\ \A s, k, n \in Nat : Old(s, k, n) => n \in 1 .. N /\ n \notin G
        /\ \A n \in 1 .. N : n \in G \/ \E s, k \in Nat : Old(s, k, n)
        /\ \A s, k, n, z, l, m \in Nat : Old(s, k, n) /\ Old(z, l, m) /\ Comes(s, k, z, l) => n < m
    BY DEF Ordered
  <2> HIDE DEF Old, New
  <2>3. \A n \in 1 .. N : n \in G \/ \E s, k \in Nat : New(s, k, n)
    <3> SUFFICES ASSUME NEW n \in 1 .. N, n \notin G PROVE \E s, k \in Nat : New(s, k, n)  OBVIOUS
    <3>1. n \in Nat  BY <2>2
    <3> QED  BY <2>1, <2>2, <3>1
  <2>5. \A s, k, n \in Nat : New(s, k, n) => n \in 1 .. N /\ n \notin G  BY <2>1, <2>2
  <2>6. \A s, k, n, z, l, m \in Nat : New(s, k, n) /\ New(z, l, m) /\ Comes(s, k, z, l) => n < m
    <3> SUFFICES ASSUME NEW s \in Nat, NEW k \in Nat, NEW n \in Nat, NEW z \in Nat, NEW l \in Nat, NEW m \in Nat,
                        New(s, k, n), New(z, l, m), Comes(s, k, z, l)
                 PROVE  n < m
      OBVIOUS
    <3>1. Old(s, k, n) /\ Old(z, l, m)  BY <2>1
    <3> HIDE DEF Comes
    <3> QED  BY <2>2, <3>1
  <2>4. /\ \A s, k, n \in Nat : New(s, k, n) => n \in 1 .. N /\ n \notin G
        /\ \A s, k, n, z, l, m \in Nat : New(s, k, n) /\ New(z, l, m) /\ Comes(s, k, z, l) => n < m
    BY <2>5, <2>6
  <2> QED  BY <1>5, <2>2, <2>3, <2>4 DEF Ordered, New
<1> QED  BY <1>6 DEF tf

-----------------------------------------------------------------------------
(* A queue is flushed, to its beginning a, and the rest b is missed. *)

LEMMA Flushed ==
  ASSUME NEW h, NEW q, NEW ts, NEW w, NEW x, NEW ch, NEW G, NEW N, Ordered(h, q, ts, w, x, ch, G, N),
         NEW a \in Seq(Nat), NEW b \in Seq(Nat), q = a \o b,
         NEW e \in Seq(Nat), Len(e) = 0,
         NEW B, \A n \in B : \E k \in Nat : k \in 1 .. Len(b) /\ n = b[k],
                \A k \in Nat : k \in 1 .. Len(b) => b[k] \in B
  PROVE  Ordered(h \o a, e, ts, w, x, ch, G \cup B, N)
<1> DEFINE h2 == h \o a
           G2 == G \cup B
           c == Len(h)
           d == Len(a)
           back == ToFlushed(c)
           Old(s, k, n) == Has(h, q, ts, w, x, ch, s, k, n)
           New(s, k, n) == Has(h2, e, ts, w, x, ch, s, k, n)
<1>1. h \in Seq(Nat) /\ q \in Seq(Nat) /\ ts \in Seq(Tasks) /\ w \in Seq(Nat) /\ N \in Nat  BY DEF Ordered
<1>2. /\ h2 \in Seq(Nat) /\ Len(h2) = c + d /\ c \in Nat /\ d \in Nat
      /\ \A k \in Nat : k \in 1 .. c => h2[k] = h[k]
      /\ \A k \in Nat : k \in 1 .. d => h2[c + k] = a[k]
  BY <1>1, ConcatIs
<1>3. /\ Len(q) = d + Len(b) /\ Len(b) \in Nat
      /\ \A k \in Nat : k \in 1 .. d => q[k] = a[k]
      /\ \A k \in Nat : k \in 1 .. Len(b) => q[d + k] = b[k]
  BY ConcatIs
<1>6. /\ back \in [Nat \X Nat -> Nat \X Nat]
      /\ \A s, k \in Nat :
              /\ s = 1 /\ k > c => back[<<s, k>>][1] = 2 /\ back[<<s, k>>][2] = k - c
              /\ ~(s = 1 /\ k > c) => back[<<s, k>>][1] = s /\ back[<<s, k>>][2] = k
  BY <1>2, ToFlushedIs
<1> HIDE DEF h2, c, d, back
<1>4. \A s, k, n \in Nat : New(s, k, n) =>
        \/ s = 1 /\ k \in 1 .. c /\ Old(1, k, n)
        \/ s = 1 /\ k > c /\ k - c \in 1 .. d /\ Old(2, k - c, n)
        \/ s \notin {1, 2} /\ Old(s, k, n)
  <2> SUFFICES ASSUME NEW s \in Nat, NEW k \in Nat, NEW n \in Nat, New(s, k, n)
               PROVE  \/ s = 1 /\ k \in 1 .. c /\ Old(1, k, n)
                      \/ s = 1 /\ k > c /\ k - c \in 1 .. d /\ Old(2, k - c, n)
                      \/ s \notin {1, 2} /\ Old(s, k, n)
    OBVIOUS
  <2>1. CASE s = 1 /\ k \in 1 .. c  BY <1>2, <2>1 DEF Has, c
  <2>2. CASE s = 1 /\ k \notin 1 .. c  BY <1>2, <2>2, <1>3 DEF Has
  <2>3. s # 2  BY DEF Has
  <2>4. CASE s \notin {1, 2}  BY <2>4 DEF Has
  <2> QED  BY <2>1, <2>2, <2>3, <2>4
<1>5. ASSUME NEW s \in Nat, NEW k \in Nat, NEW n \in Nat, Old(s, k, n)
       PROVE  n \in G2 \/ \E z, l \in Nat : New(z, l, n)
  <2>1. CASE s = 1
    <3>1. k \in 1 .. c /\ n = h[k]  BY <1>5, <2>1 DEF Has, c
    <3>2. k \in 1 .. Len(h2) /\ n = h2[k]  BY <1>2, <3>1
    <3>3. New(1, k, n)  BY <3>2 DEF Has
    <3> QED  BY <3>3
  <2>2. CASE s = 2
    <3>1. k \in 1 .. (d + Len(b)) /\ n = q[k]  BY <1>3, <1>5, <2>2 DEF Has
    <3>2. CASE k \in 1 .. d
      <4>1. n = h2[c + k] /\ c + k \in 1 .. Len(h2) /\ c + k \in Nat  BY <1>2, <1>3, <3>1, <3>2
      <4>2. New(1, c + k, n)  BY <4>1 DEF Has
      <4> QED  BY <4>1, <4>2
    <3>3. CASE k \notin 1 .. d
      <4>1. k - d \in Nat /\ k - d \in 1 .. Len(b) /\ d + (k - d) = k  BY <1>2, <1>3, <3>1, <3>3
      <4>2. n = b[k - d]  BY <1>3, <3>1, <4>1
      <4> QED  BY <4>1, <4>2
    <3> QED  BY <3>2, <3>3
  <2>3. CASE s \notin {1, 2}  BY <1>5, <2>3 DEF Has
  <2> QED  BY <2>1, <2>2, <2>3
<1>7. /\ \A s, k, n \in Nat : Old(s, k, n) => n \in 1 .. N /\ n \notin G
      /\ \A s, k, n, z, l, m \in Nat : Old(s, k, n) /\ Old(z, l, m) /\ Comes(s, k, z, l) => n < m
  BY DEF Ordered
<1>a. ASSUME NEW n \in B
      PROVE  n \in Nat /\ \E k \in Nat : k > d /\ Old(2, k, n)
  <2>1. PICK k \in Nat : k \in 1 .. Len(b) /\ n = b[k]  OBVIOUS
  <2>2. d + k \in 1 .. Len(q) /\ q[d + k] = n /\ d + k \in Nat /\ d + k > d /\ n \in Nat
    <3>1. n \in Nat  BY <2>1
    <3>2. k \in 1 .. Len(b) /\ Len(b) \in Nat /\ d \in Nat /\ Len(q) = d + Len(b)  BY <1>2, <1>3, <2>1
    <3>3. q[d + k] = n  BY <1>3, <2>1
    <3> QED  BY <3>1, <3>2, <3>3
  <2>3. Old(2, d + k, n)  BY <2>2 DEF Has
  <2> QED  BY <2>2, <2>3
<1> HIDE DEF Old, New
<1>8. \A s, k, n \in Nat : New(s, k, n) => Old(back[<<s, k>>][1], back[<<s, k>>][2], n)
  <2> SUFFICES ASSUME NEW s \in Nat, NEW k \in Nat, NEW n \in Nat, New(s, k, n)
               PROVE  Old(back[<<s, k>>][1], back[<<s, k>>][2], n)
    OBVIOUS
  <2>1. CASE s = 1 /\ k > c
    <3>1. back[<<s, k>>][1] = 2 /\ back[<<s, k>>][2] = k - c  BY <1>6, <2>1
    <3>2. Old(2, k - c, n)  BY <1>2, <1>4, <2>1
    <3> QED  BY <3>1, <3>2
  <2>2. CASE ~(s = 1 /\ k > c)
    <3>1. back[<<s, k>>][1] = s /\ back[<<s, k>>][2] = k  BY <1>6, <2>2
    <3>2. Old(s, k, n)  BY <1>4, <2>2
    <3> QED  BY <3>1, <3>2
  <2> QED  BY <2>1, <2>2
<1>9. \A s, k, n, z, l, m \in Nat : New(s, k, n) /\ New(z, l, m) /\ Comes(s, k, z, l)
         => Comes(back[<<s, k>>][1], back[<<s, k>>][2], back[<<z, l>>][1], back[<<z, l>>][2])
  <2>1. \A s, k, n \in Nat : New(s, k, n) => s # 2  BY <1>4
  <2>2. ASSUME NEW s \in Nat, NEW k \in Nat, NEW z \in Nat, NEW l \in Nat, s # 2, z # 2, Comes(s, k, z, l)
        PROVE  Comes(back[<<s, k>>][1], back[<<s, k>>][2], back[<<z, l>>][1], back[<<z, l>>][2])
    <3>1. CASE s = 1 /\ k > c
      <4>1. back[<<s, k>>][1] = 2 /\ back[<<s, k>>][2] = k - c  BY <1>6, <3>1
      <4>2. CASE z = 1  BY <1>2, <2>2, <3>1, <4>2, <1>6, <4>1 DEF Comes
      <4>3. CASE z # 1  BY <1>6, <2>2, <3>1, <4>3, <4>1 DEF Comes
      <4> QED  BY <4>2, <4>3
    <3>2. CASE ~(s = 1 /\ k > c) /\ z = 1 /\ l > c  BY <1>6, <3>2, <2>2 DEF Comes
    <3>3. CASE ~(s = 1 /\ k > c) /\ ~(z = 1 /\ l > c)  BY <1>6, <3>3, <2>2
    <3> QED  BY <3>1, <3>2, <3>3
  <2> QED  BY <2>1, <2>2
<1>10. \A n \in G2 : n \in G \/ (n \in 1 .. N /\ \A s, k \in Nat : ~New(s, k, n))
  <2> SUFFICES ASSUME NEW n \in B PROVE n \in 1 .. N /\ \A s, k \in Nat : ~New(s, k, n)  OBVIOUS
  <2>1. PICK j \in Nat : j > d /\ Old(2, j, n)  BY <1>a
  <2>2. n \in 1 .. N /\ n \in Nat  BY <1>7, <1>a, <2>1
  <2>3. ASSUME NEW s \in Nat, NEW k \in Nat, New(s, k, n) PROVE FALSE
    <3>1. PICK z \in Nat, l \in Nat : Old(z, l, n) /\ ~(z = 2 /\ l = j)
      <4>1. CASE s = 1 /\ k > c /\ k - c \in 1 .. d /\ Old(2, k - c, n)
        <5>1. k - c \in Nat /\ k - c # j  BY <1>2, <2>1, <4>1
        <5> QED  BY <4>1, <5>1
      <4>2. CASE (s = 1 /\ Old(1, k, n)) \/ (s \notin {1, 2} /\ Old(s, k, n))  BY <4>2
      <4> QED  BY <1>4, <2>2, <2>3, <4>1, <4>2
    <3>2. ~Comes(z, l, 2, j) /\ ~Comes(2, j, z, l)
      <4>1. ~(n < n)  BY <2>2
      <4> HIDE DEF Comes
      <4> QED  BY <1>7, <2>1, <2>2, <3>1, <4>1
    <3> QED  BY <3>1, <3>2 DEF Comes
  <2> QED  BY <2>2, <2>3
<1>11. Taken(h, q, ts, w, h2, e, ts, w, x, ch, G, G2, N, back)
  <2>1. G \subseteq G2  OBVIOUS
  <2> HIDE DEF G2
  <2> QED  BY <1>5, <1>8, <1>9, <1>10, <2>1 DEF Old, New, Taken
<1> HIDE DEF G2
<1>12. Ordered(h2, e, ts, w, x, ch, G2, N)  BY <1>1, <1>2, <1>6, <1>11, Carried
<1> QED  BY <1>12 DEF h2, G2

-----------------------------------------------------------------------------
(* The sends that waited are resumed: F holds them in their order. *)

Resumed(F, place, w, x, ch) ==
    /\ F \in Seq(Tasks)
    /\ place \in [1 .. Len(F) -> Nat]
    /\ \A p \in 1 .. Len(F) : ~IsOf(F[p], "message", x, ch)
    /\ \A p \in 1 .. Len(F) : IsOf(F[p], "resume", x, ch) => place[p] \in 1 .. Len(w) /\ F[p].n = w[place[p]]
    /\ \A p, r \in 1 .. Len(F) :
         IsOf(F[p], "resume", x, ch) /\ IsOf(F[r], "resume", x, ch) /\ p < r => place[p] < place[r]
    /\ \A k \in 1 .. Len(w) : \E p \in 1 .. Len(F) : IsOf(F[p], "resume", x, ch) /\ place[p] = k

LEMMA AllResumed ==
  ASSUME NEW h, NEW q, NEW ts, NEW w, NEW x, NEW ch, NEW G, NEW N, Ordered(h, q, ts, w, x, ch, G, N),
         NEW F, NEW place, Resumed(F, place, w, x, ch), NEW e \in Seq(Nat), Len(e) = 0
  PROVE  Ordered(h, q, ts \o F, e, x, ch, G, N)
<1> DEFINE ts2 == ts \o F
           c == Len(ts)
           f == Len(F)
           back == ToResumed(c, f, place)
           Old(s, k, n) == Has(h, q, ts, w, x, ch, s, k, n)
           New(s, k, n) == Has(h, q, ts2, e, x, ch, s, k, n)
           Mine(p) == IsOf(F[p], "resume", x, ch)
<1>1. /\ h \in Seq(Nat) /\ q \in Seq(Nat) /\ ts \in Seq(Tasks) /\ w \in Seq(Nat) /\ N \in Nat
      /\ F \in Seq(Tasks) /\ place \in [1 .. f -> Nat]
  BY DEF Ordered, Resumed
<1>2. /\ ts2 \in Seq(Tasks) /\ Len(ts2) = c + f /\ c \in Nat /\ f \in Nat
      /\ \A k \in Nat : k \in 1 .. c => ts2[k] = ts[k]
      /\ \A k \in Nat : k \in 1 .. f => ts2[c + k] = F[k]
  BY <1>1, ConcatIs
<1>3. /\ \A p \in 1 .. f : ~IsOf(F[p], "message", x, ch)
      /\ \A p \in 1 .. f : Mine(p) => place[p] \in 1 .. Len(w) /\ F[p].n = w[place[p]]
      /\ \A p, r \in 1 .. f : Mine(p) /\ Mine(r) /\ p < r => place[p] < place[r]
      /\ \A k \in 1 .. Len(w) : \E p \in 1 .. f : Mine(p) /\ place[p] = k
  BY DEF Resumed
<1>6. /\ back \in [Nat \X Nat -> Nat \X Nat]
      /\ \A s, k \in Nat :
              /\ s = 4 /\ k - c \in 1 .. f => back[<<s, k>>][1] = 5 /\ back[<<s, k>>][2] = place[k - c]
              /\ ~(s = 4 /\ k - c \in 1 .. f) => back[<<s, k>>][1] = s /\ back[<<s, k>>][2] = k
  BY ONLY <1>1, <1>2, ToResumedIs DEF back
<1> HIDE DEF ts2, c, f, back
<1>4. \A s, k, n \in Nat : New(s, k, n) =>
        \/ s \in {3, 4} /\ k \in 1 .. c /\ Old(s, k, n)
        \/ s = 4 /\ k - c \in 1 .. f /\ Mine(k - c) /\ Old(5, place[k - c], n)
        \/ s \in {1, 2} /\ Old(s, k, n)
  <2> SUFFICES ASSUME NEW s \in Nat, NEW k \in Nat, NEW n \in Nat, New(s, k, n)
               PROVE  \/ s \in {3, 4} /\ k \in 1 .. c /\ Old(s, k, n)
                      \/ s = 4 /\ k - c \in 1 .. f /\ Mine(k - c) /\ Old(5, place[k - c], n)
                      \/ s \in {1, 2} /\ Old(s, k, n)
    OBVIOUS
  <2>1. CASE s \in {3, 4} /\ k \in 1 .. c  BY <1>2, <2>1 DEF c, Has
  <2>2. CASE s \in {3, 4} /\ k \notin 1 .. c  BY <2>2, <1>2, <1>3 DEF Has
  <2>3. s # 5  BY DEF Has
  <2>4. CASE s \in {1, 2}  BY <2>4 DEF Has
  <2>5. s \in 1 .. 5  BY DEF Has
  <2> QED  BY <2>1, <2>2, <2>3, <2>4, <2>5
<1>5. ASSUME NEW s \in Nat, NEW k \in Nat, NEW n \in Nat, Old(s, k, n)
       PROVE  \E z, l \in Nat : New(z, l, n)
  <2>1. CASE s = 5
    <3>1. k \in 1 .. Len(w) /\ n = w[k]  BY <1>5, <2>1 DEF Has
    <3>2. PICK p \in 1 .. f : Mine(p) /\ place[p] = k  BY <1>3, <3>1
    <3>3. c + p \in 1 .. Len(ts2) /\ c + p \in Nat /\ p \in Nat  BY <1>2
    <3>4. ts2[c + p] = F[p] /\ F[p].n = n  BY <1>2, <1>3, <3>1, <3>2, <3>3
    <3>5. New(4, c + p, n)  BY <3>2, <3>3, <3>4 DEF Has
    <3> QED  BY <3>3, <3>5
  <2>2. CASE s \in {3, 4}
    <3>1. k \in 1 .. c  BY <1>5, <2>2 DEF Has, c
    <3>2. k \in 1 .. Len(ts2) /\ ts2[k] = ts[k]  BY <1>2, <3>1
    <3>3. New(s, k, n)  BY <1>5, <2>2, <3>2 DEF Has
    <3> QED  BY <3>3
  <2>3. CASE s \notin {3, 4, 5}
    <3>1. New(s, k, n)  BY <1>5, <2>3 DEF Has
    <3> QED  BY <3>1
  <2> QED  BY <2>1, <2>2, <2>3
<1> HIDE DEF Old, New, Mine
<1>8. \A s, k, n \in Nat : New(s, k, n) => Old(back[<<s, k>>][1], back[<<s, k>>][2], n)
  <2> SUFFICES ASSUME NEW s \in Nat, NEW k \in Nat, NEW n \in Nat, New(s, k, n)
               PROVE  Old(back[<<s, k>>][1], back[<<s, k>>][2], n)
    OBVIOUS
  <2>1. CASE s = 4 /\ k - c \in 1 .. f
    <3>1. back[<<s, k>>][1] = 5 /\ back[<<s, k>>][2] = place[k - c]  BY <1>6, <2>1
    <3>2. Old(5, place[k - c], n)  BY <1>2, <2>1, <1>4
    <3> QED  BY <3>1, <3>2
  <2>2. CASE ~(s = 4 /\ k - c \in 1 .. f)  BY <1>6, <2>2, <1>4
  <2> QED  BY <2>1, <2>2
<1>9. ASSUME NEW s \in Nat, NEW k \in Nat, NEW n \in Nat, NEW z \in Nat, NEW l \in Nat, NEW m \in Nat,
             New(s, k, n), New(z, l, m), Comes(s, k, z, l)
      PROVE  Comes(back[<<s, k>>][1], back[<<s, k>>][2], back[<<z, l>>][1], back[<<z, l>>][2])
  <2>1. s \in 1 .. 4 /\ z \in 1 .. 4  BY <1>4, <1>9
  <2>2. s = 4 => k \in 1 .. c \/ (k - c \in 1 .. f /\ Mine(k - c))  BY <1>4, <1>9
  <2>3. z = 4 => l \in 1 .. c \/ (l - c \in 1 .. f /\ Mine(l - c))  BY <1>4, <1>9
  <2>4. CASE s = 4 /\ k - c \in 1 .. f
    <3>1. back[<<s, k>>][1] = 5 /\ back[<<s, k>>][2] = place[k - c]  BY <1>6, <2>4
    <3>2. z = 4 /\ k < l  BY <1>9, <2>1, <2>4 DEF Comes
    <3>3. l - c \in 1 .. f /\ Mine(l - c) /\ Mine(k - c) /\ k - c < l - c  BY <1>2, <2>2, <2>3, <2>4, <3>2
    <3>4. back[<<z, l>>][1] = 5 /\ back[<<z, l>>][2] = place[l - c]  BY <1>6, <3>2, <3>3
    <3>5. place[k - c] < place[l - c]  BY <1>3, <2>4, <3>3
    <3> QED  BY <3>1, <3>4, <3>5 DEF Comes
  <2>5. CASE ~(s = 4 /\ k - c \in 1 .. f) /\ z = 4 /\ l - c \in 1 .. f
    <3>1. back[<<s, k>>][1] = s /\ back[<<z, l>>][1] = 5  BY <1>6, <2>5
    <3> QED  BY <2>1, <3>1 DEF Comes
  <2>6. CASE ~(s = 4 /\ k - c \in 1 .. f) /\ ~(z = 4 /\ l - c \in 1 .. f)
    <3>1. back[<<s, k>>][1] = s /\ back[<<s, k>>][2] = k /\ back[<<z, l>>][1] = z /\ back[<<z, l>>][2] = l
      BY <1>6, <2>6
    <3> QED  BY <1>9, <3>1
  <2> QED  BY <2>4, <2>5, <2>6
<1>10. Taken(h, q, ts, w, h, q, ts2, e, x, ch, G, G, N, back)  BY <1>5, <1>8, <1>9 DEF Old, New, Taken
<1>11. Ordered(h, q, ts2, e, x, ch, G, N)  BY <1>1, <1>2, <1>6, <1>10, Carried
<1> QED  BY <1>11 DEF ts2

Fresh(x, i) == ~chan[x][i].known /\ ~chan[x][i].isClosed
IsMine(t, x, ch) == IsOf(t, "message", x, ch) \/ IsOf(t, "resume", x, ch)
OnTheWay(x, ch) == \E k \in 1 .. Len(tasks) : IsMine(tasks[k], x, ch)

Line(x, ch) == Ordered(Heard(x, ch), Queued(x, ch), tasks, Waiting(x, ch), x, ch, gone[x][ch], sent[x][ch])
Lines == \A x \in Sides, ch \in Channels : Line(x, ch)

\* A control channel queues only until it has a listener.
QueuesFirst(x) ==
    /\ ~control[x].made => control[x].heard = <<>> /\ control[x].queue = <<>>
    /\ control[x].queue # <<>> => ~control[x].isClosed /\ ~HasListener(control[x])
Queues == \A x \in Sides : QueuesFirst(x)

\* The ends of a stream channel: open together but for the opener's, and ...
Alone(x, i) == x = OpenerOf[i] /\ chan[Peer(x)][i].early

Together(x, i) ==
    /\ Usable(chan[x][i]) => /\ chan[x][i].known /\ chan[Peer(x)][i].known
                             /\ Usable(chan[Peer(x)][i]) \/ Alone(x, i)
    /\ waiting[x][i] # <<>> => Usable(chan[x][i]) /\ ~IsReady(chan[Peer(x)][i])
    /\ down[x] => ~chan[x][i].known /\ waiting[x][i] = <<>>
    /\ Fresh(x, i) => chan[x][i] = NoStream
    /\ Usable(chan[x][i]) /\ OnTheWay(x, i) => IsReady(chan[Peer(x)][i])
    /\ Fresh(OpenerOf[i], i) => Fresh(x, i) /\ ~OnTheWay(x, i)
    /\ chan[x][i].known /\ chan[x][i].early => chan[x][i].isClosed
Pairs == \A x \in Sides, i \in Ids : Together(x, i)

DownTogether == \A x, y \in Sides : down[x] = down[y]

MemIInv == MemTypeOK /\ Lines /\ Queues /\ Pairs /\ DownTogether

LEMMA MemPeer ==
  /\ \A x \in Sides : Peer(x) \in Sides /\ Peer(x) # x /\ Peer(Peer(x)) = x
  /\ \A x, y \in Sides : y = x \/ y = Peer(x)
  /\ \A x, y \in Sides : Peer(x) = Peer(y) => x = y
BY DEF Peer, Sides

\* The parts of MemTypeOK, one by one.
LEMMA MemTypes ==
  ASSUME MemTypeOK
  PROVE  /\ \A x \in Sides : control[x] \in ControlChannel /\ down[x] \in BOOLEAN
         /\ \A x \in Sides, i \in Ids : chan[x][i] \in StreamChannel /\ waiting[x][i] \in Seq(1 .. MaxSends)
         /\ \A x \in Sides, ch \in Channels : sent[x][ch] \in 0 .. MaxSends /\ gone[x][ch] \in SUBSET (1 .. MaxSends)
         /\ tasks \in Seq(Tasks)
BY DEF MemTypeOK

LEMMA NumbersAreNat ==
  ASSUME NEW s \in Seq(1 .. MaxSends)
  PROVE  s \in Seq(Nat)
<1> DEFINE R == 1 .. MaxSends
<1>1. R \subseteq Nat /\ s \in Seq(R)  BY MemAssumption
<1> HIDE DEF R
<1>2. Len(s) \in Nat /\ s \in [1 .. Len(s) -> R]  BY <1>1, LenProperties
<1>3. s \in [1 .. Len(s) -> Nat]  BY <1>1, <1>2
<1> QED  BY <1>2, <1>3

LEMMA HeadNumber ==
  ASSUME NEW t \in Tasks, t.type # "destroy"
  PROVE  t.n \in 1 .. MaxSends /\ t.n \in Nat /\ t.id \in Channels /\ t.type \in {"message", "resume"}
         /\ (t.type = "resume" => t.id \in Ids /\ t.at \in Sides) /\ (t.type = "message" => t.to \in Sides)
  BY MemAssumption DEF Tasks, Channels

LEMMA ControlHasNoSends ==
  ASSUME NEW t \in Tasks, NEW x
  PROVE  ~IsOf(t, "resume", x, CtlId)
  BY MemAssumption DEF Tasks, IsOf

\* What the lines say is what MemKeepsOrder says.
LEMMA KeptIs ==
  ASSUME MemTypeOK, NEW x \in Sides, NEW ch \in Channels, NEW m \in Kept(x, ch)
  PROVE  /\ m[1] \in Nat /\ m[2] \in Nat /\ m[3] \in Nat
         /\ Has(Heard(x, ch), Queued(x, ch), tasks, Waiting(x, ch), x, ch, m[1], m[2], m[3])
<1>t. /\ Heard(x, ch) \in Seq(Nat) /\ Queued(x, ch) \in Seq(Nat) /\ Waiting(x, ch) \in Seq(Nat)
      /\ tasks \in Seq(Tasks)
  <2>1. <<>> \in Seq(Nat)  OBVIOUS
  <2>2. \A y \in Sides : control[y].heard \in Seq(Nat) /\ control[y].queue \in Seq(Nat)
    BY MemTypes, NumbersAreNat DEF ControlChannel
  <2>3. \A y \in Sides, i \in Ids : chan[y][i].heard \in Seq(Nat) /\ waiting[y][i] \in Seq(Nat)
    BY MemTypes, NumbersAreNat DEF StreamChannel
  <2> QED  BY <2>1, <2>2, <2>3, MemPeer, MemTypes DEF Heard, Queued, Waiting, Channels
<1>1. CASE m \in In(1, Heard(x, ch))  BY <1>1, <1>t DEF In, Has
<1>2. CASE m \in In(2, Queued(x, ch))  BY <1>2, <1>t DEF In, Has
<1>3. CASE m \in In(5, Waiting(x, ch))  BY <1>3, <1>t DEF In, Has
<1>4. CASE m \in TasksOf(3, "message", x, ch)
  <2>1. PICK k \in DOMAIN tasks : IsOf(tasks[k], "message", x, ch) /\ m = <<3, k, tasks[k].n>>
    BY <1>4 DEF TasksOf
  <2>2. k \in 1 .. Len(tasks) /\ k \in Nat /\ tasks[k] \in Tasks  BY <1>t
  <2>3. tasks[k].n \in Nat  BY <2>1, <2>2, HeadNumber DEF IsOf
  <2> QED  BY <2>1, <2>2, <2>3 DEF Has
<1>5. CASE m \in TasksOf(4, "resume", x, ch)
  <2>1. PICK k \in DOMAIN tasks : IsOf(tasks[k], "resume", x, ch) /\ m = <<4, k, tasks[k].n>>
    BY <1>5 DEF TasksOf
  <2>2. k \in 1 .. Len(tasks) /\ k \in Nat /\ tasks[k] \in Tasks  BY <1>t
  <2>3. tasks[k].n \in Nat  BY <2>1, <2>2, HeadNumber DEF IsOf
  <2> QED  BY <2>1, <2>2, <2>3 DEF Has
<1> QED  BY <1>1, <1>2, <1>3, <1>4, <1>5 DEF Kept

LEMMA LineIsKept ==
  ASSUME MemTypeOK, NEW x \in Sides, NEW ch \in Channels, NEW s \in Nat, NEW k \in Nat, NEW n \in Nat,
         Has(Heard(x, ch), Queued(x, ch), tasks, Waiting(x, ch), x, ch, s, k, n)
  PROVE  \E m \in Kept(x, ch) : m = <<s, k, n>>
<1>t. \A z \in Seq(Nat) : DOMAIN z = 1 .. Len(z)  OBVIOUS
<1>u. /\ Heard(x, ch) \in Seq(Nat) /\ Queued(x, ch) \in Seq(Nat) /\ Waiting(x, ch) \in Seq(Nat)
      /\ DOMAIN tasks = 1 .. Len(tasks)
  <2>1. <<>> \in Seq(Nat)  OBVIOUS
  <2>2. \A y \in Sides : control[y].heard \in Seq(Nat) /\ control[y].queue \in Seq(Nat)
    BY MemTypes, NumbersAreNat DEF ControlChannel
  <2>3. \A y \in Sides, i \in Ids : chan[y][i].heard \in Seq(Nat) /\ waiting[y][i] \in Seq(Nat)
    BY MemTypes, NumbersAreNat DEF StreamChannel
  <2>4. DOMAIN tasks = 1 .. Len(tasks)  BY MemTypes
  <2> QED  BY <2>1, <2>2, <2>3, <2>4, MemPeer DEF Heard, Queued, Waiting, Channels
<1>1. CASE s = 1
  <2>1. <<s, k, n>> \in In(1, Heard(x, ch))  BY <1>1, <1>t, <1>u DEF In, Has
  <2> QED  BY <2>1 DEF Kept
<1>2. CASE s = 2
  <2>1. <<s, k, n>> \in In(2, Queued(x, ch))  BY <1>2, <1>t, <1>u DEF In, Has
  <2> QED  BY <2>1 DEF Kept
<1>3. CASE s = 3
  <2>1. <<s, k, n>> \in TasksOf(3, "message", x, ch)  BY <1>3, <1>t, <1>u DEF TasksOf, Has
  <2> QED  BY <2>1 DEF Kept
<1>4. CASE s = 4
  <2>1. <<s, k, n>> \in TasksOf(4, "resume", x, ch)  BY <1>4, <1>t, <1>u DEF TasksOf, Has
  <2> QED  BY <2>1 DEF Kept
<1>5. CASE s = 5
  <2>1. <<s, k, n>> \in In(5, Waiting(x, ch))  BY <1>5, <1>t, <1>u DEF In, Has
  <2> QED  BY <2>1 DEF Kept
<1> QED  BY <1>1, <1>2, <1>3, <1>4, <1>5 DEF Has

LEMMA LinesKeepOrder ==
  ASSUME MemTypeOK, Lines
  PROVE  MemKeepsOrder
<1> SUFFICES ASSUME NEW x \in Sides, NEW ch \in Channels
             PROVE  /\ {m[3] : m \in Kept(x, ch)} \cup gone[x][ch] = 1..sent[x][ch]
                    /\ {m[3] : m \in Kept(x, ch)} \cap gone[x][ch] = {}
                    /\ \A m, p \in Kept(x, ch) : Before(m, p) => m[3] < p[3]
  BY DEF MemKeepsOrder
<1> DEFINE H(s, k, n) == Has(Heard(x, ch), Queued(x, ch), tasks, Waiting(x, ch), x, ch, s, k, n)
           G == gone[x][ch]
           N == sent[x][ch]
<1>1. /\ N \in Nat /\ G \subseteq 1 .. N
      /\ \A s, k, n \in Nat : H(s, k, n) => n \in 1 .. N /\ n \notin G
      /\ \A n \in 1 .. N : n \in G \/ \E s, k \in Nat : H(s, k, n)
      /\ \A s, k, n, z, l, m \in Nat : H(s, k, n) /\ H(z, l, m) /\ Comes(s, k, z, l) => n < m
  BY DEF Lines, Line, Ordered
<1>2. \A m \in Kept(x, ch) : m[1] \in Nat /\ m[2] \in Nat /\ m[3] \in Nat /\ H(m[1], m[2], m[3])  BY KeptIs
<1>3. \A s, k, n \in Nat : H(s, k, n) => \E m \in Kept(x, ch) : m[3] = n
  <2> SUFFICES ASSUME NEW s \in Nat, NEW k \in Nat, NEW n \in Nat, H(s, k, n) PROVE \E m \in Kept(x, ch) : m[3] = n
    OBVIOUS
  <2>1. PICK m \in Kept(x, ch) : m = <<s, k, n>>  BY LineIsKept
  <2> QED  BY <2>1
<1> HIDE DEF H, G, N
<1>4. {m[3] : m \in Kept(x, ch)} \cup G = 1 .. N
  <2>1. ASSUME NEW n \in 1 .. N PROVE n \in {m[3] : m \in Kept(x, ch)} \cup G
    <3>1. CASE n \in G  BY <3>1
    <3>2. CASE n \notin G
      <4>1. PICK s \in Nat, k \in Nat : H(s, k, n)  BY <1>1, <3>2
      <4>2. n \in Nat  BY <1>1
      <4> QED  BY <1>3, <4>1, <4>2
    <3> QED  BY <3>1, <3>2
  <2>2. \A m \in Kept(x, ch) : m[3] \in 1 .. N  BY <1>1, <1>2
  <2> DEFINE K == {m[3] : m \in Kept(x, ch)}
  <2>3. K \subseteq 1 .. N  BY <2>2
  <2>4. \A n \in 1 .. N : n \in K \cup G  BY <2>1
  <2>5. G \subseteq 1 .. N  BY <1>1
  <2> HIDE DEF K
  <2>6. K \cup G = 1 .. N  BY <2>3, <2>4, <2>5
  <2> QED  BY <2>6 DEF K
<1>5. {m[3] : m \in Kept(x, ch)} \cap G = {}  BY <1>1, <1>2
<1>6. ASSUME NEW m \in Kept(x, ch), NEW p \in Kept(x, ch), Before(m, p) PROVE m[3] < p[3]
  <2>1. Comes(m[1], m[2], p[1], p[2])  BY <1>6 DEF Before, Comes
  <2> DEFINE a == m[1]
             b == m[2]
             c == m[3]
             d == p[1]
             e == p[2]
             f == p[3]
  <2>2. /\ a \in Nat /\ b \in Nat /\ c \in Nat /\ d \in Nat /\ e \in Nat /\ f \in Nat
        /\ H(a, b, c) /\ H(d, e, f) /\ Comes(a, b, d, e)
    BY <1>2, <2>1
  <2>3. c < f
    <3> HIDE DEF a, b, c, d, e, f, Comes
    <3> QED  BY <1>1, <2>2
  <2> QED  BY <2>3
<1> QED  BY <1>4, <1>5, <1>6 DEF G, N

LEMMA AllSentIs ==
  ASSUME MemTypeOK
  PROVE  AllSent \in Nat /\ \A x \in Sides, ch \in Channels : sent[x][ch] <= AllSent
<1> DEFINE S == Sides \X Channels
           f == [p \in S |-> sent[p[1]][p[2]]]
           P(h) == h = [T \in SUBSET S |-> IF T = {} THEN 0 ELSE sent[Picked(T)[1]][Picked(T)[2]] + h[T \ {Picked(T)}]]
<1>1. IsFiniteSet(S)
  <2>1. IsFiniteSet(Channels)  BY MemAssumption, FS_Singleton, FS_Union DEF Channels
  <2>2. IsFiniteSet(Sides)
    <3>1. Sides = {"client"} \cup {"server"}  BY DEF Sides
    <3> QED  BY <3>1, FS_Singleton, FS_Union
  <2> QED  BY <2>1, <2>2, FS_Product
<1>2. f \in [S -> Nat]
  <2>1. \A x \in Sides, ch \in Channels : sent[x][ch] \in Nat  BY MemTypes, MemAssumption
  <2> QED  BY <2>1
<1>3. \A T \in SUBSET S : T # {} => f[Picked(T)] = sent[Picked(T)[1]][Picked(T)[2]]
  <2>1. ASSUME NEW T \in SUBSET S, T # {} PROVE Picked(T) \in S  BY <2>1 DEF Picked
  <2> QED  BY <2>1
<1>4. \A h : P(h) <=> Folds(h, f, S)
  <2> HIDE DEF f, S
  <2>1. ASSUME NEW h, P(h) PROVE Folds(h, f, S)  BY <1>3, <2>1 DEF Folds
  <2>2. ASSUME NEW h, Folds(h, f, S) PROVE P(h)  BY <1>3, <2>2 DEF Folds
  <2> QED  BY <2>1, <2>2
<1>5. PICK s \in [SUBSET S -> Nat] : Folds(s, f, S)
  <2> HIDE DEF f, S
  <2> QED  BY <1>1, <1>2, FoldExists
<1>6. P(CHOOSE h : P(h))
  <2>1. P(s)  BY <1>4, <1>5
  <2> HIDE DEF P
  <2> QED  BY <2>1
<1>7. AllSent = (CHOOSE h : P(h))[S]  BY DEF AllSent, MapThenSumSet, MapThenFoldSet, Picked
<1>8. (CHOOSE h : P(h)) = s
  <2>1. Folds(CHOOSE h : P(h), f, S)
    <3> HIDE DEF f, S, P
    <3> QED  BY <1>4, <1>6
  <2> DEFINE h == CHOOSE z : P(z)
  <2> HIDE DEF f, S, h
  <2> QED  BY ONLY <1>1, <1>2, <1>5, <2>1, FoldsAgree DEF h
<1>9. Sums(s, f, S)
  <2> HIDE DEF f, S
  <2> QED  BY <1>1, <1>2, <1>5, FoldsSum
<1>a. AllSent = s[S]  BY <1>7, <1>8
<1>b. \A p \in S : s[S] \in Nat /\ f[p] <= s[S]
  <2> HIDE DEF f, S
  <2> QED  BY <1>2, <1>9, PartOfSum
<1>c. AllSent \in Nat  BY <1>9, <1>a DEF Sums
<1>d. ASSUME NEW x \in Sides, NEW ch \in Channels PROVE sent[x][ch] <= AllSent
  <2>1. <<x, ch>> \in S /\ f[<<x, ch>>] = sent[x][ch]  OBVIOUS
  <2>2. f[<<x, ch>>] <= s[S]  BY <1>b, <2>1
  <2> QED  BY <1>a, <2>1, <2>2
<1> QED  BY <1>c, <1>d

LEMMA ResumesAre ==
  ASSUME MemTypeOK, NEW x \in Sides, NEW i \in Ids
  PROVE  /\ Resumes(x, i) \in Seq(Tasks) /\ Len(Resumes(x, i)) = Len(waiting[x][i])
         /\ \A k \in 1 .. Len(waiting[x][i]) :
              /\ Resumes(x, i)[k].type = "resume" /\ Resumes(x, i)[k].at = x /\ Resumes(x, i)[k].id = i
              /\ Resumes(x, i)[k].n = waiting[x][i][k]
<1> DEFINE w == waiting[x][i]
           R == 1 .. MaxSends
           c == Len(w)
           t(k) == [type |-> "resume", at |-> x, id |-> i, n |-> w[k]]
<1>1. w \in Seq(R)  BY MemTypes
<1>2. c \in Nat /\ w \in [1 .. c -> R]
  <2> HIDE DEF w, R
  <2> QED  BY <1>1, LenProperties DEF c
<1>3. \A k \in 1 .. c : t(k) \in Tasks
  <2> HIDE DEF w, c
  <2> QED  BY <1>2 DEF Tasks, R
<1>4. Resumes(x, i) = [k \in 1 .. c |-> t(k)]  BY DEF Resumes
<1>5. [k \in 1 .. c |-> t(k)] \in Seq(Tasks) /\ Len([k \in 1 .. c |-> t(k)]) = c
  <2> HIDE DEF w, c, t
  <2> QED  BY <1>2, <1>3
<1>6. ASSUME NEW k \in 1 .. c
      PROVE  /\ Resumes(x, i)[k].type = "resume" /\ Resumes(x, i)[k].at = x /\ Resumes(x, i)[k].id = i
             /\ Resumes(x, i)[k].n = w[k]
  <2>1. Resumes(x, i)[k] = t(k)
    <3> HIDE DEF w, c, t
    <3> QED  BY <1>4
  <2> QED  BY <2>1
<1> QED  BY <1>4, <1>5, <1>6

\* The waiting sends of one channel are resumed in their order.
LEMMA OneResumed ==
  ASSUME MemTypeOK, NEW x \in Sides, NEW i \in Ids
  PROVE  \E place : Resumed(Resumes(x, i), place, waiting[x][i], x, i)
<1> DEFINE F == Resumes(x, i)
           w == waiting[x][i]
           place == [p \in 1 .. Len(F) |-> p]
<1>1. /\ F \in Seq(Tasks) /\ Len(F) = Len(w)
      /\ \A k \in 1 .. Len(w) : F[k].type = "resume" /\ F[k].at = x /\ F[k].id = i /\ F[k].n = w[k]
  BY ResumesAre
<1>2. Len(F) \in Nat /\ place \in [1 .. Len(F) -> Nat] /\ \A p \in 1 .. Len(F) : place[p] = p  BY <1>1
<1> HIDE DEF F, w, place
<1>3. \A p \in 1 .. Len(F) : IsOf(F[p], "resume", x, i) /\ ~IsOf(F[p], "message", x, i)  BY <1>1 DEF IsOf
<1>4. Resumed(F, place, w, x, i)  BY <1>1, <1>2, <1>3 DEF Resumed
<1> QED  BY <1>4 DEF F, w

\* ... and those of all the channels that are closed together.
LEMMA SidesFinite == IsFiniteSet(Sides)
<1>1. Sides = {"client"} \cup {"server"}  BY DEF Sides
<1> QED  BY <1>1, FS_Singleton, FS_Union

LEMMA AllGathered ==
  ASSUME MemTypeOK, NEW closed \in SUBSET Ids
  PROVE  /\ AllResumes(closed) \in Seq(Tasks)
         /\ \A p \in 1 .. Len(AllResumes(closed)) :
              /\ AllResumes(closed)[p].type = "resume" /\ AllResumes(closed)[p].at \in Sides
              /\ AllResumes(closed)[p].id \in closed
         /\ \A x \in Sides, i \in closed : \E place : Resumed(AllResumes(closed), place, waiting[x][i], x, i)
<1> DEFINE S == {Resumes(x, i) : x \in Sides, i \in closed}
           L == SetToSeq(S)
           F == FlattenSeq(L)
<1>1. IsFiniteSet(S)
  <2> DEFINE D == Sides \X closed
             g == [d \in D |-> Resumes(d[1], d[2])]
  <2>1. IsFiniteSet(D)  BY SidesFinite, MemAssumption, FS_Subset, FS_Product
  <2>2. g \in Surjection(D, S)
    <3>1. ASSUME NEW d \in D PROVE g[d] \in S  BY <3>1
    <3>2. ASSUME NEW v \in S PROVE \E d \in D : g[d] = v
      <4>1. PICK x \in Sides, i \in closed : v = Resumes(x, i)  BY <3>2
      <4>2. <<x, i>> \in D /\ g[<<x, i>>] = v  BY <4>1
      <4> QED  BY <4>2
    <3>3. g \in [D -> S]
      <4> HIDE DEF S, D
      <4>1. DOMAIN g = D /\ g = [d \in D |-> g[d]]  OBVIOUS
      <4> QED  BY <3>1, <4>1
    <3> HIDE DEF S, D, g
    <3> QED  BY <3>2, <3>3 DEF Surjection
  <2> HIDE DEF D, g, S
  <2> QED  BY ONLY <2>1, <2>2, FS_Surjection
<1>2. /\ L \in Seq(S)
      /\ \A j, k \in 1 .. Len(L) : L[j] = L[k] => j = k
      /\ \A v \in S : \E j \in 1 .. Len(L) : L[j] = v
  <2> HIDE DEF S
  <2> QED  BY <1>1, SetInOrder
<1>3. S \subseteq Seq(Tasks)  BY ResumesAre
<1>4. L \in Seq(Seq(Tasks)) /\ Len(L) \in Nat /\ \A j \in 1 .. Len(L) : L[j] \in S
  <2> HIDE DEF L, S
  <2> QED  BY <1>2, <1>3
<1>5. F \in Seq(Tasks) /\ \E P : PlacesIn(P, F, L, Len(L))
  <2> HIDE DEF L
  <2> QED  BY <1>4, FlattenPlaces
<1> HIDE DEF L, F
<1>6. PICK P : PlacesIn(P, F, L, Len(L))  BY <1>5
<1>7. /\ P \in [1 .. Len(F) -> Nat \X Nat]
      /\ \A p \in 1 .. Len(F) : /\ P[p][1] \in 1 .. Len(L)
                                /\ P[p][2] \in 1 .. Len(L[P[p][1]])
                                /\ F[p] = L[P[p][1]][P[p][2]]
      /\ \A p, q \in 1 .. Len(F) : p < q => Precedes(P[p], P[q])
      /\ \A j \in 1 .. Len(L) : \A k \in 1 .. Len(L[j]) : \E p \in 1 .. Len(F) : P[p] = <<j, k>>
  BY <1>6 DEF PlacesIn
<1>8. ASSUME NEW p \in 1 .. Len(F)
      PROVE  \E x \in Sides, i \in closed :
               /\ L[P[p][1]] = Resumes(x, i) /\ P[p][2] \in 1 .. Len(waiting[x][i])
               /\ F[p].type = "resume" /\ F[p].at = x /\ F[p].id = i /\ F[p].n = waiting[x][i][P[p][2]]
  <2>1. L[P[p][1]] \in S  BY <1>4, <1>7
  <2>2. PICK x \in Sides, i \in closed : L[P[p][1]] = Resumes(x, i)  BY <2>1
  <2>3. i \in Ids  OBVIOUS
  <2> DEFINE k == P[p][2]
  <2>4. k \in 1 .. Len(Resumes(x, i)) /\ F[p] = Resumes(x, i)[k]  BY <1>7, <2>2
  <2> HIDE DEF k
  <2>5. k \in 1 .. Len(waiting[x][i])  BY <2>3, <2>4, ResumesAre
  <2>6. F[p].type = "resume" /\ F[p].at = x /\ F[p].id = i /\ F[p].n = waiting[x][i][k]
    BY <2>3, <2>4, <2>5, ResumesAre
  <2> QED  BY <2>2, <2>5, <2>6 DEF k
<1>9. \A p \in 1 .. Len(F) : F[p].type = "resume" /\ F[p].at \in Sides /\ F[p].id \in closed  BY <1>8
<1>10. ASSUME NEW x \in Sides, NEW i \in closed
       PROVE  \E place : Resumed(F, place, waiting[x][i], x, i)
  <2> DEFINE w == waiting[x][i]
             place == [p \in 1 .. Len(F) |-> P[p][2]]
  <2>1. place \in [1 .. Len(F) -> Nat] /\ \A p \in 1 .. Len(F) : place[p] = P[p][2]  BY <1>7
  <2>2. \A p \in 1 .. Len(F) : ~IsOf(F[p], "message", x, i)  BY <1>9 DEF IsOf
  <2>3. ASSUME NEW p \in 1 .. Len(F), IsOf(F[p], "resume", x, i)
        PROVE  P[p][2] \in 1 .. Len(w) /\ F[p].n = w[P[p][2]] /\ L[P[p][1]] = Resumes(x, i)
    <3>1. PICK y \in Sides, j \in closed :
               /\ L[P[p][1]] = Resumes(y, j) /\ P[p][2] \in 1 .. Len(waiting[y][j])
               /\ F[p].at = y /\ F[p].id = j /\ F[p].n = waiting[y][j][P[p][2]]
      BY <1>8
    <3>2. y = x /\ j = i  BY <2>3, <3>1 DEF IsOf
    <3> QED  BY <3>1, <3>2
  <2>4. ASSUME NEW p \in 1 .. Len(F), NEW r \in 1 .. Len(F), p < r,
               IsOf(F[p], "resume", x, i), IsOf(F[r], "resume", x, i)
        PROVE  P[p][2] < P[r][2]
    <3>1. L[P[p][1]] = L[P[r][1]]  BY <2>3, <2>4
    <3>2. P[p][1] = P[r][1]
      <4> DEFINE a == P[p][1]
                 b == P[r][1]
      <4>1. a \in 1 .. Len(L) /\ b \in 1 .. Len(L) /\ L[a] = L[b]  BY <1>7, <3>1
      <4> HIDE DEF a, b
      <4>2. a = b  BY <1>2, <4>1
      <4> QED  BY <4>2 DEF a, b
    <3>3. Precedes(P[p], P[r])  BY <1>7, <2>4
    <3>4. P[p][1] \in Nat  BY <1>7
    <3> QED  BY <3>2, <3>3, <3>4 DEF Precedes
  <2>5. ASSUME NEW k \in 1 .. Len(w)
        PROVE  \E p \in 1 .. Len(F) : IsOf(F[p], "resume", x, i) /\ P[p][2] = k
    <3>1. PICK j \in 1 .. Len(L) : L[j] = Resumes(x, i)  BY <1>2
    <3>2. i \in Ids  OBVIOUS
    <3>3. k \in 1 .. Len(L[j])  BY <3>1, <3>2, ResumesAre
    <3>4. PICK p \in 1 .. Len(F) : P[p] = <<j, k>>  BY <1>7, <3>3
    <3>5. F[p] = Resumes(x, i)[k] /\ P[p][2] = k  BY <1>7, <3>1, <3>4
    <3>6. F[p].type = "resume" /\ F[p].at = x /\ F[p].id = i  BY <3>2, <3>5, ResumesAre
    <3> QED  BY <3>5, <3>6 DEF IsOf
  <2> HIDE DEF place
  <2>6. /\ \A p \in 1 .. Len(F) : IsOf(F[p], "resume", x, i) => place[p] \in 1 .. Len(w) /\ F[p].n = w[place[p]]
        /\ \A p, r \in 1 .. Len(F) :
             IsOf(F[p], "resume", x, i) /\ IsOf(F[r], "resume", x, i) /\ p < r => place[p] < place[r]
        /\ \A k \in 1 .. Len(w) : \E p \in 1 .. Len(F) : IsOf(F[p], "resume", x, i) /\ place[p] = k
    <3> HIDE DEF w
    <3>1. \A p \in 1 .. Len(F) : IsOf(F[p], "resume", x, i) => place[p] \in 1 .. Len(w) /\ F[p].n = w[place[p]]
      BY <2>1, <2>3
    <3>2. \A p, r \in 1 .. Len(F) :
             IsOf(F[p], "resume", x, i) /\ IsOf(F[r], "resume", x, i) /\ p < r => place[p] < place[r]
      BY <2>1, <2>4
    <3>3. \A k \in 1 .. Len(w) : \E p \in 1 .. Len(F) : IsOf(F[p], "resume", x, i) /\ place[p] = k
      BY <2>1, <2>5
    <3> QED  BY <3>1, <3>2, <3>3
  <2>7. Resumed(F, place, w, x, i)
    <3> HIDE DEF w
    <3> QED  BY <1>5, <2>1, <2>2, <2>6 DEF Resumed
  <2> QED  BY <2>7
<1>11. AllResumes(closed) = F  BY DEF AllResumes, F, L
<1> QED  BY <1>5, <1>9, <1>10, <1>11

\* What the parts of the invariant say of one side, one channel.
LEMMA OfOne ==
  ASSUME MemIInv
  PROVE  /\ MemTypeOK
         /\ \A x \in Sides, ch \in Channels : Line(x, ch)
         /\ \A x \in Sides : QueuesFirst(x)
         /\ \A x \in Sides, i \in Ids : Together(x, i)
         /\ \A x, y \in Sides : down[x] = down[y]
  BY DEF MemIInv, Lines, Queues, Pairs, DownTogether

LEMMA LineIs ==
  ASSUME NEW x \in Sides, NEW ch \in Channels, Line(x, ch)
  PROVE  Ordered(Heard(x, ch), Queued(x, ch), tasks, Waiting(x, ch), x, ch, gone[x][ch], sent[x][ch])
  BY DEF Line

\* A line that a step does not reach.
LEMMA SameLine ==
  ASSUME NEW x \in Sides, NEW ch \in Channels, Line(x, ch),
         Heard(x, ch)' = Heard(x, ch), Queued(x, ch)' = Queued(x, ch), tasks' = tasks,
         Waiting(x, ch)' = Waiting(x, ch), gone'[x][ch] = gone[x][ch], sent'[x][ch] = sent[x][ch]
  PROVE  Line(x, ch)'
  BY DEF Line

LEMMA OtherTasks ==
  ASSUME NEW x \in Sides, NEW ch \in Channels, Line(x, ch), NEW F \in Seq(Tasks),
         \A k \in 1 .. Len(F) : ~IsOf(F[k], "message", x, ch) /\ ~IsOf(F[k], "resume", x, ch),
         tasks' = tasks \o F,
         Heard(x, ch)' = Heard(x, ch), Queued(x, ch)' = Queued(x, ch),
         Waiting(x, ch)' = Waiting(x, ch), gone'[x][ch] = gone[x][ch], sent'[x][ch] = sent[x][ch]
  PROVE  Line(x, ch)'
BY LineIs, OthersSent DEF Line

LEMMA OtherTask ==
  ASSUME NEW x \in Sides, NEW ch \in Channels, Line(x, ch), MemTypeOK, NEW t \in Tasks,
         ~IsOf(t, "message", x, ch) /\ ~IsOf(t, "resume", x, ch), tasks' = Append(tasks, t),
         Heard(x, ch)' = Heard(x, ch), Queued(x, ch)' = Queued(x, ch),
         Waiting(x, ch)' = Waiting(x, ch), gone'[x][ch] = gone[x][ch], sent'[x][ch] = sent[x][ch]
  PROVE  Line(x, ch)'
<1>1. tasks \in Seq(Tasks)  BY MemTypes
<1>2. <<t>> \in Seq(Tasks) /\ Len(<<t>>) = 1 /\ \A k \in 1 .. 1 : <<t>>[k] = t  OBVIOUS
<1>3. tasks' = tasks \o <<t>>  BY <1>1
<1> QED  BY <1>2, <1>3, OtherTasks

\* More of what is given up.
LEMMA MoreGone ==
  ASSUME MemTypeOK, NEW x \in Sides, NEW ch \in Channels, NEW B \in SUBSET (1 .. MaxSends),
         gone' = [gone EXCEPT ![x][ch] = @ \cup B]
  PROVE  /\ gone' \in [Sides -> [Channels -> SUBSET (1 .. MaxSends)]]
         /\ \A y \in Sides, c \in Channels :
              gone'[y][c] = IF y = x /\ c = ch THEN gone[y][c] \cup B ELSE gone[y][c]
<1> DEFINE R == 1 .. MaxSends
<1>1. gone \in [Sides -> [Channels -> SUBSET R]] /\ B \in SUBSET R  BY DEF MemTypeOK
<1> HIDE DEF R
<1>2. gone[x] \in [Channels -> SUBSET R] /\ gone[x][ch] \cup B \in SUBSET R  BY <1>1
<1>3. [gone[x] EXCEPT ![ch] = @ \cup B] \in [Channels -> SUBSET R]  BY <1>2
<1>4. gone' \in [Sides -> [Channels -> SUBSET R]]  BY <1>1, <1>3
<1>5. \A y \in Sides, c \in Channels :
        gone'[y][c] = IF y = x /\ c = ch THEN gone[y][c] \cup B ELSE gone[y][c]
  BY <1>1, <1>2
<1> QED  BY <1>4, <1>5 DEF R

LEMMA TaskTyped ==
  ASSUME MemTypeOK, NEW t \in Tasks
  PROVE  Append(tasks, t) \in Seq(Tasks)
BY MemTypes

-----------------------------------------------------------------------------
(* Control channels. *)

LEMMA GetControlKeeps ==
  ASSUME MemIInv, NEW x \in Sides, GetControl(x)
  PROVE  MemIInv'
<1>1. /\ ~control[x].made /\ control' = [control EXCEPT ![x] = NewControl]
      /\ UNCHANGED <<down, chan, waiting, tasks, sent, gone>>
  BY DEF GetControl
<1>2. MemTypeOK'  BY OfOne, <1>1 DEF MemTypeOK, NewControl, ControlChannel, Listeners
<1>3. \A y \in Sides : control'[y] = IF y = x THEN NewControl ELSE control[y]  BY <1>1, OfOne DEF MemTypeOK
<1>4. Lines'
  <2> SUFFICES ASSUME NEW y \in Sides, NEW ch \in Channels PROVE Line(y, ch)'  BY DEF Lines
  <2>1. control[x].heard = <<>> /\ control[x].queue = <<>>  BY <1>1, OfOne DEF QueuesFirst
  <2>2. control'[Peer(y)].heard = control[Peer(y)].heard /\ control'[Peer(y)].queue = control[Peer(y)].queue
    BY <1>3, <2>1, MemPeer DEF NewControl
  <2>3. Heard(y, ch)' = Heard(y, ch) /\ Queued(y, ch)' = Queued(y, ch) /\ Waiting(y, ch)' = Waiting(y, ch)
    BY <1>1, <2>2 DEF Heard, Queued, Waiting
  <2> QED  BY <1>1, <2>3, OfOne, SameLine
<1>5. Queues'  BY <1>3, OfOne DEF Queues, QueuesFirst, NewControl, HasListener
<1>6. Pairs' /\ DownTogether'  BY <1>1 DEF Pairs, Together, Alone, DownTogether, OnTheWay, Fresh, MemIInv
<1> QED  BY <1>2, <1>4, <1>5, <1>6 DEF MemIInv

\* A task that is added for an end that is not fresh and not waited for.
LEMMA SendControlKeeps ==
  ASSUME MemIInv, NEW x \in Sides, SendControl(x)
  PROVE  MemIInv'
<1> DEFINE n == sent[x][CtlId] + 1
           t == [type |-> "message", to |-> Peer(x), id |-> CtlId, n |-> n]
<1>1. /\ AllSent < MaxSends /\ sent' = [sent EXCEPT ![x][CtlId] = n]
      /\ UNCHANGED <<down, control, chan, waiting>>
      /\ \/ tasks' = tasks /\ gone' = [gone EXCEPT ![x][CtlId] = @ \cup {n}]
         \/ tasks' = Append(tasks, t) /\ gone' = gone
  BY DEF SendControl
<1>2. CtlId \in Channels /\ CtlId \notin Ids  BY MemAssumption DEF Channels
<1>3. n \in 1 .. MaxSends /\ t \in Tasks
  BY <1>2, AllSentIs, OfOne, MemTypes, <1>1, MemAssumption, MemPeer DEF Tasks
<1> HIDE DEF n
<1>4. MemTypeOK'
  <2>0. MemTypeOK  BY OfOne
  <2>1. sent' \in [Sides -> [Channels -> 0..MaxSends]]  BY <1>1, <1>2, <1>3, <2>0 DEF MemTypeOK
  <2>2. gone' \in [Sides -> [Channels -> SUBSET (1..MaxSends)]]
    <3>1. {n} \in SUBSET (1 .. MaxSends)  BY <1>3
    <3>2. gone \in [Sides -> [Channels -> SUBSET (1..MaxSends)]]  BY <2>0 DEF MemTypeOK
    <3> QED  BY <1>1, <1>2, <2>0, <3>1, <3>2, MoreGone
  <2>3. tasks' \in Seq(Tasks)
    <3> HIDE DEF t
    <3> QED  BY <1>1, <1>3, <2>0, TaskTyped, MemTypes
  <2> QED  BY <1>1, <2>0, <2>1, <2>2, <2>3 DEF MemTypeOK
<1>5. \A y \in Sides, ch \in Channels :
        /\ sent'[y][ch] = IF y = x /\ ch = CtlId THEN n ELSE sent[y][ch]
        /\ gone'[y][ch] = gone[y][ch] \/ (gone'[y][ch] = gone[y][ch] \cup {n} /\ tasks' = tasks /\ y = x /\ ch = CtlId)
  BY <1>1, <1>2, OfOne DEF MemTypeOK
<1>6. Lines'
  <2> SUFFICES ASSUME NEW y \in Sides, NEW ch \in Channels PROVE Line(y, ch)'  BY DEF Lines
  <2>1. Heard(y, ch)' = Heard(y, ch) /\ Queued(y, ch)' = Queued(y, ch) /\ Waiting(y, ch)' = Waiting(y, ch)
    BY <1>1 DEF Heard, Queued, Waiting
  <2>2. Ordered(Heard(y, ch), Queued(y, ch), tasks, Waiting(y, ch), y, ch, gone[y][ch], sent[y][ch])
    BY OfOne, LineIs
  <2>3. CASE y = x /\ ch = CtlId
    <3>1. sent'[y][ch] = sent[y][ch] + 1  BY <1>5, <2>3 DEF n
    <3>2. CASE tasks' = tasks /\ gone' = [gone EXCEPT ![x][CtlId] = @ \cup {n}]
      <4>1. gone'[y][ch] = gone[y][ch] \cup {sent[y][ch] + 1}  BY <1>2, <2>3, <3>2, OfOne DEF MemTypeOK, n
      <4>2. Ordered(Heard(y, ch), Queued(y, ch), tasks, Waiting(y, ch), y, ch, gone[y][ch] \cup {sent[y][ch] + 1}, sent[y][ch] + 1)
        BY <2>2, AreGivenUp
      <4> QED  BY <2>1, <3>1, <3>2, <4>1, <4>2 DEF Line
    <3>3. CASE tasks' = Append(tasks, t) /\ gone' = gone
      <4>1. IsOf(t, "message", y, ch) /\ t.n = sent[y][ch] + 1  BY <2>3 DEF IsOf, n
      <4>2. Len(Waiting(y, ch)) = 0  BY <2>3 DEF Waiting
      <4>3. \A k \in 1 .. Len(tasks) : ~IsOf(tasks[k], "resume", y, ch)
        BY <2>3, ControlHasNoSends, OfOne, MemTypes
      <4>4. Ordered(Heard(y, ch), Queued(y, ch), Append(tasks, t), Waiting(y, ch), y, ch, gone[y][ch], sent[y][ch] + 1)
        <5> HIDE DEF t
        <5> QED  BY <1>3, <2>2, <4>1, <4>2, <4>3, SentMessage
      <4> QED  BY <2>1, <3>1, <3>3, <4>4 DEF Line
    <3> QED  BY <1>1, <3>2, <3>3
  <2>4. CASE ~(y = x /\ ch = CtlId)
    <3>1. sent'[y][ch] = sent[y][ch] /\ gone'[y][ch] = gone[y][ch]  BY <1>5, <2>4
    <3>2. ~IsOf(t, "message", y, ch) /\ ~IsOf(t, "resume", y, ch)  BY <2>4, MemPeer DEF IsOf
    <3> HIDE DEF t
    <3> QED  BY <1>1, <1>3, <2>1, <3>1, <3>2, OfOne, SameLine, OtherTask
  <2> QED  BY <2>3, <2>4
<1>7. Queues' /\ DownTogether'  BY <1>1 DEF Queues, QueuesFirst, DownTogether, MemIInv
<1>8. Pairs'
  <2> SUFFICES ASSUME NEW y \in Sides, NEW i \in Ids PROVE Together(y, i)'  BY DEF Pairs
  <2>1. \A z \in Sides : OnTheWay(z, i)' => OnTheWay(z, i)
    <3> SUFFICES ASSUME NEW z \in Sides, NEW k \in 1 .. Len(tasks'), IsMine(tasks'[k], z, i) PROVE OnTheWay(z, i)
      BY DEF OnTheWay, IsMine, IsOf
    <3>1. ~IsMine(t, z, i)  BY <1>2 DEF IsMine, IsOf
    <3>2. tasks \in Seq(Tasks)  BY OfOne, MemTypes
    <3> HIDE DEF t
    <3>3. k \in 1 .. Len(tasks) /\ tasks'[k] = tasks[k]  BY <1>1, <1>3, <3>1, <3>2
    <3> QED  BY <3>3 DEF OnTheWay
  <2>2. Together(y, i)  BY OfOne
  <2> QED  BY <1>1, <2>1, <2>2 DEF Together, Fresh, Alone
<1> QED  BY <1>4, <1>6, <1>7, <1>8 DEF MemIInv

-----------------------------------------------------------------------------
(* Channels that are told to close, and the transports with them. *)

LEMMA SamePairs ==
  ASSUME MemIInv, UNCHANGED <<down, chan, waiting, tasks>>
  PROVE  Pairs' /\ DownTogether'
<1>1. \A x \in Sides, i \in Ids : Together(x, i)  BY OfOne
<1>2. ASSUME NEW x \in Sides, NEW i \in Ids PROVE Together(x, i)'
  BY MemPeer, <1>1 DEF Together, Fresh, OnTheWay, Alone
<1>3. DownTogether'  BY DEF DownTogether, MemIInv
<1> QED  BY <1>2, <1>3 DEF Pairs

\* A control channel that is given a listener, or closed: a is heard, b is not.
LEMMA ControlFlushed ==
  ASSUME MemIInv, NEW x \in Sides, UNCHANGED <<down, chan, waiting, tasks, sent>>,
         NEW a \in Seq(1 .. MaxSends), NEW b \in Seq(1 .. MaxSends), control[x].queue = a \o b,
         ToSet(b) \in SUBSET (1 .. MaxSends),
         \A n \in ToSet(b) : \E k \in Nat : k \in 1 .. Len(b) /\ n = b[k],
         \A k \in Nat : k \in 1 .. Len(b) => b[k] \in ToSet(b),
         control' \in [Sides -> ControlChannel],
         \A y \in Sides : y # x => control'[y] = control[y],
         control'[x].made, control'[x].heard = control[x].heard \o a, control'[x].queue = <<>>,
         gone' = [gone EXCEPT ![Peer(x)][CtlId] = @ \cup ToSet(b)]
  PROVE  MemIInv'
<1>1. CtlId \in Channels /\ CtlId \notin Ids /\ Ids \subseteq Channels  BY MemAssumption DEF Channels
<1>2. /\ gone' \in [Sides -> [Channels -> SUBSET (1 .. MaxSends)]]
      /\ \A y \in Sides, c \in Channels :
           gone'[y][c] = IF y = Peer(x) /\ c = CtlId THEN gone[y][c] \cup ToSet(b) ELSE gone[y][c]
  <2> DEFINE p == Peer(x)
             B == ToSet(b)
  <2>1. p \in Sides /\ MemTypeOK /\ B \in SUBSET (1 .. MaxSends) /\ gone' = [gone EXCEPT ![p][CtlId] = @ \cup B]
    BY MemPeer, OfOne
  <2> HIDE DEF p, B
  <2>2. /\ gone' \in [Sides -> [Channels -> SUBSET (1 .. MaxSends)]]
        /\ \A y \in Sides, c \in Channels :
             gone'[y][c] = IF y = p /\ c = CtlId THEN gone[y][c] \cup B ELSE gone[y][c]
    <3>1. CtlId \in Channels  BY <1>1
    <3> QED  BY ONLY <2>1, <3>1, MoreGone
  <2> QED  BY <2>2 DEF p, B
<1>3. MemTypeOK'  BY <1>2, OfOne DEF MemTypeOK
<1>4. Lines'
  <2> SUFFICES ASSUME NEW y \in Sides, NEW ch \in Channels PROVE Line(y, ch)'  BY DEF Lines
  <2>1. Waiting(y, ch)' = Waiting(y, ch) /\ sent'[y][ch] = sent[y][ch] /\ tasks' = tasks  BY DEF Waiting
  <2>2. CASE y = Peer(x) /\ ch = CtlId
    <3>1. Peer(y) = x  BY <2>2, MemPeer
    <3>2. /\ Heard(y, ch) = control[x].heard /\ Queued(y, ch) = control[x].queue
          /\ Heard(y, ch)' = control[x].heard \o a /\ Queued(y, ch)' = <<>>
      BY <2>2, <3>1 DEF Heard, Queued
    <3>3. Ordered(control[x].heard, a \o b, tasks, Waiting(y, ch), y, ch, gone[y][ch], sent[y][ch])
      <4>1. Ordered(Heard(y, ch), Queued(y, ch), tasks, Waiting(y, ch), y, ch, gone[y][ch], sent[y][ch])
        BY LineIs, OfOne
      <4> QED  BY <3>2, <4>1
    <3>4. a \in Seq(Nat) /\ b \in Seq(Nat)  BY NumbersAreNat
    <3> DEFINE e == <<>>
    <3>5. e \in Seq(Nat) /\ Len(e) = 0  OBVIOUS
    <3> HIDE DEF e
    <3>6. Ordered(control[x].heard \o a, e, tasks, Waiting(y, ch), y, ch, gone[y][ch] \cup ToSet(b), sent[y][ch])
      <4> DEFINE q == a \o b
                 B == ToSet(b)
      <4>1. /\ \A n \in B : \E k \in Nat : k \in 1 .. Len(b) /\ n = b[k]
            /\ \A k \in Nat : k \in 1 .. Len(b) => b[k] \in B
            /\ q = a \o b
        OBVIOUS
      <4>2. Ordered(control[x].heard, q, tasks, Waiting(y, ch), y, ch, gone[y][ch], sent[y][ch])  BY <3>3
      <4> HIDE DEF q, B
      <4>3. Ordered(control[x].heard \o a, e, tasks, Waiting(y, ch), y, ch, gone[y][ch] \cup B, sent[y][ch])
        BY ONLY <3>4, <3>5, <4>1, <4>2, Flushed
      <4> QED  BY <4>3 DEF B
    <3>7. gone'[y][ch] = gone[y][ch] \cup ToSet(b)  BY <1>2, <2>2
    <3> QED  BY <2>1, <3>2, <3>6, <3>7 DEF Line, e
  <2>3. CASE ~(y = Peer(x) /\ ch = CtlId)  BY <2>3, MemPeer, <1>2, <2>1, OfOne, SameLine DEF Heard, Queued
  <2> QED  BY <2>2, <2>3
<1>5. Queues'  BY OfOne DEF Queues, QueuesFirst
<1>6. Pairs' /\ DownTogether'  BY <1>1, <1>2, SamePairs
<1> QED  BY <1>3, <1>4, <1>5, <1>6 DEF MemIInv

LEMMA OnMessageKeeps ==
  ASSUME MemIInv, NEW x \in Sides, NEW kind \in {"on", "once"}, OnMessage(x, kind)
  PROVE  MemIInv'
<1> DEFINE q == control[x].queue
           R == 1 .. MaxSends
<1>1. /\ control[x].made /\ control' = [control EXCEPT ![x] = SetControlListener(@, kind)]
      /\ gone' = [gone EXCEPT ![Peer(x)][CtlId] = @ \cup FlushedToNobody(control[x], kind)]
      /\ UNCHANGED <<down, chan, waiting, tasks, sent>>
  BY DEF OnMessage
<1>2. control \in [Sides -> ControlChannel] /\ control[x] \in ControlChannel  BY OfOne, MemTypes DEF MemTypeOK
<1>3. q \in Seq(R) /\ control[x].heard \in Seq(R)  BY <1>2 DEF ControlChannel
<1> HIDE DEF q, R
<1>p. PICK a \in Seq(R), b \in Seq(R) : SplitsInto(q, kind, R, a, b)  BY <1>3, Splits
<1>4. /\ a \in Seq(R) /\ b \in Seq(R)
      /\ q = a \o b
      /\ a = IF kind = "once" /\ q # <<>> THEN <<Head(q)>> ELSE q
      /\ ToSet(b) = IF kind = "once" /\ q # <<>> THEN ToSet(Tail(q)) ELSE {}
      /\ ToSet(b) \in SUBSET R
      /\ \A n \in ToSet(b) : \E k \in Nat : k \in 1 .. Len(b) /\ n = b[k]
      /\ \A k \in Nat : k \in 1 .. Len(b) => b[k] \in ToSet(b)
  BY <1>p DEF SplitsInto
<1>5. gone' = [gone EXCEPT ![Peer(x)][CtlId] = @ \cup ToSet(b)]  BY <1>1, <1>4 DEF FlushedToNobody, q
<1>6. control'[x] = [control[x] EXCEPT !.listener = IF kind = "once" /\ q # <<>> THEN "spent" ELSE kind,
                                       !.queue = <<>>, !.heard = @ \o a]
  BY <1>1, <1>2, <1>4 DEF SetControlListener, q
<1>7. control'[x] \in ControlChannel
  <2>1. control[x].heard \o a \in Seq(R) /\ <<>> \in Seq(R)  BY <1>3, <1>4
  <2> QED  BY <1>2, <1>6, <2>1 DEF ControlChannel, Listeners, R
<1>8. control' \in [Sides -> ControlChannel] /\ \A y \in Sides : y # x => control'[y] = control[y]
  BY <1>1, <1>2, <1>7
<1>9. control'[x].made /\ control'[x].heard = control[x].heard \o a /\ control'[x].queue = <<>>
  BY <1>1, <1>2, <1>6 DEF ControlChannel
<1> QED  BY <1>1, <1>4, <1>5, <1>8, <1>9, ControlFlushed DEF q, R

LEMMA CloseControlKeeps ==
  ASSUME MemIInv, NEW x \in Sides, CloseControl(x)
  PROVE  MemIInv'
<1> DEFINE q == control[x].queue
           R == 1 .. MaxSends
<1>1. /\ control[x].made /\ control' = [control EXCEPT ![x].isClosed = TRUE, ![x].queue = <<>>]
      /\ gone' = [gone EXCEPT ![Peer(x)][CtlId] = @ \cup ToSet(q)]
      /\ UNCHANGED <<down, chan, waiting, tasks, sent>>
  BY DEF CloseControl
<1>2. control \in [Sides -> ControlChannel] /\ control[x] \in ControlChannel  BY OfOne, MemTypes DEF MemTypeOK
<1>3. q \in Seq(R) /\ control[x].heard \in Seq(R)  BY <1>2 DEF ControlChannel
<1> DEFINE a == <<>>
<1>4. a \in Seq(R) /\ q = a \o q /\ control[x].heard \o a = control[x].heard
  <2> HIDE DEF q, R
  <2> QED  BY <1>3
<1>5. /\ ToSet(q) \in SUBSET R
      /\ \A n \in ToSet(q) : \E k \in Nat : k \in 1 .. Len(q) /\ n = q[k]
      /\ \A k \in Nat : k \in 1 .. Len(q) => q[k] \in ToSet(q)
  <2>1. DOMAIN q = 1 .. Len(q) /\ \A k \in 1 .. Len(q) : q[k] \in R
    <3> HIDE DEF q, R
    <3> QED  BY <1>3
  <2> HIDE DEF q, R
  <2> QED  BY <2>1 DEF ToSet
<1>6. control'[x] = [control[x] EXCEPT !.isClosed = TRUE, !.queue = <<>>]  BY <1>1, <1>2
<1>7. control' \in [Sides -> ControlChannel] /\ \A y \in Sides : y # x => control'[y] = control[y]
  BY <1>2, <1>4, <1>6, <1>1 DEF ControlChannel
<1>8. control'[x].made /\ control'[x].heard = control[x].heard /\ control'[x].queue = <<>>
  BY <1>1, <1>2, <1>6 DEF ControlChannel
<1> HIDE DEF a
<1>9. control'[x].heard = control[x].heard \o a /\ control[x].queue = a \o q  BY <1>4, <1>8
<1>10. MemIInv /\ x \in Sides  OBVIOUS
<1> QED  BY ONLY <1>1, <1>3, <1>4, <1>5, <1>7, <1>8, <1>9, <1>10, ControlFlushed DEF R

LEMMA ControlSame ==
  ASSUME MemIInv, control' = control, down' = down
  PROVE  Queues' /\ DownTogether'
  BY DEF Queues, QueuesFirst, DownTogether, MemIInv

\* One number more is given up.
LEMMA OneGone ==
  ASSUME MemTypeOK, NEW x \in Sides, NEW ch \in Channels, NEW n \in 1 .. MaxSends,
         gone' = [gone EXCEPT ![x][ch] = @ \cup {n}]
  PROVE  /\ gone' \in [Sides -> [Channels -> SUBSET (1 .. MaxSends)]]
         /\ \A y \in Sides, c \in Channels :
              gone'[y][c] = IF y = x /\ c = ch THEN gone[y][c] \cup {n} ELSE gone[y][c]
<1> DEFINE B == {n}
<1>1. B \in SUBSET (1 .. MaxSends) /\ gone' = [gone EXCEPT ![x][ch] = @ \cup B]  OBVIOUS
<1> HIDE DEF B
<1>2. /\ gone' \in [Sides -> [Channels -> SUBSET (1 .. MaxSends)]]
      /\ \A y \in Sides, c \in Channels :
           gone'[y][c] = IF y = x /\ c = ch THEN gone[y][c] \cup B ELSE gone[y][c]
  <2>1. MemTypeOK /\ x \in Sides /\ ch \in Channels  OBVIOUS
  <2> QED  BY ONLY <1>1, <2>1, MoreGone
<1> QED  BY <1>2 DEF B

LEMMA StreamIds == Ids \subseteq Channels /\ CtlId \in Channels /\ CtlId \notin Ids /\ \A i \in Ids : OpenerOf[i] \in Sides
  BY MemAssumption DEF Channels

\* What a channel is that is made when it is not there.
LEMMA ObtainedIs ==
  ASSUME NEW c \in StreamChannel, NEW kind \in Answers, NEW closes \in BOOLEAN,
         NEW o, o = Obtained(c, kind, closes)
  PROVE  /\ o \in StreamChannel /\ o.heard = c.heard
         /\ c.known => o = c
         /\ ~c.known => o.known /\ ~o.linked /\ o.isClosed = closes /\ o.early = closes
<1>1. CASE c.known  BY <1>1 DEF Obtained
<1>2. CASE ~c.known
  <2> DEFINE h == c.heard
             O == [NoStream EXCEPT !.known = TRUE, !.heard = h, !.listener = kind, !.isClosed = closes, !.early = closes]
  <2>1. o = O  BY <1>2 DEF Obtained
  <2>2. h \in Seq(1 .. MaxSends) /\ kind \in Listeners  BY DEF StreamChannel, Answers, Listeners
  <2> HIDE DEF h
  <2>3. O \in StreamChannel /\ O.known /\ ~O.linked /\ O.heard = h /\ O.isClosed = closes /\ O.early = closes
    BY <2>2 DEF NoStream, StreamChannel
  <2> HIDE DEF O
  <2> QED  BY <1>2, <2>1, <2>3 DEF h
<1> QED  BY <1>1, <1>2

LEMMA NoStreamIs ==
  /\ NoStream \in StreamChannel /\ NoStream.heard = <<>> /\ NoStream.listener = "none"
  /\ ~NoStream.known /\ ~NoStream.isClosed /\ ~NoStream.linked
  /\ LET A == [NoStream EXCEPT !.known = TRUE, !.linked = TRUE]
     IN  A \in StreamChannel /\ A.known /\ ~A.early /\ Usable(A) /\ A.heard = <<>>
<1>1. <<>> \in Seq(1 .. MaxSends)  OBVIOUS
<1> QED  BY <1>1 DEF StreamChannel, NoStream, Listeners, Usable

\* The end that is announced: open, or closed by its handler.
LEMMA AnnouncedIs ==
  ASSUME NEW kind \in Answers, NEW closes \in BOOLEAN,
         NEW B, B = [Obtained(NoStream, kind, closes) EXCEPT !.linked = TRUE]
  PROVE  /\ B \in StreamChannel /\ B.known /\ B.heard = <<>>
         /\ Usable(B) <=> ~closes
         /\ B.early = closes /\ B.isClosed = closes
<1> DEFINE o == Obtained(NoStream, kind, closes)
<1>1. o \in StreamChannel /\ o.known /\ o.heard = <<>> /\ o.isClosed = closes /\ o.early = closes
  BY NoStreamIs, ObtainedIs
<1>2. B = [o EXCEPT !.linked = TRUE]  OBVIOUS
<1> HIDE DEF o
<1> QED  BY <1>1, <1>2 DEF StreamChannel, Usable

LEMMA OpenOutgoingKeeps ==
  ASSUME MemIInv, NEW i \in Ids, NEW kind \in Answers, NEW closes \in BOOLEAN, NEW sends \in BOOLEAN,
         OpenOutgoing(i, kind, closes, sends)
  PROVE  MemIInv'
<1> DEFINE x == OpenerOf[i]
           p == Peer(x)
           A == [NoStream EXCEPT !.known = TRUE, !.linked = TRUE]
           B == [Obtained(NoStream, kind, closes) EXCEPT !.linked = TRUE]
           n == sent[p][i] + 1
           Sends == /\ AllSent < MaxSends
                    /\ sent' = [sent EXCEPT ![p][i] = n]
                    /\ gone' = [gone EXCEPT ![p][i] = @ \cup {n}]
<1>1. /\ ~down[x] /\ Fresh(x, i)
      /\ chan' = [chan EXCEPT ![x][i] = A, ![p][i] = [Obtained(@, kind, closes) EXCEPT !.linked = TRUE]]
      /\ down' = down /\ control' = control /\ waiting' = waiting /\ tasks' = tasks
      /\ Sends \/ (sent' = sent /\ gone' = gone)
  BY DEF OpenOutgoing, Fresh
<1>0. MemTypeOK  BY OfOne
<1>2. x \in Sides /\ p \in Sides /\ p # x /\ Peer(p) = x /\ i \in Channels /\ i # CtlId  BY StreamIds, MemPeer
<1>n. n = sent[p][i] + 1  OBVIOUS
<1>3. chan \in [Sides -> [Ids -> StreamChannel]]  BY <1>0 DEF MemTypeOK
<1>4. \A y \in Sides : Fresh(y, i) /\ ~OnTheWay(y, i) /\ chan[y][i] = NoStream
  BY <1>1, <1>2, OfOne DEF Together
<1>5. chan[p][i] = NoStream  BY <1>2, <1>4
<1>x. x = OpenerOf[i] /\ p = Peer(x)  OBVIOUS
<1>8. /\ A \in StreamChannel /\ B \in StreamChannel /\ A.heard = <<>> /\ B.heard = <<>> /\ A.known /\ B.known
      /\ Usable(A) /\ (Usable(B) \/ B.early) /\ ~A.early /\ (B.early => B.isClosed)
  BY NoStreamIs, AnnouncedIs
<1>6. \A y \in Sides, j \in Ids : chan'[y][j] = IF j = i THEN (IF y = x THEN A ELSE B) ELSE chan[y][j]
  <2> HIDE DEF x, p, A
  <2>1. \A y \in Sides : y = x \/ y = p  BY <1>2, MemPeer
  <2> QED  BY <1>1, <1>2, <1>3, <1>5, <2>1
<1>c. chan' \in [Sides -> [Ids -> StreamChannel]]
  <2> HIDE DEF x, p, A
  <2>1. [Obtained(chan[p][i], kind, closes) EXCEPT !.linked = TRUE] \in StreamChannel  BY <1>5, <1>8
  <2> QED  BY <1>1, <1>2, <1>3, <1>8, <2>1
<1>s. /\ gone' \in [Sides -> [Channels -> SUBSET (1 .. MaxSends)]] /\ sent' \in [Sides -> [Channels -> 0 .. MaxSends]]
      /\ \A y \in Sides, ch \in Channels :
           \/ gone'[y][ch] = gone[y][ch] /\ sent'[y][ch] = sent[y][ch]
           \/ y = p /\ ch = i /\ gone'[y][ch] = gone[y][ch] \cup {n} /\ sent'[y][ch] = n
  <2>1. CASE Sends
    <3>1. sent[p][i] \in Nat /\ sent[p][i] <= AllSent /\ AllSent \in Nat  BY <1>0, <1>2, AllSentIs, MemTypes
    <3>2. n \in 1 .. MaxSends /\ n \in 0 .. MaxSends  BY <2>1, <3>1, MemAssumption
    <3> HIDE DEF n, p
    <3>3. /\ gone' \in [Sides -> [Channels -> SUBSET (1 .. MaxSends)]]
          /\ \A y \in Sides, c \in Channels : gone'[y][c] = IF y = p /\ c = i THEN gone[y][c] \cup {n} ELSE gone[y][c]
      <4>1. MemTypeOK /\ p \in Sides /\ i \in Channels /\ n \in 1 .. MaxSends /\ gone' = [gone EXCEPT ![p][i] = @ \cup {n}]
        BY <1>0, <1>2, <2>1, <3>2
      <4> QED  BY ONLY <4>1, OneGone
    <3>4. /\ sent' \in [Sides -> [Channels -> 0 .. MaxSends]]
          /\ \A y \in Sides, c \in Channels : sent'[y][c] = IF y = p /\ c = i THEN n ELSE sent[y][c]
      BY <1>0, <1>2, <2>1, <3>2 DEF MemTypeOK
    <3> QED  BY <3>3, <3>4
  <2>2. CASE sent' = sent /\ gone' = gone  BY <1>0, <2>2 DEF MemTypeOK
  <2> QED  BY <1>1, <2>1, <2>2
<1>7. MemTypeOK'  BY <1>0, <1>1, <1>c, <1>s DEF MemTypeOK
<1> HIDE DEF A, B, n, p, x
<1>9. Lines'
  <2> SUFFICES ASSUME NEW y \in Sides, NEW ch \in Channels PROVE Line(y, ch)'  BY DEF Lines
  <2>1. ch \in Ids => chan'[Peer(y)][ch].heard = chan[Peer(y)][ch].heard
    BY <1>4, <1>6, <1>8, MemPeer, NoStreamIs
  <2>2. Heard(y, ch)' = Heard(y, ch) /\ Queued(y, ch)' = Queued(y, ch) /\ Waiting(y, ch)' = Waiting(y, ch)
    BY <1>1, <2>1 DEF Heard, Queued, Waiting, Channels
  <2>3. CASE gone'[y][ch] = gone[y][ch] /\ sent'[y][ch] = sent[y][ch]  BY <1>1, <2>2, <2>3, OfOne, SameLine
  <2>4. CASE gone'[y][ch] = gone[y][ch] \cup {sent[y][ch] + 1} /\ sent'[y][ch] = sent[y][ch] + 1
    <3>1. Ordered(Heard(y, ch), Queued(y, ch), tasks, Waiting(y, ch), y, ch, gone[y][ch], sent[y][ch])
      BY OfOne, LineIs
    <3>2. Ordered(Heard(y, ch), Queued(y, ch), tasks, Waiting(y, ch), y, ch, gone[y][ch] \cup {sent[y][ch] + 1}, sent[y][ch] + 1)
      BY <3>1, AreGivenUp
    <3> QED  BY <1>1, <2>2, <2>4, <3>2 DEF Line
  <2> QED  BY <1>s, <1>n, <2>3, <2>4
<1>10. Queues' /\ DownTogether'  BY <1>1, ControlSame
<1>11. Pairs'
  <2> SUFFICES ASSUME NEW y \in Sides, NEW j \in Ids PROVE Together(y, j)'  BY DEF Pairs
  <2>1. Together(y, j)  BY OfOne
  <2>2. CASE j # i
    <3>1. \A z \in Sides : chan'[z][j] = chan[z][j]  BY <1>6, <2>2
    <3>2. Peer(y) \in Sides /\ OpenerOf[j] \in Sides  BY MemPeer, StreamIds
    <3>3. Fresh(y, j)' = Fresh(y, j) /\ Fresh(OpenerOf[j], j)' = Fresh(OpenerOf[j], j) /\ OnTheWay(y, j)' = OnTheWay(y, j)
      BY <1>1, <3>1, <3>2 DEF Fresh, OnTheWay
    <3> QED  BY <1>1, <2>1, <3>1, <3>2, <3>3 DEF Together, Alone
  <2>3. CASE j = i
    <3>1. \A z \in Sides : chan'[z][j].known /\ (Usable(chan'[z][j]) \/ (z # x /\ chan'[z][j].early))
                         /\ (chan'[z][j].early => chan'[z][j].isClosed)
      BY <1>6, <1>8, <2>3
    <3>2. waiting'[y][j] = <<>>  BY <1>4, <2>3, <1>1, <2>1, NoStreamIs DEF Usable, Together
    <3>3. ~down'[y]
      <4>1. down[y] = down[x]  BY <1>2, OfOne
      <4> QED  BY <1>1, <4>1
    <3>4. ~OnTheWay(y, j)'  BY <1>1, <1>4, <2>3 DEF OnTheWay
    <3>5. Usable(chan'[Peer(y)][j]) \/ Alone(y, j)'  BY <1>2, <1>x, <2>3, <3>1, MemPeer DEF Alone
    <3>6. ~Fresh(y, j)' /\ ~Fresh(OpenerOf[j], j)'  BY <3>1, StreamIds DEF Fresh
    <3> QED  BY <3>1, <3>2, <3>3, <3>4, <3>5, <3>6, MemPeer DEF Together
  <2> QED  BY <2>2, <2>3
<1> QED  BY <1>7, <1>9, <1>10, <1>11 DEF MemIInv

\* What a task more says of the tasks on their way.
LEMMA OneOnTheWay ==
  ASSUME MemTypeOK, NEW t \in Tasks, tasks' = Append(tasks, t), NEW y, NEW j, OnTheWay(y, j)'
  PROVE  OnTheWay(y, j) \/ IsMine(t, y, j)
<1>1. tasks \in Seq(Tasks)  BY MemTypes
<1>2. PICK k \in 1 .. Len(tasks') : IsMine(tasks'[k], y, j)  BY DEF OnTheWay, IsMine, IsOf
<1>3. (k \in 1 .. Len(tasks) /\ tasks'[k] = tasks[k]) \/ tasks'[k] = t  BY <1>1
<1> QED  BY <1>2, <1>3 DEF OnTheWay

LEMMA SendDataKeeps ==
  ASSUME MemIInv, NEW x \in Sides, NEW i \in Ids, SendData(x, i)
  PROVE  MemIInv'
<1> DEFINE n == sent[x][i] + 1
           t == [type |-> "resume", at |-> x, id |-> i, n |-> n]
<1> DEFINE GivesUp == /\ ~Usable(chan[x][i])
                     /\ gone' = [gone EXCEPT ![x][i] = @ \cup {n}]
                     /\ UNCHANGED <<waiting, tasks>>
           Ready == /\ Usable(chan[x][i]) /\ IsReady(chan[Peer(x)][i])
                    /\ tasks' = Append(tasks, t)
                    /\ UNCHANGED <<waiting, gone>>
           Wait == /\ Usable(chan[x][i]) /\ ~IsReady(chan[Peer(x)][i])
                   /\ waiting' = [waiting EXCEPT ![x][i] = Append(@, n)]
                   /\ UNCHANGED <<tasks, gone>>
<1>1. /\ AllSent < MaxSends /\ sent' = [sent EXCEPT ![x][i] = n]
      /\ UNCHANGED <<down, control, chan>>
      /\ GivesUp \/ Ready \/ Wait
  BY DEF SendData
<1>2. i \in Channels /\ i # CtlId  BY StreamIds
<1>3. n \in 1 .. MaxSends /\ t \in Tasks
  <2>1. sent[x][i] \in Nat /\ sent[x][i] <= AllSent /\ AllSent \in Nat  BY <1>2, AllSentIs, OfOne, MemTypes
  <2>2. n \in 1 .. MaxSends  BY <1>1, <2>1, MemAssumption
  <2> QED  BY <1>2, <2>2, MemPeer DEF Tasks
<1>t. t.n = sent[x][i] + 1 /\ \A y, ch : (IsOf(t, "resume", y, ch) <=> y = x /\ ch = i) /\ ~IsOf(t, "message", y, ch)
  BY DEF IsOf
<1>n. n = sent[x][i] + 1  OBVIOUS
<1> HIDE DEF n, t
<1>0. MemTypeOK  BY OfOne
<1>4. \/ gone' = gone
      \/ /\ gone' \in [Sides -> [Channels -> SUBSET (1..MaxSends)]]
         /\ \A y \in Sides, ch \in Channels : gone'[y][ch] = IF y = x /\ ch = i THEN gone[y][ch] \cup {n} ELSE gone[y][ch]
  <2> DEFINE B == {n}
  <2>1. B \in SUBSET (1 .. MaxSends)  BY <1>3
  <2>2. gone' = gone \/ gone' = [gone EXCEPT ![x][i] = @ \cup B]  BY <1>1
  <2> HIDE DEF B
  <2>3. \/ gone' = gone
        \/ /\ gone' \in [Sides -> [Channels -> SUBSET (1..MaxSends)]]
           /\ \A y \in Sides, ch \in Channels : gone'[y][ch] = IF y = x /\ ch = i THEN gone[y][ch] \cup B ELSE gone[y][ch]
    <3>1. ASSUME gone' = [gone EXCEPT ![x][i] = @ \cup B]
          PROVE  /\ gone' \in [Sides -> [Channels -> SUBSET (1..MaxSends)]]
                 /\ \A y \in Sides, ch \in Channels :
                      gone'[y][ch] = IF y = x /\ ch = i THEN gone[y][ch] \cup B ELSE gone[y][ch]
      BY ONLY <1>0, <1>2, <2>1, <3>1, MoreGone
    <3> QED  BY <2>2, <3>1
  <2> QED  BY <2>3 DEF B
<1>5. MemTypeOK'
  <2>1. sent' \in [Sides -> [Channels -> 0..MaxSends]]  BY <1>1, <1>2, <1>3, <1>0 DEF MemTypeOK
  <2>2. gone' \in [Sides -> [Channels -> SUBSET (1..MaxSends)]]  BY <1>4, <1>0 DEF MemTypeOK
  <2>3. tasks' \in Seq(Tasks)  BY <1>0, <1>1, <1>3, TaskTyped, MemTypes
  <2>4. waiting' \in [Sides -> [Ids -> Seq(1..MaxSends)]]
    <3> DEFINE R == 1 .. MaxSends
    <3>1. waiting \in [Sides -> [Ids -> Seq(R)]] /\ n \in R  BY <1>0, <1>3 DEF MemTypeOK
    <3> HIDE DEF R
    <3>2. Append(waiting[x][i], n) \in Seq(R)  BY <3>1
    <3>3. [waiting EXCEPT ![x][i] = Append(@, n)] \in [Sides -> [Ids -> Seq(R)]]  BY <3>1, <3>2
    <3>4. waiting' = waiting \/ waiting' = [waiting EXCEPT ![x][i] = Append(@, n)]  BY <1>1
    <3>5. waiting' \in [Sides -> [Ids -> Seq(R)]]  BY <3>1, <3>3, <3>4
    <3> QED  BY <3>5 DEF R
  <2> QED  BY <1>0, <1>1, <2>1, <2>2, <2>3, <2>4 DEF MemTypeOK
<1>6. \A y \in Sides, ch \in Channels : sent'[y][ch] = IF y = x /\ ch = i THEN n ELSE sent[y][ch]
  BY <1>1, <1>2, <1>0 DEF MemTypeOK
<1>7. \A y \in Sides, j \in Ids : /\ ~(y = x /\ j = i) => waiting'[y][j] = waiting[y][j]
                                  /\ Wait => waiting'[x][i] = Append(waiting[x][i], n)
                                  /\ ~Wait => waiting' = waiting
  BY <1>1, <1>0 DEF MemTypeOK
<1>8. Lines'
  <2> SUFFICES ASSUME NEW y \in Sides, NEW ch \in Channels PROVE Line(y, ch)'  BY DEF Lines
  <2>1. Heard(y, ch)' = Heard(y, ch) /\ Queued(y, ch)' = Queued(y, ch)  BY <1>1 DEF Heard, Queued
  <2>2. Ordered(Heard(y, ch), Queued(y, ch), tasks, Waiting(y, ch), y, ch, gone[y][ch], sent[y][ch])
    BY OfOne, LineIs
  <2>3. CASE y = x /\ ch = i
    <3>1. sent'[y][ch] = sent[y][ch] + 1 /\ Waiting(y, ch) = waiting[x][i] /\ Waiting(y, ch)' = waiting'[x][i]
      BY <1>2, <1>6, <1>n, <2>3 DEF Waiting
    <3>2. CASE GivesUp
      <4>1. gone'[y][ch] = gone[y][ch] \cup {sent[y][ch] + 1}  BY <1>0, <1>2, <1>n, <2>3, <3>2 DEF MemTypeOK
      <4>2. Ordered(Heard(y, ch), Queued(y, ch), tasks, Waiting(y, ch), y, ch, gone[y][ch] \cup {sent[y][ch] + 1}, sent[y][ch] + 1)
        BY <2>2, AreGivenUp
      <4> QED  BY <2>1, <3>1, <3>2, <4>1, <4>2 DEF Line
    <3>3. CASE Ready
      <4>1. IsOf(t, "resume", y, ch) /\ t.n = sent[y][ch] + 1  BY <1>t, <2>3
      <4>2. Len(Waiting(y, ch)) = 0  BY <3>3, OfOne, <3>1 DEF Together
      <4>3. Ordered(Heard(y, ch), Queued(y, ch), Append(tasks, t), Waiting(y, ch), y, ch, gone[y][ch], sent[y][ch] + 1)
        BY <1>3, <2>2, <4>1, <4>2, SentResume
      <4> QED  BY <2>1, <3>1, <3>3, <4>3 DEF Line
    <3>4. CASE Wait
      <4>1. Ordered(Heard(y, ch), Queued(y, ch), tasks, Append(Waiting(y, ch), sent[y][ch] + 1), y, ch, gone[y][ch], sent[y][ch] + 1)
        BY <2>2, SentToWait
      <4>2. Waiting(y, ch)' = Append(Waiting(y, ch), sent[y][ch] + 1)  BY <1>7, <1>n, <2>3, <3>1, <3>4
      <4> QED  BY <2>1, <3>1, <3>4, <4>1, <4>2 DEF Line
    <3> QED  BY <1>1, <3>2, <3>3, <3>4
  <2>4. CASE ~(y = x /\ ch = i)
    <3>1. sent'[y][ch] = sent[y][ch] /\ gone'[y][ch] = gone[y][ch]  BY <1>4, <1>6, <2>4
    <3>2. Waiting(y, ch)' = Waiting(y, ch)  BY <1>7, <2>4 DEF Waiting, Channels
    <3>3. ~IsOf(t, "message", y, ch) /\ ~IsOf(t, "resume", y, ch)  BY <1>t, <2>4
    <3> QED  BY <1>1, <1>3, <2>1, <3>1, <3>2, <3>3, OfOne, SameLine, OtherTask
  <2> QED  BY <2>3, <2>4
<1>9. Queues' /\ DownTogether'  BY <1>1 DEF Queues, QueuesFirst, DownTogether, MemIInv
<1>10. Pairs'
  <2> SUFFICES ASSUME NEW y \in Sides, NEW j \in Ids PROVE Together(y, j)'  BY DEF Pairs
  <2>1. Together(y, j) /\ Together(x, i) /\ Together(Peer(x), i) /\ Together(OpenerOf[i], i) /\ \A z \in Sides : Together(z, j)
    BY OfOne, MemPeer, StreamIds
  <2>2. Usable(chan[x][i]) => chan[x][i].known /\ chan[Peer(x)][i].known /\ ~Fresh(OpenerOf[i], i) /\ ~down[x]
    BY MemPeer, StreamIds, <2>1 DEF Together, Fresh
  <2>3. \A z \in Sides : OnTheWay(z, j)' => OnTheWay(z, j) \/ (z = x /\ j = i /\ Usable(chan[x][i]) /\ IsReady(chan[Peer(x)][i]))
    <3> SUFFICES ASSUME NEW z \in Sides, OnTheWay(z, j)', ~OnTheWay(z, j)
                 PROVE  z = x /\ j = i /\ Usable(chan[x][i]) /\ IsReady(chan[Peer(x)][i])
      OBVIOUS
    <3>1. CASE tasks' = tasks  BY <3>1 DEF OnTheWay
    <3>2. CASE Ready  BY <1>0, <1>3, <3>2, OneOnTheWay, <1>t DEF IsMine
    <3> QED  BY <1>1, <3>1, <3>2
  <2>5. waiting'[y][j] # <<>> => waiting[y][j] # <<>> \/ (y = x /\ j = i /\ Usable(chan[x][i]) /\ ~IsReady(chan[Peer(x)][i]))
    BY <1>7
  <2>6. down[y] = down[x]  BY OfOne
  <2> QED  BY <1>1, <2>1, <2>2, <2>3, <2>5, <2>6 DEF Together, Fresh, Alone
<1> QED  BY <1>5, <1>8, <1>9, <1>10 DEF MemIInv

\* What more tasks say of the tasks on their way.
LEMMA MoreOnTheWay ==
  ASSUME NEW ts \in Seq(Tasks), NEW F \in Seq(Tasks), tasks' = ts \o F, NEW y, NEW j, OnTheWay(y, j)'
  PROVE  (\E k \in 1 .. Len(ts) : IsMine(ts[k], y, j)) \/ (\E k \in 1 .. Len(F) : IsMine(F[k], y, j))
<1>1. PICK k \in 1 .. Len(tasks') : IsMine(tasks'[k], y, j)  BY DEF OnTheWay, IsMine, IsOf
<1> DEFINE c == Len(ts)
           f == Len(F)
<1>2. /\ Len(tasks') = c + f /\ c \in Nat /\ f \in Nat
      /\ \A z \in Nat : z \in 1 .. c => tasks'[z] = ts[z]
      /\ \A z \in Nat : z \in 1 .. f => tasks'[c + z] = F[z]
  BY ConcatIs
<1> HIDE DEF c, f
<1>3. CASE k \in 1 .. c  BY <1>1, <1>2, <1>3 DEF c
<1>4. CASE k \notin 1 .. c  BY <1>1, <1>2, <1>4 DEF f
<1> QED  BY <1>3, <1>4

LEMMA OnDataKeeps ==
  ASSUME MemIInv, NEW x \in Sides, NEW i \in Ids, NEW kind \in {"on", "once"}, OnData(x, i, kind)
  PROVE  MemIInv'
<1> DEFINE p == Peer(x)
           F == Resumes(p, i)
<1>1. /\ chan[x][i].known /\ chan' = [chan EXCEPT ![x][i].listener = kind]
      /\ tasks' = tasks \o F /\ waiting' = [waiting EXCEPT ![p][i] = <<>>]
      /\ UNCHANGED <<down, control, sent, gone>>
  BY DEF OnData
<1>2. p \in Sides /\ p # x /\ Peer(p) = x /\ \A y \in Sides : y = x \/ y = p  BY MemPeer
<1>0. MemTypeOK /\ tasks \in Seq(Tasks)  BY OfOne, MemTypes
<1>3. /\ F \in Seq(Tasks)
      /\ \A k \in 1 .. Len(F) : F[k].type = "resume" /\ F[k].at = p /\ F[k].id = i
  BY <1>0, <1>2, ResumesAre
<1>4. PICK place : Resumed(F, place, waiting[p][i], p, i)  BY <1>0, <1>2, OneResumed
<1>5. \A y \in Sides, j \in Ids :
         chan'[y][j] = IF y = x /\ j = i THEN [chan[x][i] EXCEPT !.listener = kind] ELSE chan[y][j]
  BY <1>0, <1>1 DEF MemTypeOK
<1>6. \A y \in Sides, j \in Ids : waiting'[y][j] = IF y = p /\ j = i THEN <<>> ELSE waiting[y][j]
  BY <1>0, <1>1, <1>2 DEF MemTypeOK
<1>7. chan[x][i] \in StreamChannel  BY <1>0, MemTypes
<1>8. /\ [chan[x][i] EXCEPT !.listener = kind] \in StreamChannel
      /\ \A f \in {"known", "isClosed", "linked", "early", "heard"} :
            [chan[x][i] EXCEPT !.listener = kind][f] = chan[x][i][f]
      /\ [chan[x][i] EXCEPT !.listener = kind].listener = kind
  BY <1>7 DEF StreamChannel, Listeners
<1>9. \A y \in Sides, j \in Ids :
        /\ chan'[y][j].known = chan[y][j].known /\ chan'[y][j].isClosed = chan[y][j].isClosed
        /\ chan'[y][j].linked = chan[y][j].linked /\ chan'[y][j].early = chan[y][j].early
        /\ chan'[y][j].heard = chan[y][j].heard
        /\ IsReady(chan'[y][j]) <=> (IsReady(chan[y][j]) \/ (y = x /\ j = i))
  BY <1>5, <1>8 DEF HasListener, IsReady
<1> HIDE DEF p, F
<1>10. MemTypeOK'
  <2>1. chan' \in [Sides -> [Ids -> StreamChannel]]  BY <1>0, <1>1, <1>8 DEF MemTypeOK
  <2>2. waiting' \in [Sides -> [Ids -> Seq(1..MaxSends)]]  BY <1>0, <1>1, <1>2 DEF MemTypeOK
  <2>3. tasks' \in Seq(Tasks)  BY <1>0, <1>1, <1>3
  <2> QED  BY <1>0, <1>1, <2>1, <2>2, <2>3 DEF MemTypeOK
<1>11. Lines'
  <2> SUFFICES ASSUME NEW y \in Sides, NEW ch \in Channels PROVE Line(y, ch)'  BY DEF Lines
  <2>1. Heard(y, ch)' = Heard(y, ch) /\ Queued(y, ch)' = Queued(y, ch)
    BY <1>1, <1>9, MemPeer DEF Heard, Queued, Channels
  <2>2. CASE y = p /\ ch = i
    <3>1. Waiting(y, ch) = waiting[p][i] /\ Waiting(y, ch)' = <<>>  BY <1>2, <1>6, <2>2, StreamIds DEF Waiting
    <3>2. Ordered(Heard(y, ch), Queued(y, ch), tasks, waiting[p][i], y, ch, gone[y][ch], sent[y][ch])
      BY <3>1, OfOne, LineIs
    <3> DEFINE e == <<>>
    <3>3. e \in Seq(Nat) /\ Len(e) = 0  OBVIOUS
    <3> HIDE DEF e
    <3>4. Ordered(Heard(y, ch), Queued(y, ch), tasks \o F, e, y, ch, gone[y][ch], sent[y][ch])
      BY <1>4, <2>2, <3>2, <3>3, AllResumed
    <3> QED  BY <1>1, <2>1, <3>1, <3>4 DEF Line, e
  <2>3. CASE ~(y = p /\ ch = i)
    <3>1. Waiting(y, ch)' = Waiting(y, ch)  BY <1>6, <2>3 DEF Waiting, Channels
    <3>2. \A k \in 1 .. Len(F) : ~IsOf(F[k], "message", y, ch) /\ ~IsOf(F[k], "resume", y, ch)
      BY <1>3, <2>3 DEF IsOf
    <3> QED  BY <1>1, <1>3, <2>1, <3>1, <3>2, OfOne, OtherTasks
  <2> QED  BY <2>2, <2>3
<1>12. Queues' /\ DownTogether'  BY <1>1 DEF Queues, QueuesFirst, DownTogether, MemIInv
<1>13. Pairs'
  <2> SUFFICES ASSUME NEW y \in Sides, NEW j \in Ids PROVE Together(y, j)'  BY DEF Pairs
  <2>1. Together(y, j) /\ Together(x, i)  BY OfOne
  <2>2. Peer(y) \in Sides /\ OpenerOf[j] \in Sides /\ (y = p <=> Peer(y) = x)  BY <1>2, MemPeer, StreamIds
  <2>3. Fresh(y, j)' = Fresh(y, j) /\ Fresh(OpenerOf[j], j)' = Fresh(OpenerOf[j], j)  BY <1>9, <2>2 DEF Fresh
  <2>4. Usable(chan'[y][j]) = Usable(chan[y][j]) /\ Usable(chan'[Peer(y)][j]) = Usable(chan[Peer(y)][j])
    BY <1>9, <2>2 DEF Usable
  <2>5. OnTheWay(y, j)' => OnTheWay(y, j) \/ (y = p /\ j = i)
    <3> SUFFICES ASSUME OnTheWay(y, j)', ~OnTheWay(y, j) PROVE y = p /\ j = i  OBVIOUS
    <3>1. PICK k \in 1 .. Len(F) : IsMine(F[k], y, j)  BY <1>0, <1>1, <1>3, MoreOnTheWay DEF OnTheWay
    <3> QED  BY <1>3, <3>1 DEF IsMine, IsOf
  <2>6. Fresh(y, j) => chan'[y][j] = chan[y][j]  BY <1>1, <1>5 DEF Fresh
  <2>7. waiting'[y][j] # <<>> => waiting[y][j] # <<>> /\ ~(y = p /\ j = i)  BY <1>6
  <2>8. y = p /\ j = i => ~Fresh(OpenerOf[j], j)  BY <1>1, <2>1, StreamIds DEF Together, Fresh
  <2>9. /\ chan'[y][j].known = chan[y][j].known /\ chan'[Peer(y)][j].known = chan[Peer(y)][j].known
        /\ down' = down /\ (Alone(y, j)' <=> Alone(y, j))
        /\ chan'[y][j].early = chan[y][j].early /\ chan'[y][j].isClosed = chan[y][j].isClosed
        /\ IsReady(chan'[Peer(y)][j]) <=> (IsReady(chan[Peer(y)][j]) \/ (y = p /\ j = i))
    <3>1. chan'[Peer(y)][j].early = chan[Peer(y)][j].early  BY <1>9, <2>2
    <3> QED  BY <1>1, <1>9, <2>2, <3>1 DEF Alone
  <2>10. waiting[y][j] = <<>> => waiting'[y][j] = <<>>  BY <1>6
  <2> QED  BY <2>1, <2>3, <2>4, <2>5, <2>6, <2>7, <2>8, <2>9, <2>10 DEF Together
<1> QED  BY <1>10, <1>11, <1>12, <1>13 DEF MemIInv

LEMMA CloseTransportKeeps ==
  ASSUME MemIInv, NEW x \in Sides, CloseTransport(x)
  PROVE  MemIInv'
<1> DEFINE t == [type |-> "destroy"]
<1>1. tasks' = Append(tasks, t) /\ UNCHANGED <<down, control, chan, waiting, sent, gone>>
  BY DEF CloseTransport
<1>2. t \in Tasks /\ \A y, ch : ~IsOf(t, "message", y, ch) /\ ~IsOf(t, "resume", y, ch)  BY DEF Tasks, IsOf
<1> HIDE DEF t
<1>3. MemTypeOK'  BY <1>1, <1>2, OfOne, TaskTyped DEF MemTypeOK
<1>4. Lines'
  <2> SUFFICES ASSUME NEW y \in Sides, NEW ch \in Channels PROVE Line(y, ch)'  BY DEF Lines
  <2>1. Heard(y, ch)' = Heard(y, ch) /\ Queued(y, ch)' = Queued(y, ch) /\ Waiting(y, ch)' = Waiting(y, ch)
    BY <1>1 DEF Heard, Queued, Waiting
  <2> QED  BY <1>1, <1>2, <2>1, OfOne, OtherTask
<1>5. Queues' /\ DownTogether'  BY <1>1 DEF Queues, QueuesFirst, DownTogether, MemIInv
<1>6. Pairs'
  <2> SUFFICES ASSUME NEW y \in Sides, NEW j \in Ids PROVE Together(y, j)'  BY DEF Pairs
  <2>1. Together(y, j)  BY OfOne
  <2>2. OnTheWay(y, j)' => OnTheWay(y, j)  BY <1>1, <1>2, OfOne, OneOnTheWay DEF IsMine
  <2> QED  BY <1>1, <2>1, <2>2 DEF Together, Fresh, Alone
<1> QED  BY <1>3, <1>4, <1>5, <1>6 DEF MemIInv

(* Ends that are closed together, after the tasks ts. *)

LEMMA EndsClosedIs ==
  ASSUME MemTypeOK, NEW closed \in SUBSET Ids, NEW ts \in Seq(Tasks), EndsClosed(closed, ts)
  PROVE  /\ chan' \in [Sides -> [Ids -> StreamChannel]]
         /\ waiting' \in [Sides -> [Ids -> Seq(1 .. MaxSends)]]
         /\ tasks' \in Seq(Tasks) /\ tasks' = ts \o AllResumes(closed)
         /\ \A x \in Sides, i \in Ids :
              /\ chan'[x][i].heard = chan[x][i].heard
              /\ waiting'[x][i] = IF i \in closed THEN <<>> ELSE waiting[x][i]
              /\ i \notin closed \/ ~chan[x][i].known => chan'[x][i] = chan[x][i]
              /\ i \in closed => ~chan'[x][i].known
              /\ i \in closed /\ chan[x][i].known => chan'[x][i].isClosed
<1> DEFINE WithEnd(c) == [c EXCEPT !.isClosed = TRUE, !.known = FALSE]
<1>1. /\ chan' = [x \in Sides |-> [i \in Ids |->
                   IF i \in closed /\ chan[x][i].known THEN WithEnd(chan[x][i]) ELSE chan[x][i]]]
      /\ waiting' = [x \in Sides |-> [i \in Ids |-> IF i \in closed THEN <<>> ELSE waiting[x][i]]]
      /\ tasks' = ts \o AllResumes(closed)
  BY DEF EndsClosed
<1>2. \A c \in StreamChannel : /\ WithEnd(c) \in StreamChannel /\ WithEnd(c).isClosed /\ ~WithEnd(c).known
                               /\ WithEnd(c).heard = c.heard
  BY DEF StreamChannel
<1>3. \A x \in Sides, i \in Ids : chan[x][i] \in StreamChannel /\ waiting[x][i] \in Seq(1 .. MaxSends)
  BY MemTypes
<1> HIDE DEF WithEnd
<1>4. \A x \in Sides, i \in Ids :
         /\ chan'[x][i] = IF i \in closed /\ chan[x][i].known THEN WithEnd(chan[x][i]) ELSE chan[x][i]
         /\ waiting'[x][i] = IF i \in closed THEN <<>> ELSE waiting[x][i]
  BY <1>1
<1>5. chan' \in [Sides -> [Ids -> StreamChannel]]  BY <1>1, <1>2, <1>3
<1>6. waiting' \in [Sides -> [Ids -> Seq(1 .. MaxSends)]]
  <2>1. <<>> \in Seq(1 .. MaxSends)  OBVIOUS
  <2> QED  BY <1>1, <1>3, <2>1
<1>7. tasks' \in Seq(Tasks)  BY <1>1, AllGathered
<1>8. ASSUME NEW x \in Sides, NEW i \in Ids
      PROVE  /\ chan'[x][i].heard = chan[x][i].heard
             /\ waiting'[x][i] = IF i \in closed THEN <<>> ELSE waiting[x][i]
             /\ i \notin closed \/ ~chan[x][i].known => chan'[x][i] = chan[x][i]
             /\ i \in closed => ~chan'[x][i].known
             /\ i \in closed /\ chan[x][i].known => chan'[x][i].isClosed
  BY <1>2, <1>3, <1>4
<1> QED  BY <1>1, <1>5, <1>6, <1>7, <1>8

LEMMA ClosedLine ==
  ASSUME MemTypeOK, NEW closed \in SUBSET Ids, NEW ts \in Seq(Tasks), EndsClosed(closed, ts),
         NEW x \in Sides, NEW ch \in Channels, NEW h, NEW q, NEW G, NEW N,
         Ordered(h, q, ts, Waiting(x, ch), x, ch, G, N)
  PROVE  Ordered(h, q, tasks', Waiting(x, ch)', x, ch, G, N)
<1> DEFINE F == AllResumes(closed)
<1>1. /\ tasks' = ts \o F
      /\ \A y \in Sides, i \in Ids : waiting'[y][i] = IF i \in closed THEN <<>> ELSE waiting[y][i]
  BY EndsClosedIs
<1>2. /\ F \in Seq(Tasks)
      /\ \A p \in 1 .. Len(F) : F[p].type = "resume" /\ F[p].at \in Sides /\ F[p].id \in closed
  BY AllGathered
<1>3. CASE ch \in closed
  <2>1. ch \in Ids /\ ch # CtlId  BY <1>3, StreamIds
  <2>2. PICK place : Resumed(F, place, waiting[x][ch], x, ch)  BY <1>3, AllGathered
  <2>3. Waiting(x, ch) = waiting[x][ch] /\ Waiting(x, ch)' = <<>>  BY <1>1, <1>3, <2>1 DEF Waiting
  <2> DEFINE e == <<>>
  <2>4. e \in Seq(Nat) /\ Len(e) = 0  OBVIOUS
  <2> HIDE DEF e, F
  <2>5. Ordered(h, q, ts, waiting[x][ch], x, ch, G, N)  BY <2>3
  <2>6. Ordered(h, q, ts \o F, e, x, ch, G, N)  BY <2>2, <2>4, <2>5, AllResumed
  <2> QED  BY <1>1, <2>3, <2>6 DEF e
<1>4. CASE ch \notin closed
  <2>1. \A k \in 1 .. Len(F) : ~IsOf(F[k], "message", x, ch) /\ ~IsOf(F[k], "resume", x, ch)
    BY <1>2, <1>4 DEF IsOf
  <2>2. Waiting(x, ch)' = Waiting(x, ch)  BY <1>1, <1>4 DEF Waiting, Channels
  <2> HIDE DEF F
  <2>3. Ordered(h, q, ts \o F, Waiting(x, ch), x, ch, G, N)  BY <1>2, <2>1, OthersSent
  <2> QED  BY <1>1, <2>2, <2>3
<1> QED  BY <1>3, <1>4

LEMMA ClosedPairs ==
  ASSUME MemIInv, NEW closed \in SUBSET Ids, NEW ts \in Seq(Tasks), EndsClosed(closed, ts),
         \A y, j : (\E k \in 1 .. Len(ts) : IsMine(ts[k], y, j)) => OnTheWay(y, j),
         down' = down \/ closed = Ids
  PROVE  Pairs'
<1> DEFINE F == AllResumes(closed)
<1>0. MemTypeOK  BY OfOne
<1>1. /\ tasks' = ts \o F
      /\ \A x \in Sides, i \in Ids :
              /\ chan'[x][i].heard = chan[x][i].heard
              /\ waiting'[x][i] = IF i \in closed THEN <<>> ELSE waiting[x][i]
              /\ i \notin closed \/ ~chan[x][i].known => chan'[x][i] = chan[x][i]
              /\ i \in closed => ~chan'[x][i].known
              /\ i \in closed /\ chan[x][i].known => chan'[x][i].isClosed
  BY <1>0, EndsClosedIs
<1>2. /\ F \in Seq(Tasks)
      /\ \A p \in 1 .. Len(F) : F[p].type = "resume" /\ F[p].at \in Sides /\ F[p].id \in closed
  BY <1>0, AllGathered
<1> SUFFICES ASSUME NEW y \in Sides, NEW j \in Ids PROVE Together(y, j)'  BY DEF Pairs
<1>3. Peer(y) \in Sides /\ OpenerOf[j] \in Sides  BY MemPeer, StreamIds
<1>4. Together(y, j) /\ Together(OpenerOf[j], j)  BY <1>3, OfOne
<1>5. OnTheWay(y, j)' => OnTheWay(y, j) \/ (j \in closed /\ waiting[y][j] # <<>>)
  <2> SUFFICES ASSUME OnTheWay(y, j)', ~OnTheWay(y, j) PROVE j \in closed /\ waiting[y][j] # <<>>  OBVIOUS
  <2> HIDE DEF F
  <2>1. PICK k \in 1 .. Len(F) : IsMine(F[k], y, j)  BY <1>1, <1>2, MoreOnTheWay
  <2>2. F[k].type = "resume" /\ j \in closed /\ IsOf(F[k], "resume", y, j)  BY <1>2, <2>1 DEF IsMine, IsOf
  <2>3. PICK place : Resumed(F, place, waiting[y][j], y, j)  BY <1>0, <2>2, AllGathered DEF F
  <2>4. place[k] \in 1 .. Len(waiting[y][j])  BY <2>2, <2>3 DEF Resumed
  <2>5. Len(<<>>) = 0  OBVIOUS
  <2> QED  BY <2>2, <2>4, <2>5
<1>7. CASE j \in closed
  <2>1. \A z \in Sides : ~Usable(chan'[z][j])
    <3> SUFFICES ASSUME NEW z \in Sides, Usable(chan'[z][j]) PROVE FALSE  OBVIOUS
    <3>1. Together(z, j)  BY OfOne
    <3>2. CASE chan[z][j].known  BY <1>1, <1>7, <3>2 DEF Usable
    <3>3. CASE ~chan[z][j].known  BY <1>1, <1>7, <3>1, <3>3 DEF Usable, Together
    <3> QED  BY <3>2, <3>3
  <2>2. waiting'[y][j] = <<>> /\ ~chan'[y][j].known  BY <1>1, <1>7
  <2>3. \A z \in Sides : Fresh(z, j)' => Fresh(z, j) /\ chan'[z][j] = chan[z][j]  BY <1>1, <1>7 DEF Fresh
  <2>4. Fresh(OpenerOf[j], j)' => Fresh(y, j)' /\ ~OnTheWay(y, j)'
    <3> SUFFICES ASSUME Fresh(OpenerOf[j], j)' PROVE Fresh(y, j)' /\ ~OnTheWay(y, j)'  OBVIOUS
    <3>1. Fresh(OpenerOf[j], j)  BY <1>3, <2>3
    <3>2. Fresh(y, j) /\ ~OnTheWay(y, j) /\ chan[y][j] = NoStream  BY <1>4, <3>1 DEF Together
    <3>3. waiting[y][j] = <<>>  BY <1>4, <3>2, NoStreamIs DEF Together, Usable
    <3>4. chan'[y][j] = chan[y][j]  BY <1>1, <3>2 DEF Fresh
    <3> QED  BY <1>5, <3>2, <3>3, <3>4 DEF Fresh
  <2>5. Fresh(y, j)' => chan'[y][j] = NoStream  BY <1>4, <2>3 DEF Together
  <2> QED  BY <2>1, <2>2, <2>4, <2>5 DEF Together
<1>8. CASE j \notin closed  BY <1>1, <1>8, <1>5, <1>3, <1>4 DEF Fresh, Together, Alone
<1> QED  BY <1>7, <1>8

LEMMA EndsClosedKeeps ==
  ASSUME MemIInv, NEW closed \in SUBSET Ids, EndsClosed(closed, tasks), UNCHANGED <<down, control, sent, gone>>
  PROVE  MemIInv'
<1>0. MemTypeOK /\ tasks \in Seq(Tasks)  BY OfOne, MemTypes
<1>1. /\ chan' \in [Sides -> [Ids -> StreamChannel]]
      /\ waiting' \in [Sides -> [Ids -> Seq(1 .. MaxSends)]]
      /\ tasks' \in Seq(Tasks)
      /\ \A y \in Sides, j \in Ids : chan'[y][j].heard = chan[y][j].heard
  <2>1. /\ chan' \in [Sides -> [Ids -> StreamChannel]]
        /\ waiting' \in [Sides -> [Ids -> Seq(1 .. MaxSends)]]
        /\ tasks' \in Seq(Tasks) /\ tasks' = tasks \o AllResumes(closed)
        /\ \A x \in Sides, i \in Ids :
              /\ chan'[x][i].heard = chan[x][i].heard
              /\ waiting'[x][i] = IF i \in closed THEN <<>> ELSE waiting[x][i]
              /\ i \notin closed \/ ~chan[x][i].known => chan'[x][i] = chan[x][i]
              /\ i \in closed => ~chan'[x][i].known
              /\ i \in closed /\ chan[x][i].known => chan'[x][i].isClosed
    BY <1>0, EndsClosedIs
  <2> QED  BY <2>1
<1>2. MemTypeOK'  BY <1>0, <1>1 DEF MemTypeOK
<1>3. ASSUME NEW y \in Sides, NEW ch \in Channels PROVE Line(y, ch)'
  <2>1. Heard(y, ch)' = Heard(y, ch) /\ Queued(y, ch)' = Queued(y, ch)
    BY <1>1, MemPeer DEF Heard, Queued, Channels
  <2>2. Ordered(Heard(y, ch), Queued(y, ch), tasks, Waiting(y, ch), y, ch, gone[y][ch], sent[y][ch])
    BY OfOne, LineIs
  <2>3. Ordered(Heard(y, ch), Queued(y, ch), tasks', Waiting(y, ch)', y, ch, gone[y][ch], sent[y][ch])
    BY <1>0, <2>2, ClosedLine
  <2> QED  BY <2>1, <2>3 DEF Line
<1>4. Pairs'  BY <1>0, ClosedPairs DEF OnTheWay
<1>5. Queues' /\ DownTogether'  BY DEF Queues, QueuesFirst, DownTogether, MemIInv
<1> QED  BY <1>2, <1>3, <1>4, <1>5 DEF MemIInv, Lines

LEMMA CloseStreamKeeps ==
  ASSUME MemIInv, NEW x \in Sides, NEW i \in Ids, CloseStream(x, i)
  PROVE  MemIInv'
<1> DEFINE p == Peer(x)
           Unheard == chan[x][i].linked /\ chan[p][i].isClosed /\ chan' = [chan EXCEPT ![x][i].isClosed = TRUE, ![p][i].known = FALSE]
           Unlinked == ~chan[x][i].linked /\ chan' = [chan EXCEPT ![x][i].isClosed = TRUE]
<1>0. MemTypeOK /\ tasks \in Seq(Tasks) /\ p \in Sides /\ Peer(p) = x /\ p # x  BY OfOne, MemTypes, MemPeer
<1>1. /\ chan[x][i].known /\ UNCHANGED <<down, control, sent, gone>>
      /\ EndsClosed({i}, tasks) \/ ((Unheard \/ Unlinked) /\ UNCHANGED <<waiting, tasks>>)
  BY DEF CloseStream
<1>2. Queues' /\ DownTogether'  BY <1>1 DEF Queues, QueuesFirst, DownTogether, MemIInv
<1>3. CASE EndsClosed({i}, tasks)
  <2> DEFINE closed == {i}
  <2>1. closed \in SUBSET Ids /\ EndsClosed(closed, tasks)  BY <1>3
  <2> HIDE DEF closed
  <2> QED  BY <1>1, <2>1, EndsClosedKeeps
<1>4. CASE (Unheard \/ Unlinked) /\ UNCHANGED <<waiting, tasks>>
  <2> DEFINE c == [chan[x][i] EXCEPT !.isClosed = TRUE]
             d == IF Unheard THEN [chan[p][i] EXCEPT !.known = FALSE] ELSE chan[p][i]
  <2>1. /\ c \in StreamChannel /\ c.heard = chan[x][i].heard /\ c.known /\ c.isClosed
        /\ d \in StreamChannel /\ d.heard = chan[p][i].heard /\ d.isClosed = chan[p][i].isClosed
        /\ d.linked = chan[p][i].linked /\ d.early = chan[p][i].early /\ (d.known => chan[p][i].known) /\ (Unheard => d.isClosed) /\ (~Unheard => d = chan[p][i])
    BY <1>0, <1>1, MemTypes DEF StreamChannel
  <2>2. chan' \in [Sides -> [Ids -> StreamChannel]]
        /\ \A y \in Sides, j \in Ids : chan'[y][j] = IF j # i THEN chan[y][j] ELSE IF y = x THEN c ELSE d
    <3>1. chan \in [Sides -> [Ids -> StreamChannel]]  BY <1>0 DEF MemTypeOK
    <3>2. \A y \in Sides : y = x \/ y = p  BY <1>0, MemPeer
    <3>3. chan' = [chan EXCEPT ![x][i] = c, ![p][i] = d]
      <4>1. CASE Unheard  BY <4>1, <3>1, <1>0
      <4>2. CASE ~Unheard /\ Unlinked  BY <4>2, <3>1, <1>0
      <4> QED  BY <1>4, <4>1, <4>2
    <3> HIDE DEF c, d, p
    <3> QED  BY <1>0, <2>1, <3>1, <3>2, <3>3
  <2> HIDE DEF c, d
  <2>3. MemTypeOK'  BY <1>0, <1>1, <1>4, <2>2 DEF MemTypeOK
  <2>4. ASSUME NEW y \in Sides, NEW ch \in Channels PROVE Line(y, ch)'
    <3>1. \A z \in Sides, j \in Ids : chan'[z][j].heard = chan[z][j].heard
      BY <1>0, <2>1, <2>2, MemPeer
    <3>2. Heard(y, ch)' = Heard(y, ch) /\ Queued(y, ch)' = Queued(y, ch) /\ Waiting(y, ch)' = Waiting(y, ch)
      BY <1>1, <1>4, <3>1, MemPeer DEF Heard, Queued, Waiting, Channels
    <3> QED  BY <1>1, <1>4, <3>2, OfOne, SameLine
  <2>5. ASSUME NEW y \in Sides, NEW j \in Ids PROVE Together(y, j)'
    <3>1. Together(y, j) /\ Peer(y) \in Sides /\ OpenerOf[j] \in Sides  BY OfOne, MemPeer, StreamIds
    <3>2. Together(x, i) /\ Together(p, i)  BY <1>0, OfOne
    <3>3. CASE j # i
      <4>1. \A z \in Sides : chan'[z][j] = chan[z][j]  BY <2>2, <3>3
      <4> QED  BY <1>1, <1>4, <3>1, <4>1 DEF Together, Fresh, OnTheWay, Alone
    <3>4. CASE j = i
      <4>1. ~Usable(chan[p][i])
        <5>1. CASE Unheard  BY <5>1 DEF Usable
        <5>2. CASE Unlinked
          <6> SUFFICES ASSUME Usable(chan[p][i]) PROVE FALSE  OBVIOUS
          <6>1. ~Usable(chan[x][i])  BY <5>2 DEF Usable
          <6>2. Alone(p, i)  BY <1>0, <3>2, <6>1 DEF Together
          <6> QED  BY <1>0, <1>1, <3>2, <6>2 DEF Together, Alone, CloseStream
        <5> QED  BY <1>4, <5>1, <5>2
      <4>2. \A z \in Sides : z = x \/ z = p  BY <1>0, MemPeer
      <4>3. ~Usable(chan'[x][i]) /\ ~Usable(chan'[p][i])  BY <1>0, <2>1, <2>2, <4>1 DEF Usable
      <4>4. waiting'[y][j] = <<>>
        <5>1. waiting[p][i] = <<>>  BY <3>2, <4>1 DEF Together
        <5>2. waiting[x][i] # <<>> => ~chan[p][i].isClosed /\ Usable(chan[x][i])  BY <3>2 DEF Together, IsReady
        <5>3. waiting[x][i] = <<>>  BY <1>4, <5>2 DEF Usable
        <5> QED  BY <1>4, <3>4, <4>2, <5>1, <5>3
      <4>5. ~down'[x] /\ (down'[p] => ~chan'[p][i].known)  BY <1>0, <1>1, <2>1, <2>2, <3>2 DEF Together
      <4>6. ~Fresh(x, i)' /\ (Fresh(p, i)' => Fresh(p, i) /\ chan'[p][i] = chan[p][i])
        BY <1>0, <2>1, <2>2 DEF Fresh
      <4>7. ~Fresh(OpenerOf[i], i)'
        <5>1. ~Fresh(p, i) \/ OpenerOf[i] # p  BY <1>1, <3>2 DEF Together, Fresh
        <5> QED  BY <4>2, <4>6, <5>1, StreamIds
      <4>8. chan'[y][j].known /\ chan'[y][j].early => chan'[y][j].isClosed
        BY <1>0, <2>1, <2>2, <3>2, <3>4, <4>2 DEF Together
      <4>9. Fresh(y, j)' => chan'[y][j] = NoStream  BY <3>2, <3>4, <4>2, <4>6 DEF Together
      <4> QED  BY <3>4, <4>2, <4>3, <4>4, <4>5, <4>7, <4>8, <4>9 DEF Together
    <3> QED  BY <3>3, <3>4
  <2> QED  BY <1>2, <2>3, <2>4, <2>5 DEF MemIInv, Lines, Pairs
<1> QED  BY <1>1, <1>3, <1>4

-----------------------------------------------------------------------------
(* The first task of the queue, and what it delivers. *)

(* The first task of the queue. *)

LEMMA FirstTask ==
  ASSUME MemTypeOK, tasks # <<>>
  PROVE  /\ tasks \in Seq(Tasks) /\ Tail(tasks) \in Seq(Tasks) /\ Head(tasks) \in Tasks
         /\ \A y, j : (\E k \in 1 .. Len(Tail(tasks)) : IsMine(Tail(tasks)[k], y, j)) => OnTheWay(y, j)
         /\ \A y, j : IsMine(Head(tasks), y, j) => OnTheWay(y, j)
<1>1. tasks \in Seq(Tasks)  BY MemTypes
<1>2. Tail(tasks) \in Seq(Tasks) /\ Head(tasks) \in Tasks  BY <1>1, TailTasks
<1>3. Len(Tail(tasks)) = Len(tasks) - 1 /\ \A k \in 1 .. (Len(tasks) - 1) : Tail(tasks)[k] = tasks[k + 1] /\ k + 1 \in 1 .. Len(tasks)
  BY <1>1
<1>4. Head(tasks) = tasks[1] /\ 1 \in 1 .. Len(tasks)  BY <1>1
<1>5. ASSUME NEW y, NEW j, NEW k \in 1 .. Len(Tail(tasks)), IsMine(Tail(tasks)[k], y, j) PROVE OnTheWay(y, j)
  BY <1>3, <1>5 DEF OnTheWay
<1>6. ASSUME NEW y, NEW j, IsMine(Head(tasks), y, j) PROVE OnTheWay(y, j)  BY <1>4, <1>6 DEF OnTheWay
<1> QED  BY <1>1, <1>2, <1>5, <1>6

LEMMA TailOnTheWay ==
  ASSUME MemTypeOK, tasks # <<>>, tasks' = Tail(tasks), NEW y, NEW j, OnTheWay(y, j)'
  PROVE  OnTheWay(y, j)
<1>1. PICK k \in 1 .. Len(tasks') : IsMine(tasks'[k], y, j)  BY DEF OnTheWay, IsMine, IsOf
<1> QED  BY <1>1, FirstTask

\* The first task is not of this channel, or its message is dropped.
LEMMA LinePopped ==
  ASSUME MemIInv, tasks # <<>>, NEW x \in Sides, NEW ch \in Channels, NEW G2,
         G2 = IF IsMine(Head(tasks), x, ch) THEN gone[x][ch] \cup {Head(tasks).n} ELSE gone[x][ch]
  PROVE  Ordered(Heard(x, ch), Queued(x, ch), Tail(tasks), Waiting(x, ch), x, ch, G2, sent[x][ch])
BY OfOne, LineIs, FirstTask, HeadNumber, Popped DEF IsMine

\* Its message is heard: there is no queue.
LEMMA HeardNow ==
  ASSUME NEW h, NEW q, NEW ts, NEW w, NEW x, NEW ch, NEW G, NEW N, Ordered(h, q, ts, w, x, ch, G, N), ts # <<>>,
         IsOf(Head(ts), "message", x, ch), Head(ts).n \in Nat, q = <<>>
  PROVE  Ordered(Append(h, Head(ts).n), q, Tail(ts), w, x, ch, G, N)
<1> DEFINE n == Head(ts).n
           a == Append(q, n)
           e == q
           b == q
           B == {}
           none == G \cup B
<1>1. Ordered(h, a, Tail(ts), w, x, ch, G, N)  BY PoppedQueued
<1>2. h \in Seq(Nat) /\ q \in Seq(Nat)  BY DEF Ordered
<1>3. /\ a \in Seq(Nat) /\ b \in Seq(Nat) /\ a = a \o b /\ e \in Seq(Nat) /\ Len(e) = 0
      /\ h \o a = Append(h, n)
  <2>1. n \in Nat /\ q = <<>>  OBVIOUS
  <2> HIDE DEF n
  <2> QED  BY <1>2, <2>1
<1>4. /\ \A m \in B : \E k \in Nat : k \in 1 .. Len(b) /\ m = b[k]
      /\ \A k \in Nat : k \in 1 .. Len(b) => b[k] \in B
  BY <1>3
<1>5. none = G  OBVIOUS
<1> HIDE DEF a, e, b, B
<1>6. Ordered(h \o a, e, Tail(ts), w, x, ch, G \cup B, N)  BY ONLY <1>1, <1>3, <1>4, Flushed
<1> HIDE DEF n
<1> QED  BY <1>3, <1>5, <1>6 DEF e, n, none

LEMMA ReceiveControlKeeps ==
  ASSUME MemIInv, ReceiveControl
  PROVE  MemIInv'
<1> DEFINE x == Head(tasks).to
           n == Head(tasks).n
           c == IF control[x].made THEN control[x] ELSE NewControl
           Drop == /\ gone' = [gone EXCEPT ![Peer(x)][CtlId] = @ \cup {n}]
                   /\ control' = control
           Hear == /\ ~down[x] /\ ~c.isClosed /\ Hears(c)
                   /\ control' = [control EXCEPT ![x] = Emitted(c, n)]
                   /\ gone' = gone
           Queue == /\ ~down[x] /\ ~c.isClosed /\ ~HasListener(c)
                    /\ control' = [control EXCEPT ![x] = [c EXCEPT !.queue = Append(@, n)]]
                    /\ gone' = gone
<1>1. /\ tasks # <<>> /\ Head(tasks).type = "message" /\ Head(tasks).id = CtlId /\ tasks' = Tail(tasks)
      /\ UNCHANGED <<down, chan, waiting, sent>>
      /\ Drop \/ Hear \/ Queue
  BY DEF ReceiveControl, Task
<1>0. MemTypeOK /\ tasks \in Seq(Tasks) /\ Tail(tasks) \in Seq(Tasks) /\ Head(tasks) \in Tasks
  BY <1>1, OfOne, FirstTask
<1>2. x \in Sides /\ Peer(x) \in Sides /\ Peer(Peer(x)) = x /\ n \in 1 .. MaxSends /\ n \in Nat
  BY <1>0, <1>1, HeadNumber, MemPeer
<1>3. \A y \in Sides : \A ch : /\ IsMine(Head(tasks), y, ch) <=> y = Peer(x) /\ ch = CtlId
                               /\ IsMine(Head(tasks), y, ch) => IsOf(Head(tasks), "message", y, ch)
  BY <1>1, <1>2, MemPeer DEF IsMine, IsOf
<1>n. n = Head(tasks).n  OBVIOUS
<1> HIDE DEF x, n
<1>4. control \in [Sides -> ControlChannel] /\ control[x] \in ControlChannel /\ QueuesFirst(x)
  BY <1>0, <1>2, OfOne DEF MemTypeOK
<1>5. /\ c \in ControlChannel /\ c.heard = control[x].heard /\ c.queue = control[x].queue /\ c.made
      /\ c.queue # <<>> => ~HasListener(c)
      /\ \A f \in {"heard", "queue"} : TRUE
  <2>1. CASE control[x].made  BY <1>4, <2>1 DEF QueuesFirst
  <2>2. CASE ~control[x].made  BY <1>4, <2>2 DEF QueuesFirst, NewControl, ControlChannel, Listeners
  <2> QED  BY <2>1, <2>2
<1> HIDE DEF c
<1> DEFINE R == 1 .. MaxSends
<1>6. c.heard \in Seq(R) /\ c.queue \in Seq(R) /\ n \in R  BY <1>2, <1>5 DEF ControlChannel
<1>7. Append(c.heard, n) \in Seq(R) /\ Append(c.queue, n) \in Seq(R)
  <2> HIDE DEF R
  <2> QED  BY <1>6
<1>8. Hear => /\ control'[x] \in ControlChannel /\ control'[x].made /\ control'[x].heard = Append(c.heard, n)
              /\ control'[x].queue = c.queue /\ c.queue = <<>>
  <2> SUFFICES ASSUME Hear
               PROVE  /\ control'[x] \in ControlChannel /\ control'[x].made /\ control'[x].heard = Append(c.heard, n)
                      /\ control'[x].queue = c.queue /\ c.queue = <<>>
    OBVIOUS
  <2>1. control'[x] = [c EXCEPT !.heard = Append(@, n), !.listener = IF @ = "once" THEN "spent" ELSE @]
    BY <1>2, <1>4 DEF Emitted
  <2>2. c.queue = <<>>  BY <1>5 DEF Hears, HasListener
  <2> DEFINE l == IF c.listener = "once" THEN "spent" ELSE c.listener
             m == Append(c.heard, n)
  <2>3. l \in Listeners /\ m \in Seq(R)  BY <1>5, <1>7 DEF ControlChannel, Listeners
  <2>4. control'[x] = [c EXCEPT !.heard = m, !.listener = l]  BY <2>1
  <2> HIDE DEF l, m
  <2>5. /\ control'[x] \in ControlChannel /\ control'[x].made /\ control'[x].heard = m
        /\ control'[x].queue = c.queue
    BY ONLY <1>5, <2>3, <2>4 DEF ControlChannel, R
  <2> QED  BY <2>2, <2>5 DEF m
<1>9. Queue => /\ control'[x] \in ControlChannel /\ control'[x].made /\ control'[x].heard = c.heard
               /\ control'[x].queue = Append(c.queue, n)
               /\ ~control'[x].isClosed /\ ~HasListener(control'[x])
  <2> SUFFICES ASSUME Queue
               PROVE  /\ control'[x] \in ControlChannel /\ control'[x].made /\ control'[x].heard = c.heard
                      /\ control'[x].queue = Append(c.queue, n)
                      /\ ~control'[x].isClosed /\ ~HasListener(control'[x])
    OBVIOUS
  <2>1. control'[x] = [c EXCEPT !.queue = Append(@, n)]  BY <1>2, <1>4
  <2> QED
    <3> DEFINE q == Append(c.queue, n)
    <3>1. q \in Seq(R) /\ control'[x] = [c EXCEPT !.queue = q]  BY <1>7, <2>1
    <3> HIDE DEF q, Queue
    <3>2. /\ control'[x] \in ControlChannel /\ control'[x].made /\ control'[x].heard = c.heard
          /\ control'[x].queue = q
      BY ONLY <1>5, <3>1 DEF ControlChannel, R
    <3>3. ~control'[x].isClosed /\ ~HasListener(control'[x])
      <4>1. ~c.isClosed /\ ~HasListener(c)  BY DEF Queue
      <4> QED  BY ONLY <1>5, <3>1, <4>1 DEF ControlChannel, HasListener
    <3> QED  BY <3>2, <3>3 DEF q
<1>10. control' \in [Sides -> ControlChannel] /\ \A y \in Sides : y # x => control'[y] = control[y]
  BY <1>1, <1>2, <1>4, <1>8, <1>9
<1>g. /\ gone' \in [Sides -> [Channels -> SUBSET (1 .. MaxSends)]]
      /\ \A y \in Sides, ch \in Channels : gone'[y][ch] = IF Drop /\ y = Peer(x) /\ ch = CtlId THEN gone[y][ch] \cup {n} ELSE gone[y][ch]
  <2> DEFINE B == {n}
  <2>1. B \in SUBSET (1 .. MaxSends) /\ CtlId \in Channels  BY <1>2, StreamIds
  <2>2. CASE Drop
    <3> DEFINE p == Peer(x)
    <3>1. gone' = [gone EXCEPT ![p][CtlId] = @ \cup B] /\ p \in Sides  BY <1>2, <2>2
    <3> HIDE DEF B, p
    <3>2. /\ gone' \in [Sides -> [Channels -> SUBSET (1 .. MaxSends)]]
          /\ \A y \in Sides, ch \in Channels : gone'[y][ch] = IF y = p /\ ch = CtlId THEN gone[y][ch] \cup B ELSE gone[y][ch]
      BY ONLY <1>0, <2>1, <3>1, MoreGone
    <3> QED  BY <2>2, <3>2 DEF B, p
  <2>3. CASE ~Drop  BY <1>1, <2>3, <1>0 DEF MemTypeOK
  <2> QED  BY <2>2, <2>3
<1>11. MemTypeOK'  BY <1>0, <1>1, <1>10, <1>g DEF MemTypeOK
<1>12. Lines'
  <2> SUFFICES ASSUME NEW y \in Sides, NEW ch \in Channels PROVE Line(y, ch)'  BY DEF Lines
  <2>1. Waiting(y, ch)' = Waiting(y, ch) /\ sent'[y][ch] = sent[y][ch]  BY <1>1 DEF Waiting
  <2>2. CASE ~(y = Peer(x) /\ ch = CtlId)
    <3>1. Ordered(Heard(y, ch), Queued(y, ch), Tail(tasks), Waiting(y, ch), y, ch, gone[y][ch], sent[y][ch])
      BY <1>1, <1>3, <2>2, LinePopped
    <3>2. Heard(y, ch)' = Heard(y, ch) /\ Queued(y, ch)' = Queued(y, ch)
      BY <1>2, <2>2, MemPeer, <1>1, <1>10 DEF Heard, Queued
    <3>3. gone'[y][ch] = gone[y][ch]  BY <1>g, <2>2
    <3> QED  BY <1>1, <2>1, <3>1, <3>2, <3>3 DEF Line
  <2>3. CASE y = Peer(x) /\ ch = CtlId
    <3>1. /\ Heard(y, ch) = c.heard /\ Queued(y, ch) = c.queue
          /\ Heard(y, ch)' = control'[x].heard /\ Queued(y, ch)' = control'[x].queue
      BY <1>2, <1>5, <2>3 DEF Heard, Queued
    <3>2. Ordered(c.heard, c.queue, tasks, Waiting(y, ch), y, ch, gone[y][ch], sent[y][ch])
      BY OfOne, LineIs, <3>1
    <3>3. IsOf(Head(tasks), "message", y, ch) /\ Head(tasks).n \in Nat  BY <1>2, <1>3, <1>n, <2>3
    <3>4. CASE Drop
      <4>1. gone'[y][ch] = gone[y][ch] \cup {n}  BY <1>g, <2>3, <3>4
      <4>2. gone'[y][ch] = IF IsMine(Head(tasks), y, ch) THEN gone[y][ch] \cup {Head(tasks).n} ELSE gone[y][ch]
        BY <1>3, <1>n, <2>3, <4>1
      <4>3. Ordered(Heard(y, ch), Queued(y, ch), Tail(tasks), Waiting(y, ch), y, ch, gone'[y][ch], sent[y][ch])
        BY <1>1, <4>2, LinePopped
      <4>4. Heard(y, ch)' = Heard(y, ch) /\ Queued(y, ch)' = Queued(y, ch)  BY <1>5, <3>1, <3>4
      <4> QED  BY <1>1, <2>1, <4>3, <4>4 DEF Line
    <3>5. CASE Hear
      <4>1. Ordered(Append(c.heard, n), c.queue, Tail(tasks), Waiting(y, ch), y, ch, gone[y][ch], sent[y][ch])
        BY <1>1, <1>8, <1>n, <3>2, <3>3, <3>5, HeardNow
      <4>2. Heard(y, ch)' = Append(c.heard, n) /\ Queued(y, ch)' = c.queue /\ gone' = gone
        BY <1>8, <3>1, <3>5
      <4> QED  BY <1>1, <2>1, <4>1, <4>2 DEF Line
    <3>6. CASE Queue
      <4>1. Ordered(c.heard, Append(c.queue, n), Tail(tasks), Waiting(y, ch), y, ch, gone[y][ch], sent[y][ch])
        BY <1>1, <1>n, <3>2, <3>3, PoppedQueued
      <4>2. Heard(y, ch)' = c.heard /\ Queued(y, ch)' = Append(c.queue, n) /\ gone' = gone
        BY <1>9, <3>1, <3>6
      <4> QED  BY <1>1, <2>1, <4>1, <4>2 DEF Line
    <3> QED  BY <1>1, <3>4, <3>5, <3>6
  <2> QED  BY <2>2, <2>3
<1>13. Queues'
  <2> SUFFICES ASSUME NEW y \in Sides PROVE QueuesFirst(y)'  BY DEF Queues
  <2>1. QueuesFirst(y)  BY OfOne
  <2>2. CASE y # x \/ Drop  BY <1>10, <2>1, <2>2 DEF QueuesFirst
  <2>3. CASE y = x /\ Hear  BY <1>8, <2>3 DEF QueuesFirst
  <2>4. CASE y = x /\ Queue  BY <1>9, <2>4 DEF QueuesFirst
  <2> QED  BY <1>1, <2>2, <2>3, <2>4
<1>14. Pairs'
  <2> SUFFICES ASSUME NEW y \in Sides, NEW j \in Ids PROVE Together(y, j)'  BY DEF Pairs
  <2>1. Together(y, j)  BY OfOne
  <2>2. OnTheWay(y, j)' => OnTheWay(y, j)  BY <1>0, <1>1, TailOnTheWay
  <2> QED  BY <1>1, <2>1, <2>2 DEF Together, Fresh, Alone
<1>15. DownTogether'  BY <1>1 DEF DownTogether, MemIInv
<1> QED  BY <1>11, <1>12, <1>13, <1>14, <1>15 DEF MemIInv

\* The parts of the invariant that speak of control channels.
LEMMA ResumeSendKeeps ==
  ASSUME MemIInv, ResumeSend
  PROVE  MemIInv'
<1> DEFINE x == Head(tasks).at
           i == Head(tasks).id
           n == Head(tasks).n
           t == [type |-> "message", to |-> Peer(x), id |-> i, n |-> n]
           Drop == /\ gone' = [gone EXCEPT ![x][i] = @ \cup {n}]
                   /\ tasks' = Tail(tasks)
           Send == /\ tasks' = Append(Tail(tasks), t)
                   /\ gone' = gone
<1>1. /\ tasks # <<>> /\ Head(tasks).type = "resume"
      /\ UNCHANGED <<down, control, chan, waiting, sent>>
      /\ Drop \/ Send
  BY DEF ResumeSend, Task
<1>0. MemTypeOK /\ tasks \in Seq(Tasks) /\ Tail(tasks) \in Seq(Tasks) /\ Head(tasks) \in Tasks
  BY <1>1, OfOne, FirstTask
<1>2. x \in Sides /\ i \in Ids /\ i \in Channels /\ n \in 1 .. MaxSends /\ n \in Nat /\ Peer(x) \in Sides
  BY <1>0, <1>1, HeadNumber, MemPeer
<1>3. \A y, ch : /\ IsMine(Head(tasks), y, ch) <=> y = x /\ ch = i
                 /\ IsMine(Head(tasks), y, ch) => IsOf(Head(tasks), "resume", y, ch)
  BY <1>1 DEF IsMine, IsOf
<1>4. t \in Tasks /\ t.n = n
      /\ \A y \in Sides : \A ch : (IsOf(t, "message", y, ch) <=> y = x /\ ch = i) /\ ~IsOf(t, "resume", y, ch)
  BY <1>2, MemPeer DEF Tasks, IsOf
<1>n. n = Head(tasks).n  OBVIOUS
<1> HIDE DEF x, i, n, t
<1>g. /\ gone' \in [Sides -> [Channels -> SUBSET (1 .. MaxSends)]]
      /\ \A y \in Sides, ch \in Channels :
           gone'[y][ch] = gone[y][ch] \/ (Drop /\ y = x /\ ch = i /\ gone'[y][ch] = gone[y][ch] \cup {n})
      /\ Drop => gone'[x][i] = gone[x][i] \cup {n}
  <2>1. CASE Drop
    <3>1. gone' = [gone EXCEPT ![x][i] = @ \cup {n}]  BY <1>1, <2>1
    <3>2. /\ gone' \in [Sides -> [Channels -> SUBSET (1 .. MaxSends)]]
          /\ \A y \in Sides, c \in Channels : gone'[y][c] = IF y = x /\ c = i THEN gone[y][c] \cup {n} ELSE gone[y][c]
      <4>1. MemTypeOK /\ x \in Sides /\ i \in Channels /\ n \in 1 .. MaxSends  BY <1>0, <1>2
      <4> QED  BY ONLY <3>1, <4>1, OneGone
    <3> QED  BY <1>2, <2>1, <3>2
  <2>2. CASE ~Drop  BY <1>1, <2>2, <1>0 DEF MemTypeOK
  <2> QED  BY <2>1, <2>2
<1>5. MemTypeOK'
  <2>1. tasks' \in Seq(Tasks)  BY <1>0, <1>1, <1>4
  <2> QED  BY <1>0, <1>1, <1>g, <2>1 DEF MemTypeOK
<1>6. Lines'
  <2> SUFFICES ASSUME NEW y \in Sides, NEW ch \in Channels PROVE Line(y, ch)'  BY DEF Lines
  <2>1. Heard(y, ch)' = Heard(y, ch) /\ Queued(y, ch)' = Queued(y, ch)
        /\ Waiting(y, ch)' = Waiting(y, ch) /\ sent'[y][ch] = sent[y][ch]
    BY <1>1 DEF Heard, Queued, Waiting
  <2>2. CASE y = x /\ ch = i
    <3>1. CASE Drop
      <4>1. gone'[y][ch] = IF IsMine(Head(tasks), y, ch) THEN gone[y][ch] \cup {Head(tasks).n} ELSE gone[y][ch]
        BY <1>3, <1>g, <1>n, <2>2, <3>1
      <4>2. Ordered(Heard(y, ch), Queued(y, ch), Tail(tasks), Waiting(y, ch), y, ch, gone'[y][ch], sent[y][ch])
        BY <1>1, <4>1, LinePopped
      <4> QED  BY <2>1, <3>1, <4>2 DEF Line
    <3>2. CASE Send
      <4>1. Ordered(Heard(y, ch), Queued(y, ch), tasks, Waiting(y, ch), y, ch, gone[y][ch], sent[y][ch])
        BY OfOne, LineIs
      <4>2. IsOf(Head(tasks), "resume", y, ch) /\ IsOf(t, "message", y, ch) /\ t.n = Head(tasks).n /\ t.n \in Nat
        BY <1>2, <1>3, <1>4, <1>n, <2>2
      <4>3. Ordered(Heard(y, ch), Queued(y, ch), Append(Tail(tasks), t), Waiting(y, ch), y, ch, gone[y][ch], sent[y][ch])
        BY <1>1, <1>4, <4>1, <4>2, PoppedResent
      <4> QED  BY <2>1, <3>2, <4>3 DEF Line
    <3> QED  BY <1>1, <3>1, <3>2
  <2>3. CASE ~(y = x /\ ch = i)
    <3>1. Ordered(Heard(y, ch), Queued(y, ch), Tail(tasks), Waiting(y, ch), y, ch, gone[y][ch], sent[y][ch])
      BY <1>1, <1>3, <2>3, LinePopped
    <3>2. gone'[y][ch] = gone[y][ch]  BY <1>g, <2>3
    <3>3. CASE Drop  BY <2>1, <3>1, <3>2, <3>3 DEF Line
    <3>4. CASE Send
      <4> DEFINE F == <<t>>
      <4>1. F \in Seq(Tasks) /\ Append(Tail(tasks), t) = Tail(tasks) \o F
            /\ \A k \in 1 .. Len(F) : F[k] = t
        BY <1>0, <1>4
      <4>2. \A k \in 1 .. Len(F) : ~IsOf(F[k], "message", y, ch) /\ ~IsOf(F[k], "resume", y, ch)
        BY <1>4, <2>3, <4>1
      <4> HIDE DEF F
      <4>3. Ordered(Heard(y, ch), Queued(y, ch), Tail(tasks) \o F, Waiting(y, ch), y, ch, gone[y][ch], sent[y][ch])
        BY <3>1, <4>1, <4>2, OthersSent
      <4> QED  BY <2>1, <3>2, <3>4, <4>1, <4>3 DEF Line
    <3> QED  BY <1>1, <3>3, <3>4
  <2> QED  BY <2>2, <2>3
<1>7. Queues' /\ DownTogether'  BY <1>1, ControlSame
<1>8. Pairs'
  <2> SUFFICES ASSUME NEW y \in Sides, NEW j \in Ids PROVE Together(y, j)'  BY DEF Pairs
  <2>1. Together(y, j) /\ Peer(y) \in Sides /\ j \in Channels  BY OfOne, MemPeer, StreamIds
  <2>2. OnTheWay(y, j)' => OnTheWay(y, j)
    <3> SUFFICES ASSUME OnTheWay(y, j)' PROVE OnTheWay(y, j)  OBVIOUS
    <3>1. CASE Drop  BY <1>0, <1>1, <3>1, TailOnTheWay
    <3>2. CASE Send
      <4> DEFINE F == <<t>>
      <4>1. F \in Seq(Tasks) /\ tasks' = Tail(tasks) \o F /\ \A k \in 1 .. Len(F) : F[k] = t
        BY <1>0, <1>4, <3>2
      <4> HIDE DEF F
      <4>2. (\E k \in 1 .. Len(Tail(tasks)) : IsMine(Tail(tasks)[k], y, j)) \/ \E k \in 1 .. Len(F) : IsMine(F[k], y, j)
        BY <1>0, <4>1, MoreOnTheWay
      <4>3. (\E k \in 1 .. Len(Tail(tasks)) : IsMine(Tail(tasks)[k], y, j)) \/ IsMine(t, y, j)  BY <4>1, <4>2
      <4>4. IsMine(t, y, j) => IsMine(Head(tasks), y, j)  BY <1>3, <1>4 DEF IsMine
      <4> QED  BY <1>0, <1>1, <4>3, <4>4, FirstTask
    <3> QED  BY <1>1, <3>1, <3>2
  <2> QED  BY <1>1, <2>1, <2>2 DEF Together, Fresh, Alone
<1> QED  BY <1>5, <1>6, <1>7, <1>8 DEF MemIInv

Delivered(c, n) == IF c.isClosed THEN c ELSE Emitted(c, n)

\* What a message does to the channel it comes to.
LEMMA DeliveredIs ==
  ASSUME NEW c \in StreamChannel, NEW n \in 1 .. MaxSends
  PROVE  /\ Delivered(c, n) \in StreamChannel
         /\ (Delivered(c, n).known <=> c.known) /\ (Delivered(c, n).isClosed <=> c.isClosed)
         /\ (Delivered(c, n).linked <=> c.linked) /\ Delivered(c, n).early = c.early
         /\ (HasListener(Delivered(c, n)) <=> HasListener(c))
         /\ Delivered(c, n).heard = IF ~c.isClosed /\ Hears(c) THEN Append(c.heard, n) ELSE c.heard
<1>1. CASE ~(~c.isClosed /\ Hears(c))  BY <1>1 DEF Delivered, Emitted
<1>2. CASE ~c.isClosed /\ Hears(c)
  <2> DEFINE R == 1 .. MaxSends
             l == IF c.listener = "once" THEN "spent" ELSE c.listener
             m == Append(c.heard, n)
             D == [c EXCEPT !.heard = m, !.listener = l]
  <2>1. Delivered(c, n) = D  BY <1>2 DEF Delivered, Emitted
  <2>2. c.heard \in Seq(R) /\ n \in R  BY DEF StreamChannel
  <2>3. m \in Seq(R)
    <3> HIDE DEF R
    <3> QED  BY <2>2
  <2>4. l \in Listeners /\ l # "none" /\ c.listener # "none"  BY <1>2 DEF StreamChannel, Listeners, Hears
  <2> HIDE DEF l, m
  <2>5. /\ D \in StreamChannel
        /\ (D.known <=> c.known) /\ (D.isClosed <=> c.isClosed)
        /\ (D.linked <=> c.linked) /\ D.early = c.early
        /\ D.listener = l /\ D.heard = m
    BY <2>3, <2>4 DEF StreamChannel
  <2> HIDE DEF D
  <2> QED  BY <1>2, <2>1, <2>4, <2>5 DEF HasListener, m
<1> QED  BY <1>1, <1>2

\* The channel after a message came for it, made again when it was not there.
LEMMA ReachedIs ==
  ASSUME MemTypeOK, NEW x \in Sides, NEW i \in Ids, NEW n \in 1 .. MaxSends,
         NEW kind \in Answers, NEW closes \in BOOLEAN,
         ~chan[x][i].known => ~Usable(chan[x][i]),
         NEW o, o = Obtained(chan[x][i], kind, closes), NEW d, d = Delivered(o, n)
  PROVE  /\ d \in StreamChannel /\ d.known /\ (Usable(d) <=> Usable(chan[x][i]))
         /\ chan[x][i].known => (IsReady(d) <=> IsReady(chan[x][i])) /\ d.early = chan[x][i].early /\ d.isClosed = chan[x][i].isClosed
         /\ ~chan[x][i].known => (d.early => d.isClosed)
         /\ d.heard = IF ~o.isClosed /\ Hears(o) THEN Append(chan[x][i].heard, n) ELSE chan[x][i].heard
<1> DEFINE c == chan[x][i]
<1>1. c \in StreamChannel  BY MemTypes
<1> HIDE DEF c
<1>2. /\ o \in StreamChannel /\ o.heard = c.heard
      /\ c.known => o = c
      /\ ~c.known => o.known /\ ~o.linked /\ o.isClosed = closes /\ o.early = closes
  BY <1>1, ObtainedIs DEF c
<1>3. /\ d \in StreamChannel
      /\ (d.known <=> o.known) /\ (d.isClosed <=> o.isClosed)
      /\ (d.linked <=> o.linked) /\ d.early = o.early
      /\ (HasListener(d) <=> HasListener(o))
      /\ d.heard = IF ~o.isClosed /\ Hears(o) THEN Append(o.heard, n) ELSE o.heard
  BY <1>2, DeliveredIs
<1>4. d.isClosed \in BOOLEAN /\ o.isClosed \in BOOLEAN  BY <1>2, <1>3 DEF StreamChannel
<1>5. ~c.known => ~Usable(c)  BY DEF c
<1>6. CASE c.known  BY <1>2, <1>3, <1>4, <1>6 DEF c, IsReady, Usable
<1>7. CASE ~c.known  BY <1>2, <1>3, <1>4, <1>5, <1>7 DEF c, Usable
<1> QED  BY <1>6, <1>7

LEMMA ReceiveDataKeeps ==
  ASSUME MemIInv, NEW kind \in Answers, NEW closes \in BOOLEAN, ReceiveData(kind, closes)
  PROVE  MemIInv'
<1> DEFINE x == Head(tasks).to
           i == Head(tasks).id
           n == Head(tasks).n
           p == Peer(x)
           o == Obtained(chan[x][i], kind, closes)
           d == Delivered(o, n)
           Hear == ~down[x] /\ ~o.isClosed /\ Hears(o)
<1>1. /\ tasks # <<>> /\ Head(tasks).type = "message" /\ Head(tasks).id # CtlId /\ tasks' = Tail(tasks)
      /\ UNCHANGED <<down, control, waiting, sent>>
      /\ chan' = IF down[x] THEN chan ELSE [chan EXCEPT ![x][i] = d]
      /\ gone' = IF Hear THEN gone ELSE [gone EXCEPT ![p][i] = @ \cup {n}]
  BY DEF ReceiveData, Task, Delivered
<1>0. MemTypeOK /\ tasks \in Seq(Tasks) /\ Tail(tasks) \in Seq(Tasks) /\ Head(tasks) \in Tasks
  BY <1>1, OfOne, FirstTask
<1>2. /\ x \in Sides /\ p \in Sides /\ p # x /\ Peer(p) = x /\ i \in Channels /\ i # CtlId
      /\ n \in 1 .. MaxSends /\ n \in Nat
  BY <1>0, <1>1, HeadNumber, MemPeer
<1>i. i \in Ids  BY <1>2 DEF Channels
<1>3. \A y \in Sides : \A ch : /\ IsMine(Head(tasks), y, ch) <=> y = p /\ ch = i
                               /\ IsMine(Head(tasks), y, ch) => IsOf(Head(tasks), "message", y, ch)
  BY <1>1, <1>2, MemPeer DEF IsMine, IsOf
<1>n. n = Head(tasks).n  OBVIOUS
<1>5. Together(x, i) /\ Together(p, i) /\ OnTheWay(p, i) /\ ~Fresh(OpenerOf[i], i)
  <2>1. Together(x, i) /\ Together(p, i)  BY <1>2, <1>i, OfOne
  <2>2. OnTheWay(p, i)  BY <1>0, <1>1, <1>2, <1>3, FirstTask
  <2> QED  BY <2>1, <2>2 DEF Together
<1>d. o = Obtained(chan[x][i], kind, closes) /\ d = Delivered(o, n)  OBVIOUS
<1> HIDE DEF x, i, n, p, o, d
<1>7. ~chan[x][i].known => ~Usable(chan[x][i])  BY <1>5 DEF Together
<1>8. /\ d \in StreamChannel /\ d.known /\ (Usable(d) <=> Usable(chan[x][i]))
      /\ chan[x][i].known => (IsReady(d) <=> IsReady(chan[x][i])) /\ d.early = chan[x][i].early /\ d.isClosed = chan[x][i].isClosed
      /\ ~chan[x][i].known => (d.early => d.isClosed)
      /\ d.heard = IF ~o.isClosed /\ Hears(o) THEN Append(chan[x][i].heard, n) ELSE chan[x][i].heard
  BY <1>0, <1>2, <1>7, <1>d, <1>i, ReachedIs
<1>9. /\ chan' \in [Sides -> [Ids -> StreamChannel]]
      /\ \A z \in Sides, j \in Ids : chan'[z][j] = IF ~down[x] /\ z = x /\ j = i THEN d ELSE chan[z][j]
  BY <1>0, <1>1, <1>2, <1>i, <1>8 DEF MemTypeOK
<1>g. /\ gone' \in [Sides -> [Channels -> SUBSET (1 .. MaxSends)]]
      /\ \A y \in Sides, ch \in Channels : gone'[y][ch] = IF ~Hear /\ y = p /\ ch = i THEN gone[y][ch] \cup {n} ELSE gone[y][ch]
  <2>1. CASE ~Hear
    <3>1. gone' = [gone EXCEPT ![p][i] = @ \cup {n}]  BY <1>1, <2>1
    <3>2. /\ gone' \in [Sides -> [Channels -> SUBSET (1 .. MaxSends)]]
          /\ \A y \in Sides, c \in Channels : gone'[y][c] = IF y = p /\ c = i THEN gone[y][c] \cup {n} ELSE gone[y][c]
        <4>1. MemTypeOK /\ p \in Sides /\ i \in Channels /\ n \in 1 .. MaxSends  BY <1>0, <1>2
        <4> QED  BY ONLY <3>1, <4>1, OneGone
    <3> QED  BY <2>1, <3>2
  <2>2. CASE Hear  BY <1>1, <2>2, <1>0 DEF MemTypeOK
  <2> QED  BY <2>1, <2>2
<1>10. MemTypeOK'  BY <1>0, <1>1, <1>9, <1>g DEF MemTypeOK
<1>h. \A z \in Sides, j \in Ids :
        chan'[z][j].heard = IF Hear /\ z = x /\ j = i THEN Append(chan[z][j].heard, n) ELSE chan[z][j].heard
  BY <1>8, <1>9
<1> HIDE DEF Hear
<1>11. Lines'
  <2> SUFFICES ASSUME NEW y \in Sides, NEW ch \in Channels PROVE Line(y, ch)'  BY DEF Lines
  <2>1. Waiting(y, ch)' = Waiting(y, ch) /\ sent'[y][ch] = sent[y][ch] /\ Queued(y, ch)' = Queued(y, ch)
    BY <1>1 DEF Waiting, Queued
  <2>2. CASE ~(Hear /\ y = p /\ ch = i)
    <3>1. gone'[y][ch] = IF IsMine(Head(tasks), y, ch) THEN gone[y][ch] \cup {Head(tasks).n} ELSE gone[y][ch]
      BY <1>3, <1>g, <1>n, <2>2
    <3>2. Ordered(Heard(y, ch), Queued(y, ch), Tail(tasks), Waiting(y, ch), y, ch, gone'[y][ch], sent[y][ch])
      BY <1>1, <3>1, LinePopped
    <3>3. Heard(y, ch)' = Heard(y, ch)  BY <1>2, MemPeer, <1>1, <1>h, <2>2 DEF Heard, Channels
    <3> QED  BY <1>1, <2>1, <3>2, <3>3 DEF Line
  <2>3. CASE Hear /\ y = p /\ ch = i
    <3>1. Heard(y, ch)' = Append(Heard(y, ch), n) /\ Queued(y, ch) = <<>>
      BY <1>2, <1>h, <1>i, <2>3 DEF Heard, Queued
    <3>2. Ordered(Heard(y, ch), Queued(y, ch), tasks, Waiting(y, ch), y, ch, gone[y][ch], sent[y][ch])
      BY OfOne, LineIs
    <3>3. IsOf(Head(tasks), "message", y, ch) /\ Head(tasks).n \in Nat  BY <1>2, <1>3, <1>n, <2>3
    <3>4. Ordered(Append(Heard(y, ch), n), Queued(y, ch), Tail(tasks), Waiting(y, ch), y, ch, gone[y][ch], sent[y][ch])
      BY <1>1, <1>n, <3>1, <3>2, <3>3, HeardNow
    <3>5. gone'[y][ch] = gone[y][ch]  BY <1>g, <2>3
    <3> QED  BY <1>1, <2>1, <3>1, <3>4, <3>5 DEF Line
  <2> QED  BY <2>2, <2>3
<1>12. Queues' /\ DownTogether'  BY <1>1, ControlSame
<1>13. ASSUME NEW z \in Sides, NEW j \in Ids
       PROVE  /\ Usable(chan'[z][j]) <=> Usable(chan[z][j])
              /\ chan[z][j].known => /\ chan'[z][j].known /\ (IsReady(chan'[z][j]) <=> IsReady(chan[z][j]))
                                     /\ chan'[z][j].early = chan[z][j].early /\ chan'[z][j].isClosed = chan[z][j].isClosed
              /\ ~chan[z][j].known /\ chan'[z][j].known /\ chan'[z][j].early => chan'[z][j].isClosed
              /\ Fresh(z, j)' => Fresh(z, j) /\ chan'[z][j] = chan[z][j]
              /\ j # i => (Fresh(z, j)' <=> Fresh(z, j))
              /\ down[z] => chan'[z][j] = chan[z][j]
  <2>1. CASE z = x /\ j = i /\ ~down[x]  BY <1>9, <2>1, <1>8 DEF Fresh
  <2>2. CASE ~(z = x /\ j = i /\ ~down[x])  BY <1>9, <2>2 DEF Fresh
  <2> QED  BY <2>1, <2>2
<1>15. Pairs'
  <2> SUFFICES ASSUME NEW y \in Sides, NEW j \in Ids PROVE Together(y, j)'  BY DEF Pairs
  <2>1. Together(y, j) /\ Peer(y) \in Sides /\ OpenerOf[j] \in Sides  BY OfOne, MemPeer, StreamIds
  <2>2. OnTheWay(y, j)' => OnTheWay(y, j)  BY <1>0, <1>1, TailOnTheWay
  <2>3. Usable(chan'[y][j]) => chan'[y][j].known /\ chan'[Peer(y)][j].known /\ (Usable(chan'[Peer(y)][j]) \/ Alone(y, j)')
    BY <1>13, <2>1 DEF Together, Alone
  <2>4. waiting'[y][j] # <<>> => Usable(chan'[y][j]) /\ ~IsReady(chan'[Peer(y)][j])
    BY <1>1, <1>13, <2>1 DEF Together
  <2>5. down'[y] => ~chan'[y][j].known /\ waiting'[y][j] = <<>>  BY <1>1, <1>13, <2>1 DEF Together
  <2>6. Fresh(y, j)' => chan'[y][j] = NoStream  BY <1>13, <2>1 DEF Together
  <2>7. Usable(chan'[y][j]) /\ OnTheWay(y, j)' => IsReady(chan'[Peer(y)][j])
    BY <1>13, <2>1, <2>2 DEF Together
  <2>8. Fresh(OpenerOf[j], j)' => Fresh(y, j)' /\ ~OnTheWay(y, j)'  BY <1>5, <1>13, <2>1, <2>2 DEF Together
  <2>9. chan'[y][j].known /\ chan'[y][j].early => chan'[y][j].isClosed  BY <1>13, <2>1 DEF Together
  <2> QED  BY <2>3, <2>4, <2>5, <2>6, <2>7, <2>8, <2>9 DEF Together
<1> QED  BY <1>10, <1>11, <1>12, <1>15 DEF MemIInv

-----------------------------------------------------------------------------
(* The memory transport keeps the order, and drops only what nobody can hear. *)

\* The line of a control channel that is destroyed: nobody hears what is queued.
LEMMA QueueIsGone ==
  ASSUME NEW h, NEW q \in Seq(1 .. MaxSends), NEW ts, NEW w, NEW x, NEW ch, NEW G, NEW N, Ordered(h, q, ts, w, x, ch, G, N),
         NEW e, e = <<>>
  PROVE  Ordered(h, e, ts, w, x, ch, G \cup ToSet(q), N)
<1> DEFINE R == 1 .. MaxSends
           B == ToSet(q)
           a == <<>>
<1>1. h \in Seq(Nat) /\ q \in Seq(Nat)  BY DEF Ordered
<1>2. a \in Seq(Nat) /\ q = a \o q /\ h \o a = h /\ e \in Seq(Nat) /\ Len(e) = 0  BY <1>1
<1>3. /\ \A n \in B : \E k \in Nat : k \in 1 .. Len(q) /\ n = q[k]
      /\ \A k \in Nat : k \in 1 .. Len(q) => q[k] \in B
  BY DEF ToSet
<1>4. Ordered(h, q, ts, w, x, ch, G, N)  OBVIOUS
<1> HIDE DEF a, B
<1>5. Ordered(h \o a, e, ts, w, x, ch, G \cup B, N)  BY ONLY <1>1, <1>2, <1>3, <1>4, Flushed
<1> QED  BY <1>2, <1>5 DEF B

LEMMA DestroyKeeps ==
  ASSUME MemIInv, Destroy
  PROVE  MemIInv'
<1> DEFINE ts == Tail(tasks)
           missed(x) == ToSet(control[Peer(x)].queue)
<1>1. /\ tasks # <<>> /\ Head(tasks).type = "destroy"
      /\ down' = [x \in Sides |-> TRUE]
      /\ control' = [x \in Sides |-> [control[x] EXCEPT !.isClosed = TRUE, !.queue = <<>>]]
      /\ EndsClosed(Ids, ts)
      /\ gone' = [x \in Sides |-> [gone[x] EXCEPT ![CtlId] = @ \cup missed(x)]]
      /\ sent' = sent
  <2> DEFINE Remaining == EndsClosed(Ids, ts)
  <2>1. /\ tasks # <<>> /\ Head(tasks).type = "destroy"
        /\ down' = [x \in Sides |-> TRUE]
        /\ control' = [x \in Sides |-> [control[x] EXCEPT !.isClosed = TRUE, !.queue = <<>>]]
        /\ Remaining
        /\ gone' = [x \in Sides |-> [gone[x] EXCEPT ![CtlId] = @ \cup missed(x)]]
        /\ sent' = sent
    BY DEF Destroy, Task
  <2> QED  BY <2>1
<1>0. MemTypeOK /\ tasks \in Seq(Tasks) /\ ts \in Seq(Tasks) /\ Ids \in SUBSET Ids  BY <1>1, OfOne, FirstTask
<1>2. \A y \in Sides : \A ch : ~IsMine(Head(tasks), y, ch)  BY <1>1 DEF IsMine, IsOf
<1>3. \A x \in Sides : control[x] \in ControlChannel /\ control[x].queue \in Seq(1 .. MaxSends)
  BY <1>0, MemTypes DEF ControlChannel
<1>4. ASSUME NEW x \in Sides
      PROVE  /\ control'[x] \in ControlChannel /\ control'[x].made = control[x].made
             /\ control'[x].heard = control[x].heard /\ control'[x].queue = <<>>
  <2>1. control'[x] = [control[x] EXCEPT !.isClosed = TRUE, !.queue = <<>>]  BY <1>1
  <2>2. <<>> \in Seq(1 .. MaxSends)  OBVIOUS
  <2> QED  BY <1>3, <2>1, <2>2 DEF ControlChannel
<1>5. \A x \in Sides : missed(x) \in SUBSET (1 .. MaxSends)
  <2> SUFFICES ASSUME NEW x \in Sides PROVE ToSet(control[Peer(x)].queue) \in SUBSET (1 .. MaxSends)  OBVIOUS
  <2> DEFINE q == control[Peer(x)].queue
             R == 1 .. MaxSends
  <2>1. q \in Seq(R)  BY <1>3, MemPeer
  <2> HIDE DEF q, R
  <2>2. DOMAIN q = 1 .. Len(q) /\ \A k \in 1 .. Len(q) : q[k] \in R  BY <2>1
  <2>3. ToSet(q) \in SUBSET R  BY <2>2 DEF ToSet
  <2> QED  BY <2>3 DEF q, R
<1>6. CtlId \in Channels /\ CtlId \notin Ids  BY StreamIds
<1> HIDE DEF missed
<1>7. /\ gone' \in [Sides -> [Channels -> SUBSET (1 .. MaxSends)]]
      /\ \A x \in Sides, ch \in Channels : gone'[x][ch] = IF ch = CtlId THEN gone[x][ch] \cup missed(x) ELSE gone[x][ch]
  <2> DEFINE R == 1 .. MaxSends
             g(x) == [gone[x] EXCEPT ![CtlId] = @ \cup missed(x)]
  <2>1. gone \in [Sides -> [Channels -> SUBSET R]] /\ \A x \in Sides : missed(x) \in SUBSET R
    BY <1>0, <1>5 DEF MemTypeOK
  <2> HIDE DEF R
  <2>2. ASSUME NEW x \in Sides
        PROVE  /\ g(x) \in [Channels -> SUBSET R]
               /\ \A ch \in Channels : g(x)[ch] = IF ch = CtlId THEN gone[x][ch] \cup missed(x) ELSE gone[x][ch]
    BY <1>6, <2>1
  <2>3. gone' = [x \in Sides |-> g(x)]  BY <1>1
  <2> HIDE DEF g
  <2>4. gone' \in [Sides -> [Channels -> SUBSET R]] /\ \A x \in Sides : gone'[x] = g(x)  BY <2>2, <2>3
  <2>5. \A x \in Sides, ch \in Channels : gone'[x][ch] = IF ch = CtlId THEN gone[x][ch] \cup missed(x) ELSE gone[x][ch]
    BY <2>2, <2>4
  <2> QED  BY <2>4, <2>5 DEF R
<1> HIDE DEF ts
<1>8. /\ chan' \in [Sides -> [Ids -> StreamChannel]]
      /\ waiting' \in [Sides -> [Ids -> Seq(1 .. MaxSends)]]
      /\ tasks' \in Seq(Tasks)
      /\ \A y \in Sides, j \in Ids : chan'[y][j].heard = chan[y][j].heard
  <2> DEFINE closed == Ids
  <2>0. closed \in SUBSET Ids /\ EndsClosed(closed, ts)  BY <1>1
  <2> HIDE DEF closed
  <2>1. /\ chan' \in [Sides -> [Ids -> StreamChannel]]
        /\ waiting' \in [Sides -> [Ids -> Seq(1 .. MaxSends)]]
        /\ tasks' \in Seq(Tasks) /\ tasks' = ts \o AllResumes(closed)
        /\ \A x \in Sides, i \in Ids :
              /\ chan'[x][i].heard = chan[x][i].heard
              /\ waiting'[x][i] = IF i \in closed THEN <<>> ELSE waiting[x][i]
              /\ i \notin closed \/ ~chan[x][i].known => chan'[x][i] = chan[x][i]
              /\ i \in closed => ~chan'[x][i].known
              /\ i \in closed /\ chan[x][i].known => chan'[x][i].isClosed
    BY <1>0, <2>0, EndsClosedIs
  <2> QED  BY <2>1
<1>9. MemTypeOK'  BY <1>1, <1>4, <1>0, <1>7, <1>8 DEF MemTypeOK
<1>10. Lines'
  <2> SUFFICES ASSUME NEW y \in Sides, NEW ch \in Channels PROVE Line(y, ch)'  BY DEF Lines
  <2> DEFINE G2 == gone[y][ch]
  <2>1. G2 = IF IsMine(Head(tasks), y, ch) THEN gone[y][ch] \cup {Head(tasks).n} ELSE gone[y][ch]  BY <1>2
  <2>2. Ordered(Heard(y, ch), Queued(y, ch), ts, Waiting(y, ch), y, ch, G2, sent[y][ch])
    <3> HIDE DEF G2
    <3> QED  BY <1>1, <2>1, LinePopped DEF ts
  <2>3. Ordered(Heard(y, ch), Queued(y, ch), tasks', Waiting(y, ch)', y, ch, gone[y][ch], sent[y][ch])
    <3> DEFINE closed == Ids
    <3>0. closed \in SUBSET Ids /\ EndsClosed(closed, ts)  BY <1>1
    <3> HIDE DEF closed
    <3> QED  BY <1>0, <2>2, <3>0, ClosedLine
  <2>4. Heard(y, ch)' = Heard(y, ch)  BY <1>4, <1>8, MemPeer DEF Heard, Channels
  <2>5. CASE ch = CtlId
    <3>1. Queued(y, ch) = control[Peer(y)].queue /\ Queued(y, ch)' = <<>> /\ control[Peer(y)].queue \in Seq(1 .. MaxSends)
      BY <1>3, <1>4, <2>5, MemPeer DEF Queued
    <3> DEFINE q == control[Peer(y)].queue
               e == <<>>
    <3>2. Ordered(Heard(y, ch), q, tasks', Waiting(y, ch)', y, ch, gone[y][ch], sent[y][ch]) /\ e = <<>> /\ q \in Seq(1 .. MaxSends)
      BY <2>3, <3>1
    <3>q. q = control[Peer(y)].queue  OBVIOUS
    <3> HIDE DEF q, e
    <3>3. Ordered(Heard(y, ch), e, tasks', Waiting(y, ch)', y, ch, gone[y][ch] \cup ToSet(q), sent[y][ch])
      BY <3>2, QueueIsGone
    <3>4. gone'[y][ch] = gone[y][ch] \cup ToSet(q)  BY <1>7, <2>5, <3>q DEF missed
    <3> QED  BY <1>1, <2>4, <3>1, <3>2, <3>3, <3>4 DEF Line
  <2>6. CASE ch # CtlId  BY <1>7, <2>6, <1>1, <2>3, <2>4 DEF Queued, Line
  <2> QED  BY <2>5, <2>6
<1>11. Queues'
  <2> SUFFICES ASSUME NEW y \in Sides PROVE QueuesFirst(y)'  BY DEF Queues
  <2> QED  BY <1>4, OfOne DEF QueuesFirst
<1>12. DownTogether'  BY <1>1 DEF DownTogether
<1>13. Pairs'
  <2>1. \A y, j : (\E k \in 1 .. Len(ts) : IsMine(ts[k], y, j)) => OnTheWay(y, j)
    BY <1>0, <1>1, FirstTask DEF ts
  <2> DEFINE closed == Ids
  <2>3. closed \in SUBSET Ids /\ EndsClosed(closed, ts) /\ (down' = down \/ closed = Ids)  BY <1>1
  <2> HIDE DEF closed
  <2> QED  BY <1>0, <2>1, <2>3, ClosedPairs
<1> QED  BY <1>9, <1>10, <1>11, <1>12, <1>13 DEF MemIInv

LEMMA MemInitHolds ==
  ASSUME MemInit
  PROVE  MemIInv
<1>0. /\ \A x \in Sides : ~down[x] /\ control[x] = NoControl
      /\ \A x \in Sides, i \in Ids : chan[x][i] = NoStream /\ waiting[x][i] = <<>>
      /\ tasks = <<>>
      /\ \A x \in Sides, ch \in Channels : sent[x][ch] = 0 /\ gone[x][ch] = {}
  BY DEF MemInit
<1>1. NoControl \in ControlChannel /\ NoControl.heard = <<>> /\ NoControl.queue = <<>>
  <2>1. <<>> \in Seq(1 .. MaxSends)  OBVIOUS
  <2> QED  BY <2>1 DEF NoControl, NewControl, ControlChannel, Listeners
<1>2. MemTypeOK
  <2>1. <<>> \in Seq(1 .. MaxSends) /\ <<>> \in Seq(Tasks) /\ 0 \in 0 .. MaxSends /\ {} \in SUBSET (1 .. MaxSends)
    BY MemAssumption
  <2> QED  BY <1>1, <2>1, NoStreamIs DEF MemTypeOK, MemInit
<1>3. Lines
  <2> SUFFICES ASSUME NEW y \in Sides, NEW ch \in Channels PROVE Line(y, ch)  BY DEF Lines
  <2> DEFINE e == <<>>
  <2>1. Heard(y, ch) = e /\ Queued(y, ch) = e /\ Waiting(y, ch) = e /\ tasks = e /\ gone[y][ch] = {} /\ sent[y][ch] = 0
    BY <1>0, <1>1, NoStreamIs, MemPeer DEF Heard, Queued, Waiting, Channels
  <2>2. e \in Seq(Nat) /\ e \in Seq(Tasks) /\ Len(e) = 0  OBVIOUS
  <2> HIDE DEF e
  <2>3. \A s, k, n \in Nat : ~Has(e, e, e, e, y, ch, s, k, n)  BY <2>2 DEF Has
  <2>4. Ordered(e, e, e, e, y, ch, {}, 0)  BY <2>2, <2>3 DEF Ordered
  <2> QED  BY <2>1, <2>4 DEF Line
<1>4. Queues  BY <1>0, <1>1 DEF Queues, QueuesFirst
<1>5. DownTogether  BY DEF DownTogether, MemInit
<1>6. Pairs
  <2> SUFFICES ASSUME NEW y \in Sides, NEW j \in Ids PROVE Together(y, j)  BY DEF Pairs
  <2>1. chan[y][j] = NoStream /\ chan[Peer(y)][j] = NoStream /\ chan[OpenerOf[j]][j] = NoStream
    BY <1>0, MemPeer, StreamIds
  <2>2. ~OnTheWay(y, j)  BY <1>0 DEF OnTheWay
  <2> QED  BY <1>0, <2>1, <2>2, NoStreamIs DEF Together, Fresh, Usable
<1> QED  BY <1>2, <1>3, <1>4, <1>5, <1>6 DEF MemIInv

LEMMA MemStepKeeps ==
  ASSUME MemIInv, [ControlProgram \/ StreamProgram \/ Microtask \/ Closing]_mvars
  PROVE  MemIInv'
<1>1. CASE UNCHANGED mvars
  <2>1. UNCHANGED <<down, control, chan, waiting, tasks, sent, gone>>  BY <1>1 DEF mvars
  <2>2. MemTypeOK'  BY <2>1, OfOne DEF MemTypeOK
  <2>3. ASSUME NEW x \in Sides, NEW ch \in Channels PROVE Line(x, ch)'
    BY <2>1, OfOne, SameLine DEF Heard, Queued, Waiting
  <2>4. Pairs' /\ DownTogether'  BY <2>1, SamePairs
  <2>5. Queues'  BY <2>1, ControlSame
  <2> QED  BY <2>2, <2>3, <2>4, <2>5 DEF MemIInv, Lines
<1>2. CASE ControlProgram
  <2>1. PICK x \in Sides : \/ GetControl(x) \/ SendControl(x) \/ CloseControl(x)
                           \/ \E kind \in {"on", "once"} : OnMessage(x, kind)
    BY <1>2 DEF ControlProgram
  <2> QED  BY <2>1, GetControlKeeps, SendControlKeeps, CloseControlKeeps, OnMessageKeeps
<1>3. CASE StreamProgram
  <2>1. CASE \E i \in Ids, kind \in Answers, closes, sends \in BOOLEAN : OpenOutgoing(i, kind, closes, sends)
    BY <2>1, OpenOutgoingKeeps
  <2>2. CASE \E x \in Sides, i \in Ids : \/ SendData(x, i) \/ CloseStream(x, i)
                                         \/ \E kind \in {"on", "once"} : OnData(x, i, kind)
    BY <2>2, SendDataKeeps, CloseStreamKeeps, OnDataKeeps
  <2> QED  BY <1>3, <2>1, <2>2 DEF StreamProgram
<1>4. CASE Microtask
  BY <1>4, ReceiveControlKeeps, ReceiveDataKeeps, ResumeSendKeeps, DestroyKeeps DEF Microtask
<1>5. CASE Closing  BY <1>5, CloseTransportKeeps DEF Closing
<1> QED  BY <1>1, <1>2, <1>3, <1>4, <1>5

LEMMA PairsAgree ==
  ASSUME MemIInv
  PROVE  MemEndsAgree
  BY OfOne DEF MemEndsAgree, Together, Alone

THEOREM MemAlways == MemSpec => []MemIInv
BY MemInitHolds, MemStepKeeps, PTL DEF MemSpec

THEOREM MemOrder == MemSpec => [](MemEndsAgree /\ MemKeepsOrder)
BY PairsAgree, LinesKeepOrder, MemAlways, PTL DEF MemIInv

\* Whom a step may take a message from: those it was refused to, or whose peer had one listener for one message.
MayDrop(x, ch) ==
    IF ch = CtlId
    THEN \/ control'[x].isClosed \/ control'[Peer(x)].isClosed \/ down[Peer(x)]
         \/ control'[Peer(x)].listener = "spent"
    ELSE \/ ~Usable(chan[x][ch]) \/ chan[Peer(x)][ch].listener = "spent"
         \/ x = OpenerOf[ch] /\ chan[Peer(x)][ch].early

DropsFew == \A x \in Sides, ch \in Channels : gone'[x][ch] # gone[x][ch] => MayDrop(x, ch)

LEMMA ControlDropsFew ==
  ASSUME MemIInv, ControlProgram
  PROVE  DropsFew
<1>0. MemTypeOK /\ gone \in [Sides -> [Channels -> SUBSET (1 .. MaxSends)]] /\ control \in [Sides -> ControlChannel]
  BY OfOne DEF MemTypeOK
<1>p. PICK x \in Sides : \/ GetControl(x) \/ SendControl(x) \/ CloseControl(x)
                         \/ \E kind \in {"on", "once"} : OnMessage(x, kind)
  BY DEF ControlProgram
<1> SUFFICES ASSUME NEW y \in Sides, NEW ch \in Channels, gone'[y][ch] # gone[y][ch] PROVE MayDrop(y, ch)
  BY DEF DropsFew
<1>1. CASE GetControl(x)  BY <1>1 DEF GetControl
<1>2. CASE SendControl(x)  BY <1>2, <1>0 DEF SendControl, MayDrop
<1>3. CASE CloseControl(x)  BY <1>3, <1>0, MemPeer DEF CloseControl, ControlChannel, MayDrop
<1>4. CASE \E kind \in {"on", "once"} : OnMessage(x, kind)
  <2>1. PICK kind \in {"on", "once"} : OnMessage(x, kind)  BY <1>4
  <2>2. /\ control' = [control EXCEPT ![x] = SetControlListener(@, kind)]
        /\ gone' = [gone EXCEPT ![Peer(x)][CtlId] = @ \cup FlushedToNobody(control[x], kind)]
    BY <2>1 DEF OnMessage
  <2>3. y = Peer(x) /\ ch = CtlId /\ Peer(y) = x  BY <1>0, <2>2, MemPeer
  <2>4. gone'[y][ch] = gone[y][ch] \cup FlushedToNobody(control[x], kind)  BY <1>0, <2>2, <2>3
  <2>5. kind = "once" /\ control[x].queue # <<>>  BY <2>4 DEF FlushedToNobody
  <2>6. control'[x] = SetControlListener(control[x], kind) /\ control[x] \in ControlChannel  BY <1>0, <2>2
  <2>7. control'[x].listener = "spent"  BY <2>5, <2>6 DEF SetControlListener, ControlChannel
  <2> QED  BY <2>3, <2>7 DEF MayDrop
<1> QED  BY <1>1, <1>2, <1>3, <1>4, <1>p

LEMMA StreamDropsFew ==
  ASSUME MemIInv, StreamProgram
  PROVE  DropsFew
<1>0. MemTypeOK /\ gone \in [Sides -> [Channels -> SUBSET (1 .. MaxSends)]]  BY OfOne DEF MemTypeOK
<1> SUFFICES ASSUME NEW y \in Sides, NEW ch \in Channels, gone'[y][ch] # gone[y][ch] PROVE MayDrop(y, ch)
  BY DEF DropsFew
<1>1. CASE \E x \in Sides, i \in Ids : SendData(x, i)
  <2>1. PICK x \in Sides, i \in Ids : SendData(x, i)  BY <1>1
  <2>2. ~Usable(chan[x][i]) /\ gone' = [gone EXCEPT ![x][i] = @ \cup {sent[x][i] + 1}]  BY <2>1 DEF SendData
  <2>3. y = x /\ ch = i /\ ch # CtlId  BY <1>0, <2>2, StreamIds
  <2> QED  BY <2>2, <2>3 DEF MayDrop
<1>2. CASE \E i \in Ids, kind \in Answers, closes, sends \in BOOLEAN : OpenOutgoing(i, kind, closes, sends)
  <2>1. PICK i \in Ids, kind \in Answers, closes \in BOOLEAN, sends \in BOOLEAN : OpenOutgoing(i, kind, closes, sends)
    BY <1>2
  <2>2. /\ Fresh(OpenerOf[i], i)
        /\ gone' = [gone EXCEPT ![Peer(OpenerOf[i])][i] = @ \cup {sent[Peer(OpenerOf[i])][i] + 1}]
    BY <2>1 DEF OpenOutgoing, Fresh
  <2>3. y = Peer(OpenerOf[i]) /\ ch = i /\ ch # CtlId  BY <1>0, <2>2, StreamIds
  <2>4. ~Usable(chan[y][i])  BY <2>2, <2>3, OfOne, NoStreamIs DEF Together, Usable
  <2> QED  BY <2>3, <2>4 DEF MayDrop
<1>3. CASE ~(\E x \in Sides, i \in Ids : SendData(x, i))
           /\ ~(\E i \in Ids, kind \in Answers, closes, sends \in BOOLEAN : OpenOutgoing(i, kind, closes, sends))
  BY <1>3 DEF StreamProgram, CloseStream, OnData
<1> QED  BY <1>1, <1>2, <1>3

LEMMA MicrotaskDropsFew ==
  ASSUME MemIInv, Microtask
  PROVE  DropsFew
<1>0. MemTypeOK /\ gone \in [Sides -> [Channels -> SUBSET (1 .. MaxSends)]] /\ control \in [Sides -> ControlChannel]
  BY OfOne DEF MemTypeOK
<1> SUFFICES ASSUME NEW y \in Sides, NEW ch \in Channels, gone'[y][ch] # gone[y][ch] PROVE MayDrop(y, ch)
  BY DEF DropsFew
<1>1. CASE ReceiveControl
  <2> DEFINE x == Head(tasks).to
             n == Head(tasks).n
             c == IF control[x].made THEN control[x] ELSE NewControl
  <2>1. /\ tasks # <<>> /\ Head(tasks).type = "message"
        /\ down[x] \/ c.isClosed \/ c.listener = "spent"
        /\ gone' = [gone EXCEPT ![Peer(x)][CtlId] = @ \cup {n}]
        /\ control' = control
    BY <1>1 DEF ReceiveControl, Task
  <2>2. x \in Sides  BY <1>0, <2>1, FirstTask, HeadNumber
  <2> HIDE DEF x, n
  <2>3. y = Peer(x) /\ ch = CtlId /\ Peer(y) = x  BY <1>0, <2>1, <2>2, MemPeer
  <2>4. ~NewControl.isClosed /\ NewControl.listener # "spent"  BY DEF NewControl
  <2> QED  BY <2>1, <2>3, <2>4 DEF MayDrop
<1>2. CASE \E kind \in Answers, closes \in BOOLEAN : ReceiveData(kind, closes)
  <2>p. PICK kind \in Answers, closes \in BOOLEAN : ReceiveData(kind, closes)  BY <1>2
  <2> DEFINE x == Head(tasks).to
             i == Head(tasks).id
             n == Head(tasks).n
             c == Obtained(chan[x][i], kind, closes)
  <2>1. /\ tasks # <<>> /\ Head(tasks).type = "message" /\ Head(tasks).id # CtlId
        /\ ~(~down[x] /\ ~c.isClosed /\ Hears(c))
        /\ gone' = [gone EXCEPT ![Peer(x)][i] = @ \cup {n}]
    BY <2>p DEF ReceiveData, Task
  <2>2. x \in Sides /\ i \in Channels /\ i # CtlId /\ Head(tasks) \in Tasks
    BY <1>0, <2>1, FirstTask, HeadNumber
  <2>3. i \in Ids  BY <2>2 DEF Channels
  <2>4. IsMine(Head(tasks), Peer(x), i)  BY <2>1, <2>2, MemPeer DEF IsMine, IsOf
  <2>5. OnTheWay(Peer(x), i)  BY <1>0, <2>1, <2>4, FirstTask
  <2> HIDE DEF x, i, n, c
  <2>6. y = Peer(x) /\ ch = i /\ Peer(y) = x /\ ch # CtlId  BY <1>0, <2>1, <2>2, MemPeer
  <2>7. SUFFICES ASSUME Usable(chan[y][i]), ~Alone(y, i) PROVE chan[x][i].listener = "spent"
    BY <2>6 DEF MayDrop, Alone
  <2>8. chan[x][i].known /\ Usable(chan[x][i]) /\ HasListener(chan[x][i])
    BY <2>3, <2>5, <2>6, <2>7, OfOne DEF Together, IsReady, Usable
  <2>9. chan[x][i] \in StreamChannel  BY <1>0, <2>2, <2>3, MemTypes
  <2>10. c = chan[x][i]  BY <2>8, <2>9, ObtainedIs DEF c
  <2>11. ~down[x]  BY <2>2, <2>3, <2>8, OfOne DEF Together
  <2>12. ~Hears(chan[x][i])  BY <2>1, <2>8, <2>10, <2>11 DEF Usable
  <2> QED  BY <2>8, <2>9, <2>12 DEF Hears, HasListener, StreamChannel, Listeners
<1>3. CASE ResumeSend
  <2> DEFINE x == Head(tasks).at
             i == Head(tasks).id
  <2>1. /\ tasks # <<>> /\ Head(tasks).type = "resume" /\ ~Usable(chan[x][i])
        /\ gone' = [gone EXCEPT ![x][i] = @ \cup {Head(tasks).n}]
    BY <1>3 DEF ResumeSend, Task
  <2>2. x \in Sides /\ i \in Ids  BY <1>0, <2>1, FirstTask, HeadNumber
  <2> HIDE DEF x, i
  <2>3. y = x /\ ch = i /\ ch # CtlId  BY <1>0, <2>1, <2>2, StreamIds
  <2> QED  BY <2>1, <2>3 DEF MayDrop
<1>4. CASE Destroy  BY <1>4, <1>0 DEF Destroy, ControlChannel, MayDrop
<1> QED  BY <1>1, <1>2, <1>3, <1>4 DEF Microtask

\* A message to an open end is dropped only when its listener was one for a single message,
\* or by the end that its handler closed as it was announced.
THEOREM MemDrops == MemSpec => MemDropsUnheard
<1>1. MemIInv /\ [ControlProgram \/ StreamProgram \/ Microtask \/ Closing]_mvars => [DropsFew]_mvars
  <2> SUFFICES ASSUME MemIInv, ControlProgram \/ StreamProgram \/ Microtask \/ Closing PROVE DropsFew  OBVIOUS
  <2>1. CASE Closing  BY <2>1 DEF Closing, CloseTransport, DropsFew
  <2> QED  BY <2>1, ControlDropsFew, StreamDropsFew, MicrotaskDropsFew
<1>2. [DropsFew]_mvars => [\A x \in Sides, ch \in Channels :
        gone'[x][ch] # gone[x][ch] =>
            IF ch = CtlId
            THEN \/ control'[x].isClosed \/ control'[Peer(x)].isClosed \/ down[Peer(x)]
                 \/ control'[Peer(x)].listener = "spent"
            ELSE \/ ~Usable(chan[x][ch]) \/ chan[Peer(x)][ch].listener = "spent"
                 \/ x = OpenerOf[ch] /\ chan[Peer(x)][ch].early]_mvars
  BY DEF DropsFew, MayDrop
<1> QED  BY <1>1, <1>2, MemAlways, PTL DEF MemSpec, MemDropsUnheard

-----------------------------------------------------------------------------
(* A tunnel: runs of numbers, and one of its streams. *)

(* Runs of numbers, and the placeholder before them. *)

EndsAt(m, n) == IsRun(m) /\ (m # <<>> => m[Len(m)] = n)
StartFirst(q) == \A k \in 2 .. Len(q) : q[k] # Start
HasStart(q) == q # <<>> /\ Head(q) = Start
Packets == Seq(Messages \cup {Start})

LEMMA EmptyEnds == \A n : EndsAt(<<>>, n) /\ IsRun(<<>>) /\ ~HasStart(<<>>) /\ StartFirst(<<>>) /\ Data(<<>>) = <<>>
  BY DEF EndsAt, IsRun, HasStart, StartFirst, Data

LEMMA RunPrefix ==
  ASSUME NEW a \in Seq(Nat), NEW b \in Seq(Nat), IsRun(a \o b)
  PROVE  IsRun(a)
<1>1. Len(a \o b) = Len(a) + Len(b) /\ Len(a) \in Nat /\ Len(b) \in Nat
      /\ \A k \in 1 .. Len(a) : (a \o b)[k] = a[k]
  OBVIOUS
<1> SUFFICES ASSUME NEW k \in 2 .. Len(a) PROVE a[k] = a[k - 1] + 1  BY DEF IsRun
<1>2. k \in 1 .. Len(a) /\ k - 1 \in 1 .. Len(a) /\ k \in 2 .. Len(a \o b)  BY <1>1
<1>3. (a \o b)[k] = (a \o b)[k - 1] + 1  BY <1>2 DEF IsRun
<1> QED  BY <1>1, <1>2, <1>3

LEMMA EndsPrefix ==
  ASSUME NEW a \in Seq(Nat), NEW b \in Seq(Nat), NEW n, EndsAt(a \o b, n)
  PROVE  IsRun(a)
  BY RunPrefix DEF EndsAt

LEMMA EndsTail ==
  ASSUME NEW m \in Seq(Nat), NEW n, EndsAt(m, n), m # <<>>
  PROVE  EndsAt(Tail(m), n)
<1>1. /\ Len(m) \in Nat /\ Len(m) >= 1 /\ Len(Tail(m)) = Len(m) - 1
      /\ \A k \in 1 .. (Len(m) - 1) : Tail(m)[k] = m[k + 1]
  OBVIOUS
<1>2. ASSUME NEW k \in 2 .. Len(Tail(m)) PROVE Tail(m)[k] = Tail(m)[k - 1] + 1
  <2>1. k + 1 \in 2 .. Len(m) /\ k \in 1 .. (Len(m) - 1) /\ k - 1 \in 1 .. (Len(m) - 1) /\ (k - 1) + 1 = k /\ (k + 1) - 1 = k
    BY <1>1
  <2>2. m[k + 1] = m[(k + 1) - 1] + 1  BY <2>1 DEF EndsAt, IsRun
  <2>3. Tail(m)[k] = m[k + 1] /\ Tail(m)[k - 1] = m[k]  BY <1>1, <2>1
  <2> QED  BY <2>1, <2>2, <2>3
<1>3. Tail(m) # <<>> => Tail(m)[Len(Tail(m))] = n
  <2> SUFFICES ASSUME Tail(m) # <<>> PROVE Tail(m)[Len(Tail(m))] = n  OBVIOUS
  <2>1. Len(m) - 1 \in 1 .. (Len(m) - 1)  BY <1>1
  <2>2. Tail(m)[Len(m) - 1] = m[(Len(m) - 1) + 1] /\ (Len(m) - 1) + 1 = Len(m)  BY <1>1, <2>1
  <2> QED  BY <1>1, <2>2 DEF EndsAt
<1> QED  BY <1>2, <1>3 DEF EndsAt, IsRun

LEMMA EndsNext ==
  ASSUME NEW m \in Seq(Nat), NEW n \in Nat, EndsAt(m, n)
  PROVE  EndsAt(Append(m, n + 1), n + 1)
<1> DEFINE p == Append(m, n + 1)
<1>1. /\ Len(m) \in Nat /\ Len(p) = Len(m) + 1 /\ p[Len(m) + 1] = n + 1
      /\ \A k \in 1 .. Len(m) : p[k] = m[k]
  OBVIOUS
<1>2. ASSUME NEW k \in 2 .. Len(p) PROVE p[k] = p[k - 1] + 1
  <2>1. CASE k \in 2 .. Len(m)  BY <1>1, <2>1 DEF EndsAt, IsRun
  <2>2. CASE k = Len(m) + 1  BY <1>1, <2>2 DEF EndsAt
  <2> QED  BY <1>1, <2>1, <2>2
<1> QED  BY <1>1, <1>2 DEF EndsAt, IsRun

LEMMA JoinLast ==
  ASSUME NEW a \in Seq(Nat), NEW b \in Seq(Nat), NEW n \in Nat
  PROVE  a \o Append(b, n) = Append(a \o b, n)
  OBVIOUS

LEMMA MessagesAreNat ==
  /\ Messages \subseteq Nat /\ Start \notin Messages
  /\ \A m \in Seq(Messages) : m \in Seq(Nat) /\ m \in Packets
  /\ <<>> \in Seq(Messages) /\ <<>> \in Seq(Nat) /\ <<>> \in Packets /\ <<Start>> \in Packets
  /\ \A m \in Packets : Len(m) \in Nat /\ \A k \in 1 .. Len(m) : m[k] \in Messages \cup {Start}
<1>1. Messages \subseteq Nat /\ Start \notin Messages  BY TunnelAssumption DEF Messages, Start
<1> HIDE DEF Messages
<1>2. ASSUME NEW m \in Seq(Messages) PROVE m \in Seq(Nat) /\ m \in Packets
  <2>1. Len(m) \in Nat /\ m \in [1 .. Len(m) -> Messages]  OBVIOUS
  <2>2. m \in [1 .. Len(m) -> Nat] /\ m \in [1 .. Len(m) -> Messages \cup {Start}]  BY <1>1, <2>1
  <2> QED  BY <2>1, <2>2 DEF Packets
<1>3. <<>> \in Seq(Messages) /\ <<>> \in Seq(Nat) /\ <<>> \in Packets /\ <<Start>> \in Packets  BY DEF Packets
<1>4. \A m \in Packets : Len(m) \in Nat /\ \A k \in 1 .. Len(m) : m[k] \in Messages \cup {Start}
  BY DEF Packets
<1> QED  BY <1>1, <1>2, <1>3, <1>4

\* The messages of a queue, without its placeholder.
LEMMA DataIs ==
  ASSUME NEW q \in Packets, StartFirst(q)
  PROVE  /\ Data(q) \in Seq(Messages) /\ Data(q) \in Seq(Nat)
         /\ HasStart(q) => Data(q) = Tail(q)
         /\ ~HasStart(q) => Data(q) = q
<1>1. Len(q) \in Nat /\ \A k \in 1 .. Len(q) : q[k] \in Messages \cup {Start}  BY MessagesAreNat
<1>2. (HasStart(q) => Data(q) = Tail(q)) /\ (~HasStart(q) => Data(q) = q)  BY DEF HasStart, Data
<1>3. Data(q) \in Seq(Messages)
  <2>1. CASE HasStart(q)
    <3>1. Len(q) >= 1 /\ Len(Tail(q)) = Len(q) - 1 /\ Tail(q) \in Seq(Messages \cup {Start})
          /\ \A k \in 1 .. (Len(q) - 1) : Tail(q)[k] = q[k + 1] /\ k + 1 \in 2 .. Len(q)
      BY <1>1, <2>1 DEF HasStart, Packets
    <3>2. \A k \in 1 .. Len(Tail(q)) : Tail(q)[k] \in Messages  BY <1>1, <3>1 DEF StartFirst
    <3> DEFINE r == Tail(q)
    <3>3. r \in Seq(Messages \cup {Start}) /\ \A k \in 1 .. Len(r) : r[k] \in Messages  BY <3>1, <3>2
    <3> HIDE DEF r
    <3>4. r \in Seq(Messages)  BY <3>3, SeqWithin
    <3> QED  BY <1>2, <2>1, <3>4 DEF r
  <2>2. CASE ~HasStart(q)
    <3>1. \A k \in 1 .. Len(q) : q[k] # Start
      <4> SUFFICES ASSUME NEW k \in 1 .. Len(q) PROVE q[k] # Start  OBVIOUS
      <4>1. CASE k = 1  BY <2>2, <4>1 DEF HasStart, Packets
      <4>2. CASE k # 1  BY <1>1, <4>2 DEF StartFirst
      <4> QED  BY <4>1, <4>2
    <3>2. \A k \in 1 .. Len(q) : q[k] \in Messages  BY <1>1, <3>1
    <3>3. q \in [1 .. Len(q) -> Messages]  BY <3>2 DEF Packets
    <3>4. q \in Seq(Messages)  BY <1>1, <3>3
    <3> QED  BY <1>2, <2>2, <3>4
  <2> QED  BY <2>1, <2>2
<1> QED  BY <1>2, <1>3, MessagesAreNat

LEMMA DataNext ==
  ASSUME NEW q \in Packets, StartFirst(q), NEW n \in Messages
  PROVE  /\ Append(q, n) \in Packets /\ StartFirst(Append(q, n)) /\ (HasStart(Append(q, n)) <=> HasStart(q))
         /\ Data(Append(q, n)) = Append(Data(q), n)
<1>1. n # Start /\ n \in Messages \cup {Start}  BY MessagesAreNat
<1>2. /\ Append(q, n) \in Packets /\ Append(q, n) # <<>> /\ Len(Append(q, n)) = Len(q) + 1 /\ Len(q) \in Nat
      /\ Append(q, n)[Len(q) + 1] = n /\ \A k \in 1 .. Len(q) : Append(q, n)[k] = q[k]
  BY <1>1 DEF Packets
<1>3. StartFirst(Append(q, n))  BY <1>1, <1>2 DEF StartFirst
<1>4. CASE q = <<>>  BY <1>4, <1>1, <1>2, <1>3 DEF HasStart, Data
<1>5. CASE q # <<>>  BY <1>1, <1>5, <1>2, <1>3 DEF Packets, HasStart, Data
<1> QED  BY <1>4, <1>5

LEMMA DataRest ==
  ASSUME NEW q \in Packets, StartFirst(q), q # <<>>
  PROVE  /\ Tail(q) \in Packets /\ StartFirst(Tail(q)) /\ ~HasStart(Tail(q)) /\ Data(Tail(q)) = Tail(q)
         /\ HasStart(q) => Data(q) = Tail(q)
         /\ ~HasStart(q) => Data(q) = q /\ Head(q) \in Messages /\ Data(q) \in Seq(Nat) /\ Head(q) \in Nat
         /\ Tail(q) \in Seq(Nat)
<1>1. /\ Len(q) \in Nat /\ Len(q) >= 1 /\ Len(Tail(q)) = Len(q) - 1 /\ Tail(q) \in Packets
      /\ \A k \in 1 .. (Len(q) - 1) : Tail(q)[k] = q[k + 1] /\ k + 1 \in 2 .. Len(q)
      /\ Head(q) \in Messages \cup {Start}
  BY DEF Packets
<1>2. \A k \in 1 .. (Len(q) - 1) : Tail(q)[k] # Start  BY <1>1 DEF StartFirst
<1>3. StartFirst(Tail(q))  BY <1>1, <1>2 DEF StartFirst
<1>4. ~HasStart(Tail(q))
  <2> SUFFICES ASSUME Tail(q) # <<>> PROVE Head(Tail(q)) # Start  BY DEF HasStart
  <2>1. Head(Tail(q)) = Tail(q)[1] /\ 1 \in 1 .. (Len(q) - 1)  BY <1>1 DEF Packets
  <2> QED  BY <1>2, <2>1
<1>5. Data(Tail(q)) = Tail(q) /\ Tail(q) \in Seq(Nat)  BY <1>1, <1>3, <1>4, DataIs
<1>6. ~HasStart(q) => Data(q) = q /\ Head(q) \in Messages /\ Data(q) \in Seq(Nat) /\ Head(q) \in Nat
  BY <1>1, DataIs, MessagesAreNat DEF HasStart
<1>7. HasStart(q) => Data(q) = Tail(q)  BY DataIs
<1> QED  BY <1>1, <1>3, <1>4, <1>5, <1>6, <1>7

(* One stream of a tunnel. *)

StreamSafe(t, o) ==
    /\ StartFirst(t.src.queue) /\ StartFirst(t.dst.queue)
    /\ HasStart(t.src.queue) => t.phase = "arriving" /\ o = "proxy"
    /\ HasStart(t.dst.queue) => ~t.accepted
    /\ ~t.accepted => t.heard = <<>>
    /\ t.phase \in {"idle", "arriving", "opening"} =>
            ~t.dst.snd /\ ~t.dst.rcv /\ t.dst.queue = <<>> /\ t.heard = <<>> /\ ~t.accepted
    /\ t.phase = "idle" => ~t.src.snd /\ ~t.src.rcv /\ t.src.queue = <<>>
    /\ t.phase = "arriving" /\ o = "proxy" /\ t.src.rcv => HasStart(t.src.queue)
    /\ EndsAt(Data(t.src.queue), t.sent)
    /\ IsRun(t.heard)
    /\ t.dst.rcv => IsRun(t.heard \o Data(t.dst.queue))
    /\ t.phase = "pumping" /\ t.dst.rcv => EndsAt(t.heard \o Data(t.dst.queue) \o t.src.queue, t.sent)

\* Whatever closes an end of a stream.
Shut(t, u) ==
    /\ u \in Stream
    /\ u.phase = t.phase \/ (t.phase = "pumping" /\ u.phase = "over")
    /\ u.accepted = t.accepted /\ u.heard = t.heard /\ u.sent = t.sent
    /\ u.src.queue \in {t.src.queue, <<>>} /\ u.dst.queue \in {t.dst.queue, <<>>}
    /\ u.src.snd => t.src.snd
    /\ u.dst.snd => t.dst.snd
    /\ u.src.rcv => t.src.rcv /\ u.src.queue = t.src.queue
    /\ u.dst.rcv => t.dst.rcv /\ u.dst.queue = t.dst.queue
    /\ u.phase = "pumping" => u.src.queue = t.src.queue

LEMMA ShutKeeps ==
  ASSUME NEW t \in Stream, NEW o, StreamSafe(t, o), NEW u, Shut(t, u)
  PROVE  u \in Stream /\ StreamSafe(u, o)
<1>1. EndsAt(<<>>, t.sent) /\ ~HasStart(<<>>) /\ StartFirst(<<>>) /\ Data(<<>>) = <<>>  BY EmptyEnds
<1>2. u \in Stream  BY DEF Shut
<1> HIDE DEF EndsAt, HasStart, StartFirst, Data
<1>3. /\ StartFirst(u.src.queue) /\ StartFirst(u.dst.queue)
      /\ HasStart(u.src.queue) => HasStart(t.src.queue)
      /\ HasStart(u.dst.queue) => HasStart(t.dst.queue)
      /\ EndsAt(Data(u.src.queue), t.sent)
  BY <1>1 DEF StreamSafe, Shut
<1> QED  BY <1>2, <1>3 DEF StreamSafe, Shut

\* A channel one end of which closes.
LEMMA EndShuts ==
  ASSUME NEW c \in Channel
  PROVE  /\ LET r == [c EXCEPT !.rcv = FALSE, !.queue = <<>>]
            IN  r \in Channel /\ r.queue = <<>> /\ ~r.rcv /\ (r.snd <=> c.snd)
         /\ LET w == [c EXCEPT !.snd = FALSE]
            IN  w \in Channel /\ ~w.snd /\ (w.rcv <=> c.rcv) /\ w.queue = c.queue
         /\ LET r == [c EXCEPT !.rcv = FALSE]
            IN  r \in Channel /\ r.queue = c.queue /\ ~r.rcv /\ (r.snd <=> c.snd)
<1>1. <<>> \in Seq(Messages \cup {Start})  OBVIOUS
<1> QED  BY <1>1 DEF Channel

LEMMA CleanedUpShuts ==
  ASSUME NEW t \in Stream
  PROVE  Shut(t, CleanedUp(t)) /\ (CleanedUp(t).phase = "pumping" => t.src.rcv /\ CleanedUp(t) = t)
<1>1. CASE ~(t.phase = "pumping" /\ ~(t.src.rcv /\ t.dst.snd))  BY <1>1 DEF CleanedUp, Shut
<1>2. CASE t.phase = "pumping" /\ ~(t.src.rcv /\ t.dst.snd)
  <2> DEFINE s == [t.src EXCEPT !.rcv = FALSE, !.queue = <<>>]
             d == [t.dst EXCEPT !.snd = FALSE]
             u == [t EXCEPT !.phase = "over", !.src = s, !.dst = d]
  <2>1. t.src \in Channel /\ t.dst \in Channel  BY DEF Stream
  <2>2. /\ s \in Channel /\ d \in Channel
        /\ s.queue = <<>> /\ ~s.rcv /\ (s.snd <=> t.src.snd) /\ ~d.snd /\ (d.rcv <=> t.dst.rcv) /\ d.queue = t.dst.queue
    BY <2>1, EndShuts
  <2>3. CleanedUp(t) = u  BY <1>2 DEF CleanedUp, Stream
  <2> HIDE DEF s, d
  <2>5. /\ u \in Stream /\ u.phase = "over" /\ u.src = s /\ u.dst = d
        /\ u.accepted = t.accepted /\ u.heard = t.heard /\ u.sent = t.sent
    BY <2>2 DEF Stream, Phases
  <2> HIDE DEF u
  <2> QED  BY <1>2, <2>2, <2>3, <2>5 DEF Shut
<1> QED  BY <1>1, <1>2

\* One after the other.  A stream still pumped when both are done has not lost its source.
LEMMA ShutTwice ==
  ASSUME NEW t \in Stream, NEW u, NEW v, Shut(u, v), u \in Stream,
         u.phase = t.phase \/ (t.phase = "pumping" /\ u.phase = "over"),
         u.accepted = t.accepted, u.heard = t.heard, u.sent = t.sent,
         u.src.queue \in {t.src.queue, <<>>}, u.dst.queue \in {t.dst.queue, <<>>},
         u.src.snd => t.src.snd, u.dst.snd => t.dst.snd,
         u.src.rcv => t.src.rcv /\ u.src.queue = t.src.queue,
         u.dst.rcv => t.dst.rcv /\ u.dst.queue = t.dst.queue,
         v.phase = "pumping" => u.src.rcv
  PROVE  Shut(t, v)
  BY DEF Shut

\* The stream of an end at the bridge that is lost.
LEMMA SourceLost ==
  ASSUME NEW t \in Stream, NEW v, v = CleanedUp([t EXCEPT !.src.rcv = FALSE, !.src.queue = <<>>])
  PROVE  Shut(t, v)
<1> DEFINE s == [t.src EXCEPT !.rcv = FALSE, !.queue = <<>>]
           u == [t EXCEPT !.src = s]
<1>1. s \in Channel /\ s.queue = <<>> /\ ~s.rcv /\ (s.snd <=> t.src.snd)  BY EndShuts DEF Stream
<1>2. v = CleanedUp(u)  BY DEF Stream
<1> HIDE DEF s
<1>3. /\ u \in Stream /\ u.src = s /\ u.dst = t.dst
      /\ u.phase = t.phase /\ u.accepted = t.accepted /\ u.heard = t.heard /\ u.sent = t.sent
  BY <1>1 DEF Stream
<1> HIDE DEF u
<1>4. Shut(u, v) /\ (v.phase = "pumping" => u.src.rcv /\ v = u)  BY <1>2, <1>3, CleanedUpShuts
<1> QED  BY <1>1, <1>3, <1>4, ShutTwice

LEMMA DestinationLost ==
  ASSUME NEW t \in Stream, NEW v, v = CleanedUp([t EXCEPT !.dst.snd = FALSE])
  PROVE  Shut(t, v)
<1> DEFINE d == [t.dst EXCEPT !.snd = FALSE]
           u == [t EXCEPT !.dst = d]
<1>1. d \in Channel /\ ~d.snd /\ (d.rcv <=> t.dst.rcv) /\ d.queue = t.dst.queue  BY EndShuts DEF Stream
<1>2. v = CleanedUp(u)  BY DEF Stream
<1> HIDE DEF d
<1>3. /\ u \in Stream /\ u.src = t.src /\ u.dst = d
      /\ u.phase = t.phase /\ u.accepted = t.accepted /\ u.heard = t.heard /\ u.sent = t.sent
  BY <1>1 DEF Stream
<1> HIDE DEF u
<1>4. Shut(u, v) /\ (v.phase = "pumping" => u.src.rcv /\ v = u)  BY <1>2, <1>3, CleanedUpShuts
<1> QED  BY <1>1, <1>3, <1>4, ShutTwice

LEMMA LossKeeps ==
  ASSUME NEW t \in Stream, NEW o, StreamSafe(t, o)
  PROVE  /\ LocalLost(t, o) \in Stream /\ StreamSafe(LocalLost(t, o), o)
         /\ HostLost(t, o) \in Stream /\ StreamSafe(HostLost(t, o), o)
         /\ ProxyLost(t, o) \in Stream /\ StreamSafe(ProxyLost(t, o), o)
<1>1. Shut(t, LocalLost(t, o)) /\ Shut(t, HostLost(t, o))
  BY SourceLost, DestinationLost DEF LocalLost, HostLost
<1>2. CASE o = "bridge"
  <2> DEFINE d == [t.dst EXCEPT !.rcv = FALSE, !.queue = <<>>]
             u == [t EXCEPT !.dst = d]
  <2>1. d \in Channel /\ d.queue = <<>> /\ ~d.rcv /\ (d.snd <=> t.dst.snd)  BY EndShuts DEF Stream
  <2>2. ProxyLost(t, o) = u  BY <1>2 DEF ProxyLost, Stream
  <2> HIDE DEF d
  <2>3. /\ u \in Stream /\ u.src = t.src /\ u.dst = d
        /\ u.phase = t.phase /\ u.accepted = t.accepted /\ u.heard = t.heard /\ u.sent = t.sent
    BY <2>1 DEF Stream
  <2> HIDE DEF u
  <2>4. Shut(t, ProxyLost(t, o))  BY <2>1, <2>2, <2>3 DEF Shut
  <2> QED  BY <1>1, <2>4, ShutKeeps
<1>3. CASE o # "bridge"
  <2> DEFINE s == [t.src EXCEPT !.snd = FALSE]
             u == [t EXCEPT !.src = s]
  <2>1. s \in Channel /\ ~s.snd /\ (s.rcv <=> t.src.rcv) /\ s.queue = t.src.queue  BY EndShuts DEF Stream
  <2>2. ProxyLost(t, o) = u  BY <1>3 DEF ProxyLost, Stream
  <2> HIDE DEF s
  <2>3. /\ u \in Stream /\ u.src = s /\ u.dst = t.dst
        /\ u.phase = t.phase /\ u.accepted = t.accepted /\ u.heard = t.heard /\ u.sent = t.sent
    BY <2>1 DEF Stream
  <2> HIDE DEF u
  <2>4. Shut(t, ProxyLost(t, o))  BY <2>1, <2>2, <2>3 DEF Shut
  <2> QED  BY <1>1, <2>4, ShutKeeps
<1> QED  BY <1>2, <1>3

StreamsSafe == stream \in [Tunneled -> Stream] /\ \A s \in Tunneled : StreamSafe(stream[s], OriginOf[s])

LEMMA StepKeeps ==
  ASSUME StreamsSafe, NEW s \in Tunneled, NEW u \in Stream, StreamSafe(u, OriginOf[s]), Step(s, u)
  PROVE  StreamsSafe'
<1>1. stream' = [stream EXCEPT ![s] = u]  BY DEF Step
<1> HIDE DEF StreamSafe
<1>2. stream' \in [Tunneled -> Stream] /\ \A z \in Tunneled : stream'[z] = IF z = s THEN u ELSE stream[z]
  BY <1>1 DEF StreamsSafe
<1> QED  BY <1>2 DEF StreamsSafe

LEMMA StreamIs ==
  ASSUME NEW t \in Stream
  PROVE  /\ t.src \in Channel /\ t.dst \in Channel
         /\ t.src.queue \in Packets /\ t.dst.queue \in Packets
         /\ t.heard \in Seq(Messages) /\ t.heard \in Seq(Nat) /\ t.sent \in 0 .. MaxGiven /\ t.sent \in Nat
         /\ t.phase \in Phases
  BY MessagesAreNat, TunnelAssumption DEF Stream, Channel, Packets

\* A channel with another queue.
LEMMA Requeued ==
  ASSUME NEW c \in Channel, NEW q \in Packets
  PROVE  LET d == [c EXCEPT !.queue = q]
         IN  d \in Channel /\ d.queue = q /\ (d.snd <=> c.snd) /\ (d.rcv <=> c.rcv)
  BY DEF Channel, Packets

LEMMA OpenIs ==
  ASSUME NEW q \in Packets
  PROVE  OpenChannel(q) \in Channel /\ OpenChannel(q).queue = q /\ OpenChannel(q).snd /\ OpenChannel(q).rcv
  BY DEF OpenChannel, Channel, Packets

LEMMA OpenFromLocalStream ==
  ASSUME StreamsSafe, NEW s \in Tunneled, OpenFromLocal(s)
  PROVE  StreamsSafe'
<1> DEFINE t == stream[s]
           c == OpenChannel(<<>>)
           u == [t EXCEPT !.phase = "arriving", !.src = c]
           o == OriginOf[s]
<1>1. Step(s, u) /\ o = "bridge" /\ t.phase = "idle" /\ t \in Stream /\ StreamSafe(t, o)
  BY DEF OpenFromLocal, StreamsSafe
<1>2. c \in Channel /\ c.queue = <<>> /\ <<>> \in Packets  BY OpenIs, MessagesAreNat
<1>3. EndsAt(<<>>, t.sent) /\ ~HasStart(<<>>) /\ StartFirst(<<>>) /\ Data(<<>>) = <<>> /\ IsRun(<<>>)
  BY EmptyEnds
<1> HIDE DEF c, t, o
<1>4. /\ u \in Stream /\ u.phase = "arriving" /\ u.src = c /\ u.dst = t.dst
      /\ u.accepted = t.accepted /\ u.heard = t.heard /\ u.sent = t.sent
  BY <1>1, <1>2 DEF Stream, Phases
<1> HIDE DEF u
<1>5. StreamSafe(u, o)
  <2> HIDE DEF EndsAt, HasStart, StartFirst, Data
  <2> QED  BY <1>1, <1>2, <1>3, <1>4 DEF StreamSafe
<1> QED  BY <1>1, <1>4, <1>5, StepKeeps DEF o

LEMMA OpenFromProxyStream ==
  ASSUME StreamsSafe, NEW s \in Tunneled, OpenFromProxy(s)
  PROVE  StreamsSafe'
<1> DEFINE t == stream[s]
           q == <<Start>>
           c == OpenChannel(q)
           u == [t EXCEPT !.phase = "arriving", !.src = c]
           o == OriginOf[s]
<1>1. Step(s, u) /\ o = "proxy" /\ t.phase = "idle" /\ t \in Stream /\ StreamSafe(t, o)
  BY DEF OpenFromProxy, StreamsSafe
<1>2. c \in Channel /\ c.queue = q /\ q \in Packets  BY OpenIs, MessagesAreNat
<1>3. EndsAt(<<>>, t.sent) /\ HasStart(q) /\ StartFirst(q) /\ Data(q) = <<>> /\ IsRun(<<>>)
  BY EmptyEnds DEF HasStart, StartFirst, Data
<1> HIDE DEF c, t, o, q
<1>4. /\ u \in Stream /\ u.phase = "arriving" /\ u.src = c /\ u.dst = t.dst
      /\ u.accepted = t.accepted /\ u.heard = t.heard /\ u.sent = t.sent
  BY <1>1, <1>2 DEF Stream, Phases
<1> HIDE DEF u
<1>5. StreamSafe(u, o)
  <2> HIDE DEF EndsAt, HasStart, StartFirst, Data
  <2> QED  BY <1>1, <1>2, <1>3, <1>4 DEF StreamSafe
<1> QED  BY <1>1, <1>4, <1>5, StepKeeps DEF o

LEMMA SendOnStreamStream ==
  ASSUME StreamsSafe, NEW s \in Tunneled, SendOnStream(s)
  PROVE  StreamsSafe'
<1> DEFINE t == stream[s]
           n == t.sent + 1
           q == Append(t.src.queue, n)
           c == [t.src EXCEPT !.queue = q]
           u == [t EXCEPT !.sent = n, !.src = c]
           o == OriginOf[s]
<1>0. t \in Stream /\ StreamSafe(t, o) /\ t.src.snd /\ t.sent < MaxGiven  BY DEF SendOnStream, StreamsSafe
<1>1. Step(s, u)  BY <1>0 DEF Stream, Channel, SendOnStream
<1>2. t.sent \in Nat /\ n \in 0 .. MaxGiven /\ n \in Messages /\ n \in Nat /\ t.src.queue \in Packets /\ t.src \in Channel
      /\ t.heard \in Seq(Nat) /\ t.dst.queue \in Packets
  BY <1>0, StreamIs, TunnelAssumption DEF Messages
<1>n. n = t.sent + 1  OBVIOUS
<1> HIDE DEF t, n, o
<1>3. /\ q \in Packets /\ StartFirst(q) /\ (HasStart(q) <=> HasStart(t.src.queue))
      /\ Data(q) = Append(Data(t.src.queue), n)
  BY <1>0, <1>2, DataNext DEF StreamSafe
<1>4. EndsAt(Data(q), n)
  <2> DEFINE m == Data(t.src.queue)
  <2>1. m \in Seq(Nat) /\ EndsAt(m, t.sent)  BY <1>0, <1>2, DataIs DEF StreamSafe
  <2> HIDE DEF m
  <2>2. EndsAt(Append(m, t.sent + 1), t.sent + 1)  BY <1>2, <2>1, EndsNext
  <2> QED  BY <1>3, <1>n, <2>2 DEF m
<1>5. ASSUME t.phase = "pumping", t.dst.rcv PROVE EndsAt(t.heard \o Data(t.dst.queue) \o q, n)
  <2> DEFINE a == t.heard \o Data(t.dst.queue)
             b == t.src.queue
  <2>1. Data(t.dst.queue) \in Seq(Nat)  BY <1>0, <1>2, DataIs DEF StreamSafe
  <2>2. a \in Seq(Nat)  BY <1>2, <2>1
  <2>3. b \in Seq(Nat)  BY <1>0, <1>5, <1>2, DataIs DEF StreamSafe
  <2>4. EndsAt(a \o b, t.sent)  BY <1>0, <1>5 DEF StreamSafe
  <2> HIDE DEF a, b
  <2>5. a \o b \in Seq(Nat)  BY <2>2, <2>3
  <2>6. EndsAt(Append(a \o b, t.sent + 1), t.sent + 1)  BY <1>2, <2>4, <2>5, EndsNext
  <2>7. a \o Append(b, n) = Append(a \o b, n)  BY <1>2, <2>2, <2>3, JoinLast
  <2> QED  BY <1>n, <2>6, <2>7 DEF a, b
<1> HIDE DEF q
<1>6. c \in Channel /\ c.queue = q /\ (c.snd <=> t.src.snd) /\ (c.rcv <=> t.src.rcv)  BY <1>2, <1>3, Requeued
<1> HIDE DEF c
<1>7. /\ u \in Stream /\ u.phase = t.phase /\ u.src = c /\ u.dst = t.dst
      /\ u.accepted = t.accepted /\ u.heard = t.heard /\ u.sent = n
  BY <1>0, <1>2, <1>6 DEF Stream
<1> HIDE DEF u
<1>8. StreamSafe(u, o)
  <2> HIDE DEF EndsAt, HasStart, StartFirst, Data
  <2> QED  BY <1>0, <1>3, <1>4, <1>5, <1>6, <1>7 DEF StreamSafe
<1> QED  BY <1>1, <1>7, <1>8, StepKeeps DEF o

\* A message leaves the source and is not kept.
LEMMA SourceRest ==
  ASSUME NEW t \in Stream, NEW o, StreamSafe(t, o), t.src.queue # <<>>
  PROVE  /\ Tail(t.src.queue) \in Packets /\ StartFirst(Tail(t.src.queue)) /\ ~HasStart(Tail(t.src.queue))
         /\ EndsAt(Data(Tail(t.src.queue)), t.sent)
<1> DEFINE q == t.src.queue
<1>1. q \in Packets /\ StartFirst(q) /\ q # <<>> /\ EndsAt(Data(q), t.sent)  BY StreamIs DEF StreamSafe
<1> HIDE DEF q
<1>2. /\ Tail(q) \in Packets /\ StartFirst(Tail(q)) /\ ~HasStart(Tail(q)) /\ Data(Tail(q)) = Tail(q)
      /\ HasStart(q) => Data(q) = Tail(q)
      /\ ~HasStart(q) => Data(q) = q /\ Head(q) \in Messages /\ Data(q) \in Seq(Nat) /\ Head(q) \in Nat
      /\ Tail(q) \in Seq(Nat)
  BY <1>1, DataRest
<1>3. EndsAt(Tail(q), t.sent)
  <2>1. CASE HasStart(q)  BY <1>1, <1>2, <2>1
  <2>2. CASE ~HasStart(q)  BY <1>1, <1>2, <2>2, EndsTail
  <2> QED  BY <2>1, <2>2
<1> QED  BY <1>2, <1>3 DEF q

LEMMA ArriveStream ==
  ASSUME StreamsSafe, NEW s \in Tunneled, Arrive(s)
  PROVE  StreamsSafe'
<1> DEFINE t == stream[s]
           o == OriginOf[s]
           q == Tail(t.src.queue)
           routed == IF o = "proxy" THEN [t EXCEPT !.src.queue = Tail(@)] ELSE t
<1>0. t \in Stream /\ StreamSafe(t, o)  BY DEF StreamsSafe
<1>1. /\ t.phase = "arriving" /\ t.src.rcv
      /\ o = "proxy" => t.src.queue # <<>>
      /\ \/ Step(s, [routed EXCEPT !.phase = "opening"])
         \/ o = "proxy" /\ Step(s, [routed EXCEPT !.phase = "over", !.src.rcv = FALSE, !.src.queue = <<>>])
         \/ o # "proxy" /\ Step(s, [routed EXCEPT !.phase = "over"])
  BY DEF Arrive
<1> HIDE DEF t, o
<1>2. t.src \in Channel /\ t.src.queue \in Packets  BY <1>0, StreamIs
<1>3. ASSUME o = "proxy"
      PROVE  /\ q \in Packets /\ StartFirst(q) /\ ~HasStart(q) /\ EndsAt(Data(q), t.sent)
  BY <1>0, <1>1, <1>3, SourceRest
<1> DEFINE c == IF o = "proxy" THEN [t.src EXCEPT !.queue = q] ELSE t.src
<1>4. /\ c \in Channel /\ StartFirst(c.queue) /\ ~HasStart(c.queue) /\ EndsAt(Data(c.queue), t.sent)
      /\ routed = [t EXCEPT !.src = c]
  <2>1. CASE o = "proxy"
    <3> DEFINE e == [t.src EXCEPT !.queue = q]
    <3>1. routed = [t EXCEPT !.src = e]  BY <1>0, <2>1 DEF Stream
    <3>2. c = e  BY <2>1
    <3> HIDE DEF q
    <3>3. e \in Channel /\ e.queue = q  BY <1>2, <1>3, <2>1, Requeued
    <3> HIDE DEF e, c, routed
    <3> QED  BY <1>3, <2>1, <3>1, <3>2, <3>3
  <2>2. CASE o # "proxy"  BY <1>0, <2>2, <1>2 DEF Stream, StreamSafe
  <2> QED  BY <2>1, <2>2
<1> HIDE DEF c
<1>5. /\ routed \in Stream /\ routed.src = c /\ routed.dst = t.dst /\ routed.phase = t.phase
      /\ routed.accepted = t.accepted /\ routed.heard = t.heard /\ routed.sent = t.sent
  BY <1>0, <1>4 DEF Stream
<1> HIDE DEF routed
<1>6. ASSUME NEW ph \in {"opening", "over"}
      PROVE  [routed EXCEPT !.phase = ph] \in Stream /\ StreamSafe([routed EXCEPT !.phase = ph], o)
  <2> DEFINE u == [routed EXCEPT !.phase = ph]
  <2>1. /\ u \in Stream /\ u.src = c /\ u.dst = t.dst /\ u.phase = ph
        /\ u.accepted = t.accepted /\ u.heard = t.heard /\ u.sent = t.sent
    BY <1>5 DEF Stream, Phases
  <2> HIDE DEF u
  <2>2. StreamSafe(u, o)
    <3> HIDE DEF EndsAt, HasStart, StartFirst, Data
    <3> QED  BY <1>0, <1>1, <1>4, <2>1 DEF StreamSafe
  <2> QED  BY <2>1, <2>2 DEF u
<1>7. LET v == [routed EXCEPT !.phase = "over", !.src.rcv = FALSE, !.src.queue = <<>>]
      IN  v \in Stream /\ StreamSafe(v, o)
  <2> DEFINE u == [routed EXCEPT !.phase = "over"]
             r == [c EXCEPT !.rcv = FALSE, !.queue = <<>>]
             v == [u EXCEPT !.src = r]
  <2>1. u \in Stream /\ StreamSafe(u, o)  BY <1>6
  <2>2. /\ u.src = c /\ u.dst = t.dst /\ u.phase = "over"
        /\ u.accepted = t.accepted /\ u.heard = t.heard /\ u.sent = t.sent
    BY <1>5 DEF Stream, Phases
  <2>3. r \in Channel /\ r.queue = <<>> /\ ~r.rcv /\ (r.snd <=> c.snd)  BY <1>4, EndShuts
  <2>4. [routed EXCEPT !.phase = "over", !.src.rcv = FALSE, !.src.queue = <<>>] = v  BY <1>5 DEF Stream
  <2> HIDE DEF r, u
  <2>5. /\ v \in Stream /\ v.src = r /\ v.dst = u.dst /\ v.phase = u.phase
        /\ v.accepted = u.accepted /\ v.heard = u.heard /\ v.sent = u.sent
    BY <2>1, <2>3 DEF Stream
  <2> HIDE DEF v
  <2>6. Shut(u, v)  BY <2>2, <2>3, <2>5 DEF Shut
  <2> QED  BY <2>1, <2>4, <2>6, ShutKeeps
<1>8. StreamsSafe /\ o = OriginOf[s]  BY DEF o
<1> QED  BY <1>1, <1>6, <1>7, <1>8, StepKeeps

LEMMA LoseUnheardStream ==
  ASSUME StreamsSafe, NEW s \in Tunneled, LoseUnheard(s)
  PROVE  StreamsSafe'
<1> DEFINE t == stream[s]
           o == OriginOf[s]
           q == Tail(t.src.queue)
           c == [t.src EXCEPT !.queue = q]
           u == [t EXCEPT !.src = c]
<1>0. t \in Stream /\ StreamSafe(t, o)  BY DEF StreamsSafe
<1>1. /\ t.phase = "opening" \/ (t.phase \in {"arriving", "over"} /\ o = "bridge")
      /\ t.src.queue # <<>> /\ Step(s, u)
  BY <1>0 DEF Stream, Channel, LoseUnheard
<1> HIDE DEF t, o
<1>2. /\ q \in Packets /\ StartFirst(q) /\ ~HasStart(q) /\ EndsAt(Data(q), t.sent)  BY <1>0, <1>1, SourceRest
<1> HIDE DEF q
<1>3. c \in Channel /\ c.queue = q /\ (c.snd <=> t.src.snd) /\ (c.rcv <=> t.src.rcv)
  BY <1>0, <1>2, Requeued, StreamIs
<1> HIDE DEF c
<1>4. /\ u \in Stream /\ u.phase = t.phase /\ u.src = c /\ u.dst = t.dst
      /\ u.accepted = t.accepted /\ u.heard = t.heard /\ u.sent = t.sent
  BY <1>0, <1>3 DEF Stream
<1> HIDE DEF u
<1>5. StreamSafe(u, o)
  <2> HIDE DEF EndsAt, HasStart, StartFirst, Data
  <2> QED  BY <1>0, <1>1, <1>2, <1>3, <1>4 DEF StreamSafe
<1> QED  BY <1>1, <1>4, <1>5, StepKeeps DEF o

LEMMA DestinationReadyStream ==
  ASSUME StreamsSafe, NEW s \in Tunneled, DestinationReady(s)
  PROVE  StreamsSafe'
<1> DEFINE t == stream[s]
           o == OriginOf[s]
           q == IF o = "bridge" THEN <<Start>> ELSE <<>>
           d == OpenChannel(q)
           a == (o = "proxy")
           u == [t EXCEPT !.phase = "pumping", !.dst = d, !.accepted = a]
<1>0. t \in Stream /\ StreamSafe(t, o)  BY DEF StreamsSafe
<1>1. t.phase = "opening" /\ Step(s, u)  BY DEF DestinationReady
<1>2. /\ q \in Packets /\ StartFirst(q) /\ Data(q) = <<>> /\ (HasStart(q) => ~a) /\ a \in BOOLEAN
  BY EmptyEnds, MessagesAreNat DEF HasStart, StartFirst, Data
<1> HIDE DEF t, o, q, a
<1>3. /\ ~HasStart(t.src.queue) /\ Data(t.src.queue) = t.src.queue /\ t.src.queue \in Seq(Nat)
      /\ t.heard = <<>>
  BY <1>0, <1>1, DataIs, StreamIs DEF StreamSafe
<1>4. (t.heard \o Data(q)) \o t.src.queue = t.src.queue /\ t.heard \o Data(q) = <<>>  BY <1>2, <1>3, JoinNone
<1>5. d \in Channel /\ d.queue = q  BY <1>2, OpenIs
<1> HIDE DEF d
<1>6. /\ u \in Stream /\ u.phase = "pumping" /\ u.src = t.src /\ u.dst = d
      /\ u.accepted = a /\ u.heard = t.heard /\ u.sent = t.sent
  BY <1>0, <1>2, <1>5 DEF Stream, Phases
<1> HIDE DEF u
<1>7. IsRun(<<>>)  BY EmptyEnds
<1>8. StreamSafe(u, o)
  <2>1. EndsAt(u.heard \o Data(u.dst.queue) \o u.src.queue, u.sent)
    BY <1>0, <1>3, <1>4, <1>5, <1>6 DEF StreamSafe
  <2> HIDE DEF EndsAt, HasStart, StartFirst, Data
  <2> QED  BY <1>0, <1>1, <1>2, <1>3, <1>4, <1>5, <1>6, <1>7, <2>1 DEF StreamSafe
<1> QED  BY <1>1, <1>6, <1>8, StepKeeps DEF o

LEMMA DestinationFailsStream ==
  ASSUME StreamsSafe, NEW s \in Tunneled, DestinationFails(s)
  PROVE  StreamsSafe'
<1> DEFINE t == stream[s]
           o == OriginOf[s]
           r == [t.src EXCEPT !.rcv = FALSE, !.queue = <<>>]
           u == [t EXCEPT !.phase = "over", !.src = r]
<1>0. t \in Stream /\ StreamSafe(t, o)  BY DEF StreamsSafe
<1>1. t.phase = "opening" /\ Step(s, u)  BY <1>0 DEF Stream, Channel, DestinationFails
<1> HIDE DEF t, o
<1>2. r \in Channel /\ r.queue = <<>> /\ ~r.rcv /\ (r.snd <=> t.src.snd)  BY <1>0, EndShuts, StreamIs
<1> HIDE DEF r
<1>3. /\ u \in Stream /\ u.phase = "over" /\ u.src = r /\ u.dst = t.dst
      /\ u.accepted = t.accepted /\ u.heard = t.heard /\ u.sent = t.sent
  BY <1>0, <1>2 DEF Stream, Phases
<1> HIDE DEF u
<1>4. EndsAt(<<>>, t.sent) /\ ~HasStart(<<>>) /\ StartFirst(<<>>) /\ Data(<<>>) = <<>> /\ IsRun(<<>>)
  BY EmptyEnds
<1>5. StreamSafe(u, o)
  <2> HIDE DEF EndsAt, HasStart, StartFirst, Data
  <2> QED  BY <1>0, <1>1, <1>2, <1>3, <1>4 DEF StreamSafe
<1> QED  BY <1>1, <1>3, <1>5, StepKeeps DEF o

LEMMA PumpStream ==
  ASSUME StreamsSafe, NEW s \in Tunneled, Pump(s)
  PROVE  StreamsSafe'
<1> DEFINE t == stream[s]
           o == OriginOf[s]
           m == Head(t.src.queue)
           q == Tail(t.src.queue)
           p == Append(t.dst.queue, m)
           c == [t.src EXCEPT !.queue = q]
           d == [t.dst EXCEPT !.queue = p]
           u == [t EXCEPT !.src = c, !.dst = d]
<1>0. t \in Stream /\ StreamSafe(t, o)  BY DEF StreamsSafe
<1>1. t.phase = "pumping" /\ t.src.queue # <<>> /\ Step(s, u)  BY <1>0 DEF Stream, Channel, Pump
<1> HIDE DEF t, o
<1>2. /\ q \in Packets /\ StartFirst(q) /\ ~HasStart(q) /\ EndsAt(Data(q), t.sent)  BY <1>0, <1>1, SourceRest
<1>3. /\ t.src \in Channel /\ t.dst \in Channel /\ t.dst.queue \in Packets /\ t.src.queue \in Packets
      /\ t.heard \in Seq(Nat)
  BY <1>0, StreamIs
<1>4. ~HasStart(t.src.queue) /\ t.src.queue \in Seq(Nat) /\ m \in Messages /\ m \in Nat /\ q \in Seq(Nat)
  BY <1>0, <1>1, <1>3, DataIs, DataRest DEF StreamSafe
<1>5. /\ p \in Packets /\ StartFirst(p) /\ (HasStart(p) <=> HasStart(t.dst.queue))
      /\ Data(p) = Append(Data(t.dst.queue), m)
  <2> HIDE DEF m
  <2> QED  BY <1>0, <1>3, <1>4, DataNext DEF StreamSafe
<1>6. ASSUME t.dst.rcv
      PROVE  EndsAt(t.heard \o Data(p) \o q, t.sent) /\ IsRun(t.heard \o Data(p))
  <2> DEFINE a == t.heard \o Data(t.dst.queue)
             b == t.src.queue
             x == t.heard \o Data(p)
  <2>1. Data(t.dst.queue) \in Seq(Nat)  BY <1>0, <1>3, DataIs DEF StreamSafe
  <2>2. a \in Seq(Nat)  BY <1>3, <2>1
  <2>3. x = Append(a, m)
    <3> DEFINE h == t.heard
               e == Data(t.dst.queue)
    <3>1. h \in Seq(Nat) /\ e \in Seq(Nat) /\ m \in Nat /\ x = h \o Append(e, m) /\ a = h \o e
      BY <1>3, <1>4, <1>5, <2>1
    <3> HIDE DEF m, h, e, x, a
    <3> QED  BY <3>1, JoinLast
  <2>4. x \in Seq(Nat)
    <3> HIDE DEF a, m, x
    <3> QED  BY <1>4, <2>2, <2>3
  <2>5. x \o q = a \o b
    <3> HIDE DEF a, x
    <3>1. b \in Seq(Nat) /\ b # <<>> /\ m = Head(b) /\ q = Tail(b)  BY <1>1, <1>4
    <3> HIDE DEF b, m, q
    <3> QED  BY <2>2, <2>3, <3>1, MoveHead
  <2>6. EndsAt(a \o b, t.sent)  BY <1>0, <1>1, <1>6 DEF StreamSafe
  <2>7. EndsAt(x \o q, t.sent)  BY <2>5, <2>6
  <2> HIDE DEF x, q
  <2>8. IsRun(x)  BY <1>4, <2>4, <2>7, EndsPrefix
  <2> QED  BY <2>7, <2>8 DEF x
<1> HIDE DEF p, q, m
<1>7. /\ c \in Channel /\ c.queue = q /\ (c.snd <=> t.src.snd) /\ (c.rcv <=> t.src.rcv)
      /\ d \in Channel /\ d.queue = p /\ (d.snd <=> t.dst.snd) /\ (d.rcv <=> t.dst.rcv)
  BY <1>2, <1>3, <1>5, Requeued
<1> HIDE DEF c, d
<1>8. /\ u \in Stream /\ u.phase = t.phase /\ u.src = c /\ u.dst = d
      /\ u.accepted = t.accepted /\ u.heard = t.heard /\ u.sent = t.sent
  BY <1>0, <1>7 DEF Stream
<1> HIDE DEF u
<1>9. StreamSafe(u, o)
  <2> HIDE DEF EndsAt, HasStart, StartFirst, Data
  <2> QED  BY <1>0, <1>1, <1>2, <1>5, <1>6, <1>7, <1>8 DEF StreamSafe
<1> QED  BY <1>1, <1>8, <1>9, StepKeeps DEF o

LEMMA DeliverStream ==
  ASSUME StreamsSafe, NEW s \in Tunneled, Deliver(s)
  PROVE  StreamsSafe'
<1> DEFINE t == stream[s]
           o == OriginOf[s]
           m == Head(t.dst.queue)
           q == Tail(t.dst.queue)
           d == [t.dst EXCEPT !.queue = q]
           e == [t.dst EXCEPT !.rcv = FALSE, !.queue = <<>>]
           rest == [t EXCEPT !.dst = d]
           h == Append(t.heard, m)
           a == (proxy = "open")
<1>0. t \in Stream /\ StreamSafe(t, o)  BY DEF StreamsSafe
<1>1. /\ t.dst.rcv /\ t.dst.queue # <<>>
      /\ \/ m = Start /\ Step(s, [rest EXCEPT !.accepted = a])
         \/ m = Start /\ Step(s, [t EXCEPT !.dst = e])
         \/ m # Start /\ t.accepted /\ Step(s, [rest EXCEPT !.heard = h])
         \/ m # Start /\ ~t.accepted /\ Step(s, rest)
  <2>1. [t EXCEPT !.dst.queue = Tail(@)] = rest  BY <1>0 DEF Stream, Channel
  <2>2. [rest EXCEPT !.dst.rcv = FALSE, !.dst.queue = <<>>] = [t EXCEPT !.dst = e]
    BY <1>0 DEF Stream, Channel
  <2>3. [rest EXCEPT !.heard = Append(@, m)] = [rest EXCEPT !.heard = h]  BY <1>0 DEF Stream
  <2>4. [rest EXCEPT !.accepted = (proxy = "open")] = [rest EXCEPT !.accepted = a]  OBVIOUS
  <2> HIDE DEF rest, e, h, a, d
  <2> QED  BY <2>1, <2>2, <2>3, <2>4 DEF Deliver
<1>a. a \in BOOLEAN  OBVIOUS
<1> HIDE DEF t, o, a
<1>2. /\ t.src \in Channel /\ t.dst \in Channel /\ t.dst.queue \in Packets /\ t.src.queue \in Packets
      /\ t.heard \in Seq(Nat) /\ t.heard \in Seq(Messages) /\ StartFirst(t.dst.queue) /\ StartFirst(t.src.queue)
  BY <1>0, StreamIs DEF StreamSafe
<1>3. /\ q \in Packets /\ StartFirst(q) /\ ~HasStart(q) /\ Data(q) = q /\ q \in Seq(Nat)
      /\ HasStart(t.dst.queue) => Data(t.dst.queue) = q
      /\ ~HasStart(t.dst.queue) => Data(t.dst.queue) = t.dst.queue /\ m \in Messages /\ m \in Nat /\ t.dst.queue \in Seq(Nat)
  BY <1>1, <1>2, DataRest
<1>4. HasStart(t.dst.queue) <=> m = Start  BY <1>1 DEF HasStart
<1>5. t.phase \in {"pumping", "over"} /\ (t.phase = "pumping" => t.src.queue \in Seq(Nat))
  BY <1>0, <1>1, StreamIs, <1>2, DataIs DEF StreamSafe, Phases
<1>6. /\ IsRun(t.heard \o Data(t.dst.queue))
      /\ t.phase = "pumping" => EndsAt(t.heard \o Data(t.dst.queue) \o t.src.queue, t.sent)
  BY <1>0, <1>1 DEF StreamSafe
<1>m. m # Start => h \in Seq(Messages) /\ h \in Seq(Nat) /\ h \o q = t.heard \o t.dst.queue
  <2> SUFFICES ASSUME m # Start PROVE h \in Seq(Messages) /\ h \in Seq(Nat) /\ h \o q = t.heard \o t.dst.queue
    OBVIOUS
  <2> DEFINE g == t.heard
             p == t.dst.queue
  <2>1. m \in Messages /\ m \in Nat /\ g \in Seq(Nat) /\ g \in Seq(Messages) /\ p \in Seq(Nat) /\ p # <<>>
        /\ h = Append(g, m) /\ m = Head(p) /\ q = Tail(p)
    BY <1>1, <1>2, <1>3, <1>4
  <2> HIDE DEF g, p, m, q, h
  <2>2. h \in Seq(Messages) /\ h \in Seq(Nat)  BY <2>1
  <2>3. h \o q = g \o p  BY <2>1, MoveHead
  <2> QED  BY <2>2, <2>3 DEF g, p
<1> HIDE DEF q, m, h
<1>7. d \in Channel /\ d.queue = q /\ (d.snd <=> t.dst.snd) /\ (d.rcv <=> t.dst.rcv)  BY <1>2, <1>3, Requeued
<1>8. e \in Channel /\ e.queue = <<>> /\ ~e.rcv /\ (e.snd <=> t.dst.snd)  BY <1>2, EndShuts
<1> HIDE DEF d, e
<1>9. /\ rest \in Stream /\ rest.phase = t.phase /\ rest.src = t.src /\ rest.dst = d
      /\ rest.accepted = t.accepted /\ rest.heard = t.heard /\ rest.sent = t.sent
  BY <1>0, <1>7 DEF Stream
<1> HIDE DEF rest
<1>10. CASE m = Start /\ Step(s, [rest EXCEPT !.accepted = a])
  <2> DEFINE u == [rest EXCEPT !.accepted = a]
  <2>1. /\ u \in Stream /\ u.phase = t.phase /\ u.src = t.src /\ u.dst = d
        /\ u.accepted = a /\ u.heard = t.heard /\ u.sent = t.sent
    BY <1>9, <1>a DEF Stream
  <2> HIDE DEF u
  <2>2. ~t.accepted /\ t.heard = <<>>  BY <1>0, <1>4, <1>10 DEF StreamSafe
  <2>3. StreamSafe(u, o)
    <3> HIDE DEF EndsAt, HasStart, StartFirst, Data
    <3> QED  BY <1>0, <1>3, <1>4, <1>5, <1>6, <1>7, <1>10, <2>1, <2>2 DEF StreamSafe
  <2> QED  BY <1>10, <2>1, <2>3, StepKeeps DEF u, o
<1>11. CASE m = Start /\ Step(s, [t EXCEPT !.dst = e])
  <2> DEFINE u == [t EXCEPT !.dst = e]
  <2>1. /\ u \in Stream /\ u.phase = t.phase /\ u.src = t.src /\ u.dst = e
        /\ u.accepted = t.accepted /\ u.heard = t.heard /\ u.sent = t.sent
    BY <1>0, <1>8 DEF Stream
  <2> HIDE DEF u
  <2>2. Shut(t, u)  BY <1>8, <2>1 DEF Shut
  <2>3. u \in Stream /\ StreamSafe(u, o)  BY <1>0, <2>2, ShutKeeps
  <2> QED  BY <1>11, <2>3, StepKeeps DEF u, o
<1>12. CASE m # Start /\ t.accepted /\ Step(s, [rest EXCEPT !.heard = h])
  <2> DEFINE u == [rest EXCEPT !.heard = h]
  <2>0. h \in Seq(Messages) /\ h \in Seq(Nat) /\ h \o q = t.heard \o Data(t.dst.queue)
    BY <1>3, <1>4, <1>m, <1>12
  <2>1. /\ u \in Stream /\ u.phase = t.phase /\ u.src = t.src /\ u.dst = d
        /\ u.accepted = t.accepted /\ u.heard = h /\ u.sent = t.sent
    BY <1>9, <2>0 DEF Stream
  <2> HIDE DEF u
  <2>2. IsRun(h \o q) /\ (t.phase = "pumping" => EndsAt(h \o q \o t.src.queue, t.sent))  BY <1>6, <2>0
  <2>3. IsRun(h)  BY <1>3, <2>0, <2>2, RunPrefix
  <2>4. StreamSafe(u, o)
    <3> HIDE DEF EndsAt, HasStart, StartFirst, Data
    <3> QED  BY <1>0, <1>3, <1>4, <1>5, <1>7, <1>12, <2>1, <2>2, <2>3 DEF StreamSafe
  <2> QED  BY <1>12, <2>1, <2>4, StepKeeps DEF u, o
<1>13. CASE m # Start /\ ~t.accepted /\ Step(s, rest)
  <2> DEFINE p == t.dst.queue
             b == t.src.queue
  <2>1. t.heard = <<>> /\ Data(p) = p /\ p \in Seq(Nat) /\ p # <<>> /\ q = Tail(p)
    BY <1>0, <1>1, <1>3, <1>4, <1>13 DEF StreamSafe, q
  <2>2. t.heard \o Data(p) = p /\ t.heard \o Data(q) = q  BY <1>3, <2>1, JoinNone
  <2>3. IsRun(q)
    <3>1. EndsAt(p, p[Len(p)])  BY <1>6, <2>2 DEF EndsAt
    <3> HIDE DEF p
    <3>2. EndsAt(q, p[Len(p)])  BY <2>1, <3>1, EndsTail
    <3> QED  BY <3>2 DEF EndsAt
  <2>4. t.phase = "pumping" => EndsAt(q \o b, t.sent)
    <3> SUFFICES ASSUME t.phase = "pumping" PROVE EndsAt(q \o b, t.sent)  OBVIOUS
    <3>1. EndsAt(p \o b, t.sent) /\ b \in Seq(Nat)  BY <1>5, <1>6, <2>2
    <3>2. Tail(p) \o b = Tail(p \o b) /\ p \o b # <<>> /\ p \o b \in Seq(Nat)
      <4> HIDE DEF p, b
      <4> QED  BY <2>1, <3>1, TailFirst
    <3> DEFINE r == p \o b
    <3>3. r \in Seq(Nat) /\ r # <<>> /\ EndsAt(r, t.sent) /\ q \o b = Tail(r)  BY <2>1, <3>1, <3>2
    <3> HIDE DEF r
    <3>4. EndsAt(Tail(r), t.sent)  BY <3>3, EndsTail
    <3> QED  BY <3>3, <3>4
  <2>5. StreamSafe(rest, o)
    <3> HIDE DEF EndsAt, HasStart, StartFirst, Data
    <3> QED  BY <1>0, <1>3, <1>4, <1>5, <1>7, <1>9, <1>13, <2>1, <2>2, <2>3, <2>4 DEF StreamSafe
  <2> QED  BY <1>9, <1>13, <2>5, StepKeeps DEF o
<1> QED  BY <1>1, <1>10, <1>11, <1>12, <1>13

LEMMA ShutStream ==
  ASSUME StreamsSafe, NEW s \in Tunneled, CloseSource(s) \/ CloseDestination(s) \/ CloseReaches(s)
  PROVE  StreamsSafe'
<1> DEFINE t == stream[s]
           o == OriginOf[s]
           a == [t.src EXCEPT !.snd = FALSE]
           b == [t.src EXCEPT !.rcv = FALSE]
           d == [t.dst EXCEPT !.rcv = FALSE, !.queue = <<>>]
           e == [t.dst EXCEPT !.rcv = FALSE]
           ua == [t EXCEPT !.src = a]
           ub == [t EXCEPT !.src = b]
           ud == [t EXCEPT !.dst = d]
           ue == [t EXCEPT !.dst = e]
           uc == CleanedUp([t EXCEPT !.dst.snd = FALSE])
<1>0. t \in Stream /\ StreamSafe(t, o)  BY DEF StreamsSafe
<1>1. \/ Step(s, ua)
      \/ Step(s, ud)
      \/ t.src.queue = <<>> /\ Step(s, CleanedUp(ub))
      \/ t.dst.queue = <<>> /\ Step(s, ue)
      \/ Step(s, uc)
  <2>1. /\ [t EXCEPT !.src.snd = FALSE] = ua
        /\ [t EXCEPT !.src.rcv = FALSE] = ub
        /\ [t EXCEPT !.dst.rcv = FALSE, !.dst.queue = <<>>] = ud
        /\ [t EXCEPT !.dst.rcv = FALSE] = ue
    BY <1>0 DEF Stream, Channel
  <2> HIDE DEF ua, ub, ud, ue
  <2> QED  BY <2>1 DEF CloseSource, CloseDestination, CloseReaches
<1>2. /\ a \in Channel /\ ~a.snd /\ (a.rcv <=> t.src.rcv) /\ a.queue = t.src.queue
      /\ b \in Channel /\ b.queue = t.src.queue /\ ~b.rcv /\ (b.snd <=> t.src.snd)
      /\ d \in Channel /\ d.queue = <<>> /\ ~d.rcv /\ (d.snd <=> t.dst.snd)
      /\ e \in Channel /\ e.queue = t.dst.queue /\ ~e.rcv /\ (e.snd <=> t.dst.snd)
  BY <1>0, EndShuts, StreamIs
<1>3. Shut(t, uc)  BY <1>0, DestinationLost
<1> HIDE DEF t, o, a, b, d, e, uc
<1>4. ASSUME NEW c \in Channel
      PROVE  /\ LET u == [t EXCEPT !.src = c]
                IN  /\ u \in Stream /\ u.src = c /\ u.dst = t.dst
                    /\ u.phase = t.phase /\ u.accepted = t.accepted /\ u.heard = t.heard /\ u.sent = t.sent
             /\ LET u == [t EXCEPT !.dst = c]
                IN  /\ u \in Stream /\ u.src = t.src /\ u.dst = c
                    /\ u.phase = t.phase /\ u.accepted = t.accepted /\ u.heard = t.heard /\ u.sent = t.sent
  BY <1>0 DEF Stream
<1>5. /\ /\ ua \in Stream /\ ua.src = a /\ ua.dst = t.dst
         /\ ua.phase = t.phase /\ ua.accepted = t.accepted /\ ua.heard = t.heard /\ ua.sent = t.sent
      /\ /\ ub \in Stream /\ ub.src = b /\ ub.dst = t.dst
         /\ ub.phase = t.phase /\ ub.accepted = t.accepted /\ ub.heard = t.heard /\ ub.sent = t.sent
      /\ /\ ud \in Stream /\ ud.src = t.src /\ ud.dst = d
         /\ ud.phase = t.phase /\ ud.accepted = t.accepted /\ ud.heard = t.heard /\ ud.sent = t.sent
      /\ /\ ue \in Stream /\ ue.src = t.src /\ ue.dst = e
         /\ ue.phase = t.phase /\ ue.accepted = t.accepted /\ ue.heard = t.heard /\ ue.sent = t.sent
  BY <1>2, <1>4
<1> HIDE DEF ua, ub, ud, ue
<1>6. Shut(t, ua) /\ Shut(t, ud) /\ Shut(t, ue)  BY <1>2, <1>5 DEF Shut
<1>7. t.src.queue = <<>> => Shut(t, CleanedUp(ub))
  <2> SUFFICES ASSUME t.src.queue = <<>> PROVE Shut(t, CleanedUp(ub))  OBVIOUS
  <2>1. Shut(ub, CleanedUp(ub)) /\ (CleanedUp(ub).phase = "pumping" => ub.src.rcv /\ CleanedUp(ub) = ub)
    BY <1>5, CleanedUpShuts
  <2> HIDE DEF CleanedUp
  <2> QED  BY <1>0, <1>2, <1>5, <2>1, ShutTwice
<1>8. \A u : Shut(t, u) => u \in Stream /\ StreamSafe(u, o)  BY <1>0, ShutKeeps
<1> QED  BY <1>1, <1>3, <1>6, <1>7, <1>8, StepKeeps DEF o

-----------------------------------------------------------------------------
(* The control messages of a tunnel. *)

BridgeSafe ==
    /\ bridge.state = "open" => host["bridge"] /\ local
    /\ bridge.state = "none" => toBridge = <<>> /\ proxy = "unknown" /\ toProxy = <<>>
                                /\ ~bridge.control /\ bridge.pending = <<>>
    /\ bridge.state = "gone" => ~local /\ bridge.pending = <<>>
    /\ bridge.control => bridge.pending = <<>>
    /\ ~bridge.control => atLocal = <<>>
    /\ ~local => fromLocal = <<>>

ProxySafe ==
    /\ StartFirst(toProxy)
    /\ HasStart(toProxy) => proxy = "unknown" /\ (host["proxy"] => atProxy = <<>>)
    /\ toProxy # <<>> /\ proxy = "unknown" /\ host["proxy"] => HasStart(toProxy)
    /\ proxy = "unknown" => atProxy = <<>> \/ ~host["proxy"]
    /\ ~host["proxy"] => proxy = "unknown"
    /\ bridge.state = "open" /\ proxy = "unknown" /\ host["proxy"] => HasStart(toProxy)

\* towards the bridge, and away from it
Toward == atLocal \o bridge.pending \o toBridge
Away == atProxy \o Data(toProxy) \o fromLocal

NothingMissing ==
    /\ bridge.state # "gone" => First(Toward) /\ Len(Toward) = given["proxy"]
    /\ First(atLocal) /\ Len(atLocal) <= given["proxy"]
    /\ First(atProxy) /\ Len(atProxy) <= given["bridge"]
    /\ host["proxy"] /\ proxy # "closed" => First(Away) /\ Len(Away) <= given["bridge"]
    /\ host["proxy"] /\ proxy # "closed" /\ bridge.state # "gone" /\ local => Len(Away) = given["bridge"]

ControlTyped ==
    /\ bridge \in [state : {"none", "open", "gone"}, control : BOOLEAN, pending : Seq(Messages)]
    /\ local \in BOOLEAN
    /\ proxy \in {"unknown", "open", "closed"}
    /\ host \in [Nodes -> BOOLEAN]
    /\ toProxy \in Packets
    /\ toBridge \in Seq(Messages) /\ fromLocal \in Seq(Messages) /\ atLocal \in Seq(Messages) /\ atProxy \in Seq(Messages)
    /\ given \in [Nodes -> 0..MaxGiven]

ControlSafe == ControlTyped /\ BridgeSafe /\ ProxySafe /\ NothingMissing

LEMMA TypedIs == TunnelTypeOK <=> ControlTyped /\ stream \in [Tunneled -> Stream]
  BY DEF TunnelTypeOK, ControlTyped, Packets

\* The types of what the control messages pass.
LEMMA ControlIs ==
  ASSUME ControlTyped, StartFirst(toProxy)
  PROVE  /\ atLocal \in Seq(Nat) /\ bridge.pending \in Seq(Nat) /\ toBridge \in Seq(Nat)
         /\ atProxy \in Seq(Nat) /\ Data(toProxy) \in Seq(Nat) /\ fromLocal \in Seq(Nat)
         /\ atLocal \o bridge.pending \in Seq(Nat) /\ atProxy \o Data(toProxy) \in Seq(Nat)
         /\ Toward \in Seq(Nat) /\ Away \in Seq(Nat)
         /\ given["proxy"] \in Nat /\ given["bridge"] \in Nat
         /\ bridge.state \in {"none", "open", "gone"}
<1>1. /\ atLocal \in Seq(Nat) /\ bridge.pending \in Seq(Nat) /\ toBridge \in Seq(Nat)
      /\ atProxy \in Seq(Nat) /\ fromLocal \in Seq(Nat) /\ Data(toProxy) \in Seq(Nat)
  BY MessagesAreNat, DataIs DEF ControlTyped
<1>2. given["proxy"] \in Nat /\ given["bridge"] \in Nat /\ bridge.state \in {"none", "open", "gone"}
  BY TunnelAssumption DEF ControlTyped, Nodes
<1>3. atLocal \o bridge.pending \in Seq(Nat) /\ atProxy \o Data(toProxy) \in Seq(Nat)  BY <1>1
<1>4. Toward \in Seq(Nat) /\ Away \in Seq(Nat)
  <2> DEFINE a == atLocal \o bridge.pending
             b == atProxy \o Data(toProxy)
  <2>1. a \in Seq(Nat) /\ b \in Seq(Nat)  BY <1>3
  <2> HIDE DEF a, b
  <2>2. a \o toBridge \in Seq(Nat) /\ b \o fromLocal \in Seq(Nat)  BY <1>1, <2>1
  <2> QED  BY <2>2 DEF Toward, Away, a, b
<1> QED  BY <1>1, <1>2, <1>3, <1>4

LEMMA TwoNodes == Nodes = {"bridge", "proxy"}
  BY DEF Nodes

LEMMA BridgeControl ==
  ASSUME ControlSafe, Bridge
  PROVE  ControlSafe'
<1>1. /\ bridge.state = "none" /\ host["bridge"] /\ local
      /\ bridge' = [bridge EXCEPT !.state = "open"] /\ toProxy' = Append(toProxy, Start)
      /\ UNCHANGED <<local, proxy, host, toBridge, fromLocal, atLocal, atProxy, given>>
  BY DEF Bridge
<1>2. ControlTyped /\ BridgeSafe /\ ProxySafe /\ NothingMissing  BY DEF ControlSafe
<1>3. toProxy = <<>> /\ toProxy' = <<Start>>  BY <1>1, <1>2 DEF BridgeSafe
<1>4. HasStart(toProxy') /\ StartFirst(toProxy') /\ Data(toProxy') = <<>> /\ Data(toProxy) = <<>>
  BY <1>3 DEF HasStart, StartFirst, Data
<1>5. bridge' \in [state : {"none", "open", "gone"}, control : BOOLEAN, pending : Seq(Messages)]
      /\ bridge'.state = "open" /\ bridge'.control = bridge.control /\ bridge'.pending = bridge.pending
  BY <1>1, <1>2 DEF ControlTyped
<1>6. ControlTyped'  BY <1>1, <1>2, <1>3, <1>5, MessagesAreNat DEF ControlTyped
<1>7. Toward' = Toward /\ Away' = Away  BY <1>1, <1>4, <1>5 DEF Toward, Away
<1>8. BridgeSafe'  BY <1>1, <1>2, <1>5 DEF BridgeSafe
<1>9. ProxySafe'  BY <1>1, <1>2, <1>4, <1>5 DEF ProxySafe, BridgeSafe
<1>10. NothingMissing'  BY <1>1, <1>2, <1>5, <1>7 DEF NothingMissing
<1> QED  BY <1>6, <1>8, <1>9, <1>10 DEF ControlSafe

LEMMA ControlReadyControl ==
  ASSUME ControlSafe, ControlReady
  PROVE  ControlSafe'
<1>1. /\ bridge.state = "open" /\ ~bridge.control
      /\ bridge' = [bridge EXCEPT !.control = TRUE, !.pending = <<>>] /\ atLocal' = atLocal \o bridge.pending
      /\ UNCHANGED <<local, proxy, host, toProxy, toBridge, fromLocal, atProxy, given>>
  BY DEF ControlReady
<1>2. ControlTyped /\ BridgeSafe /\ ProxySafe /\ NothingMissing  BY DEF ControlSafe
<1>3. bridge' \in [state : {"none", "open", "gone"}, control : BOOLEAN, pending : Seq(Messages)]
      /\ bridge'.state = "open" /\ bridge'.control /\ bridge'.pending = <<>>
  <2>1. <<>> \in Seq(Messages)  OBVIOUS
  <2> QED  BY <1>1, <1>2, <2>1 DEF ControlTyped
<1>4. ControlTyped'
  <2>1. atLocal' \in Seq(Messages)
    <3> HIDE DEF Messages
    <3>1. atLocal \in Seq(Messages) /\ bridge.pending \in Seq(Messages)  BY <1>2 DEF ControlTyped
    <3> QED  BY <1>1, <3>1
  <2> QED  BY <1>1, <1>2, <1>3, <2>1 DEF ControlTyped
<1>5. /\ atLocal \o bridge.pending \in Seq(Nat) /\ toBridge \in Seq(Nat) /\ given["proxy"] \in Nat
  BY <1>2, ControlIs DEF ProxySafe
<1>6. Toward' = Toward  BY <1>1, <1>5, JoinNone, <1>3 DEF Toward
<1>7. First(atLocal') /\ Len(atLocal') <= given["proxy"]
  <2> DEFINE a == atLocal \o bridge.pending
  <2>1. First(a \o toBridge) /\ Len(a \o toBridge) = given["proxy"]  BY <1>1, <1>2 DEF NothingMissing, Toward
  <2>2. First(a) /\ Len(a) <= Len(a \o toBridge)  BY <1>5, <2>1, FirstPrefix
  <2> QED  BY <1>1, <2>1, <2>2
<1>8. BridgeSafe'  BY <1>1, <1>2, <1>3 DEF BridgeSafe
<1>9. ProxySafe'  BY <1>1, <1>2, <1>3 DEF ProxySafe
<1>10. Away' = Away  BY <1>1 DEF Away
<1>11. NothingMissing'  BY <1>1, <1>2, <1>3, <1>6, <1>7, <1>10 DEF NothingMissing
<1> QED  BY <1>4, <1>8, <1>9, <1>11 DEF ControlSafe

\* A bridge that is cleaned up, whatever else is lost at its node.
LEMMA CleanedControl ==
  ASSUME ControlSafe,
         bridge' = [bridge EXCEPT !.state = IF @ = "open" THEN "gone" ELSE @, !.pending = <<>>],
         ~local', local' \in BOOLEAN, fromLocal' = <<>>,
         UNCHANGED <<proxy, toProxy, atLocal, atProxy, given>>,
         toBridge' = toBridge \/ (toBridge' = <<>> /\ bridge.state = "open"),
         host' = host \/ host' = [host EXCEPT !["bridge"] = FALSE]
  PROVE  ControlSafe'
<1>2. ControlTyped /\ BridgeSafe /\ ProxySafe /\ NothingMissing  BY DEF ControlSafe
<1>3. bridge' \in [state : {"none", "open", "gone"}, control : BOOLEAN, pending : Seq(Messages)]
      /\ bridge'.state = (IF bridge.state = "open" THEN "gone" ELSE bridge.state)
      /\ bridge'.control = bridge.control /\ bridge'.pending = <<>>
  <2> DEFINE g == IF bridge.state = "open" THEN "gone" ELSE bridge.state
  <2>1. <<>> \in Seq(Messages) /\ g \in {"none", "open", "gone"} /\ bridge' = [bridge EXCEPT !.state = g, !.pending = <<>>]
    BY <1>2 DEF ControlTyped
  <2> HIDE DEF g
  <2>2. bridge' \in [state : {"none", "open", "gone"}, control : BOOLEAN, pending : Seq(Messages)]
        /\ bridge'.state = g /\ bridge'.control = bridge.control /\ bridge'.pending = <<>>
    BY <1>2, <2>1 DEF ControlTyped
  <2> QED  BY <2>2 DEF g
<1>h. host' \in [Nodes -> BOOLEAN] /\ host'["proxy"] = host["proxy"]  BY <1>2, TwoNodes DEF ControlTyped
<1>4. ControlTyped'  BY <1>2, <1>3, <1>h, MessagesAreNat DEF ControlTyped
<1>5. BridgeSafe'  BY <1>2, <1>3, ControlIs DEF BridgeSafe, ProxySafe
<1>6. ProxySafe'  BY <1>2, <1>3, <1>h DEF ProxySafe
<1>7. bridge'.state # "gone" => Toward' = Toward  BY <1>2, <1>3 DEF Toward, BridgeSafe
<1>8. host["proxy"] /\ proxy # "closed" => First(Away') /\ Len(Away') <= given["bridge"]
  <2> SUFFICES ASSUME host["proxy"], proxy # "closed" PROVE First(Away') /\ Len(Away') <= given["bridge"]
    OBVIOUS
  <2> DEFINE a == atProxy \o Data(toProxy)
  <2>1. a \in Seq(Nat) /\ fromLocal \in Seq(Nat) /\ given["bridge"] \in Nat  BY <1>2, ControlIs DEF ProxySafe
  <2>2. First(a \o fromLocal) /\ Len(a \o fromLocal) <= given["bridge"]  BY <1>2 DEF NothingMissing, Away
  <2>3. Away' = a \o <<>>  BY DEF Away
  <2> HIDE DEF a
  <2>4. First(a) /\ Len(a) <= Len(a \o fromLocal) /\ Len(a) \in Nat /\ Len(a \o fromLocal) \in Nat
    BY <2>1, <2>2, FirstPrefix
  <2>5. Away' = a  BY <2>1, <2>3, JoinNone
  <2> QED  BY <2>1, <2>2, <2>4, <2>5
<1>9. NothingMissing'  BY <1>2, <1>3, <1>7, <1>8, <1>h DEF NothingMissing
<1> QED  BY <1>4, <1>5, <1>6, <1>9 DEF ControlSafe

LEMMA SendFromLocalControl ==
  ASSUME ControlSafe, SendFromLocal
  PROVE  ControlSafe'
<1> DEFINE n == given["bridge"]
<1>1. /\ local /\ n < MaxGiven
      /\ given' = [given EXCEPT !["bridge"] = @ + 1] /\ fromLocal' = Append(fromLocal, given'["bridge"])
      /\ UNCHANGED <<bridge, local, proxy, host, toProxy, toBridge, atLocal, atProxy>>
  BY DEF SendFromLocal
<1>2. ControlTyped /\ BridgeSafe /\ ProxySafe /\ NothingMissing  BY DEF ControlSafe
<1>3. /\ atProxy \o Data(toProxy) \in Seq(Nat) /\ fromLocal \in Seq(Nat) /\ Away \in Seq(Nat) /\ n \in Nat
      /\ given["proxy"] \in Nat
  BY <1>2, ControlIs DEF ProxySafe
<1>4. given'["bridge"] = n + 1 /\ given'["proxy"] = given["proxy"] /\ given' \in [Nodes -> 0 .. MaxGiven]
  BY <1>1, <1>2, <1>3, TwoNodes, TunnelAssumption DEF ControlTyped
<1>5. n + 1 \in Messages  BY <1>1, <1>3, TunnelAssumption DEF Messages
<1>6. fromLocal' \in Seq(Messages)
  <2> HIDE DEF Messages, n
  <2>1. fromLocal \in Seq(Messages)  BY <1>2 DEF ControlTyped
  <2> QED  BY <1>1, <1>4, <1>5, <2>1
<1>7. ControlTyped'  BY <1>1, <1>2, <1>4, <1>6 DEF ControlTyped
<1>8. Away' = Append(Away, n + 1) /\ Toward' = Toward
  <2> DEFINE a == atProxy \o Data(toProxy)
  <2>1. a \in Seq(Nat) /\ Away = a \o fromLocal /\ Away' = a \o Append(fromLocal, n + 1)
    BY <1>1, <1>3, <1>4 DEF Away
  <2> HIDE DEF a
  <2>2. n + 1 \in Nat  BY <1>3
  <2>3. a \o Append(fromLocal, n + 1) = Append(a \o fromLocal, n + 1)  BY <1>3, <2>1, <2>2, JoinLast
  <2> QED  BY <1>1, <2>1, <2>3 DEF Toward
<1>9. BridgeSafe'  BY <1>1, <1>2 DEF BridgeSafe
<1>10. ProxySafe'  BY <1>1, <1>2 DEF ProxySafe
<1>11. bridge.state # "gone"  BY <1>1, <1>2 DEF BridgeSafe
<1>12. host["proxy"] /\ proxy # "closed" => First(Away') /\ Len(Away') = n + 1
  BY <1>1, <1>2, <1>3, <1>8, <1>11, FirstNext DEF NothingMissing
<1>13. First(atProxy) /\ Len(atProxy) <= n + 1  BY <1>2, MessagesAreNat, <1>3 DEF NothingMissing, ControlTyped
<1>14. NothingMissing'  BY <1>1, <1>2, <1>3, <1>4, <1>8, <1>12, <1>13 DEF NothingMissing
<1> QED  BY <1>7, <1>9, <1>10, <1>14 DEF ControlSafe

LEMMA ForwardFromLocalControl ==
  ASSUME ControlSafe, ForwardFromLocal
  PROVE  ControlSafe'
<1> DEFINE m == Head(fromLocal)
<1>1. /\ bridge.state = "open" /\ fromLocal # <<>>
      /\ toProxy' = Append(toProxy, m) /\ fromLocal' = Tail(fromLocal)
      /\ UNCHANGED <<bridge, local, proxy, host, toBridge, atLocal, atProxy, given>>
  BY DEF ForwardFromLocal
<1>2. ControlTyped /\ BridgeSafe /\ ProxySafe /\ NothingMissing  BY DEF ControlSafe
<1>3. toProxy \in Packets /\ StartFirst(toProxy) /\ fromLocal \in Seq(Messages)
  BY <1>2 DEF ControlTyped, ProxySafe
<1>4. m \in Messages /\ Tail(fromLocal) \in Seq(Messages)
  <2> HIDE DEF Messages
  <2> QED  BY <1>1, <1>3
<1> HIDE DEF m
<1>5. /\ toProxy' \in Packets /\ StartFirst(toProxy') /\ (HasStart(toProxy') <=> HasStart(toProxy))
      /\ Data(toProxy') = Append(Data(toProxy), m)
  BY <1>1, <1>3, <1>4, DataNext
<1>6. ControlTyped'  BY <1>1, <1>2, <1>4, <1>5 DEF ControlTyped
<1>7. Away' = Away /\ Toward' = Toward
  <2> DEFINE d == Data(toProxy)
             a == atProxy \o d
  <2>1. a \in Seq(Nat) /\ d \in Seq(Nat) /\ atProxy \in Seq(Nat) /\ fromLocal \in Seq(Nat) /\ m \in Nat
    BY <1>2, <1>4, ControlIs, MessagesAreNat DEF ProxySafe
  <2>2. Away' = (atProxy \o Append(d, m)) \o Tail(fromLocal)  BY <1>1, <1>5 DEF Away
  <2>3. atProxy \o Append(d, m) = Append(a, m)
    <3> HIDE DEF d
    <3> QED  BY <2>1, JoinLast
  <2> HIDE DEF a
  <2>4. Append(a, m) \o Tail(fromLocal) = a \o fromLocal  BY <1>1, <2>1, MoveHead DEF m
  <2> QED  BY <1>1, <2>2, <2>3, <2>4 DEF Away, a, Toward
<1>8. BridgeSafe'  BY <1>1, <1>2 DEF BridgeSafe
<1>9. ProxySafe'  BY <1>5, <1>1, <1>2 DEF ProxySafe
<1>10. NothingMissing'  BY <1>1, <1>2, <1>7 DEF NothingMissing
<1> QED  BY <1>6, <1>8, <1>9, <1>10 DEF ControlSafe

LEMMA RouteToBridgeControl ==
  ASSUME ControlSafe, RouteToBridge
  PROVE  ControlSafe'
<1> DEFINE m == Head(toBridge)
           g == bridge.state = "open"
<1>1. /\ toBridge # <<>> /\ toBridge' = Tail(toBridge)
      /\ UNCHANGED <<local, proxy, host, toProxy, fromLocal, atProxy, given>>
      /\ \/ g /\ bridge.control /\ atLocal' = Append(atLocal, m) /\ UNCHANGED bridge
         \/ g /\ ~bridge.control /\ bridge' = [bridge EXCEPT !.pending = Append(@, m)] /\ UNCHANGED atLocal
         \/ ~g /\ UNCHANGED <<bridge, atLocal>>
  BY DEF RouteToBridge
<1>2. ControlTyped /\ BridgeSafe /\ ProxySafe /\ NothingMissing  BY DEF ControlSafe
<1>3. /\ toBridge \in Seq(Messages) /\ atLocal \in Seq(Messages) /\ bridge.pending \in Seq(Messages)
      /\ bridge \in [state : {"none", "open", "gone"}, control : BOOLEAN, pending : Seq(Messages)]
  BY <1>2 DEF ControlTyped
<1>4. /\ m \in Messages /\ toBridge' \in Seq(Messages)
      /\ Append(atLocal, m) \in Seq(Messages) /\ Append(bridge.pending, m) \in Seq(Messages)
  <2> HIDE DEF Messages
  <2> QED  BY <1>1, <1>3
<1> HIDE DEF m
<1>5. /\ atLocal \in Seq(Nat) /\ bridge.pending \in Seq(Nat) /\ toBridge \in Seq(Nat) /\ atLocal \o bridge.pending \in Seq(Nat)
      /\ given["proxy"] \in Nat /\ Toward \in Seq(Nat)
  BY <1>2, ControlIs DEF ProxySafe
<1>6. /\ bridge' \in [state : {"none", "open", "gone"}, control : BOOLEAN, pending : Seq(Messages)]
      /\ bridge'.state = bridge.state /\ (bridge'.control <=> bridge.control)
      /\ bridge'.pending \in {bridge.pending, Append(bridge.pending, m)}
      /\ bridge'.pending = (IF g /\ ~bridge.control THEN Append(bridge.pending, m) ELSE bridge.pending)
      /\ atLocal' = (IF g /\ bridge.control THEN Append(atLocal, m) ELSE atLocal)
  <2>1. CASE ~(g /\ ~bridge.control)  BY <1>1, <1>3, <2>1
  <2>2. CASE g /\ ~bridge.control
    <3> DEFINE p == Append(bridge.pending, m)
    <3>1. bridge' = [bridge EXCEPT !.pending = p] /\ p \in Seq(Messages) /\ atLocal' = atLocal
      BY <1>1, <1>4, <2>2
    <3> HIDE DEF p
    <3>2. /\ bridge' \in [state : {"none", "open", "gone"}, control : BOOLEAN, pending : Seq(Messages)]
          /\ bridge'.state = bridge.state /\ (bridge'.control <=> bridge.control) /\ bridge'.pending = p
      BY <1>3, <3>1
    <3> QED  BY <2>2, <3>1, <3>2 DEF p
  <2> QED  BY <2>1, <2>2
<1>7. ControlTyped'  BY <1>1, <1>2, <1>3, <1>4, <1>6 DEF ControlTyped
<1>8. g => Toward' = Toward
  <2> SUFFICES ASSUME g PROVE Toward' = Toward  OBVIOUS
  <2> DEFINE a == atLocal \o bridge.pending
  <2>1. a \in Seq(Nat) /\ m \in Nat  BY <1>4, <1>5, MessagesAreNat
  <2>2. atLocal' \o bridge'.pending = Append(a, m)
    <3>1. CASE ~bridge.control
      <4> DEFINE c == bridge.pending
      <4>1. bridge'.pending = Append(c, m) /\ atLocal' = atLocal  BY <1>6, <3>1
      <4>2. c \in Seq(Nat)  BY <1>5
      <4>3. a = atLocal \o c  OBVIOUS
      <4> HIDE DEF a, c
      <4>4. atLocal \o Append(c, m) = Append(atLocal \o c, m)  BY <1>5, <2>1, <4>2, JoinLast
      <4> QED  BY <4>1, <4>3, <4>4
    <3>2. CASE bridge.control
      <4>1. bridge.pending = <<>>  BY <1>2, <3>2 DEF BridgeSafe
      <4>2. Append(atLocal, m) \in Seq(Nat)  BY <1>5, <2>1
      <4>3. a = atLocal /\ Append(atLocal, m) \o <<>> = Append(atLocal, m)  BY <1>5, <4>1, <4>2, JoinNone
      <4> QED  BY <1>6, <3>2, <4>1, <4>3
    <3> QED  BY <3>1, <3>2
  <2> HIDE DEF a
  <2>3. Append(a, m) \o Tail(toBridge) = a \o toBridge  BY <1>1, <1>5, <2>1, MoveHead DEF m
  <2> QED  BY <1>1, <2>2, <2>3 DEF Toward, a
<1>9. bridge.state \in {"open", "gone"}  BY <1>1, <1>2, <1>3 DEF BridgeSafe
<1>10. BridgeSafe'  BY <1>1, <1>2, <1>6, <1>9 DEF BridgeSafe
<1>11. ProxySafe'  BY <1>1, <1>2, <1>6 DEF ProxySafe
<1>12. Away' = Away  BY <1>1 DEF Away
<1>13. First(atLocal') /\ Len(atLocal') <= given["proxy"]
  <2>1. CASE g /\ bridge.control
    <3> DEFINE a == atLocal'
               b == bridge'.pending \o toBridge'
    <3>1. a \in Seq(Nat) /\ bridge'.pending \in Seq(Nat) /\ toBridge' \in Seq(Nat)
      BY <1>4, <1>5, <1>6, <2>1, MessagesAreNat
    <3>2. b \in Seq(Nat) /\ Toward' = a \o b
      <4> DEFINE c == bridge'.pending
                 e == toBridge'
      <4>0. a \in Seq(Nat)  BY <3>1
      <4>1. Toward' = (a \o c) \o e /\ b = c \o e /\ c \in Seq(Nat) /\ e \in Seq(Nat)  BY <3>1 DEF Toward
      <4> HIDE DEF a, b, c, e
      <4> QED
        <5>1. c \o e \in Seq(Nat)  BY <4>1
        <5>2. (a \o c) \o e = a \o (c \o e)  BY <4>0, <4>1, JoinThree
        <5> QED  BY <4>1, <5>1, <5>2
    <3>3. First(a \o b) /\ Len(a \o b) = given["proxy"]  BY <1>2, <1>8, <2>1, <3>2 DEF NothingMissing
    <3> HIDE DEF a, b
    <3>4. First(a) /\ Len(a) <= Len(a \o b)  BY <3>1, <3>2, <3>3, FirstPrefix DEF a
    <3> QED  BY <3>3, <3>4 DEF a
  <2>2. CASE ~(g /\ bridge.control)  BY <1>2, <1>6, <2>2 DEF NothingMissing
  <2> QED  BY <2>1, <2>2
<1>14. NothingMissing'  BY <1>1, <1>2, <1>6, <1>8, <1>9, <1>12, <1>13 DEF NothingMissing
<1> QED  BY <1>7, <1>10, <1>11, <1>14 DEF ControlSafe

LEMMA RouteToProxyControl ==
  ASSUME ControlSafe, RouteToProxy
  PROVE  ControlSafe'
<1> DEFINE m == Head(toProxy)
<1>1. /\ host["proxy"] /\ toProxy # <<>> /\ toProxy' = Tail(toProxy)
      /\ proxy' = (IF m = Start THEN "open" ELSE proxy)
      /\ atProxy' = (IF m # Start /\ proxy = "open" THEN Append(atProxy, m) ELSE atProxy)
      /\ UNCHANGED <<bridge, local, host, toBridge, fromLocal, atLocal, given>>
  BY DEF RouteToProxy
<1>2. ControlTyped /\ BridgeSafe /\ ProxySafe /\ NothingMissing  BY DEF ControlSafe
<1>3. toProxy \in Packets /\ StartFirst(toProxy) /\ atProxy \in Seq(Messages)
  BY <1>2 DEF ControlTyped, ProxySafe
<1>4. HasStart(toProxy) <=> m = Start  BY <1>1 DEF HasStart
<1>5. /\ Tail(toProxy) \in Packets /\ StartFirst(Tail(toProxy)) /\ ~HasStart(Tail(toProxy)) /\ Data(Tail(toProxy)) = Tail(toProxy)
      /\ HasStart(toProxy) => Data(toProxy) = Tail(toProxy)
      /\ ~HasStart(toProxy) => Data(toProxy) = toProxy /\ m \in Messages /\ Data(toProxy) \in Seq(Nat) /\ m \in Nat
      /\ Tail(toProxy) \in Seq(Nat)
  BY <1>1, <1>3, DataRest
<1>6. /\ atProxy \in Seq(Nat) /\ fromLocal \in Seq(Nat) /\ given["bridge"] \in Nat /\ Away \in Seq(Nat)
  BY <1>2, ControlIs DEF ProxySafe
<1> HIDE DEF m
<1>7. atProxy' \in Seq(Messages) /\ proxy' \in {"unknown", "open", "closed"}
  <2>1. m # Start => Append(atProxy, m) \in Seq(Messages)
    <3> HIDE DEF Messages
    <3> QED  BY <1>3, <1>4, <1>5
  <2>2. proxy \in {"unknown", "open", "closed"}  BY <1>2 DEF ControlTyped
  <2> QED  BY <1>1, <1>3, <2>1, <2>2
<1>8. ControlTyped'  BY <1>1, <1>2, <1>5, <1>7 DEF ControlTyped
<1>9. proxy' # "closed" => Away' = Away
  <2> SUFFICES ASSUME proxy' # "closed" PROVE Away' = Away  OBVIOUS
  <2>1. CASE m = Start  BY <1>1, <1>4, <1>5, <2>1 DEF Away
  <2>2. CASE m # Start
    <3>1. proxy = "open"  BY <1>1, <1>2, <1>4, <2>2 DEF ProxySafe, ControlTyped
    <3>2. Append(atProxy, m) \o Tail(toProxy) = atProxy \o toProxy
      BY <1>1, <1>4, <1>5, <1>6, <2>2, MoveHead DEF m
    <3>3. atProxy' \o Data(toProxy') = atProxy \o Data(toProxy)  BY <1>1, <1>4, <1>5, <2>2, <3>1, <3>2
    <3> QED  BY <1>1, <3>3 DEF Away
  <2> QED  BY <2>1, <2>2
<1>10. Toward' = Toward  BY <1>1 DEF Toward
<1>11. BridgeSafe'  BY <1>1, <1>2 DEF BridgeSafe
<1>12. proxy' # "unknown"  BY <1>1, <1>2, <1>4 DEF ProxySafe
<1>13. ProxySafe'  BY <1>1, <1>2, <1>5, <1>12 DEF ProxySafe
<1>14. First(atProxy') /\ Len(atProxy') <= given["bridge"]
  <2>1. CASE m # Start /\ proxy = "open"
    <3> DEFINE a == atProxy'
               d == Data(toProxy')
               b == d \o fromLocal
    <3>1. a \in Seq(Nat) /\ d \in Seq(Nat)  BY <1>1, <1>5, <1>7, MessagesAreNat
    <3>2. Away' = (a \o d) \o fromLocal  BY <1>1 DEF Away
    <3> HIDE DEF a, d
    <3>3. b \in Seq(Nat) /\ (a \o d) \o fromLocal = a \o b
      <4> DEFINE c == fromLocal
      <4>1. c \in Seq(Nat) /\ b = d \o c  BY <1>6
      <4> HIDE DEF b, c
      <4>2. d \o c \in Seq(Nat)  BY ONLY <3>1, <4>1
      <4>3. (a \o d) \o c = a \o (d \o c)  BY ONLY <3>1, <4>1, JoinThree
      <4> QED  BY <4>1, <4>2, <4>3 DEF c
    <3> HIDE DEF b
    <3>4. First(a \o b) /\ Len(a \o b) <= given["bridge"]
      BY <1>1, <1>2, <1>9, <2>1, <3>2, <3>3 DEF NothingMissing
    <3>5. First(a) /\ Len(a) <= Len(a \o b) /\ Len(a) \in Nat /\ Len(a \o b) \in Nat
      BY <3>1, <3>3, <3>4, FirstPrefix
    <3> QED  BY <1>6, <3>4, <3>5 DEF a
  <2>2. CASE ~(m # Start /\ proxy = "open")  BY <1>1, <1>2, <2>2 DEF NothingMissing
  <2> QED  BY <2>1, <2>2
<1>15. proxy' # "closed" => proxy # "closed" \/ m = Start  BY <1>1
<1>16. proxy' # "closed" => proxy # "closed"  BY <1>2, <1>4, <1>15 DEF ProxySafe
<1>17. NothingMissing'  BY <1>1, <1>2, <1>9, <1>10, <1>14, <1>16 DEF NothingMissing
<1> QED  BY <1>8, <1>11, <1>13, <1>17 DEF ControlSafe

LEMMA SendFromProxyControl ==
  ASSUME ControlSafe, SendFromProxy
  PROVE  ControlSafe'
<1> DEFINE n == given["proxy"]
<1>1. /\ proxy = "open" /\ n < MaxGiven
      /\ given' = [given EXCEPT !["proxy"] = @ + 1] /\ toBridge' = Append(toBridge, given'["proxy"])
      /\ UNCHANGED <<bridge, local, proxy, host, toProxy, fromLocal, atLocal, atProxy>>
  BY DEF SendFromProxy
<1>2. ControlTyped /\ BridgeSafe /\ ProxySafe /\ NothingMissing  BY DEF ControlSafe
<1>3. /\ atLocal \o bridge.pending \in Seq(Nat) /\ toBridge \in Seq(Nat) /\ Toward \in Seq(Nat) /\ n \in Nat
      /\ given["bridge"] \in Nat
  BY <1>2, ControlIs DEF ProxySafe
<1>4. given'["proxy"] = n + 1 /\ given'["bridge"] = given["bridge"] /\ given' \in [Nodes -> 0 .. MaxGiven]
  BY <1>1, <1>2, <1>3, TwoNodes, TunnelAssumption DEF ControlTyped
<1>5. n + 1 \in Messages  BY <1>1, <1>3, TunnelAssumption DEF Messages
<1>6. toBridge' \in Seq(Messages)
  <2> HIDE DEF Messages, n
  <2>1. toBridge \in Seq(Messages)  BY <1>2 DEF ControlTyped
  <2> QED  BY <1>1, <1>4, <1>5, <2>1
<1>7. ControlTyped'  BY <1>1, <1>2, <1>4, <1>6 DEF ControlTyped
<1>8. Toward' = Append(Toward, n + 1) /\ Away' = Away
  <2> DEFINE a == atLocal \o bridge.pending
  <2>1. a \in Seq(Nat) /\ Toward = a \o toBridge /\ Toward' = a \o Append(toBridge, n + 1)
    BY <1>1, <1>3, <1>4 DEF Toward
  <2> HIDE DEF a
  <2>2. n + 1 \in Nat  BY <1>3
  <2>3. a \o Append(toBridge, n + 1) = Append(a \o toBridge, n + 1)  BY <1>3, <2>1, <2>2, JoinLast
  <2> QED  BY <1>1, <2>1, <2>3 DEF Away
<1>9. bridge.state # "none"  BY <1>1, <1>2 DEF BridgeSafe
<1>10. BridgeSafe'  BY <1>1, <1>2, <1>9 DEF BridgeSafe
<1>11. ProxySafe'  BY <1>1, <1>2 DEF ProxySafe
<1>12. bridge.state # "gone" => First(Toward') /\ Len(Toward') = n + 1
  BY <1>2, <1>3, <1>8, FirstNext DEF NothingMissing
<1>13. First(atLocal) /\ Len(atLocal) <= n + 1  BY <1>2, MessagesAreNat, <1>3 DEF NothingMissing, ControlTyped
<1>14. NothingMissing'  BY <1>1, <1>2, <1>3, <1>4, <1>8, <1>12, <1>13 DEF NothingMissing
<1> QED  BY <1>7, <1>10, <1>11, <1>14 DEF ControlSafe

LEMMA CloseProxyControl ==
  ASSUME ControlSafe, CloseProxy
  PROVE  ControlSafe'
BY DEF CloseProxy, ControlSafe, ControlTyped, ctlvars, BridgeSafe, ProxySafe, Toward, NothingMissing

LEMMA LocalClosesControl ==
  ASSUME ControlSafe, LocalCloses
  PROVE  ControlSafe'
BY CleanedControl DEF LocalCloses, BridgeCleaned

LEMMA HostClosesAtBridgeControl ==
  ASSUME ControlSafe, HostClosesAtBridge
  PROVE  ControlSafe'
<1>1. /\ host' = [host EXCEPT !["bridge"] = FALSE] /\ toBridge' = <<>>
      /\ UNCHANGED <<proxy, toProxy, atLocal, atProxy, given>>
      /\ bridge.state # "open" => UNCHANGED <<bridge, local, fromLocal>>
  BY DEF HostClosesAtBridge
<1>2. ControlTyped /\ BridgeSafe /\ ProxySafe /\ NothingMissing  BY DEF ControlSafe
<1>3. CASE bridge.state = "open"  BY <1>3, <1>1, CleanedControl DEF HostClosesAtBridge, BridgeCleaned
<1>4. CASE bridge.state # "open"
  <2>1. host' \in [Nodes -> BOOLEAN] /\ host'["proxy"] = host["proxy"]
    BY <1>1, <1>2, TwoNodes DEF ControlTyped
  <2>2. UNCHANGED <<bridge, local, fromLocal>>  BY <1>1, <1>4
  <2>3. ControlTyped'  BY <1>1, <1>2, <2>1, <2>2, MessagesAreNat DEF ControlTyped
  <2>4. BridgeSafe'  BY <1>1, <1>2, <1>4, <2>2 DEF BridgeSafe
  <2>5. ProxySafe'  BY <1>1, <1>2, <2>1, <2>2 DEF ProxySafe
  <2>6. bridge.state # "gone" => Toward' = Toward
    BY <1>1, <1>2, <1>4, <2>2 DEF Toward, BridgeSafe, ControlTyped
  <2>7. Away' = Away  BY <1>1, <2>2 DEF Away
  <2>8. NothingMissing'  BY <1>1, <1>2, <2>1, <2>2, <2>6, <2>7 DEF NothingMissing
  <2> QED  BY <2>3, <2>4, <2>5, <2>8 DEF ControlSafe
<1> QED  BY <1>3, <1>4

LEMMA HostClosesAtProxyControl ==
  ASSUME ControlSafe, HostClosesAtProxy
  PROVE  ControlSafe'
<1>1. /\ host' = [host EXCEPT !["proxy"] = FALSE] /\ proxy' = "unknown" /\ toProxy' = <<>>
      /\ UNCHANGED <<bridge, local, toBridge, fromLocal, atLocal, atProxy, given>>
  BY DEF HostClosesAtProxy
<1>2. ControlTyped /\ BridgeSafe /\ ProxySafe /\ NothingMissing  BY DEF ControlSafe
<1>3. host' \in [Nodes -> BOOLEAN] /\ host'["bridge"] = host["bridge"] /\ ~host'["proxy"]
  BY <1>1, <1>2, TwoNodes DEF ControlTyped
<1>4. ControlTyped'  BY <1>1, <1>2, <1>3, MessagesAreNat DEF ControlTyped
<1>5. BridgeSafe'  BY <1>1, <1>2, <1>3 DEF BridgeSafe
<1>6. ProxySafe'  BY <1>1, <1>3, EmptyEnds DEF ProxySafe
<1>7. Toward' = Toward  BY <1>1 DEF Toward
<1>8. NothingMissing'  BY <1>1, <1>2, <1>3, <1>7 DEF NothingMissing
<1> QED  BY <1>4, <1>5, <1>6, <1>8 DEF ControlSafe

LEMMA SameControl ==
  ASSUME ControlSafe, UNCHANGED <<bridge, local, proxy, host, ctlvars>>
  PROVE  ControlSafe'
BY DEF ctlvars, Toward, Away, ControlSafe, ControlTyped, BridgeSafe, ProxySafe, NothingMissing

-----------------------------------------------------------------------------
(* Both. *)

(* A tunnel keeps the order. *)

TunnelInv == ControlSafe /\ StreamsSafe

LEMMA SameStreams ==
  ASSUME StreamsSafe, stream' = stream
  PROVE  StreamsSafe'
  BY DEF StreamsSafe

LEMMA LossesStream ==
  ASSUME StreamsSafe, LocalCloses \/ HostCloses
  PROVE  StreamsSafe'
<1>1. \A s \in Tunneled : stream[s] \in Stream /\ StreamSafe(stream[s], OriginOf[s])  BY DEF StreamsSafe
<1>2. CASE LocalCloses  BY <1>2, <1>1, LossKeeps DEF LocalCloses, BridgeCleaned, StreamsSafe
<1>3. CASE HostClosesAtBridge
  <2> DEFINE streams == [s \in Tunneled |-> HostLost(stream[s], OriginOf[s])]
  <2>1. \A s \in Tunneled : streams[s] \in Stream /\ StreamSafe(streams[s], OriginOf[s])  BY <1>1, LossKeeps
  <2>2. CASE bridge.state = "open"
    <3>1. stream' = [s \in Tunneled |-> LocalLost(streams[s], OriginOf[s])]
      BY <1>3, <2>2 DEF HostClosesAtBridge, BridgeCleaned
    <3> HIDE DEF streams
    <3>2. \A s \in Tunneled : stream'[s] \in Stream /\ StreamSafe(stream'[s], OriginOf[s])
      BY <2>1, <3>1, LossKeeps
    <3>3. stream' \in [Tunneled -> Stream]  BY <3>1, <3>2
    <3> QED  BY <3>2, <3>3 DEF StreamsSafe
  <2>3. CASE bridge.state # "open"  BY <1>3, <2>3, <2>1 DEF HostClosesAtBridge, StreamsSafe
  <2> QED  BY <2>2, <2>3
<1>4. CASE HostClosesAtProxy  BY <1>4, <1>1, LossKeeps DEF HostClosesAtProxy, StreamsSafe
<1> QED  BY <1>2, <1>3, <1>4 DEF HostCloses

\* A step of one stream leaves the control messages alone.
LEMMA StreamStep ==
  ASSUME NEW s \in Tunneled,
         OpenFromLocal(s) \/ OpenFromProxy(s) \/ SendOnStream(s) \/ CloseSource(s) \/ CloseDestination(s) \/ StreamRoutes(s)
  PROVE  UNCHANGED <<bridge, local, proxy, host, ctlvars>>
<1>1. CASE OpenFromLocal(s) \/ OpenFromProxy(s) \/ SendOnStream(s) \/ CloseSource(s) \/ CloseDestination(s)
  BY <1>1 DEF OpenFromLocal, OpenFromProxy, SendOnStream, CloseSource, CloseDestination, Step
<1>2. CASE Arrive(s)  BY <1>2 DEF Arrive, Step
<1>3. CASE LoseUnheard(s) \/ DestinationReady(s) \/ DestinationFails(s) \/ Pump(s)
  BY <1>3 DEF LoseUnheard, DestinationReady, DestinationFails, Pump, Step
<1>4. CASE Deliver(s)  BY <1>4 DEF Deliver, Step
<1>5. CASE CloseReaches(s)  BY <1>5 DEF CloseReaches, Step
<1> QED  BY <1>1, <1>2, <1>3, <1>4, <1>5 DEF StreamRoutes

LEMMA StreamStepKeeps ==
  ASSUME StreamsSafe, NEW s \in Tunneled,
         OpenFromLocal(s) \/ OpenFromProxy(s) \/ SendOnStream(s) \/ CloseSource(s) \/ CloseDestination(s) \/ StreamRoutes(s)
  PROVE  StreamsSafe'
  BY OpenFromLocalStream, OpenFromProxyStream, SendOnStreamStream, ShutStream, ArriveStream, LoseUnheardStream,
     DestinationReadyStream, DestinationFailsStream, PumpStream, DeliverStream DEF StreamRoutes

LEMMA TunnelInitHolds ==
  ASSUME TunnelInit
  PROVE  TunnelInv
<1>1. ControlTyped  BY MessagesAreNat, TunnelAssumption, TwoNodes DEF TunnelInit, ControlTyped
<1>2. BridgeSafe  BY DEF TunnelInit, BridgeSafe
<1>3. ProxySafe  BY EmptyEnds, TwoNodes DEF TunnelInit, ProxySafe
<1>4. NothingMissing
  <2>1. Toward = <<>> /\ Away = <<>> /\ Data(<<>>) = <<>>
    BY EmptyEnds, MessagesAreNat, JoinNone DEF TunnelInit, Toward, Away
  <2>2. atLocal = <<>> /\ atProxy = <<>> /\ given["bridge"] = 0 /\ given["proxy"] = 0
    BY TwoNodes DEF TunnelInit
  <2> QED  BY <2>1, <2>2, NoneIsFirst DEF NothingMissing
<1>5. StreamsSafe
  <2> DEFINE t == [phase |-> "idle", src |-> NoChannel, dst |-> NoChannel, accepted |-> FALSE, sent |-> 0, heard |-> <<>>]
  <2>1. NoChannel \in Channel /\ NoChannel.queue = <<>> /\ ~NoChannel.snd /\ ~NoChannel.rcv
    BY MessagesAreNat DEF NoChannel, Channel, Packets
  <2>2. t \in Stream  BY <2>1, MessagesAreNat, TunnelAssumption DEF Stream, Phases
  <2>3. \A o : StreamSafe(t, o)  BY <2>1, EmptyEnds DEF StreamSafe
  <2>4. stream = [s \in Tunneled |-> t]  BY DEF TunnelInit
  <2> HIDE DEF t
  <2> QED  BY <2>2, <2>3, <2>4 DEF StreamsSafe
<1> QED  BY <1>1, <1>2, <1>3, <1>4, <1>5 DEF TunnelInv, ControlSafe

LEMMA TunnelStepKeeps ==
  ASSUME TunnelInv, [TunnelNext]_tvars
  PROVE  TunnelInv'
<1>0. ControlSafe /\ StreamsSafe  BY DEF TunnelInv
<1>1. CASE Bridge \/ SendFromLocal \/ SendFromProxy \/ CloseProxy \/ TunnelRoutes
  <2>1. ControlSafe'
    BY <1>0, <1>1, BridgeControl, SendFromLocalControl, SendFromProxyControl, CloseProxyControl, ControlReadyControl,
       ForwardFromLocalControl, RouteToBridgeControl, RouteToProxyControl DEF TunnelRoutes
  <2>2. stream' = stream
    BY <1>1 DEF Bridge, SendFromLocal, SendFromProxy, CloseProxy, TunnelRoutes, ControlReady, ForwardFromLocal,
                RouteToBridge, RouteToProxy
  <2> QED  BY <1>0, <2>1, <2>2, SameStreams DEF TunnelInv
<1>2. CASE LocalCloses \/ HostCloses
  BY <1>0, <1>2, LocalClosesControl, HostClosesAtBridgeControl, HostClosesAtProxyControl, LossesStream DEF
     HostCloses, TunnelInv
<1>3. ASSUME NEW s \in Tunneled,
             OpenFromLocal(s) \/ OpenFromProxy(s) \/ SendOnStream(s) \/ CloseSource(s) \/ CloseDestination(s) \/ StreamRoutes(s)
      PROVE  TunnelInv'
  BY <1>0, <1>3, StreamStep, StreamStepKeeps, SameControl DEF TunnelInv
<1>4. CASE UNCHANGED tvars  BY <1>4, <1>0, SameStreams, SameControl DEF tvars, TunnelInv
<1> QED  BY <1>1, <1>2, <1>3, <1>4 DEF TunnelNext, TunnelProgram

LEMMA TunnelKeeps ==
  ASSUME TunnelInv
  PROVE  TunnelKeepsOrder
<1>0. ControlSafe /\ StreamsSafe  BY DEF TunnelInv
<1>2. ControlTyped /\ BridgeSafe /\ ProxySafe /\ NothingMissing  BY <1>0 DEF ControlSafe
<1>3. /\ Toward \in Seq(Nat) /\ given["proxy"] \in Nat /\ given["bridge"] \in Nat /\ atLocal \in Seq(Nat) /\ atProxy \in Seq(Nat)
  BY <1>2, ControlIs DEF ProxySafe
<1>4. TunnelTypeOK  BY <1>0, <1>2, TypedIs DEF StreamsSafe
<1>5. bridge.state = "gone" \/ IsFirst(atLocal \o bridge.pending \o toBridge, given["proxy"])
  <2> SUFFICES ASSUME bridge.state # "gone" PROVE IsFirst(Toward, given["proxy"])  BY DEF Toward
  <2> DEFINE m == Toward
  <2>1. m \in Seq(Nat) /\ First(m) /\ Len(m) = given["proxy"]  BY <1>2, <1>3 DEF NothingMissing
  <2> HIDE DEF m
  <2>2. m = [k \in 1 .. Len(m) |-> k]  BY <2>1, FirstIs
  <2>3. Len(m) <= given["proxy"]  BY <1>3, <2>1
  <2> QED  BY <2>2, <2>3 DEF IsFirst, m
<1>6. bridge.state = "open" => Len(atLocal \o bridge.pending \o toBridge) = given["proxy"]
  BY <1>2 DEF NothingMissing, Toward
<1>7. IsFirst(atLocal, given["proxy"]) /\ IsFirst(atProxy, given["bridge"])
  BY <1>2, <1>3, FirstIs DEF NothingMissing, IsFirst
<1>8. (bridge.state = "open" /\ host["proxy"] /\ proxy # "closed") =>
            Len(atProxy \o Data(toProxy) \o fromLocal) = given["bridge"]
  BY <1>2 DEF NothingMissing, BridgeSafe, Away
<1>9. ASSUME NEW s \in Tunneled
      PROVE  /\ IsRun(stream[s].heard)
             /\ stream[s].accepted /\ stream[s].phase = "pumping" /\ stream[s].dst.rcv =>
                    IsRun(stream[s].heard \o stream[s].dst.queue \o stream[s].src.queue)
  <2> DEFINE t == stream[s]
             o == OriginOf[s]
  <2>1. t \in Stream /\ StreamSafe(t, o)  BY <1>0 DEF StreamsSafe
  <2> HIDE DEF t
  <2>2. t.accepted => Data(t.dst.queue) = t.dst.queue  BY <2>1 DEF StreamSafe, HasStart, Data
  <2>3. IsRun(t.heard) /\ (t.accepted /\ t.phase = "pumping" /\ t.dst.rcv => IsRun(t.heard \o t.dst.queue \o t.src.queue))
    BY <2>1, <2>2 DEF StreamSafe, EndsAt
  <2> QED  BY <2>3 DEF t
<1> QED  BY <1>4, <1>5, <1>6, <1>7, <1>8, <1>9 DEF TunnelKeepsOrder

\* What the control messages and the streams of a tunnel satisfy at every moment.
THEOREM TunnelAlways == TunnelSpec => []TunnelInv
BY TunnelInitHolds, TunnelStepKeeps, PTL DEF TunnelSpec

\* A tunnel keeps the order.
THEOREM TunnelOrder == TunnelSpec => []TunnelKeepsOrder
BY TunnelKeeps, TunnelAlways, PTL

\* Every behaviour in which one of the transports is chosen is one of each of them.
LEMMA ChosenOrNot == Spec => MemSpec /\ TunnelSpec
<1>1. Init => MemInit /\ TunnelInit  BY DEF Init
<1>2. [Next]_allvars => [ControlProgram \/ StreamProgram \/ Microtask \/ Closing]_mvars  BY DEF Next, allvars
<1>3. [Next]_allvars => [TunnelNext]_tvars  BY DEF Next, allvars
<1> QED  BY <1>1, <1>2, <1>3, PTL DEF Spec, MemSpec, TunnelSpec

\* In the memory transport and through a tunnel what is sent comes out in its order, at
\* both ends, whatever the handlers of incoming channels do as they are called: the ends
\* of a stream in memory are open together unless such a handler closed its own at once.
THEOREM OrderIsAlwaysKept == Spec => []OrderIsKept
BY ChosenOrNot, MemOrder, TunnelOrder, PTL DEF OrderIsKept

=============================================================================
