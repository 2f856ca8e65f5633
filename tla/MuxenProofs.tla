----------------------------- MODULE MuxenProofs -----------------------------
(***************************************************************************)
(* Proofs about MuxenTransport, for every set of channels and all settings *)
(* of the heartbeat that HeartbeatAssumption allows, and about             *)
(* MuxenOrderedChannel, for every set of calls, all window and buffer      *)
(* sizes, and any number of retransmissions under way.                     *)
(***************************************************************************)
EXTENDS MuxenTransport, MuxenOrderedChannel, TLAPS

(***************************************************************************)
(* The inductive invariant, part by part.                                  *)
(***************************************************************************)

TimersOK ==
  /\ untilPing \in 0 .. HeartbeatInterval
  /\ timeouts \subseteq 0 .. HeartbeatTimeout
  /\ timeoutId \in timeouts \cup { None }
  /\ unanswered \in Seq(Nat)
  /\ silence \in Nat \cup { None }

\* What counts against a silent peer: the next ping is due within one interval
\* of its death, or a timeout is armed that runs out within the timeout more.
\* Whatever pings follow, each arms one that no pong clears.
DeathIsTimed ==
  ~Alive =>
    /\ unanswered = << >>
    /\ ~closed => \/ silence + untilPing <= HeartbeatInterval
                  \/ \E left \in timeouts : silence + left <= HeartbeatInterval + HeartbeatTimeout

\* While no two pings overlap, the only timeout armed is the one of the ping
\* under way, and the handle names it.
OnePingTimed ==
  /\ Len(unanswered) = 1
  /\ unanswered[1] <= MaxRtt
  /\ timeoutId = HeartbeatTimeout - unanswered[1]
  /\ timeouts = { timeoutId }

PingsAreTimed ==
  Alive /\ ~overlapped /\ ~closed =>
    \/ unanswered = << >> /\ timeouts = {} /\ timeoutId = None
    \/ OnePingTimed

HInv ==
  /\ TimersOK
  /\ DeathIsTimed
  /\ PingsAreTimed
  /\ timedOut => closed
  /\ PromptIsKept

-------------------------------------------------------------------------------

\* The invariant gives the property.
LEMMA HInvImplies == HInv => DropsTheDeadOnly
  BY HeartbeatAssumption, NoneAssumption
     DEF HInv, TimersOK, DeathIsTimed, DropsTheDeadOnly, DeadIsDropped, PromptIsKept, Alive

\* It holds at the start.
LEMMA HInvInit == HeartbeatInit => HInv
  BY HeartbeatAssumption, NoneAssumption
     DEF HeartbeatInit, HInv, TimersOK, DeathIsTimed, PingsAreTimed, PromptIsKept, Alive

\* A ping: a live peer now has one more to answer, a dead one is on the clock.
LEMMA SendPingKeeps == HInv /\ SendPing => HInv'
<1> SUFFICES ASSUME HInv, SendPing PROVE HInv'  OBVIOUS
<1> USE HeartbeatAssumption, NoneAssumption
<1>1. TimersOK'  BY DEF HInv, TimersOK, SendPing, Alive
<1>2. DeathIsTimed'
  <2> SUFFICES ASSUME ~Alive' PROVE DeathIsTimed'  BY DEF DeathIsTimed
  <2>1. ~Alive /\ silence' = silence /\ closed' = closed  BY DEF SendPing, Alive
  <2>2. unanswered' = << >>  BY <2>1 DEF HInv, DeathIsTimed, SendPing
  <2>3. silence' + HeartbeatTimeout <= HeartbeatInterval + HeartbeatTimeout
        \/ \E left \in timeouts : silence' + left <= HeartbeatInterval + HeartbeatTimeout
    BY <2>1 DEF HInv, DeathIsTimed, SendPing, TimersOK, Alive
  <2> QED  BY <2>2, <2>3 DEF DeathIsTimed, SendPing
<1>3. PingsAreTimed'
  <2> SUFFICES ASSUME Alive', ~overlapped', ~closed' PROVE OnePingTimed'  BY DEF PingsAreTimed
  <2>1. unanswered = << >> /\ timeouts = {}
    BY DEF HInv, PingsAreTimed, OnePingTimed, SendPing, Alive, TimersOK
  <2> QED  BY <2>1 DEF OnePingTimed, SendPing, Alive
<1> QED  BY <1>1, <1>2, <1>3 DEF HInv, PromptIsKept, SendPing, Alive

\* A pong: only a live peer sends one, and it clears the timeout of its ping.
LEMMA HandlePongKeeps == HInv /\ HandlePong => HInv'
<1> SUFFICES ASSUME HInv, HandlePong PROVE HInv'  OBVIOUS
<1> USE HeartbeatAssumption, NoneAssumption
<1>1. TimersOK'  BY DEF HInv, TimersOK, HandlePong
<1>2. Alive' /\ DeathIsTimed'  BY DEF HInv, DeathIsTimed, HandlePong, Alive
<1>3. PingsAreTimed'
  <2> SUFFICES ASSUME ~overlapped PROVE unanswered' = << >> /\ timeouts' = {} /\ timeoutId' = None
    BY DEF PingsAreTimed, HandlePong
  <2>1. OnePingTimed  BY <1>2 DEF HInv, PingsAreTimed, HandlePong, Alive
  <2>2. /\ unanswered \in Seq(Nat) /\ unanswered' = Tail(unanswered)
        /\ timeouts' = timeouts \ { timeoutId } /\ timeoutId' = None
    BY DEF HandlePong, HInv, TimersOK
  <2>3. Len(unanswered) = 1 /\ timeouts = { timeoutId }  BY <2>1 DEF OnePingTimed
  <2>4. Tail(unanswered) = << >>  BY <2>2, <2>3
  <2> QED  BY <2>2, <2>3, <2>4
<1> QED  BY <1>1, <1>2, <1>3 DEF HInv, PromptIsKept, HandlePong, Alive

\* The death of the peer: the interval timer is running.
LEMMA PeerDiesKeeps == HInv /\ PeerDies => HInv'
  BY HeartbeatAssumption, NoneAssumption
     DEF HInv, TimersOK, DeathIsTimed, PingsAreTimed, PromptIsKept, PeerDies, Alive

\* Ages of pings, one tick on.
LEMMA TickAges ==
  ASSUME NEW ages \in Seq(Nat)
  PROVE  LET older == [ i \in DOMAIN ages |-> ages[i] + 1 ]
         IN  /\ older \in Seq(Nat)
             /\ Len(older) = Len(ages)
             /\ Len(ages) = 1 => older[1] = ages[1] + 1 /\ ages[1] \in Nat
<1> DEFINE older == [ i \in DOMAIN ages |-> ages[i] + 1 ]
<1>1. Len(ages) \in Nat /\ DOMAIN ages = 1 .. Len(ages) /\ \A i \in 1 .. Len(ages) : ages[i] \in Nat  OBVIOUS
<1>2. \A i \in 1 .. Len(ages) : ages[i] + 1 \in Nat  BY <1>1
<1>3. older \in Seq(Nat) /\ Len(older) = Len(ages)  BY <1>1, <1>2
<1>4. Len(ages) = 1 => 1 \in DOMAIN ages  BY <1>1
<1> QED  BY <1>1, <1>3, <1>4

\* A tick: all clocks move together.
LEMMA TickKeeps == HInv /\ Tick => HInv'
<1> SUFFICES ASSUME HInv, Tick PROVE HInv'  OBVIOUS
<1> USE HeartbeatAssumption, NoneAssumption
<1>1. Alive' <=> Alive  BY DEF HInv, TimersOK, Tick, Alive
<1>2. TimersOK'
  <2>1. untilPing' \in 0 .. HeartbeatInterval /\ silence' \in Nat \cup { None }
    BY DEF HInv, TimersOK, Tick, Alive
  <2>2. timeouts' \subseteq 0 .. HeartbeatTimeout /\ timeoutId' \in timeouts' \cup { None }
    BY DEF HInv, TimersOK, Tick
  <2>3. unanswered' \in Seq(Nat)  BY TickAges DEF HInv, TimersOK, Tick
  <2> QED  BY <2>1, <2>2, <2>3 DEF TimersOK
<1>3. DeathIsTimed'
  <2> SUFFICES ASSUME ~Alive PROVE DeathIsTimed'  BY <1>1 DEF DeathIsTimed
  <2>1. unanswered' = << >>  BY DEF HInv, DeathIsTimed, Tick
  <2>2. silence \in Nat /\ silence' = silence + 1  BY DEF HInv, TimersOK, Tick, Alive
  <2>3. CASE silence + untilPing <= HeartbeatInterval
    BY <2>1, <2>2, <2>3 DEF HInv, TimersOK, DeathIsTimed, Tick
  <2>4. CASE \E left \in timeouts : silence + left <= HeartbeatInterval + HeartbeatTimeout
    <3> PICK left \in timeouts : silence + left <= HeartbeatInterval + HeartbeatTimeout  BY <2>4
    <3>1. left - 1 \in timeouts' /\ silence' + (left - 1) <= HeartbeatInterval + HeartbeatTimeout
      BY <2>2 DEF HInv, TimersOK, Tick
    <3> QED  BY <2>1, <3>1 DEF DeathIsTimed
  <2> QED  BY <2>3, <2>4 DEF HInv, DeathIsTimed, Tick
<1>4. PingsAreTimed'
  <2> SUFFICES ASSUME Alive, ~overlapped PROVE PingsAreTimed'  BY <1>1 DEF PingsAreTimed, Tick
  <2>1. CASE unanswered = << >> /\ timeouts = {} /\ timeoutId = None  BY <2>1 DEF PingsAreTimed, Tick
  <2>2. CASE OnePingTimed
    <3> unanswered \in Seq(Nat)  BY DEF HInv, TimersOK
    <3>1. Len(unanswered') = 1 /\ unanswered'[1] = unanswered[1] + 1 /\ unanswered[1] \in Nat
      BY <2>2, TickAges DEF OnePingTimed, Tick
    <3>2. unanswered[1] < MaxRtt
      <4>1. unanswered # << >> /\ Head(unanswered) = unanswered[1]  BY <2>2 DEF OnePingTimed
      <4> QED  BY <4>1 DEF Tick
    <3>3. timeoutId' = timeoutId - 1 /\ timeouts' = { timeoutId - 1 }  BY <2>2, <3>1 DEF OnePingTimed, Tick
    <3> QED  BY <2>2, <3>1, <3>2, <3>3 DEF PingsAreTimed, OnePingTimed
  <2> QED  BY <2>1, <2>2 DEF HInv, PingsAreTimed, Tick
<1> QED  BY <1>1, <1>2, <1>3, <1>4 DEF HInv, PromptIsKept, Tick

\* A timeout fires: with one ping under way at a time it is not that of a live peer.
LEMMA TimeoutKeeps == HInv /\ TimeoutFires => HInv'
<1> SUFFICES ASSUME HInv, TimeoutFires PROVE HInv'  OBVIOUS
<1> USE HeartbeatAssumption, NoneAssumption
<1>1. ~overlapped => ~Alive  BY DEF HInv, PingsAreTimed, OnePingTimed, TimersOK, TimeoutFires, CloseMuxer
<1>2. TimersOK' /\ silence' = silence /\ unanswered' = unanswered /\ closed' /\ overlapped' = overlapped
  BY DEF HInv, TimersOK, TimeoutFires, CloseMuxer
<1> QED  BY <1>1, <1>2 DEF HInv, DeathIsTimed, PingsAreTimed, PromptIsKept, Alive

\* The end of the link.
LEMMA LinkEndsKeeps == HInv /\ LinkEnds => HInv'
<1> SUFFICES ASSUME HInv, LinkEnds PROVE HInv'  OBVIOUS
<1>1. /\ TimersOK' /\ silence' = silence /\ unanswered' = unanswered /\ closed'
      /\ overlapped' = overlapped /\ timedOut' = timedOut
  BY DEF HInv, TimersOK, LinkEnds, CloseMuxer
<1> QED  BY <1>1 DEF HInv, DeathIsTimed, PingsAreTimed, PromptIsKept, Alive

\* The rest of the transport leaves the heartbeat alone.
LEMMA StutterKeeps == HInv /\ UNCHANGED heartbeatVars => HInv'
  BY DEF HInv, TimersOK, DeathIsTimed, PingsAreTimed, OnePingTimed, PromptIsKept, Alive, heartbeatVars

\* Every step of the transport is one of these.
LEMMA StepKeeps == HInv /\ [Next]_vars => HInv'
<1> SUFFICES ASSUME HInv, [Next]_vars PROVE HInv'  OBVIOUS
<1>1. CASE \E e \in Ends, id \in Ids : OpenOutgoing(e, id)  BY <1>1, StutterKeeps DEF OpenOutgoing
<1>2. CASE \E e \in Ends, id \in Ids : Send(e, id)  BY <1>2, StutterKeeps DEF Send
<1>3. CASE \E e \in Ends, id \in Ids : Close(e, id)  BY <1>3, StutterKeeps DEF Close, CloseWith
<1>4. CASE \E e \in Ends, id \in Ids : DestroyClosing(e, id)  BY <1>4, StutterKeeps DEF DestroyClosing
<1>5. CASE \E e \in Ends : Receive(e)  BY <1>5, StutterKeeps DEF Receive
<1>6. CASE Heartbeat
  BY <1>6, SendPingKeeps, HandlePongKeeps, PeerDiesKeeps, TickKeeps DEF Heartbeat, HeartbeatStep
<1>7. CASE HeartbeatFails  BY <1>7, TimeoutKeeps DEF HeartbeatFails
<1>8. CASE LinkClosesAtA  BY <1>8, LinkEndsKeeps DEF LinkClosesAtA
<1>9. CASE LinkClosesAtB  BY <1>9, StutterKeeps DEF LinkClosesAtB
<1>10. CASE UNCHANGED vars  BY <1>10, StutterKeeps DEF vars
<1> QED  BY <1>1, <1>2, <1>3, <1>4, <1>5, <1>6, <1>7, <1>8, <1>9, <1>10 DEF Next

-------------------------------------------------------------------------------

\* The heartbeat gives up the link of a silent peer within one interval and one
\* timeout of its death, and the link of no other peer while pings do not
\* overlap (muxer.ts, sendPing and handlePong), whatever the channels do.
THEOREM HeartbeatIsRight == Spec => []DropsTheDeadOnly
<1>1. Init => HInv  BY HInvInit DEF Init
<1>2. HInv /\ [Next]_vars => HInv'  BY StepKeeps
<1> QED  BY <1>1, <1>2, HInvImplies, PTL DEF Spec

-----------------------------------------------------------------------------
(***************************************************************************)
(* A channel lives once, for every set of channels, but for what data that *)
(* crosses a close undoes of it.                                           *)
(***************************************************************************)

Types == { "open-stream", "open-stream-ack", "data", "ack", "close-channel" }
Packets == [ type : Types, id : Ids ]

\* A packet of that type for the channel is under way on w.
Mail(w, type, id) == \E k \in DOMAIN w : w[k].type = type /\ w[k].id = id

\* Of a channel, open-stream comes first and once, and close-channel last.
Framed(w, id) ==
  \A i, j \in DOMAIN w :
    i < j /\ w[i].id = id /\ w[j].id = id =>
      w[j].type # "open-stream" /\ w[i].type # "close-channel"

(***************************************************************************)
(* The inductive invariant, part by part.  What concerns one channel takes *)
(* the state as parameters, so that it can be stated of the next state.    *)
(***************************************************************************)

\* The pings, oldest first.
Aged ==
  /\ unanswered \in Seq(Nat)
  /\ \A i \in DOMAIN unanswered : unanswered[i] <= MaxRtt
  /\ \A i, j \in DOMAIN unanswered : i <= j => unanswered[j] <= unanswered[i]

Lives(e, id, op, ch) == e \in op /\ ch[e][id] # "ABSENT"

Finished(e, id, op, ch, cg) == id \in cg[e] \/ ~Lives(e, id, op, ch)

\* Nothing is known of a channel before it is opened.
Unknown(id, ch, cg, w, ca) ==
  \A e \in Ends :
    /\ ch[e][id] = "ABSENT"
    /\ id \notin cg[e]
    /\ id \notin ca[e]
    /\ \A type \in Types : ~Mail(w[e], type, id)

\* What is said of a channel: the opener asks, the acceptor answers.
Spoken(id, o, w) ==
  /\ ~Mail(w[o], "open-stream", id) /\ ~Mail(w[o], "data", id)
  /\ ~Mail(w[Peer(o)], "open-stream-ack", id) /\ ~Mail(w[Peer(o)], "ack", id)

\* An answer means that the acceptor has seen the channel, if it listens.
Answered(id, o, li, ch, w, an) ==
  ch[o][id] = "ESTABLISHED" \/ Mail(w[o], "open-stream-ack", id) =>
    Peer(o) \notin li \/ an[Peer(o)][id] >= 1

\* An acceptor that listens waits for the channel until it is announced, then
\* lives until the opener is done with it, and is then told no more.
Accepted(id, p, li, op, ch, cg, w, an, ca) ==
  p \in li /\ p \in op =>
    /\ Mail(w[p], "open-stream", id) => an[p][id] = 0
    /\ ~Mail(w[p], "open-stream", id) => an[p][id] = 1
    /\ an[p][id] = 0 => ~Lives(p, id, op, ch) /\ id \notin ca[p]
    /\ an[p][id] = 1 /\ ~Lives(p, id, op, ch) =>
         ~Mail(w[p], "data", id) /\ Finished(Peer(p), id, op, ch, cg)

\* No data crosses a close: p closes nothing, and what o says of the channel
\* begins with its opening and ends with its end.
Uncrossed(id, o, p, li, op, ch, cg, w, an, ca) ==
  /\ Framed(w[p], id)
  /\ Mail(w[p], "close-channel", id) => Finished(o, id, op, ch, cg)
  /\ id \notin cg[p]
  /\ an[p][id] <= 1
  /\ Accepted(id, p, li, op, ch, cg, w, an, ca)
  /\ id \in ca[p] => ~Lives(p, id, op, ch)

Chan(id, li, op, ch, cg, w, or, an, ca, cr) ==
  /\ \A e \in Ends : id \in cg[e] => Lives(e, id, op, ch)
  /\ \A e \in Ends : an[e][id] \in Nat /\ (or[id] # Peer(e) => an[e][id] = 0)
  /\ or[id] = None => Unknown(id, ch, cg, w, ca)
  /\ \A o \in Ends : or[id] = o =>
       /\ Spoken(id, o, w)
       /\ Answered(id, o, li, ch, w, an)
       /\ id \in ca[o] => ~Lives(o, id, op, ch)
       /\ id \notin cr => Uncrossed(id, o, Peer(o), li, op, ch, cg, w, an, ca)

Shapes ==
  /\ closed \in BOOLEAN /\ timedOut \in BOOLEAN /\ overlapped \in BOOLEAN
  /\ listening \subseteq Ends
  /\ open \subseteq Ends
  /\ closed <=> "A" \notin open
  /\ channels \in [ Ends -> [ Ids -> Statuses ] ]
  /\ closing \in [ Ends -> SUBSET Ids ]
  /\ wire \in [ Ends -> Seq(Packets) ]
  /\ opener \in [ Ids -> Ends \cup { None } ]
  /\ dataSent \in [ Ids -> 0 .. MaxData ]
  /\ announced \in [ Ends -> [ Ids -> Nat ] ]
  /\ closedAt \in [ Ends -> SUBSET Ids ]
  /\ crossed \subseteq Ids

Chans == \A id \in Ids : Chan(id, listening, open, channels, closing, wire, opener, announced, closedAt, crossed)

Kept == Aged /\ Shapes /\ Chans
LInv == HInv /\ Kept
-------------------------------------------------------------------------------
(* Mail.                                                                   *)

LEMMA MailSent ==
  ASSUME NEW w \in Seq(Packets), NEW q \in Packets, NEW type, NEW id
  PROVE  /\ w \o << q >> \in Seq(Packets)
         /\ Mail(w \o << q >>, type, id) <=> Mail(w, type, id) \/ (q.type = type /\ q.id = id)
<1> DEFINE u == w \o << q >>
<1>1. /\ u \in Seq(Packets) /\ Len(u) = Len(w) + 1 /\ Len(w) \in Nat
      /\ DOMAIN u = 1 .. Len(u) /\ DOMAIN w = 1 .. Len(w)
      /\ u[Len(w) + 1] = q /\ \A k \in 1 .. Len(w) : u[k] = w[k]
  OBVIOUS
<1> HIDE DEF u
<1>2. Mail(u, type, id) <=> Mail(w, type, id) \/ (q.type = type /\ q.id = id)  BY <1>1 DEF Mail
<1> QED  BY <1>1, <1>2 DEF u

LEMMA MailTaken ==
  ASSUME NEW w \in Seq(Packets), w # << >>, NEW type, NEW id
  PROVE  /\ Tail(w) \in Seq(Packets) /\ Head(w) \in Packets
         /\ Mail(w, type, id) <=> Mail(Tail(w), type, id) \/ (Head(w).type = type /\ Head(w).id = id)
<1>1. /\ Tail(w) \in Seq(Packets) /\ Len(w) \in Nat \ {0} /\ Len(Tail(w)) = Len(w) - 1
      /\ DOMAIN w = 1 .. Len(w) /\ DOMAIN Tail(w) = 1 .. Len(w) - 1
      /\ Head(w) = w[1] /\ \A k \in 1 .. Len(w) - 1 : Tail(w)[k] = w[k + 1]
      /\ w[1] \in Packets
  OBVIOUS
<1>2. Mail(Tail(w), type, id) \/ (Head(w).type = type /\ Head(w).id = id) => Mail(w, type, id)
  BY <1>1 DEF Mail
<1>3. ASSUME NEW k \in DOMAIN w, w[k].type = type, w[k].id = id, k # 1
      PROVE  Mail(Tail(w), type, id)
  <2>1. k - 1 \in DOMAIN Tail(w) /\ Tail(w)[k - 1] = w[k]  BY <1>1, <1>3
  <2> QED  BY <2>1, <1>3 DEF Mail
<1> QED  BY <1>1, <1>2, <1>3 DEF Mail

\* A packet may follow, if its channel is opened and not closed.
LEMMA FramedSent ==
  ASSUME NEW w \in Seq(Packets), NEW q \in Packets, NEW id,
         \/ /\ Framed(w, id)
            /\ q.id = id => q.type # "open-stream" /\ ~Mail(w, "close-channel", id)
         \/ \A type \in Types : ~Mail(w, type, id)
  PROVE  Framed(w \o << q >>, id)
<1> DEFINE u == w \o << q >>
<1>1. /\ u \in Seq(Packets) /\ Len(u) = Len(w) + 1 /\ Len(w) \in Nat
      /\ DOMAIN u = 1 .. Len(u) /\ DOMAIN w = 1 .. Len(w)
      /\ u[Len(w) + 1] = q /\ \A k \in 1 .. Len(w) : u[k] = w[k] /\ w[k] \in Packets
  OBVIOUS
<1> HIDE DEF u
<1>2. SUFFICES ASSUME NEW i \in DOMAIN u, NEW j \in DOMAIN u, i < j, u[i].id = id, u[j].id = id
               PROVE  u[j].type # "open-stream" /\ u[i].type # "close-channel"
  BY DEF Framed, u
<1>3. i \in DOMAIN w /\ u[i] = w[i] /\ Mail(w, w[i].type, id) /\ w[i].type \in Types
  <2>1. i \in DOMAIN w /\ u[i] = w[i]  BY <1>1, <1>2
  <2> QED  BY <1>1, <1>2, <2>1 DEF Mail, Packets
<1>4. Framed(w, id) /\ (q.id = id => q.type # "open-stream" /\ ~Mail(w, "close-channel", id))  BY <1>3
<1>5. CASE j \in DOMAIN w  BY <1>1, <1>2, <1>3, <1>4, <1>5 DEF Framed
<1>6. CASE j = Len(w) + 1  BY <1>1, <1>2, <1>3, <1>4, <1>6
<1> QED  BY <1>1, <1>5, <1>6

LEMMA FramedEmpty ==
  ASSUME NEW w \in Seq(Packets), NEW id, \A type \in Types : ~Mail(w, type, id)
  PROVE  Framed(w, id)
<1> SUFFICES ASSUME NEW i \in DOMAIN w, w[i].id = id PROVE FALSE  BY DEF Framed
<1>1. w[i] \in Packets  OBVIOUS
<1> QED  BY <1>1 DEF Mail, Packets

LEMMA FramedTaken ==
  ASSUME NEW w \in Seq(Packets), w # << >>, NEW id, Framed(w, id)
  PROVE  /\ Framed(Tail(w), id)
         /\ Head(w).id = id => ~Mail(Tail(w), "open-stream", id)
         /\ Head(w).id = id /\ Head(w).type = "close-channel" =>
              \A type : ~Mail(Tail(w), type, id)
<1>1. /\ Tail(w) \in Seq(Packets) /\ Len(w) \in Nat \ {0} /\ Len(Tail(w)) = Len(w) - 1
      /\ DOMAIN w = 1 .. Len(w) /\ DOMAIN Tail(w) = 1 .. Len(w) - 1
      /\ Head(w) = w[1] /\ \A k \in 1 .. Len(w) - 1 : Tail(w)[k] = w[k + 1]
  OBVIOUS
<1>2. ASSUME NEW k \in DOMAIN Tail(w)
      PROVE  k + 1 \in DOMAIN w /\ 1 \in DOMAIN w /\ 1 < k + 1 /\ Tail(w)[k] = w[k + 1]
  BY <1>1
<1>3. Framed(Tail(w), id)
  <2> SUFFICES ASSUME NEW i \in DOMAIN Tail(w), NEW j \in DOMAIN Tail(w), i < j,
                      Tail(w)[i].id = id, Tail(w)[j].id = id
               PROVE  Tail(w)[j].type # "open-stream" /\ Tail(w)[i].type # "close-channel"
    BY DEF Framed
  <2>1. i + 1 \in DOMAIN w /\ j + 1 \in DOMAIN w /\ i + 1 < j + 1  BY <1>1
  <2> QED  BY <1>2, <2>1 DEF Framed
<1>4. Head(w).id = id => ~Mail(Tail(w), "open-stream", id)  BY <1>1, <1>2 DEF Framed, Mail
<1>5. ASSUME NEW type, Head(w).id = id, Head(w).type = "close-channel"
      PROVE  ~Mail(Tail(w), type, id)
  BY <1>1, <1>2, <1>5 DEF Framed, Mail
<1> QED  BY <1>3, <1>4, <1>5

LEMMA Peers ==
  ASSUME NEW e \in Ends
  PROVE  Peer(e) \in Ends /\ Peer(e) # e /\ Peer(Peer(e)) = e /\ \A x \in Ends : x = e \/ x = Peer(e)
BY DEF Ends, Peer

\* v is w after q was sent to the end y, if that end is open.
SentTo(y, q, v, w) ==
  /\ v \in [ Ends -> Seq(Packets) ]
  /\ \A x \in Ends : \A type, id :
       Mail(v[x], type, id) <=>
         \/ Mail(w[x], type, id)
         \/ x = y /\ y \in open /\ q.type = type /\ q.id = id
  /\ \A x \in Ends : \A id :
       \/ /\ Framed(w[x], id)
          /\ x = y /\ q.id = id => q.type # "open-stream" /\ ~Mail(w[x], "close-channel", id)
       \/ \A type \in Types : ~Mail(w[x], type, id)
       => Framed(v[x], id)

LEMMA Sends ==
  ASSUME NEW w \in [ Ends -> Seq(Packets) ], NEW e \in Ends, NEW q \in Packets
  PROVE  SentTo(Peer(e), q, Sending(e, << q >>, w), w)
<1> DEFINE y == Peer(e)  v == Sending(e, << q >>, w)
<1>1. y \in Ends /\ w[y] \in Seq(Packets)  BY Peers
<1>2. \A type, id : /\ w[y] \o << q >> \in Seq(Packets)
                    /\ Mail(w[y] \o << q >>, type, id)
                         <=> Mail(w[y], type, id) \/ (q.type = type /\ q.id = id)
  BY <1>1, MailSent
<1>3. \A id : \/ /\ Framed(w[y], id)
                 /\ q.id = id => q.type # "open-stream" /\ ~Mail(w[y], "close-channel", id)
              \/ \A type \in Types : ~Mail(w[y], type, id)
              => Framed(w[y] \o << q >>, id)
  BY <1>1, FramedSent
<1>6. \A x \in Ends : \A id : (\A type \in Types : ~Mail(w[x], type, id)) => Framed(w[x], id)  BY FramedEmpty
<1>4. CASE y \in open
  <2>1. v = [ w EXCEPT ![y] = @ \o << q >> ]  BY <1>4 DEF Sending
  <2>2. /\ v \in [ Ends -> Seq(Packets) ]
        /\ v[y] = w[y] \o << q >>
        /\ \A x \in Ends : x # y => v[x] = w[x]
    BY <1>1, <1>2, <2>1
  <2> HIDE DEF y, v
  <2>3. SentTo(y, q, v, w)  BY <1>1, <1>2, <1>3, <1>4, <1>6, <2>2 DEF SentTo
  <2> QED  BY <2>3 DEF y, v
<1>5. CASE y \notin open
  <2>1. v = w  BY <1>5 DEF Sending
  <2> HIDE DEF y, v
  <2>2. SentTo(y, q, v, w)  BY <1>5, <1>6, <2>1 DEF SentTo
  <2> QED  BY <2>2 DEF y, v
<1> QED  BY <1>4, <1>5

\* v is w after its oldest packet was taken from the end y.
TakenAt(y, v, w) ==
  /\ v \in [ Ends -> Seq(Packets) ]
  /\ Head(w[y]) \in Packets
  /\ \A x \in Ends : \A type, id :
       Mail(w[x], type, id) <=>
         \/ Mail(v[x], type, id)
         \/ x = y /\ Head(w[y]).type = type /\ Head(w[y]).id = id
  /\ \A x \in Ends : \A id : Framed(w[x], id) => Framed(v[x], id)
  /\ \A id : Framed(w[y], id) /\ Head(w[y]).id = id =>
       /\ ~Mail(v[y], "open-stream", id)
       /\ Head(w[y]).type = "close-channel" => \A type : ~Mail(v[y], type, id)

LEMMA Takes ==
  ASSUME NEW w \in [ Ends -> Seq(Packets) ], NEW e \in Ends, w[e] # << >>
  PROVE  TakenAt(e, [ w EXCEPT ![e] = Tail(@) ], w)
<1> DEFINE v == [ w EXCEPT ![e] = Tail(@) ]
<1>1. w[e] \in Seq(Packets)  OBVIOUS
<1>2. \A type, id : /\ Tail(w[e]) \in Seq(Packets) /\ Head(w[e]) \in Packets
                    /\ Mail(w[e], type, id) <=>
                         Mail(Tail(w[e]), type, id) \/ (Head(w[e]).type = type /\ Head(w[e]).id = id)
  BY <1>1, MailTaken
<1>3. \A id : Framed(w[e], id) =>
         /\ Framed(Tail(w[e]), id)
         /\ Head(w[e]).id = id => ~Mail(Tail(w[e]), "open-stream", id)
         /\ Head(w[e]).id = id /\ Head(w[e]).type = "close-channel" =>
              \A type : ~Mail(Tail(w[e]), type, id)
  BY <1>1, FramedTaken
<1>4. /\ v \in [ Ends -> Seq(Packets) ]
      /\ v[e] = Tail(w[e])
      /\ \A x \in Ends : x # e => v[x] = w[x]
  BY <1>1, <1>2
<1> HIDE DEF v
<1>5. \A x \in Ends : \A type, id :
       Mail(w[x], type, id) <=>
         \/ Mail(v[x], type, id)
         \/ x = e /\ Head(w[e]).type = type /\ Head(w[e]).id = id
  BY <1>2, <1>4
<1>6. \A x \in Ends : \A id : Framed(w[x], id) => Framed(v[x], id)  BY <1>3, <1>4
<1>7. TakenAt(e, v, w)  BY <1>2, <1>3, <1>4, <1>5, <1>6 DEF TakenAt
<1> QED  BY <1>7 DEF v

\* The parts of the invariant in the next state.
LEMMA ChansAfter ==
  ASSUME \A id \in Ids :
           Chan(id, listening', open', channels', closing', wire', opener', announced', closedAt', crossed')
  PROVE  Chans'
BY DEF Chans, Chan, Unknown, Spoken, Answered, Uncrossed, Accepted, Lives, Finished, Framed, Mail

LEMMA AgedUnchanged ==
  ASSUME Aged, UNCHANGED unanswered
  PROVE  Aged'
BY DEF Aged

LEMMA ChanOf ==
  ASSUME Kept, NEW id \in Ids
  PROVE  Chan(id, listening, open, channels, closing, wire, opener, announced, closedAt, crossed)
BY DEF Kept, Chans

\* A channel that a step does not touch.
LEMMA ChanSame ==
  ASSUME NEW id, NEW li, NEW op, NEW ch, NEW cg, NEW w, NEW or, NEW an, NEW ca, NEW cr,
         NEW hc, NEW gc, NEW v, NEW ro, NEW na, NEW ac, NEW rc,
         Chan(id, li, op, ch, cg, w, or, an, ca, cr),
         ro[id] = or[id], id \in rc <=> id \in cr,
         \A e \in Ends :
           /\ hc[e][id] = ch[e][id]
           /\ id \in gc[e] <=> id \in cg[e]
           /\ id \in ac[e] <=> id \in ca[e]
           /\ na[e][id] = an[e][id]
           /\ \A type \in Types : Mail(v[e], type, id) <=> Mail(w[e], type, id)
           /\ Framed(w[e], id) => Framed(v[e], id)
  PROVE  Chan(id, li, op, hc, gc, v, ro, na, ac, rc)
<1> USE DEF Types
<1>1. ro[id] = None => Unknown(id, hc, gc, v, ac)  BY DEF Chan, Unknown
<1>2. ASSUME NEW o \in Ends, or[id] = o
      PROVE  /\ Spoken(id, o, v)
             /\ Answered(id, o, li, hc, v, na)
             /\ id \in ac[o] => ~Lives(o, id, op, hc)
             /\ id \notin rc => Uncrossed(id, o, Peer(o), li, op, hc, gc, v, na, ac)
  <2>1. Peer(o) \in Ends /\ Peer(Peer(o)) = o  BY Peers
  <2>2. /\ Spoken(id, o, w)
        /\ Answered(id, o, li, ch, w, an)
        /\ id \in ca[o] => ~Lives(o, id, op, ch)
        /\ id \notin cr => Uncrossed(id, o, Peer(o), li, op, ch, cg, w, an, ca)
    BY <1>2 DEF Chan
  <2>3. Spoken(id, o, v)  BY <2>1, <2>2 DEF Spoken
  <2>4. Answered(id, o, li, hc, v, na)  BY <2>1, <2>2 DEF Answered
  <2>5. ASSUME id \notin rc
        PROVE  Uncrossed(id, o, Peer(o), li, op, hc, gc, v, na, ac)
    <3>1. Uncrossed(id, o, Peer(o), li, op, ch, cg, w, an, ca)  BY <2>2, <2>5
    <3>2. Accepted(id, Peer(o), li, op, hc, gc, v, na, ac)
      BY <2>1, <3>1 DEF Uncrossed, Accepted, Finished, Lives
    <3> QED  BY <2>1, <3>1, <3>2 DEF Uncrossed, Finished, Lives
  <2> QED  BY <2>1, <2>2, <2>3, <2>4, <2>5 DEF Lives
<1>3. \A e \in Ends : id \in gc[e] => Lives(e, id, op, hc)  BY DEF Chan, Lives
<1> QED  BY <1>1, <1>2, <1>3 DEF Chan

\* A channel that has an opener.
LEMMA ChanOpened ==
  ASSUME NEW id, NEW li, NEW op, NEW ch, NEW cg, NEW w, NEW or, NEW an, NEW ca, NEW cr,
         NEW o \in Ends, or[id] = o,
         \A e \in Ends : id \in cg[e] => Lives(e, id, op, ch),
         an[o][id] = 0, an[Peer(o)][id] \in Nat,
         Spoken(id, o, w),
         Answered(id, o, li, ch, w, an),
         id \in ca[o] => ~Lives(o, id, op, ch),
         id \notin cr => Uncrossed(id, o, Peer(o), li, op, ch, cg, w, an, ca)
  PROVE  Chan(id, li, op, ch, cg, w, or, an, ca, cr)
<1>1. Peer(Peer(o)) = o /\ Peer(o) # o /\ \A e \in Ends : e = o \/ e = Peer(o)  BY Peers
<1>2. \A e \in Ends : an[e][id] \in Nat /\ (or[id] # Peer(e) => an[e][id] = 0)  BY <1>1
<1>3. or[id] # None  BY TransportAssumption
<1> QED  BY <1>2, <1>3 DEF Chan

LEMMA OpenKeeps ==
  ASSUME Kept, NEW e \in Ends, NEW c \in Ids, OpenOutgoing(e, c)
  PROVE  Kept'
<1> DEFINE q == Packet("open-stream", c)  p == Peer(e)
<1>1. q \in Packets /\ q.type = "open-stream" /\ q.id = c  BY DEF Packet, Packets, Types
<1>2. SentTo(p, q, wire', wire)
  <2>1. wire' = Sending(e, << q >>, wire) /\ wire \in [ Ends -> Seq(Packets) ]
    BY DEF OpenOutgoing, Kept, Shapes
  <2> HIDE DEF q
  <2> QED  BY <1>1, <2>1, Sends
<1>p. p \in Ends /\ p # e /\ \A x \in Ends : x = e \/ x = p  BY Peers
<1> HIDE DEF q, p
<1>3. Shapes'  BY <1>2 DEF SentTo, Kept, Shapes, OpenOutgoing, heartbeatVars, Statuses
<1>4. ASSUME NEW id \in Ids
      PROVE  Chan(id, listening', open', channels', closing', wire', opener', announced', closedAt', crossed')
  <2>1. Chan(id, listening, open, channels, closing, wire, opener, announced, closedAt, crossed)  BY ChanOf
  <2>2. CASE id = c
    <3>1. Unknown(c, channels, closing, wire, closedAt) /\ \A x \in Ends : announced[x][c] = 0
      BY <2>1, <2>2, TransportAssumption, Peers DEF Chan, OpenOutgoing
    <3>2. Spoken(c, e, wire') /\ Framed(wire'[p], c) /\ ~Mail(wire'[p], "close-channel", c)
      BY <1>1, <1>2, <1>p, <3>1 DEF Spoken, SentTo, Unknown, Types, p
    <3>3. /\ \A x \in Ends : closing'[x] = closing[x] /\ announced'[x][c] = 0 /\ closedAt'[x] = closedAt[x]
          /\ open' = open /\ listening' = listening /\ opener'[c] = e
          /\ channels'[e][c] = "PRE_HANDSHAKE" /\ channels'[p][c] = "ABSENT"
      BY <1>p, <3>1 DEF OpenOutgoing, Unknown, Kept, Shapes
    <3>4. Accepted(c, p, listening', open', channels', closing', wire', announced', closedAt')
      <4>1. /\ c \notin closing'[p] /\ announced'[p][c] = 0 /\ c \notin closedAt'[p]
            /\ channels'[p][c] = "ABSENT" /\ open' = open
        BY <1>p, <3>1, <3>3 DEF Unknown
      <4>2. p \in open => Mail(wire'[p], "open-stream", c)  BY <1>1, <1>2, <1>p DEF SentTo
      <4> QED  BY <4>1, <4>2 DEF Accepted, Lives
    <3>5. Answered(c, e, listening', channels', wire', announced')
      BY <1>1, <1>2, <1>p, <3>1, <3>3 DEF Answered, SentTo, Unknown, Types
    <3>6. \A x \in Ends : c \notin closing'[x] /\ c \notin closedAt'[x]  BY <3>1, <3>3 DEF Unknown
    <3>7. Uncrossed(c, e, p, listening', open', channels', closing', wire', announced', closedAt')
      BY <1>p, <3>2, <3>3, <3>4, <3>6 DEF Uncrossed
    <3> QED  BY <1>p, <2>2, <3>2, <3>3, <3>5, <3>6, <3>7, ChanOpened DEF p
  <2>3. CASE id # c
    <3>1. opener'[id] = opener[id]  BY <2>3 DEF OpenOutgoing, Kept, Shapes
    <3>2. \A x \in Ends :
            /\ channels'[x][id] = channels[x][id]
            /\ closing' = closing /\ closedAt' = closedAt /\ announced' = announced
            /\ open' = open /\ listening' = listening /\ crossed' = crossed
      BY <2>3 DEF OpenOutgoing, Kept, Shapes
    <3>3. \A x \in Ends :
            /\ \A type \in Types : Mail(wire'[x], type, id) <=> Mail(wire[x], type, id)
            /\ Framed(wire[x], id) => Framed(wire'[x], id)
      BY <1>1, <1>2, <2>3 DEF SentTo
    <3> QED  BY <2>1, <3>1, <3>2, <3>3, ChanSame
  <2> QED  BY <2>2, <2>3
<1>5. Chans'  BY <1>4, ChansAfter
<1>6. Aged'  BY AgedUnchanged DEF Kept, OpenOutgoing, heartbeatVars
<1> QED  BY <1>3, <1>5, <1>6 DEF Kept
\* What the invariant says of a channel that o opened and p accepts.
Opened(c, o, p) ==
  /\ o \in Ends /\ p \in Ends /\ p # o
  /\ Peer(o) = p /\ Peer(p) = o
  /\ \A x \in Ends : x = o \/ x = p
  /\ \A x \in Ends : c \in closing[x] => Lives(x, c, open, channels)
  /\ announced[o][c] = 0 /\ announced[p][c] \in Nat
  /\ Spoken(c, o, wire)
  /\ Answered(c, o, listening, channels, wire, announced)
  /\ c \in closedAt[o] => ~Lives(o, c, open, channels)
  /\ c \notin crossed =>
       Uncrossed(c, o, p, listening, open, channels, closing, wire, announced, closedAt)

LEMMA OpenedOf ==
  ASSUME Kept, NEW c \in Ids, NEW o \in Ends, opener[c] = o
  PROVE  Opened(c, o, Peer(o))
<1> DEFINE p == Peer(o)
<1>1. Chan(c, listening, open, channels, closing, wire, opener, announced, closedAt, crossed)  BY ChanOf
<1>2. p \in Ends /\ p # o /\ Peer(p) = o /\ \A x \in Ends : x = o \/ x = p  BY Peers
<1>3. announced[o][c] = 0 /\ announced[p][c] \in Nat  BY <1>1, <1>2 DEF Chan
<1>4. /\ Spoken(c, o, wire)
      /\ Answered(c, o, listening, channels, wire, announced)
      /\ c \in closedAt[o] => ~Lives(o, c, open, channels)
      /\ c \notin crossed =>
           Uncrossed(c, o, p, listening, open, channels, closing, wire, announced, closedAt)
  BY <1>1 DEF Chan
<1> QED  BY <1>1, <1>2, <1>3, <1>4 DEF Opened, Chan

LEMMA SendKeeps ==
  ASSUME Kept, NEW e \in Ends, NEW c \in Ids, Send(e, c)
  PROVE  Kept'
<1> DEFINE q == Packet("data", c)  p == Peer(e)
<1>1. q \in Packets /\ q.type = "data" /\ q.id = c  BY DEF Packet, Packets, Types
<1>2. SentTo(p, q, wire', wire)
  <2>1. wire' = Sending(e, << q >>, wire) /\ wire \in [ Ends -> Seq(Packets) ]  BY DEF Send, Kept, Shapes
  <2> HIDE DEF q
  <2> QED  BY <1>1, <2>1, Sends
<1>o. p = Peer(e) /\ opener[c] = e /\ Lives(e, c, open, channels)  BY DEF Send, Lives, Live
<1> HIDE DEF q, p
<1>u. /\ channels' = channels /\ closing' = closing /\ closedAt' = closedAt
      /\ announced' = announced /\ open' = open /\ listening' = listening /\ opener' = opener
  BY DEF Send
<1>r. /\ crossed' \subseteq Ids
      /\ \A i \in Ids : i \in crossed' <=> i \in crossed \/ (i = c /\ c \in closing[e])
  BY DEF Send, Kept, Shapes
<1>d. dataSent' \in [ Ids -> 0 .. MaxData ]  BY TransportAssumption DEF Kept, Shapes, Send
<1>3. Shapes'
  <2>1. wire' \in [ Ends -> Seq(Packets) ]  BY <1>2 DEF SentTo
  <2> QED  BY <1>d, <1>r, <1>u, <2>1 DEF Kept, Shapes, Send, heartbeatVars
<1>4. ASSUME NEW id \in Ids
      PROVE  Chan(id, listening', open', channels', closing', wire', opener', announced', closedAt', crossed')
  <2>1. Chan(id, listening, open, channels, closing, wire, opener, announced, closedAt, crossed)  BY ChanOf
  <2>2. CASE id = c
    <3>1. Opened(c, e, p)  BY <1>o, OpenedOf
    <3>2. Spoken(c, e, wire')  BY <1>1, <1>2, <1>o, <3>1 DEF Opened, Spoken, SentTo
    <3>3. Answered(c, e, listening', channels', wire', announced')
      BY <1>1, <1>2, <1>o, <1>u, <3>1 DEF Opened, Answered, SentTo
    <3>4. ASSUME c \notin crossed'
          PROVE  Uncrossed(c, e, p, listening', open', channels', closing', wire', announced', closedAt')
      <4>1. /\ Uncrossed(c, e, p, listening, open, channels, closing, wire, announced, closedAt)
            /\ p \in Ends /\ Peer(p) = e /\ c \notin closing[e]
        BY <1>r, <3>1, <3>4 DEF Opened
      <4>2. ~Finished(e, c, open, channels, closing)  BY <1>o, <4>1 DEF Finished
      <4>3. /\ \A type : type # "data" =>
                  (Mail(wire'[p], type, c) <=> Mail(wire[p], type, c))
            /\ Framed(wire'[p], c)
        BY <1>1, <1>2, <4>1, <4>2 DEF SentTo, Uncrossed
      <4>4. Accepted(c, p, listening', open', channels', closing', wire', announced', closedAt')
        BY <1>u, <4>1, <4>2, <4>3 DEF Uncrossed, Accepted
      <4> QED  BY <1>u, <4>1, <4>2, <4>3, <4>4 DEF Uncrossed
    <3> QED  BY <1>o, <1>u, <2>2, <3>1, <3>2, <3>3, <3>4, ChanOpened DEF Opened
  <2>3. CASE id # c
    <3>1. \A x \in Ends :
            /\ \A type \in Types : Mail(wire'[x], type, id) <=> Mail(wire[x], type, id)
            /\ Framed(wire[x], id) => Framed(wire'[x], id)
      BY <1>1, <1>2, <2>3 DEF SentTo
    <3> QED  BY <1>r, <1>u, <2>1, <2>3, <3>1, ChanSame
  <2> QED  BY <2>2, <2>3
<1>5. Chans'  BY <1>4, ChansAfter
<1>6. Aged'  BY AgedUnchanged DEF Kept, Send, heartbeatVars
<1> QED  BY <1>3, <1>5, <1>6 DEF Kept

LEMMA CloseKeeps ==
  ASSUME Kept, NEW e \in Ends, NEW c \in Ids, Close(e, c)
  PROVE  Kept'
<1> DEFINE q == Packet("close-channel", c)  p == Peer(e)
<1>1. q \in Packets /\ q.type = "close-channel" /\ q.id = c  BY DEF Packet, Packets, Types
<1>2. SentTo(p, q, wire', wire)
  <2>1. wire' = Sending(e, << q >>, wire) /\ wire \in [ Ends -> Seq(Packets) ]
    BY DEF Close, CloseWith, Kept, Shapes
  <2> HIDE DEF q
  <2> QED  BY <1>1, <2>1, Sends
<1>o. p = Peer(e) /\ c \notin closing[e] /\ Lives(e, c, open, channels)
  BY DEF Close, CloseWith, Lives, Live
<1>n. opener[c] \in Ends
  BY <1>o, ChanOf DEF Chan, Unknown, Lives, Kept, Shapes
<1> DEFINE o == opener[c]  y == Peer(o)
<1>y. o = opener[c] /\ y = Peer(o) /\ Opened(c, o, y)  BY <1>n, OpenedOf
<1> HIDE DEF q, p, o, y
<1>u. /\ channels' = channels /\ closedAt' = closedAt
      /\ announced' = announced /\ open' = open /\ listening' = listening /\ opener' = opener
      /\ closing' \in [ Ends -> SUBSET Ids ]
      /\ \A x \in Ends : closing'[x] = IF x = e THEN closing[x] \cup { c } ELSE closing[x]
      /\ crossed' \subseteq Ids
      /\ \A i \in Ids : i \in crossed' <=> i \in crossed \/ (i = c /\ e # opener[c])
  BY DEF Close, CloseWith, Kept, Shapes
<1>3. Shapes'  BY <1>2, <1>u DEF SentTo, Kept, Shapes, Close, CloseWith, heartbeatVars
<1>4. ASSUME NEW id \in Ids
      PROVE  Chan(id, listening', open', channels', closing', wire', opener', announced', closedAt', crossed')
  <2>1. Chan(id, listening, open, channels, closing, wire, opener, announced, closedAt, crossed)  BY ChanOf
  <2>2. CASE id = c
    <3>1. \A x \in Ends : \A type : type # "close-channel" =>
            (Mail(wire'[x], type, c) <=> Mail(wire[x], type, c))
      BY <1>1, <1>2 DEF SentTo
    <3>2. Spoken(c, o, wire')  BY <1>y, <3>1 DEF Opened, Spoken
    <3>3. Answered(c, o, listening', channels', wire', announced')
      BY <1>u, <1>y, <3>1 DEF Opened, Answered
    <3>4. ASSUME c \notin crossed'
          PROVE  Uncrossed(c, o, y, listening', open', channels', closing', wire', announced', closedAt')
      <4>1. /\ Uncrossed(c, o, y, listening, open, channels, closing, wire, announced, closedAt)
            /\ y \in Ends /\ Peer(y) = o /\ e = o /\ p = y /\ o # y
        BY <1>o, <1>u, <1>y, <3>4 DEF Opened
      <4>2. Finished(o, c, open', channels', closing') /\ closing'[y] = closing[y]
        BY <1>u, <4>1 DEF Finished
      <4>3. ~Mail(wire[y], "close-channel", c) /\ Framed(wire[y], c)
        BY <1>o, <4>1 DEF Uncrossed, Finished
      <4>4. Framed(wire'[y], c)  BY <1>1, <1>2, <4>1, <4>3 DEF SentTo
      <4>5. Lives(y, c, open', channels') <=> Lives(y, c, open, channels)  BY <1>u DEF Lives
      <4>6. Accepted(c, y, listening', open', channels', closing', wire', announced', closedAt')
        BY <1>u, <3>1, <4>1, <4>2, <4>5 DEF Uncrossed, Accepted
      <4> QED  BY <1>u, <4>1, <4>2, <4>4, <4>5, <4>6 DEF Uncrossed
    <3>6. /\ \A x \in Ends : c \in closing'[x] => Lives(x, c, open', channels')
          /\ c \in closedAt'[o] => ~Lives(o, c, open', channels')
      BY <1>o, <1>u, <1>y DEF Opened, Lives
    <3> QED  BY <1>u, <1>y, <2>2, <3>2, <3>3, <3>4, <3>6, ChanOpened DEF Opened
  <2>3. CASE id # c
    <3>1. \A x \in Ends :
            /\ \A type \in Types : Mail(wire'[x], type, id) <=> Mail(wire[x], type, id)
            /\ Framed(wire[x], id) => Framed(wire'[x], id)
            /\ id \in closing'[x] <=> id \in closing[x]
      BY <1>1, <1>2, <1>u, <2>3 DEF SentTo
    <3> QED  BY <1>u, <2>1, <2>3, <3>1, ChanSame
  <2> QED  BY <2>2, <2>3
<1>5. Chans'  BY <1>4, ChansAfter
<1>6. Aged'  BY AgedUnchanged DEF Kept, Close, CloseWith, heartbeatVars
<1> QED  BY <1>3, <1>5, <1>6 DEF Kept

LEMMA DestroyKeeps ==
  ASSUME Kept, NEW e \in Ends, NEW c \in Ids, DestroyClosing(e, c)
  PROVE  Kept'
<1>1. Chan(c, listening, open, channels, closing, wire, opener, announced, closedAt, crossed)  BY ChanOf
<1>2. c \in closing[e] /\ Lives(e, c, open, channels) /\ e \in open  BY <1>1 DEF Chan, Lives, DestroyClosing
<1>c. /\ channels' = [ channels EXCEPT ![e][c] = "ABSENT" ]
      /\ closedAt' = [ closedAt EXCEPT ![e] = @ \cup { c } ]
      /\ closing' = [ closing EXCEPT ![e] = @ \ { c } ]
      /\ channels \in [ Ends -> [ Ids -> Statuses ] ]
      /\ closing \in [ Ends -> SUBSET Ids ] /\ closedAt \in [ Ends -> SUBSET Ids ]
  BY <1>2 DEF DestroyClosing, Kept, Shapes, Live, Lives
<1>u. /\ wire' = wire /\ announced' = announced /\ open' = open /\ listening' = listening
      /\ opener' = opener /\ crossed' = crossed
      /\ channels' \in [ Ends -> [ Ids -> Statuses ] ]
      /\ closing' \in [ Ends -> SUBSET Ids ] /\ closedAt' \in [ Ends -> SUBSET Ids ]
      /\ \A x \in Ends, i \in Ids :
           /\ channels'[x][i] = IF x = e /\ i = c THEN "ABSENT" ELSE channels[x][i]
           /\ i \in closing'[x] <=> i \in closing[x] /\ ~(x = e /\ i = c)
           /\ i \in closedAt'[x] <=> i \in closedAt[x] \/ (x = e /\ i = c)
  <2>1. /\ wire' = wire /\ announced' = announced /\ open' = open /\ listening' = listening
        /\ opener' = opener /\ crossed' = crossed
    BY DEF DestroyClosing
  <2>2. /\ channels' \in [ Ends -> [ Ids -> Statuses ] ]
        /\ \A x \in Ends, i \in Ids :
             channels'[x][i] = IF x = e /\ i = c THEN "ABSENT" ELSE channels[x][i]
    BY <1>c DEF Statuses
  <2>3. closing' \in [ Ends -> SUBSET Ids ] /\ closedAt' \in [ Ends -> SUBSET Ids ]  BY <1>c
  <2>4. \A x \in Ends, i \in Ids :
          /\ i \in closing'[x] <=> i \in closing[x] /\ ~(x = e /\ i = c)
          /\ i \in closedAt'[x] <=> i \in closedAt[x] \/ (x = e /\ i = c)
    BY <1>c
  <2> QED  BY <2>1, <2>2, <2>3, <2>4
<1>3. Shapes'  BY <1>u DEF Kept, Shapes, DestroyClosing, heartbeatVars
<1>4. ASSUME NEW id \in Ids
      PROVE  Chan(id, listening', open', channels', closing', wire', opener', announced', closedAt', crossed')
  <2>1. Chan(id, listening, open, channels, closing, wire, opener, announced, closedAt, crossed)  BY ChanOf
  <2>2. CASE id = c
    <3>0. opener[c] \in Ends  BY <1>1, <1>2 DEF Chan, Unknown, Kept, Shapes
    <3> DEFINE o == opener[c]  p == Peer(o)
    <3>p. o = opener[c] /\ p = Peer(o) /\ o \in Ends  BY <3>0
    <3> HIDE DEF o, p
    <3>1. Opened(c, o, p)  BY <3>p, OpenedOf
    <3>3. Finished(o, c, open, channels, closing) => Finished(o, c, open', channels', closing')
      BY <1>2, <1>u, <3>p, <3>1 DEF Opened, Finished, Lives
    <3>4. Spoken(c, o, wire')  BY <1>u, <3>1 DEF Opened, Spoken
    <3>5. Answered(c, o, listening', channels', wire', announced')  BY <1>u, <3>p, <3>1 DEF Opened, Answered
    <3>6. ASSUME c \notin crossed'
          PROVE  Uncrossed(c, o, p, listening', open', channels', closing', wire', announced', closedAt')
      <4>1. /\ Uncrossed(c, o, p, listening, open, channels, closing, wire, announced, closedAt)
            /\ Peer(p) = o /\ e # p
        BY <1>2, <1>u, <3>1, <3>6 DEF Opened, Uncrossed
      <4>2. Accepted(c, p, listening', open', channels', closing', wire', announced', closedAt')
        BY <1>u, <3>1, <3>3, <4>1 DEF Opened, Uncrossed, Accepted, Lives
      <4> QED  BY <1>u, <3>1, <3>3, <4>1, <4>2 DEF Opened, Uncrossed, Lives
    <3>7. /\ \A x \in Ends : c \in closing'[x] => Lives(x, c, open', channels')
          /\ c \in closedAt'[o] => ~Lives(o, c, open', channels')
      BY <1>u, <3>p, <3>1 DEF Opened, Lives
    <3>8. opener'[c] = o /\ announced'[o][c] = 0 /\ announced'[p][c] \in Nat
      BY <1>u, <3>p, <3>1 DEF Opened
    <3> QED  BY <2>2, <3>p, <3>4, <3>5, <3>6, <3>7, <3>8, ChanOpened
  <2>3. CASE id # c  BY <1>u, <2>1, <2>3, ChanSame
  <2> QED  BY <2>2, <2>3
<1>5. Chans'  BY <1>4, ChansAfter
<1>6. Aged'  BY AgedUnchanged DEF Kept, DestroyClosing, heartbeatVars
<1> QED  BY <1>3, <1>5, <1>6 DEF Kept
-------------------------------------------------------------------------------
(* Receiving.                                                              *)

\* e takes q from its link, which is rest after that.
Taking(e, q, rest) ==
  /\ e \in Ends /\ e \in open
  /\ TakenAt(e, rest, wire) /\ q = Head(wire[e])
  /\ UNCHANGED << heartbeatVars, listening, open, opener, dataSent >>

\* Whoever receives a packet of a channel, it has an opener.
LEMMA TakingOf ==
  ASSUME Kept, NEW e, NEW q, NEW rest, Taking(e, q, rest)
  PROVE  /\ q \in Packets /\ q.id \in Ids /\ q.type \in Types
         /\ Mail(wire[e], q.type, q.id)
         /\ opener[q.id] \in Ends /\ Opened(q.id, opener[q.id], Peer(opener[q.id]))
         /\ \A x \in Ends, id \in Ids : id # q.id =>
              /\ \A type \in Types : Mail(rest[x], type, id) <=> Mail(wire[x], type, id)
              /\ Framed(wire[x], id) => Framed(rest[x], id)
<1>1. q \in Packets /\ q.id \in Ids /\ q.type \in Types  BY DEF Taking, TakenAt, Packets
<1>2. Mail(wire[e], q.type, q.id)  BY DEF Taking, TakenAt
<1>3. opener[q.id] \in Ends
  <2>1. Chan(q.id, listening, open, channels, closing, wire, opener, announced, closedAt, crossed)  BY <1>1, ChanOf
  <2> QED  BY <1>1, <1>2, <2>1 DEF Chan, Unknown, Kept, Shapes, Taking
<1>4. Opened(q.id, opener[q.id], Peer(opener[q.id]))  BY <1>1, <1>3, OpenedOf
<1>5. \A x \in Ends, id \in Ids : id # q.id =>
        /\ \A type \in Types : Mail(rest[x], type, id) <=> Mail(wire[x], type, id)
        /\ Framed(wire[x], id) => Framed(rest[x], id)
  BY DEF Taking, TakenAt
<1> QED  BY <1>1, <1>2, <1>3, <1>4, <1>5

LEMMA ReceiveCloseKeeps ==
  ASSUME Kept, NEW e, NEW q, NEW rest, Taking(e, q, rest),
         q.type = "close-channel", ReceiveClose(e, q.id, rest)
  PROVE  Kept'
<1> DEFINE c == q.id  o == opener[c]  p == Peer(o)
<1>1. /\ q \in Packets /\ c \in Ids /\ q.id = c /\ Mail(wire[e], q.type, c)
      /\ o \in Ends /\ o = opener[c] /\ p = Peer(o) /\ Opened(c, o, p)
      /\ \A x \in Ends, id \in Ids : id # c =>
           /\ \A type \in Types : Mail(rest[x], type, id) <=> Mail(wire[x], type, id)
           /\ Framed(wire[x], id) => Framed(rest[x], id)
  BY TakingOf
<1>2. e \in Ends /\ e \in open /\ TakenAt(e, rest, wire) /\ q = Head(wire[e])  BY DEF Taking
<1>c. /\ IF Lives(e, c, open, channels)
         THEN /\ channels' = [ channels EXCEPT ![e][c] = "ABSENT" ]
              /\ closedAt' = [ closedAt EXCEPT ![e] = @ \cup { c } ]
              /\ closing' = [ closing EXCEPT ![e] = @ \ { c } ]
         ELSE channels' = channels /\ closedAt' = closedAt /\ closing' = closing
      /\ wire' = rest /\ announced' = announced /\ crossed' = crossed
      /\ UNCHANGED << heartbeatVars, listening, open, opener, dataSent >>
  BY DEF ReceiveClose, Live, Lives, Taking
<1> HIDE DEF c, o, p
<1>k. /\ channels \in [ Ends -> [ Ids -> Statuses ] ]
      /\ closing \in [ Ends -> SUBSET Ids ] /\ closedAt \in [ Ends -> SUBSET Ids ]
  BY DEF Kept, Shapes
<1>u. /\ channels' \in [ Ends -> [ Ids -> Statuses ] ]
      /\ closing' \in [ Ends -> SUBSET Ids ] /\ closedAt' \in [ Ends -> SUBSET Ids ]
      /\ \A x \in Ends, i \in Ids :
           /\ channels'[x][i] = IF x = e /\ i = c THEN "ABSENT" ELSE channels[x][i]
           /\ i \in closing'[x] <=> i \in closing[x] /\ ~(x = e /\ i = c)
           /\ i \in closedAt[x] => i \in closedAt'[x]
           /\ i \in closedAt'[x] => i \in closedAt[x] \/ (x = e /\ i = c)
  <2>1. CASE Lives(e, c, open, channels)
    <3>1. /\ channels' \in [ Ends -> [ Ids -> Statuses ] ]
          /\ \A x \in Ends, i \in Ids :
               channels'[x][i] = IF x = e /\ i = c THEN "ABSENT" ELSE channels[x][i]
      <4> DEFINE row == [ channels[e] EXCEPT ![c] = "ABSENT" ]
      <4>1. channels' = [ channels EXCEPT ![e] = row ]  BY <1>c, <2>1
      <4>2. /\ row \in [ Ids -> Statuses ]
            /\ \A i \in Ids : row[i] = IF i = c THEN "ABSENT" ELSE channels[e][i]
        BY <1>1, <1>2, <1>k DEF Statuses
      <4> HIDE DEF row
      <4> QED  BY <1>2, <1>k, <4>1, <4>2
    <3>a. /\ closing' = [ closing EXCEPT ![e] = @ \ { c } ]
          /\ closedAt' = [ closedAt EXCEPT ![e] = @ \cup { c } ]
      BY <1>c, <2>1
    <3>2. closing' \in [ Ends -> SUBSET Ids ] /\ closedAt' \in [ Ends -> SUBSET Ids ]
      BY <1>1, <1>2, <1>k, <3>a
    <3>3. \A x \in Ends, i \in Ids :
            /\ i \in closing'[x] <=> i \in closing[x] /\ ~(x = e /\ i = c)
            /\ i \in closedAt'[x] <=> i \in closedAt[x] \/ (x = e /\ i = c)
      BY <1>1, <1>2, <1>c, <1>k, <2>1
    <3> QED  BY <3>1, <3>2, <3>3
  <2>2. CASE ~Lives(e, c, open, channels)
    <3>1. channels[e][c] = "ABSENT" /\ c \notin closing[e]  BY <1>1, <1>2, <2>2 DEF Opened, Lives
    <3> QED  BY <1>c, <1>k, <2>2, <3>1
  <2> QED  BY <2>1, <2>2
<1>3. Shapes'
  <2>1. wire' \in [ Ends -> Seq(Packets) ]  BY <1>2, <1>c DEF TakenAt
  <2> QED  BY <1>c, <1>u, <2>1 DEF Kept, Shapes, heartbeatVars
<1>4. ASSUME NEW id \in Ids
      PROVE  Chan(id, listening', open', channels', closing', wire', opener', announced', closedAt', crossed')
  <2>1. Chan(id, listening, open, channels, closing, wire, opener, announced, closedAt, crossed)  BY ChanOf
  <2>2. CASE id = c
    <3>1. /\ \A x \in Ends : \A type : Mail(wire'[x], type, c) => Mail(wire[x], type, c)
          /\ \A x \in Ends : x # e => \A type : Mail(wire[x], type, c) => Mail(wire'[x], type, c)
          /\ Framed(wire[p], c) => Framed(wire'[p], c)
      BY <1>1, <1>2, <1>c DEF TakenAt, Opened
    <3>2. Finished(o, c, open, channels, closing) => Finished(o, c, open', channels', closing')
      BY <1>1, <1>2, <1>c, <1>u DEF Finished, Lives
    <3>3. Spoken(c, o, wire')  BY <1>1, <3>1 DEF Spoken, Opened
    <3>4. Answered(c, o, listening', channels', wire', announced')
      BY <1>1, <1>c, <1>u, <3>1 DEF Answered, Opened
    <3>5. ASSUME c \notin crossed'
          PROVE  Uncrossed(c, o, p, listening', open', channels', closing', wire', announced', closedAt')
      <4>0. /\ Uncrossed(c, o, p, listening, open, channels, closing, wire, announced, closedAt)
            /\ Peer(p) = o
        BY <1>1, <1>c, <3>5 DEF Opened
      <4>3. Accepted(c, p, listening', open', channels', closing', wire', announced', closedAt')
        <5>1. CASE e = o  BY <1>1, <1>c, <1>u, <3>1, <3>2, <4>0, <5>1 DEF Uncrossed, Accepted, Opened, Lives
        <5>2. CASE e = p
          <6>1. /\ ~Mail(wire[p], "open-stream", c) /\ ~Mail(wire'[p], "open-stream", c)
                /\ ~Mail(wire'[p], "data", c) /\ Finished(o, c, open, channels, closing)
            BY <1>1, <1>2, <1>c, <4>0, <5>2 DEF TakenAt, Opened, Spoken, Uncrossed
          <6> QED  BY <1>1, <1>c, <1>u, <3>2, <4>0, <5>2, <6>1 DEF Uncrossed, Accepted, Opened
        <5> QED  BY <1>1, <1>2, <5>1, <5>2 DEF Opened
      <4> QED  BY <1>1, <1>c, <1>u, <3>1, <3>2, <4>0, <4>3 DEF Uncrossed, Opened, Lives
    <3>6. /\ \A x \in Ends : c \in closing'[x] => Lives(x, c, open', channels')
          /\ c \in closedAt'[o] => ~Lives(o, c, open', channels')
      BY <1>1, <1>c, <1>u DEF Lives, Opened
    <3> QED  BY <1>1, <1>c, <2>2, <3>3, <3>4, <3>5, <3>6, ChanOpened DEF Opened
  <2>3. CASE id # c  BY <1>1, <1>c, <1>u, <2>1, <2>3, ChanSame
  <2> QED  BY <2>2, <2>3
<1>5. Chans'  BY <1>4, ChansAfter
<1>6. Aged'  BY <1>c, AgedUnchanged DEF Kept, heartbeatVars
<1> QED  BY <1>3, <1>5, <1>6 DEF Kept
\* A packet that is taken in silence: it finds its channel, or asks for none.
LEMMA ReceiveQuietKeeps ==
  ASSUME Kept, NEW e, NEW q, NEW rest, Taking(e, q, rest),
         \/ q.type \in { "open-stream-ack", "ack" }
         \/ q.type = "open-stream" /\ Lives(e, q.id, open, channels),
         wire' = rest,
         channels' = IF q.type = "open-stream-ack" /\ Lives(e, q.id, open, channels)
                     THEN [ channels EXCEPT ![e][q.id] = "ESTABLISHED" ] ELSE channels,
         UNCHANGED << closing, announced, closedAt, crossed >>
  PROVE  Kept'
<1> DEFINE c == q.id  o == opener[c]  p == Peer(o)
<1>1. /\ q \in Packets /\ c \in Ids /\ q.id = c /\ Mail(wire[e], q.type, c)
      /\ o \in Ends /\ o = opener[c] /\ p = Peer(o) /\ Opened(c, o, p)
      /\ \A x \in Ends, id \in Ids : id # c =>
           /\ \A type \in Types : Mail(rest[x], type, id) <=> Mail(wire[x], type, id)
           /\ Framed(wire[x], id) => Framed(rest[x], id)
  BY TakingOf
<1>2. e \in Ends /\ e \in open /\ TakenAt(e, rest, wire) /\ q = Head(wire[e])  BY DEF Taking
<1>c. /\ channels' = IF q.type = "open-stream-ack" /\ Lives(e, c, open, channels)
                     THEN [ channels EXCEPT ![e][c] = "ESTABLISHED" ] ELSE channels
      /\ UNCHANGED << heartbeatVars, listening, open, opener, dataSent, closing, announced, closedAt,
                      crossed >>
  BY DEF Taking
<1> HIDE DEF c, o, p
<1>u. /\ channels' \in [ Ends -> [ Ids -> Statuses ] ]
      /\ \A x \in Ends, i \in Ids :
           /\ ~(x = e /\ i = c) => channels'[x][i] = channels[x][i]
           /\ channels'[x][i] = "ABSENT" <=> channels[x][i] = "ABSENT"
           /\ q.type # "open-stream-ack" => channels'[x][i] = channels[x][i]
  <2>1. channels \in [ Ends -> [ Ids -> Statuses ] ]  BY DEF Kept, Shapes
  <2> QED  BY <1>1, <1>2, <1>c, <2>1 DEF Statuses, Lives
<1>3. Shapes'
  <2>1. wire' \in [ Ends -> Seq(Packets) ]  BY <1>2 DEF TakenAt
  <2> QED  BY <1>c, <1>u, <2>1 DEF Kept, Shapes, heartbeatVars
<1>4. ASSUME NEW id \in Ids
      PROVE  Chan(id, listening', open', channels', closing', wire', opener', announced', closedAt', crossed')
  <2>1. Chan(id, listening, open, channels, closing, wire, opener, announced, closedAt, crossed)  BY ChanOf
  <2>2. CASE id = c
    <3>1. /\ \A x \in Ends : \A type : Mail(wire'[x], type, c) => Mail(wire[x], type, c)
          /\ \A x \in Ends : \A type :
               Mail(wire[x], type, c) /\ ~(x = e /\ type = q.type) => Mail(wire'[x], type, c)
          /\ Framed(wire[p], c) => Framed(wire'[p], c)
      BY <1>1, <1>2, <1>c DEF TakenAt, Opened
    <3>2. \A x \in Ends : Lives(x, c, open', channels') <=> Lives(x, c, open, channels)
      BY <1>1, <1>c, <1>u DEF Lives
    <3>3. Finished(o, c, open, channels, closing) <=> Finished(o, c, open', channels', closing')
      BY <1>1, <1>c, <3>2 DEF Finished
    <3>4. Spoken(c, o, wire')  BY <1>1, <3>1 DEF Spoken, Opened
    <3>5. q.type = "open-stream-ack" => e = o  BY <1>1, <1>2 DEF Spoken, Opened
    <3>6. Answered(c, o, listening', channels', wire', announced')
      BY <1>1, <1>c, <1>u, <3>1, <3>5 DEF Answered, Opened
    <3>7. ASSUME c \notin crossed'
          PROVE  Uncrossed(c, o, p, listening', open', channels', closing', wire', announced', closedAt')
      <4>1. Uncrossed(c, o, p, listening, open, channels, closing, wire, announced, closedAt)
        BY <1>1, <1>c, <3>7 DEF Opened
      <4>2. q.type = "open-stream" => e = p /\ p \notin listening
        BY <1>1, <1>2, <4>1 DEF Spoken, Uncrossed, Accepted, Opened
      <4>3. Accepted(c, p, listening', open', channels', closing', wire', announced', closedAt')
        BY <1>1, <1>c, <3>1, <3>2, <3>3, <4>1, <4>2 DEF Uncrossed, Accepted, Opened
      <4> QED  BY <1>1, <1>c, <3>1, <3>2, <3>3, <4>1, <4>3 DEF Uncrossed, Opened
    <3>9. /\ \A x \in Ends : c \in closing'[x] => Lives(x, c, open', channels')
          /\ c \in closedAt'[o] => ~Lives(o, c, open', channels')
      BY <1>1, <1>c, <3>2 DEF Opened
    <3> QED  BY <1>1, <1>c, <2>2, <3>4, <3>6, <3>7, <3>9, ChanOpened DEF Opened
  <2>3. CASE id # c  BY <1>1, <1>c, <1>u, <2>1, <2>3, ChanSame
  <2> QED  BY <2>2, <2>3
<1>5. Chans'  BY <1>4, ChansAfter
<1>6. Aged'  BY <1>c, AgedUnchanged DEF Kept, heartbeatVars
<1> QED  BY <1>3, <1>5, <1>6 DEF Kept

\* Data for a channel that is there is acknowledged.
LEMMA ReceiveDataKeeps ==
  ASSUME Kept, NEW e, NEW q, NEW rest, Taking(e, q, rest),
         q.type = "data",
         wire' = Sending(e, << Packet("ack", q.id) >>, rest),
         UNCHANGED << channels, closing, announced, closedAt, crossed >>
  PROVE  Kept'
<1> DEFINE c == q.id  o == opener[c]  p == Peer(o)  a == Packet("ack", c)
<1>1. /\ q \in Packets /\ c \in Ids /\ q.id = c /\ Mail(wire[e], q.type, c)
      /\ o \in Ends /\ o = opener[c] /\ p = Peer(o) /\ Opened(c, o, p)
      /\ \A x \in Ends, id \in Ids : id # c =>
           /\ \A type \in Types : Mail(rest[x], type, id) <=> Mail(wire[x], type, id)
           /\ Framed(wire[x], id) => Framed(rest[x], id)
  BY TakingOf
<1>2. e \in Ends /\ e \in open /\ TakenAt(e, rest, wire) /\ q = Head(wire[e])  BY DEF Taking
<1>c. /\ UNCHANGED << heartbeatVars, listening, open, opener, dataSent >>
      /\ UNCHANGED << channels, closing, announced, closedAt, crossed >>
  BY DEF Taking
<1>a. a \in Packets /\ a.type = "ack" /\ a.id = c /\ wire' = Sending(e, << a >>, rest)
  BY <1>1 DEF Packet, Packets, Types
<1> HIDE DEF c, o, p, a
<1>e. e = p  BY <1>1, <1>2 DEF Spoken, Opened
<1>s. SentTo(o, a, wire', rest)  BY <1>1, <1>2, <1>a, <1>e, Sends DEF TakenAt, Opened
<1>3. Shapes'
  <2>1. wire' \in [ Ends -> Seq(Packets) ]  BY <1>s DEF SentTo
  <2> QED  BY <1>c, <2>1 DEF Kept, Shapes, heartbeatVars
<1>4. ASSUME NEW id \in Ids
      PROVE  Chan(id, listening', open', channels', closing', wire', opener', announced', closedAt', crossed')
  <2>1. Chan(id, listening, open, channels, closing, wire, opener, announced, closedAt, crossed)  BY ChanOf
  <2>2. CASE id = c
    <3>1. /\ \A type : Mail(rest[p], type, c) => Mail(wire[p], type, c)
          /\ \A type : Mail(wire[p], type, c) /\ type # "data" => Mail(rest[p], type, c)
          /\ \A type : Mail(rest[o], type, c) <=> Mail(wire[o], type, c)
          /\ Framed(wire[p], c) => Framed(rest[p], c)
      BY <1>1, <1>2, <1>e DEF TakenAt, Opened
    <3>2. /\ \A type : Mail(wire'[p], type, c) <=> Mail(rest[p], type, c)
          /\ \A type : Mail(wire'[o], type, c) => Mail(rest[o], type, c) \/ type = "ack"
          /\ Framed(rest[p], c) => Framed(wire'[p], c)
      BY <1>1, <1>a, <1>s DEF SentTo, Opened
    <3>3. Spoken(c, o, wire')  BY <1>1, <3>1, <3>2 DEF Spoken, Opened
    <3>4. Answered(c, o, listening', channels', wire', announced')
      BY <1>1, <1>c, <3>1, <3>2 DEF Answered, Opened
    <3>5. ASSUME c \notin crossed'
          PROVE  Uncrossed(c, o, p, listening', open', channels', closing', wire', announced', closedAt')
      <4>1. Uncrossed(c, o, p, listening, open, channels, closing, wire, announced, closedAt)
        BY <1>1, <1>c, <3>5 DEF Opened
      <4>2. Accepted(c, p, listening', open', channels', closing', wire', announced', closedAt')
        BY <1>1, <1>c, <3>1, <3>2, <4>1 DEF Uncrossed, Accepted, Opened
      <4> QED  BY <1>1, <1>c, <3>1, <3>2, <4>1, <4>2 DEF Uncrossed, Opened
    <3> QED  BY <1>1, <1>c, <2>2, <3>3, <3>4, <3>5, ChanOpened DEF Opened
  <2>3. CASE id # c
    <3>1. \A x \in Ends :
            /\ \A type \in Types : Mail(wire'[x], type, id) <=> Mail(rest[x], type, id)
            /\ Framed(rest[x], id) => Framed(wire'[x], id)
      BY <1>a, <1>s, <2>3 DEF SentTo
    <3> QED  BY <1>1, <1>c, <2>1, <2>3, <3>1, ChanSame
  <2> QED  BY <2>2, <2>3
<1>5. Chans'  BY <1>4, ChansAfter
<1>6. Aged'  BY <1>c, AgedUnchanged DEF Kept, heartbeatVars
<1> QED  BY <1>3, <1>5, <1>6 DEF Kept
\* The two ways in which a packet makes a channel: the handler keeps it, or it
\* is closed there and then.
MadeOpen(e, q, rest) ==
  /\ e \in listening
  /\ channels' = [ channels EXCEPT ![e][q.id] =
                     IF q.type = "data" THEN "PRE_HANDSHAKE" ELSE "ESTABLISHED" ]
  /\ wire' = Sending(e, << Packet(IF q.type = "data" THEN "ack" ELSE "open-stream-ack", q.id) >>, rest)
  /\ announced' = [ announced EXCEPT ![e][q.id] = @ + 1 ]
  /\ UNCHANGED << closing, closedAt, crossed >>

MadeClosed(e, q, rest) ==
  /\ channels' = [ channels EXCEPT ![e][q.id] =
                     IF q.type = "data" THEN "PRE_HANDSHAKE" ELSE "ESTABLISHED" ]
  /\ closing' = [ closing EXCEPT ![e] = @ \cup { q.id } ]
  /\ wire' = Sending(e, << Packet("close-channel", q.id),
                Packet(IF q.type = "data" THEN "ack" ELSE "open-stream-ack", q.id) >>, rest)
  /\ announced' = IF e \in listening THEN [ announced EXCEPT ![e][q.id] = @ + 1 ] ELSE announced
  /\ crossed' = crossed \cup { q.id } /\ closedAt' = closedAt

LEMMA ReceiveFirstKeeps ==
  ASSUME Kept, NEW e, NEW q, NEW rest, Taking(e, q, rest),
         q.type \in { "open-stream", "data" }, ~Lives(e, q.id, open, channels),
         MadeOpen(e, q, rest)
  PROVE  Kept'
<1> DEFINE c == q.id  o == opener[c]  p == Peer(o)
           a == Packet(IF q.type = "data" THEN "ack" ELSE "open-stream-ack", c)
           st == IF q.type = "data" THEN "PRE_HANDSHAKE" ELSE "ESTABLISHED"
<1>1. /\ q \in Packets /\ c \in Ids /\ q.id = c /\ Mail(wire[e], q.type, c)
      /\ o \in Ends /\ o = opener[c] /\ p = Peer(o) /\ Opened(c, o, p)
      /\ \A x \in Ends, id \in Ids : id # c =>
           /\ \A type \in Types : Mail(rest[x], type, id) <=> Mail(wire[x], type, id)
           /\ Framed(wire[x], id) => Framed(rest[x], id)
  BY TakingOf
<1>2. e \in Ends /\ e \in open /\ TakenAt(e, rest, wire) /\ q = Head(wire[e])  BY DEF Taking
<1>a. /\ a \in Packets /\ a.type \in { "ack", "open-stream-ack" } /\ a.id = c
      /\ st \in Statuses \ { "ABSENT" }
  BY <1>1 DEF Packet, Packets, Types, Statuses
<1>r. /\ channels' = [ channels EXCEPT ![e][c] = st ]
      /\ wire' = Sending(e, << a >>, rest)
      /\ announced' = [ announced EXCEPT ![e][c] = @ + 1 ]
      /\ UNCHANGED << heartbeatVars, listening, open, opener, dataSent, closing, closedAt, crossed >>
  BY DEF Taking, MadeOpen
<1>l. ~Lives(e, c, open, channels) /\ e \in listening  BY DEF MadeOpen
<1> HIDE DEF c, o, p, a, st
<1>e. e = p  BY <1>1, <1>2 DEF Spoken, Opened
<1>s. SentTo(o, a, wire', rest)
  <2>1. Peer(e) = o /\ rest \in [ Ends -> Seq(Packets) ]  BY <1>1, <1>2, <1>e DEF TakenAt, Opened
  <2> QED  BY <1>2, <1>a, <1>r, <2>1, Sends
<1>k. channels \in [ Ends -> [ Ids -> Statuses ] ] /\ announced \in [ Ends -> [ Ids -> Nat ] ]
  BY DEF Kept, Shapes
<1>u. /\ channels' \in [ Ends -> [ Ids -> Statuses ] ] /\ announced' \in [ Ends -> [ Ids -> Nat ] ]
      /\ \A x \in Ends, i \in Ids :
           /\ channels'[x][i] = IF x = p /\ i = c THEN st ELSE channels[x][i]
           /\ announced'[x][i] = IF x = p /\ i = c THEN announced[p][c] + 1 ELSE announced[x][i]
  <2>2. /\ channels' \in [ Ends -> [ Ids -> Statuses ] ]
        /\ \A x \in Ends, i \in Ids :
             channels'[x][i] = IF x = p /\ i = c THEN st ELSE channels[x][i]
    BY <1>1, <1>2, <1>a, <1>e, <1>k, <1>r
  <2>3. /\ announced' \in [ Ends -> [ Ids -> Nat ] ]
        /\ \A x \in Ends, i \in Ids :
             announced'[x][i] = IF x = p /\ i = c THEN announced[p][c] + 1 ELSE announced[x][i]
    BY <1>1, <1>2, <1>e, <1>k, <1>r
  <2> QED  BY <2>2, <2>3
<1>3. Shapes'
  <2>1. wire' \in [ Ends -> Seq(Packets) ]  BY <1>s DEF SentTo
  <2> QED  BY <1>r, <1>u, <2>1 DEF Kept, Shapes, heartbeatVars
<1>4. ASSUME NEW id \in Ids
      PROVE  Chan(id, listening', open', channels', closing', wire', opener', announced', closedAt', crossed')
  <2>1. Chan(id, listening, open, channels, closing, wire, opener, announced, closedAt, crossed)  BY ChanOf
  <2>2. CASE id = c
    <3>1. /\ \A type : Mail(rest[p], type, c) => Mail(wire[p], type, c)
          /\ \A type : Mail(rest[o], type, c) <=> Mail(wire[o], type, c)
      BY <1>1, <1>2, <1>e DEF TakenAt, Opened
    <3>2. /\ \A type : Mail(wire'[p], type, c) <=> Mail(rest[p], type, c)
          /\ \A type : Mail(wire'[o], type, c) =>
               Mail(rest[o], type, c) \/ type \in { "ack", "open-stream-ack" }
          /\ Framed(rest[p], c) => Framed(wire'[p], c)
      BY <1>1, <1>a, <1>s DEF SentTo, Opened
    <3>3. /\ channels'[p][c] # "ABSENT" /\ channels'[o][c] = channels[o][c]
          /\ announced'[p][c] = announced[p][c] + 1 /\ announced'[o][c] = 0
          /\ announced[p][c] \in Nat /\ announced'[p][c] \in Nat
          /\ UNCHANGED << listening, open, closing, closedAt, opener, crossed >>
      BY <1>1, <1>a, <1>r, <1>u DEF Opened
    <3>4. Spoken(c, o, wire')  BY <1>1, <3>1, <3>2 DEF Spoken, Opened
    <3>5. Answered(c, o, listening', channels', wire', announced')  BY <1>1, <3>3 DEF Answered, Opened
    <3>6. ASSUME c \notin crossed'
          PROVE  Uncrossed(c, o, p, listening', open', channels', closing', wire', announced', closedAt')
      <4>1. /\ Uncrossed(c, o, p, listening, open, channels, closing, wire, announced, closedAt)
            /\ Peer(p) = o
        BY <1>1, <3>3, <3>6 DEF Opened
      \* Data alone would come after the open-stream that made the channel.
      <4>2. announced[p][c] = 0 /\ c \notin closedAt[p]
        <5>1. q.type = "data" => ~Mail(wire[p], "open-stream", c) /\ Mail(wire[p], "data", c)
          BY <1>1, <1>2, <1>e, <4>1 DEF TakenAt, Uncrossed
        <5> QED  BY <1>1, <1>2, <1>e, <1>l, <4>1, <5>1 DEF Uncrossed, Accepted
      <4>3. ~Mail(rest[p], "open-stream", c) /\ Framed(wire'[p], c)
        BY <1>1, <1>2, <1>e, <3>2, <4>1 DEF TakenAt, Uncrossed
      <4>4. Accepted(c, p, listening', open', channels', closing', wire', announced', closedAt')
        BY <1>2, <1>e, <3>2, <3>3, <4>2, <4>3 DEF Accepted, Lives
      <4>5. Mail(wire'[p], "close-channel", c) => Finished(o, c, open', channels', closing')
        BY <3>1, <3>2, <3>3, <4>1 DEF Uncrossed, Finished, Lives
      <4>6. announced'[p][c] <= 1 /\ c \notin closing'[p] /\ c \notin closedAt'[p]
        BY <3>3, <4>1, <4>2 DEF Uncrossed
      <4> QED  BY <4>3, <4>4, <4>5, <4>6 DEF Uncrossed
    <3>8. /\ \A x \in Ends : c \in closing'[x] => Lives(x, c, open', channels')
          /\ c \in closedAt'[o] => ~Lives(o, c, open', channels')
      BY <1>1, <1>2, <1>e, <3>3 DEF Opened, Lives
    <3> QED  BY <1>1, <2>2, <3>3, <3>4, <3>5, <3>6, <3>8, ChanOpened DEF Opened
  <2>3. CASE id # c
    <3>1. \A x \in Ends :
            /\ \A type \in Types : Mail(wire'[x], type, id) <=> Mail(rest[x], type, id)
            /\ Framed(rest[x], id) => Framed(wire'[x], id)
      BY <1>a, <1>s, <2>3 DEF SentTo
    <3>2. \A x \in Ends :
            /\ \A type \in Types : Mail(wire'[x], type, id) <=> Mail(wire[x], type, id)
            /\ Framed(wire[x], id) => Framed(wire'[x], id)
      BY <1>1, <2>3, <3>1
    <3>3. /\ UNCHANGED << listening, open, opener, closing, closedAt, crossed >>
          /\ \A x \in Ends :
               channels'[x][id] = channels[x][id] /\ announced'[x][id] = announced[x][id]
      BY <1>r, <1>u, <2>3
    <3> QED  BY <2>1, <3>2, <3>3, ChanSame
  <2> QED  BY <2>2, <2>3
<1>5. Chans'  BY <1>4, ChansAfter
<1>6. Aged'  BY <1>r, AgedUnchanged DEF Kept, heartbeatVars
<1> QED  BY <1>3, <1>5, <1>6 DEF Kept

LEMMA AppendTwo ==
  ASSUME NEW S, NEW s \in Seq(S), NEW q \in S, NEW r \in S
  PROVE  (s \o << q >>) \o << r >> = s \o << q, r >>
<1> DEFINE u == (s \o << q >>) \o << r >>  v == s \o << q, r >>
<1>1. u \in Seq(S) /\ v \in Seq(S) /\ Len(u) = Len(v) /\ Len(s) \in Nat  OBVIOUS
<1>2. \A k \in 1 .. Len(u) : u[k] = v[k]  OBVIOUS
<1> HIDE DEF u, v
<1>3. u = v  BY <1>1, <1>2
<1> QED  BY <1>3 DEF u, v

LEMMA SendingTwo ==
  ASSUME NEW w \in [ Ends -> Seq(Packets) ], NEW e \in Ends, NEW q \in Packets, NEW r \in Packets
  PROVE  Sending(e, << q, r >>, w) = Sending(e, << r >>, Sending(e, << q >>, w))
<1> DEFINE y == Peer(e)
<1>1. y \in Ends  BY Peers
<1>2. (w[y] \o << q >>) \o << r >> = w[y] \o << q, r >>
  <2>1. w[y] \in Seq(Packets)  BY <1>1
  <2> HIDE DEF y
  <2> QED  BY <2>1, AppendTwo
<1> HIDE DEF y
<1>3. CASE y \in open
  <2>1. [ [ w EXCEPT ![y] = @ \o << q >> ] EXCEPT ![y] = @ \o << r >> ] = [ w EXCEPT ![y] = @ \o << q, r >> ]
    BY <1>1, <1>2
  <2> QED  BY <1>3, <2>1 DEF Sending, y
<1> QED  BY <1>3 DEF Sending, y

LEMMA ReceiveClosedKeeps ==
  ASSUME Kept, NEW e, NEW q, NEW rest, Taking(e, q, rest),
         q.type \in { "open-stream", "data" },
         MadeClosed(e, q, rest)
  PROVE  Kept'
<1> DEFINE c == q.id  o == opener[c]  p == Peer(o)  b == Packet("close-channel", c)
           a == Packet(IF q.type = "data" THEN "ack" ELSE "open-stream-ack", c)
           st == IF q.type = "data" THEN "PRE_HANDSHAKE" ELSE "ESTABLISHED"
           sent == Sending(e, << b >>, rest)
<1>1. /\ q \in Packets /\ c \in Ids /\ q.id = c /\ Mail(wire[e], q.type, c)
      /\ o \in Ends /\ o = opener[c] /\ p = Peer(o) /\ Opened(c, o, p)
      /\ \A x \in Ends, id \in Ids : id # c =>
           /\ \A type \in Types : Mail(rest[x], type, id) <=> Mail(wire[x], type, id)
           /\ Framed(wire[x], id) => Framed(rest[x], id)
  BY TakingOf
<1>2. e \in Ends /\ e \in open /\ TakenAt(e, rest, wire) /\ q = Head(wire[e])  BY DEF Taking
<1>a. /\ a \in Packets /\ a.type \in { "ack", "open-stream-ack" } /\ a.id = c
      /\ b \in Packets /\ b.type = "close-channel" /\ b.id = c
      /\ st \in Statuses \ { "ABSENT" }
  BY <1>1 DEF Packet, Packets, Types, Statuses
<1>r. /\ channels' = [ channels EXCEPT ![e][c] = st ]
      /\ closing' = [ closing EXCEPT ![e] = @ \cup { c } ]
      /\ wire' = Sending(e, << b, a >>, rest)
      /\ announced' = IF e \in listening THEN [ announced EXCEPT ![e][c] = @ + 1 ] ELSE announced
      /\ crossed' = crossed \cup { c }
      /\ UNCHANGED << heartbeatVars, listening, open, opener, dataSent, closedAt >>
  BY DEF Taking, MadeClosed
<1>w. sent = Sending(e, << b >>, rest)  OBVIOUS
<1> HIDE DEF c, o, p, a, b, st, sent
<1>e. e = p  BY <1>1, <1>2 DEF Spoken, Opened
<1>s. SentTo(o, b, sent, rest) /\ SentTo(o, a, wire', sent)
  <2>1. Peer(e) = o /\ rest \in [ Ends -> Seq(Packets) ]  BY <1>1, <1>2, <1>e DEF TakenAt, Opened
  <2>2. SentTo(o, b, sent, rest)  BY <1>2, <1>a, <1>w, <2>1, Sends
  <2>3. wire' = Sending(e, << a >>, sent)  BY <1>2, <1>a, <1>r, <1>w, <2>1, SendingTwo
  <2>4. SentTo(o, a, wire', sent)
    <3>1. sent \in [ Ends -> Seq(Packets) ]  BY <2>2 DEF SentTo
    <3> QED  BY <1>2, <1>a, <2>1, <2>3, <3>1, Sends
  <2> QED  BY <2>2, <2>4
<1>k. /\ channels \in [ Ends -> [ Ids -> Statuses ] ] /\ closing \in [ Ends -> SUBSET Ids ]
      /\ announced \in [ Ends -> [ Ids -> Nat ] ] /\ crossed \subseteq Ids
  BY DEF Kept, Shapes
<1>u. /\ channels' \in [ Ends -> [ Ids -> Statuses ] ] /\ closing' \in [ Ends -> SUBSET Ids ]
      /\ announced' \in [ Ends -> [ Ids -> Nat ] ]
      /\ \A x \in Ends, i \in Ids :
           /\ channels'[x][i] = IF x = p /\ i = c THEN st ELSE channels[x][i]
           /\ i \in closing'[x] <=> i \in closing[x] \/ (x = p /\ i = c)
           /\ announced'[x][i] = IF x = p /\ i = c /\ p \in listening
                                 THEN announced[p][c] + 1 ELSE announced[x][i]
  <2>1. closing' \in [ Ends -> SUBSET Ids ]  BY <1>1, <1>2, <1>e, <1>k, <1>r
  <2>2. \A x \in Ends, i \in Ids : i \in closing'[x] <=> i \in closing[x] \/ (x = p /\ i = c)
    BY <1>1, <1>2, <1>e, <1>k, <1>r
  <2>3. /\ channels' \in [ Ends -> [ Ids -> Statuses ] ]
        /\ \A x \in Ends, i \in Ids :
             channels'[x][i] = IF x = p /\ i = c THEN st ELSE channels[x][i]
    BY <1>1, <1>2, <1>a, <1>e, <1>k, <1>r
  <2>4. /\ announced' \in [ Ends -> [ Ids -> Nat ] ]
        /\ \A x \in Ends, i \in Ids :
             announced'[x][i] = IF x = p /\ i = c /\ p \in listening
                                THEN announced[p][c] + 1 ELSE announced[x][i]
    BY <1>1, <1>2, <1>e, <1>k, <1>r
  <2> QED  BY <2>1, <2>2, <2>3, <2>4
<1>3. Shapes'
  <2>1. wire' \in [ Ends -> Seq(Packets) ]  BY <1>s DEF SentTo
  <2> QED  BY <1>1, <1>k, <1>r, <1>u, <2>1 DEF Kept, Shapes, heartbeatVars
<1>4. ASSUME NEW id \in Ids
      PROVE  Chan(id, listening', open', channels', closing', wire', opener', announced', closedAt', crossed')
  <2>1. Chan(id, listening, open, channels, closing, wire, opener, announced, closedAt, crossed)  BY ChanOf
  <2>2. CASE id = c
    <3>1. /\ \A type : Mail(wire'[p], type, c) => Mail(wire[p], type, c)
          /\ \A type : Mail(wire'[o], type, c) =>
               Mail(wire[o], type, c) \/ type \in { "close-channel", "ack", "open-stream-ack" }
      BY <1>1, <1>2, <1>a, <1>e, <1>s DEF TakenAt, SentTo, Opened
    <3>4. /\ channels'[p][c] # "ABSENT" /\ channels'[o][c] = channels[o][c]
          /\ c \in closing'[o] <=> c \in closing[o]
          /\ announced'[o][c] = 0 /\ announced'[p][c] \in Nat
          /\ p \in listening => announced'[p][c] >= 1
          /\ UNCHANGED << listening, open, closedAt, opener >> /\ c \in crossed'
      BY <1>1, <1>a, <1>r, <1>u DEF Opened
    <3>5. Spoken(c, o, wire')  BY <1>1, <3>1 DEF Spoken, Opened
    <3>6. Answered(c, o, listening', channels', wire', announced')  BY <1>1, <3>4 DEF Answered, Opened
    <3>8. /\ \A x \in Ends : c \in closing'[x] => Lives(x, c, open', channels')
          /\ c \in closedAt'[o] => ~Lives(o, c, open', channels')
      BY <1>1, <1>2, <1>e, <3>4 DEF Opened, Lives
    <3> QED  BY <1>1, <2>2, <3>4, <3>5, <3>6, <3>8, ChanOpened DEF Opened
  <2>3. CASE id # c
    <3>1. \A x \in Ends :
            /\ \A type \in Types : Mail(sent[x], type, id) <=> Mail(rest[x], type, id)
            /\ Framed(rest[x], id) => Framed(sent[x], id)
      BY <1>a, <1>s, <2>3 DEF SentTo
    <3>2. \A x \in Ends :
            /\ \A type \in Types : Mail(wire'[x], type, id) <=> Mail(sent[x], type, id)
            /\ Framed(sent[x], id) => Framed(wire'[x], id)
      BY <1>a, <1>s, <2>3 DEF SentTo
    <3>3. \A x \in Ends :
            /\ \A type \in Types : Mail(wire'[x], type, id) <=> Mail(wire[x], type, id)
            /\ Framed(wire[x], id) => Framed(wire'[x], id)
      BY <1>1, <2>3, <3>1, <3>2
    <3>4. /\ opener'[id] = opener[id] /\ (id \in crossed' <=> id \in crossed)
          /\ \A x \in Ends :
               /\ channels'[x][id] = channels[x][id] /\ announced'[x][id] = announced[x][id]
               /\ id \in closing'[x] <=> id \in closing[x]
          /\ UNCHANGED << listening, open, closedAt >>
      BY <1>r, <1>u, <2>3
    <3> QED  BY <2>1, <3>3, <3>4, ChanSame
  <2> QED  BY <2>2, <2>3
<1>5. Chans'  BY <1>4, ChansAfter
<1>6. Aged'  BY <1>r, AgedUnchanged DEF Kept, heartbeatVars
<1> QED  BY <1>3, <1>5, <1>6 DEF Kept

LEMMA ReceiveKeeps ==
  ASSUME Kept, NEW e \in Ends, Receive(e)
  PROVE  Kept'
<1> DEFINE q == Head(wire[e])  rest == [ wire EXCEPT ![e] = Tail(@) ]
<1>1. Taking(e, q, rest)
  <2>1. wire \in [ Ends -> Seq(Packets) ] /\ wire[e] # << >> /\ e \in open
    BY DEF Receive, Running, Kept, Shapes
  <2>2. TakenAt(e, rest, wire)  BY <2>1, Takes
  <2> QED  BY <2>1, <2>2 DEF Taking, Receive
<1>2. q.type \in Types  BY <1>1 DEF Taking, TakenAt, Packets
<1>3. /\ e \in open
      /\ \/ q.type = "close-channel" /\ ReceiveClose(e, q.id, rest)
         \/ /\ q.type # "close-channel"
            /\ Lives(e, q.id, open, channels)
            /\ ReceiveKnown(e, q, rest)
         \/ /\ q.type \in { "open-stream", "data" }
            /\ ~Lives(e, q.id, open, channels)
            /\ ReceiveUnknown(e, q, rest)
         \/ /\ q.type \in { "open-stream-ack", "ack" }
            /\ ~Lives(e, q.id, open, channels)
            /\ ReceiveIgnored(rest)
  BY DEF Receive, Running, Live, Lives
<1> HIDE DEF q, rest
<1>4. CASE q.type = "close-channel" /\ ReceiveClose(e, q.id, rest)  BY <1>1, <1>4, ReceiveCloseKeeps
<1>5. CASE /\ q.type # "close-channel"
           /\ Lives(e, q.id, open, channels)
           /\ ReceiveKnown(e, q, rest)
  <2>1. CASE q.type = "data"
    <3>1. /\ wire' = Sending(e, << Packet("ack", q.id) >>, rest)
          /\ UNCHANGED << channels, closing, announced, closedAt, crossed >>
      BY <1>5, <2>1 DEF ReceiveKnown
    <3> QED  BY <1>1, <2>1, <3>1, ReceiveDataKeeps
  <2>2. CASE q.type # "data"
    <3>1. /\ \/ q.type \in { "open-stream-ack", "ack" }
             \/ q.type = "open-stream" /\ Lives(e, q.id, open, channels)
          /\ wire' = rest
          /\ channels' = IF q.type = "open-stream-ack" /\ Lives(e, q.id, open, channels)
                         THEN [ channels EXCEPT ![e][q.id] = "ESTABLISHED" ] ELSE channels
          /\ UNCHANGED << closing, announced, closedAt, crossed >>
      BY <1>2, <1>5, <2>2 DEF ReceiveKnown, Types
    <3> QED  BY <1>1, <3>1, ReceiveQuietKeeps
  <2> QED  BY <2>1, <2>2
<1>6. CASE /\ q.type \in { "open-stream", "data" }
           /\ ~Lives(e, q.id, open, channels)
           /\ ReceiveUnknown(e, q, rest)
  <2>1. MadeOpen(e, q, rest) \/ MadeClosed(e, q, rest)
    BY <1>6 DEF ReceiveUnknown, MadeOpen, MadeClosed
  <2> QED  BY <1>1, <1>6, <2>1, ReceiveFirstKeeps, ReceiveClosedKeeps
<1>7. CASE /\ q.type \in { "open-stream-ack", "ack" }
           /\ ~Lives(e, q.id, open, channels)
           /\ ReceiveIgnored(rest)
  <2>1. /\ wire' = rest
        /\ channels' = IF q.type = "open-stream-ack" /\ Lives(e, q.id, open, channels)
                       THEN [ channels EXCEPT ![e][q.id] = "ESTABLISHED" ] ELSE channels
        /\ UNCHANGED << closing, announced, closedAt, crossed >>
    BY <1>7 DEF ReceiveIgnored
  <2> QED  BY <1>1, <1>7, <2>1, ReceiveQuietKeeps
<1> QED  BY <1>3, <1>4, <1>5, <1>6, <1>7

-------------------------------------------------------------------------------
(* The end of a link, and the heartbeat.                                   *)

LEMMA CleanUpKeeps ==
  ASSUME Kept, NEW e \in Ends, CleanUp(e), UNCHANGED unanswered,
         closed' \in BOOLEAN, timedOut' \in BOOLEAN, overlapped' \in BOOLEAN,
         closed' <=> "A" \notin open'
  PROVE  Kept'
<1>k. /\ channels \in [ Ends -> [ Ids -> Statuses ] ]
      /\ closing \in [ Ends -> SUBSET Ids ]
      /\ wire \in [ Ends -> Seq(Packets) ]
  BY DEF Kept, Shapes
<1>u. /\ wire' \in [ Ends -> Seq(Packets) ] /\ closing' \in [ Ends -> SUBSET Ids ]
      /\ channels' \in [ Ends -> [ Ids -> Statuses ] ]
      /\ wire'[e] = << >> /\ closing'[e] = {} /\ \A i \in Ids : channels'[e][i] = "ABSENT"
      /\ \A x \in Ends : x # e =>
           wire'[x] = wire[x] /\ closing'[x] = closing[x] /\ channels'[x] = channels[x]
      /\ e \notin open' /\ \A x \in Ends : x # e => (x \in open' <=> x \in open)
      /\ UNCHANGED << listening, opener, dataSent, announced, closedAt, crossed >>
  <2>1. << >> \in Seq(Packets)  OBVIOUS
  <2>2. wire' \in [ Ends -> Seq(Packets) ] /\ wire'[e] = << >>  BY <1>k, <2>1 DEF CleanUp
  <2>3. closing' \in [ Ends -> SUBSET Ids ] /\ closing'[e] = {}  BY <1>k DEF CleanUp
  <2>4. channels' \in [ Ends -> [ Ids -> Statuses ] ] /\ \A i \in Ids : channels'[e][i] = "ABSENT"
    BY <1>k DEF CleanUp, Statuses
  <2>5. \A x \in Ends : x # e =>
          wire'[x] = wire[x] /\ closing'[x] = closing[x] /\ channels'[x] = channels[x]
    BY <1>k DEF CleanUp
  <2>6. /\ e \notin open' /\ \A x \in Ends : x # e => (x \in open' <=> x \in open)
        /\ UNCHANGED << listening, opener, dataSent, announced, closedAt, crossed >>
    BY DEF CleanUp
  <2> QED  BY <2>2, <2>3, <2>4, <2>5, <2>6
<1>m. /\ \A type, id : ~Mail(wire'[e], type, id)
      /\ \A id : Framed(wire'[e], id)
  BY <1>u DEF Mail, Framed
<1>1. Shapes'
  <2>1. open' \subseteq Ends  BY DEF CleanUp, Kept, Shapes
  <2> QED  BY <1>u, <2>1 DEF Kept, Shapes
<1>2. ASSUME NEW id \in Ids
      PROVE  Chan(id, listening', open', channels', closing', wire', opener', announced', closedAt', crossed')
  <2>1. Chan(id, listening, open, channels, closing, wire, opener, announced, closedAt, crossed)  BY ChanOf
  <2>2. CASE opener[id] = None
    <3>1. Unknown(id, channels, closing, wire, closedAt)  BY <2>1, <2>2 DEF Chan
    <3>2. Unknown(id, channels', closing', wire', closedAt')  BY <1>u, <1>m, <3>1 DEF Unknown
    <3>3. \A x \in Ends : id \notin closing'[x] /\ opener[id] # x
      BY <2>2, <3>2, TransportAssumption DEF Unknown
    <3> QED  BY <1>u, <2>1, <3>2, <3>3 DEF Chan
  <2>3. CASE opener[id] \in Ends
    <3> DEFINE o == opener[id]  p == Peer(o)
    <3>1. Opened(id, o, p) /\ o = opener[id] /\ p = Peer(o) /\ o \in Ends  BY <2>3, OpenedOf
    <3> HIDE DEF o, p
    <3>2. \A x \in Ends :
            /\ \A type : Mail(wire'[x], type, id) => Mail(wire[x], type, id)
            /\ Framed(wire[x], id) => Framed(wire'[x], id)
            /\ Lives(x, id, open', channels') => Lives(x, id, open, channels)
            /\ id \in closing'[x] => Lives(x, id, open', channels')
      BY <1>u, <1>m, <3>1 DEF Opened, Lives
    <3>3. Finished(o, id, open, channels, closing) => Finished(o, id, open', channels', closing')
      BY <1>u, <3>1, <3>2 DEF Finished, Lives
    <3>4. Spoken(id, o, wire')  BY <3>1, <3>2 DEF Opened, Spoken
    <3>5. Answered(id, o, listening', channels', wire', announced')  BY <1>u, <3>1, <3>2 DEF Opened, Answered
    <3>6. ASSUME id \notin crossed'
          PROVE  Uncrossed(id, o, p, listening', open', channels', closing', wire', announced', closedAt')
      <4>0. Uncrossed(id, o, p, listening, open, channels, closing, wire, announced, closedAt)
        BY <1>u, <3>1, <3>6 DEF Opened
      <4>1. CASE e = p  BY <1>u, <3>1, <3>2, <3>3, <4>0, <4>1 DEF Uncrossed, Accepted, Opened
      <4>2. CASE e # p
        <5>1. Accepted(id, p, listening', open', channels', closing', wire', announced', closedAt')
          BY <1>u, <3>1, <3>3, <4>0, <4>2 DEF Opened, Uncrossed, Accepted, Lives
        <5> QED  BY <1>u, <3>1, <3>2, <3>3, <4>0, <4>2, <5>1 DEF Uncrossed, Opened
      <4> QED  BY <4>1, <4>2
    <3>7. id \in closedAt'[o] => ~Lives(o, id, open', channels')  BY <1>u, <3>1, <3>2 DEF Opened
    <3>8. announced'[o][id] = 0 /\ announced'[p][id] \in Nat /\ opener'[id] = o  BY <1>u, <3>1 DEF Opened
    <3> QED  BY <3>1, <3>2, <3>4, <3>5, <3>6, <3>7, <3>8, ChanOpened
  <2> QED  BY <2>2, <2>3 DEF Kept, Shapes
<1>3. Chans'  BY <1>2, ChansAfter
<1>4. Aged'  BY AgedUnchanged DEF Kept
<1> QED  BY <1>1, <1>3, <1>4 DEF Kept

\* A ping joins the youngest, a pong answers the oldest.
LEMMA AgedKeeps ==
  ASSUME Aged, HeartbeatStep
  PROVE  Aged'
<1> USE HeartbeatAssumption DEF Aged
<1>1. CASE SendPing
  <2>1. CASE Alive
    <3>1. unanswered' = Append(unanswered, 0) /\ Len(unanswered) \in Nat  BY <1>1, <2>1 DEF SendPing
    <3>2. /\ unanswered' \in Seq(Nat) /\ DOMAIN unanswered' = 1 .. Len(unanswered) + 1
          /\ DOMAIN unanswered = 1 .. Len(unanswered)
          /\ unanswered'[Len(unanswered) + 1] = 0
          /\ \A i \in DOMAIN unanswered : unanswered'[i] = unanswered[i] /\ unanswered[i] \in Nat
      BY <3>1
    <3> QED  BY <3>1, <3>2
  <2>2. CASE ~Alive  BY <1>1, <2>2, AgedUnchanged DEF SendPing
  <2> QED  BY <2>1, <2>2
<1>2. CASE HandlePong
  <2>1. unanswered' = Tail(unanswered) /\ unanswered # << >> /\ unanswered \in Seq(Nat)
    BY <1>2 DEF HandlePong
  <2>2. /\ unanswered' \in Seq(Nat)
        /\ \A i \in DOMAIN unanswered' : i + 1 \in DOMAIN unanswered /\ unanswered'[i] = unanswered[i + 1]
        /\ \A i \in DOMAIN unanswered' : i \in Nat
    BY <2>1
  <2>3. \A i, j \in DOMAIN unanswered' : i <= j => i + 1 <= j + 1  BY <2>2
  <2> QED  BY <2>2, <2>3
<1>3. CASE PeerDies
  <2>1. unanswered' = << >>  BY <1>3 DEF PeerDies
  <2> QED  BY <2>1
<1>4. CASE Tick
  <2>1. /\ unanswered' = [ i \in DOMAIN unanswered |-> unanswered[i] + 1 ]
        /\ unanswered # << >> => Head(unanswered) < MaxRtt
    BY <1>4 DEF Tick
  <2>2. unanswered' \in Seq(Nat)  BY <2>1, TickAges
  <2>3. /\ DOMAIN unanswered' = DOMAIN unanswered
        /\ \A i \in DOMAIN unanswered : unanswered'[i] = unanswered[i] + 1 /\ unanswered[i] \in Nat
    BY <2>1
  <2>4. \A i \in DOMAIN unanswered : unanswered[i] < MaxRtt
    <3> SUFFICES ASSUME NEW i \in DOMAIN unanswered PROVE unanswered[i] < MaxRtt  OBVIOUS
    <3>1. unanswered # << >> /\ 1 \in DOMAIN unanswered /\ 1 <= i /\ Head(unanswered) = unanswered[1]  OBVIOUS
    <3>2. unanswered[i] <= unanswered[1] /\ unanswered[1] < MaxRtt  BY <2>1, <3>1
    <3> QED  BY <2>3, <3>1, <3>2
  <2>5. \A i \in DOMAIN unanswered' : unanswered'[i] <= MaxRtt
    <3> SUFFICES ASSUME NEW i \in DOMAIN unanswered PROVE unanswered[i] + 1 <= MaxRtt  BY <2>3
    <3> QED  BY <2>3, <2>4
  <2>6. \A i, j \in DOMAIN unanswered' : i <= j => unanswered'[i] >= unanswered'[j]
    <3> SUFFICES ASSUME NEW i \in DOMAIN unanswered, NEW j \in DOMAIN unanswered, i <= j
                 PROVE unanswered[i] + 1 >= unanswered[j] + 1
      BY <2>3
    <3>1. unanswered[i] >= unanswered[j]  OBVIOUS
    <3> QED  BY <2>3, <3>1
  <2> QED  BY <2>2, <2>3, <2>4, <2>5, <2>6
<1> QED  BY <1>1, <1>2, <1>3, <1>4 DEF HeartbeatStep

LEMMA HeartbeatKeeps ==
  ASSUME Kept, Heartbeat
  PROVE  Kept'
<1>1. Aged'  BY AgedKeeps DEF Kept, Heartbeat
<1>2. /\ UNCHANGED << listening, open, channels, closing, wire, opener, dataSent, announced, closedAt, crossed >>
      /\ closed' = closed /\ timedOut' = timedOut
  BY DEF Heartbeat, HeartbeatStep, SendPing, HandlePong, PeerDies, Tick, channelVars
<1>3. overlapped' \in BOOLEAN
  BY DEF Heartbeat, HeartbeatStep, SendPing, HandlePong, PeerDies, Tick, Kept, Shapes
<1>4. Shapes'  BY <1>2, <1>3 DEF Kept, Shapes
<1>5. Chans'
  <2>1. ASSUME NEW id \in Ids
        PROVE  Chan(id, listening', open', channels', closing', wire', opener', announced', closedAt', crossed')
    BY <1>2, ChanOf
  <2> QED  BY <2>1, ChansAfter
<1> QED  BY <1>1, <1>4, <1>5 DEF Kept

-------------------------------------------------------------------------------

LEMMA KeptInit == Init => Kept
<1> SUFFICES ASSUME Init PROVE Kept  OBVIOUS
<1>1. Aged  BY DEF Init, HeartbeatInit, Aged
<1>2. Shapes
  <2>1. wire \in [ Ends -> Seq(Packets) ]
    <3>1. << >> \in Seq(Packets)  OBVIOUS
    <3> QED  BY <3>1 DEF Init
  <2>2. dataSent \in [ Ids -> 0 .. MaxData ]  BY TransportAssumption DEF Init
  <2>3. /\ channels \in [ Ends -> [ Ids -> Statuses ] ]
        /\ closing \in [ Ends -> SUBSET Ids ] /\ closedAt \in [ Ends -> SUBSET Ids ]
        /\ announced \in [ Ends -> [ Ids -> Nat ] ] /\ opener \in [ Ids -> Ends \cup { None } ]
    BY DEF Init, Statuses
  <2>4. /\ closed \in BOOLEAN /\ timedOut \in BOOLEAN /\ overlapped \in BOOLEAN
        /\ listening \subseteq Ends /\ open \subseteq Ends /\ crossed \subseteq Ids /\ (closed <=> "A" \notin open)
    BY DEF Init, HeartbeatInit, Ends
  <2> QED  BY <2>1, <2>2, <2>3, <2>4 DEF Shapes
<1>3. ASSUME NEW id \in Ids
      PROVE  Chan(id, listening, open, channels, closing, wire, opener, announced, closedAt, crossed)
  <2>1. /\ opener[id] = None
        /\ \A e \in Ends : channels[e][id] = "ABSENT" /\ closing[e] = {} /\ closedAt[e] = {}
                           /\ wire[e] = << >> /\ announced[e][id] = 0
    BY DEF Init
  <2>2. Unknown(id, channels, closing, wire, closedAt)  BY <2>1 DEF Unknown, Mail
  <2> QED  BY <2>1, <2>2, TransportAssumption DEF Chan
<1> QED  BY <1>1, <1>2, <1>3 DEF Kept, Chans

LEMMA KeptStep ==
  ASSUME Kept, [Next]_vars
  PROVE  Kept'
<1>1. CASE \E e \in Ends, id \in Ids : OpenOutgoing(e, id)  BY <1>1, OpenKeeps
<1>2. CASE \E e \in Ends, id \in Ids : Send(e, id)  BY <1>2, SendKeeps
<1>3. CASE \E e \in Ends, id \in Ids : Close(e, id)  BY <1>3, CloseKeeps
<1>4. CASE \E e \in Ends, id \in Ids : DestroyClosing(e, id)  BY <1>4, DestroyKeeps
<1>5. CASE \E e \in Ends : Receive(e)  BY <1>5, ReceiveKeeps
<1>6. CASE Heartbeat  BY <1>6, HeartbeatKeeps
<1>7. CASE HeartbeatFails
  <2>1. /\ closed' \in BOOLEAN /\ timedOut' \in BOOLEAN /\ overlapped' \in BOOLEAN
        /\ UNCHANGED unanswered /\ CleanUp("A") /\ closed' /\ "A" \notin open'
    BY <1>7 DEF HeartbeatFails, TimeoutFires, CloseMuxer, CleanUp, Kept, Shapes
  <2> QED  BY <2>1, CleanUpKeeps DEF Ends
<1>8. CASE LinkClosesAtA
  <2>1. /\ closed' \in BOOLEAN /\ timedOut' \in BOOLEAN /\ overlapped' \in BOOLEAN
        /\ UNCHANGED unanswered /\ CleanUp("A") /\ closed' /\ "A" \notin open'
    BY <1>8 DEF LinkClosesAtA, LinkEnds, CloseMuxer, CleanUp, Kept, Shapes
  <2> QED  BY <2>1, CleanUpKeeps DEF Ends
<1>9. CASE LinkClosesAtB
  <2>1. /\ closed' \in BOOLEAN /\ timedOut' \in BOOLEAN /\ overlapped' \in BOOLEAN
        /\ UNCHANGED unanswered /\ CleanUp("B") /\ (closed' <=> "A" \notin open')
    BY <1>9 DEF LinkClosesAtB, heartbeatVars, CleanUp, Kept, Shapes
  <2> QED  BY <2>1, CleanUpKeeps DEF Ends
<1>10. CASE UNCHANGED vars
  <2>1. /\ UNCHANGED << listening, open, channels, closing, wire, opener, dataSent, announced, closedAt, crossed >>
        /\ UNCHANGED << closed, timedOut, overlapped, unanswered >>
    BY <1>10 DEF vars, heartbeatVars, channelVars
  <2>2. ASSUME NEW id \in Ids
        PROVE  Chan(id, listening', open', channels', closing', wire', opener', announced', closedAt', crossed')
    BY <2>1, ChanOf
  <2>3. Shapes'  BY <2>1 DEF Kept, Shapes
  <2> QED  BY <2>1, <2>2, <2>3, ChansAfter, AgedUnchanged DEF Kept
<1> QED  BY <1>1, <1>2, <1>3, <1>4, <1>5, <1>6, <1>7, <1>8, <1>9, <1>10 DEF Next

\* The invariant gives the property.
LEMMA KeptImplies == HInv /\ Kept => LivesOnce
<1> SUFFICES ASSUME HInv, Kept PROVE LivesOnce  OBVIOUS
<1>1. \A id \in Ids : Chan(id, listening, open, channels, closing, wire, opener, announced, closedAt, crossed)
  BY ChanOf
<1>2. \A id \in Ids, o \in Ends : opener[id] = o => Opened(id, o, Peer(o))  BY OpenedOf
<1>3. \A id \in Ids : opener[id] \in Ends \cup { None }  BY DEF Kept, Shapes
<1>4. \A id \in Ids : opener[id] = None => Unknown(id, channels, closing, wire, closedAt)  BY <1>1 DEF Chan
<1>5. HeartbeatTypeOK
  <2>1. \A i \in DOMAIN unanswered : unanswered[i] \in 0 .. MaxRtt
    <3> SUFFICES ASSUME NEW i \in DOMAIN unanswered PROVE unanswered[i] \in 0 .. MaxRtt  OBVIOUS
    <3>1. unanswered[i] \in Nat /\ unanswered[i] <= MaxRtt  BY DEF Kept, Aged
    <3> QED  BY <3>1, HeartbeatAssumption
  <2> QED  BY <2>1 DEF HInv, TimersOK, Kept, Shapes, HeartbeatTypeOK
<1>6. TypeOK
  <2>1. ASSUME NEW e \in Ends, NEW i \in DOMAIN wire[e]
        PROVE  wire[e][i].id \in Ids
    <3>1. wire[e] \in Seq(Packets)  BY DEF Kept, Shapes
    <3>2. wire[e][i] \in Packets  BY <3>1
    <3> QED  BY <3>2 DEF Packets
  <2>2. \A e \in Ends : closing[e] \subseteq { id \in Ids : Live(e, id) }
    BY <1>1 DEF Kept, Shapes, Chan, Lives, Live
  <2> QED  BY <1>5, <2>1, <2>2 DEF Kept, Shapes, TypeOK
<1>7. EstablishedIsMutual  BY <1>2 DEF EstablishedIsMutual, Opened, Answered, Kept, Shapes
<1>8. AnnouncedOnce
  <2> SUFFICES ASSUME NEW e \in Ends, NEW id \in Ids, opener[id] = Peer(e), id \notin crossed
               PROVE  announced[e][id] <= 1
    BY <1>1 DEF AnnouncedOnce, Chan
  <2>1. Peer(e) \in Ends /\ Peer(Peer(e)) = e  BY Peers
  <2>2. Opened(id, Peer(e), e)  BY <1>2, <2>1
  <2> QED  BY <2>2 DEF Opened, Uncrossed
<1>9. ClosedStaysClosed
  <2> SUFFICES ASSUME NEW e \in Ends, NEW id \in closedAt[e], opener[id] = e \/ id \notin crossed
               PROVE  ~Live(e, id)
    BY DEF ClosedStaysClosed
  <2>1. e \in Ends /\ id \in Ids  BY DEF Kept, Shapes
  <2>2. opener[id] \in Ends  BY <1>3, <1>4, <2>1 DEF Unknown
  <2>3. Opened(id, opener[id], Peer(opener[id]))  BY <1>2, <2>1, <2>2
  <2> QED  BY <2>1, <2>3 DEF Opened, Uncrossed, Lives, Live
<1> QED  BY <1>6, <1>7, <1>8, <1>9 DEF LivesOnce

-------------------------------------------------------------------------------

\* A channel is known to both ends once it is established; it is announced once,
\* and does not come back after it was closed, at the end that opened it whatever
\* happens, and at the other unless that end closed it or data was sent after a
\* close (transport.ts, handlePacket), whatever the heartbeat does to the link.
THEOREM ChannelsLiveOnce == Spec => []LivesOnce
<1>1. Init => HInv /\ Kept  BY HInvInit, KeptInit DEF Init
<1>2. HInv /\ Kept /\ [Next]_vars => (HInv /\ Kept)'  BY StepKeeps, KeptStep
<1> QED  BY <1>1, <1>2, KeptImplies, PTL DEF Spec


-------------------------------------------------------------------------------
(***************************************************************************)
(* The channel over an ordered link.                                       *)
(***************************************************************************)

DataPackets == [ type : { "data" }, seq : Nat, payload : Calls ]
PacketsToB == { OpenStream } \cup DataPackets
PacketsToA == { OpenStreamAck } \cup [ type : { "ack" }, ackSeq : Nat ]

(***************************************************************************)
(* The inductive invariant, part by part.                                  *)
(***************************************************************************)

LinkOK == toB \in Seq(PacketsToB) /\ toA \in Seq(PacketsToA)

\* Place j of the link holds the data packet numbered seq.
HasData(link, j, seq) == link[j].type = "data" /\ link[j].seq = seq

\* Before a packet that B cannot deliver yet comes the one numbered just below it.
NoGaps ==
  \A i \in DOMAIN toB :
    toB[i].type = "data" =>
      /\ toB[i].seq < nextSendSeq
      /\ toB[i].seq > nextReceiveSeq =>
           \E j \in DOMAIN toB : j < i /\ HasData(toB, j, toB[i].seq - 1)

\* What was sent and is not delivered is under way: the link loses nothing.
AllUnderWay ==
  ~destroyed =>
    \A seq \in nextReceiveSeq .. (nextSendSeq - 1) : \E j \in DOMAIN toB : HasData(toB, j, seq)

\* B acknowledges what it has delivered.
AcksAreTrue == \A i \in DOMAIN toA : toA[i].type = "ack" => toA[i].ackSeq < nextReceiveSeq

\* Nothing is sent after the link has closed.
SilentAfterClose == destroyed => unacked = {} /\ ~isReady /\ toB = << >>

OInv ==
  /\ OrderedTypeOK
  /\ LinkOK
  /\ NothingBuffered
  /\ NoGaps
  /\ AllUnderWay
  /\ AcksAreTrue
  /\ AckedIsDelivered
  /\ SilentAfterClose

-------------------------------------------------------------------------------
(* Sequences.                                                              *)

\* A packet put on a link.
LEMMA AppendFacts ==
  ASSUME NEW S, NEW s \in Seq(S), NEW x \in S
  PROVE  /\ Append(s, x) \in Seq(S)
         /\ DOMAIN s = 1 .. Len(s) /\ Len(s) \in Nat
         /\ DOMAIN Append(s, x) = 1 .. (Len(s) + 1)
         /\ \A i \in 1 .. Len(s) : Append(s, x)[i] = s[i]
         /\ Append(s, x)[Len(s) + 1] = x
         /\ Len(Append(s, x)) = Len(s) + 1
OBVIOUS

\* A packet taken from a link.
LEMMA TailFacts ==
  ASSUME NEW S, NEW s \in Seq(S), s # << >>
  PROVE  /\ Head(s) = s[1] /\ s[1] \in S /\ 1 \in DOMAIN s
         /\ Tail(s) \in Seq(S)
         /\ DOMAIN s = 1 .. Len(s) /\ Len(s) \in Nat /\ Len(s) >= 1
         /\ DOMAIN Tail(s) = 1 .. (Len(s) - 1)
         /\ \A i \in 1 .. (Len(s) - 1) : Tail(s)[i] = s[i + 1]
OBVIOUS

\* The numbers of the channel are natural numbers.
LEMMA Numbers ==
  ASSUME OrderedTypeOK
  PROVE  nextSendSeq \in Nat /\ nextReceiveSeq \in Nat /\ nextReceiveSeq <= nextSendSeq
BY DEF OrderedTypeOK, nextSendSeq

-------------------------------------------------------------------------------

\* A channel just opened satisfies the invariant.
LEMMA OInvInit == OrderedInit => OInv
<1> SUFFICES ASSUME OrderedInit PROVE OInv  OBVIOUS
<1> USE DEF OrderedInit, SenderInit, ReceiverInit
<1>1. nextSendSeq = 0  BY DEF nextSendSeq
<1>2. OrderedTypeOK
  <2>1. \A i \in DOMAIN toB : toB[i].type \in { "open-stream", "data" }  BY DEF OpenStream
  <2>2. \A i \in DOMAIN toA : toA[i].type \in { "open-stream-ack", "ack" }  OBVIOUS
  <2>3. nextReceiveSeq \in 0 .. nextSendSeq /\ unacked \subseteq 0 .. (nextSendSeq - 1)  BY <1>1
  <2>4. sentLog \in Seq(Calls) /\ parked \in Seq(Calls) /\ woken \in Seq(Calls) /\ delivered \in Seq(Calls)
    OBVIOUS
  <2>5. DOMAIN receiveSlots = Slots  OBVIOUS
  <2> QED  BY <2>1, <2>2, <2>3, <2>4, <2>5 DEF OrderedTypeOK
<1>3. LinkOK /\ AcksAreTrue  BY DEF LinkOK, PacketsToB, PacketsToA, AcksAreTrue
<1>4. NothingBuffered  BY DEF NothingBuffered
<1>5. NoGaps  BY DEF NoGaps, OpenStream
<1>6. AllUnderWay /\ AckedIsDelivered /\ SilentAfterClose
  BY <1>1 DEF AllUnderWay, AckedIsDelivered, SilentAfterClose
<1> QED  BY <1>2, <1>3, <1>4, <1>5, <1>6 DEF OInv

\* Steps that leave the links, the numbers and the buffer alone.
Calm ==
  /\ UNCHANGED << receiverVars, peer, toA, toB, sentLog, unacked, status, destroyed, isReady >>
  /\ parked' \in Seq(Calls) /\ woken' \in Seq(Calls) /\ rejected' \subseteq Calls

LEMMA CalmKeeps == OInv /\ Calm => OInv'
BY DEF OInv, Calm, receiverVars, OrderedTypeOK, LinkOK, NothingBuffered, NoGaps, AllUnderWay,
       HasData, AcksAreTrue, AckedIsDelivered, SilentAfterClose, nextSendSeq

\* A new packet: its number follows the last one sent.
LEMMA TransmitKeeps ==
  ASSUME OInv, NEW c \in Calls, Transmit(c), isReady,
         toB' = Append(toB, DataPacket(nextSendSeq, c)),
         parked' \in Seq(Calls), woken' \in Seq(Calls),
         UNCHANGED << status, destroyed, rejected, receiverVars, peer, toA >>
  PROVE  OInv'
<1>1. /\ nextSendSeq \in Nat /\ nextReceiveSeq \in Nat /\ nextReceiveSeq <= nextSendSeq
      /\ nextReceiveSeq' = nextReceiveSeq /\ nextSendSeq' = nextSendSeq + 1
      /\ sentLog' \in Seq(Calls)
  BY DEF OInv, OrderedTypeOK, nextSendSeq, Transmit, receiverVars
<1> DEFINE p == DataPacket(nextSendSeq, c)
<1>2. p \in PacketsToB /\ p.type = "data" /\ p.seq = nextSendSeq
  BY <1>1 DEF DataPacket, PacketsToB, DataPackets
<1>3. ~destroyed /\ ~destroyed'  BY DEF OInv, SilentAfterClose
<1> HIDE DEF p
<1>4. /\ toB' \in Seq(PacketsToB)
      /\ DOMAIN toB = 1 .. Len(toB) /\ Len(toB) \in Nat
      /\ DOMAIN toB' = 1 .. (Len(toB) + 1)
      /\ \A i \in 1 .. Len(toB) : toB'[i] = toB[i]
      /\ toB'[Len(toB) + 1] = p
  BY <1>2, AppendFacts DEF OInv, LinkOK, p
<1>5. OrderedTypeOK'
  <2>1. \A i \in DOMAIN toB' : toB'[i].type \in { "open-stream", "data" }
    BY <1>2, <1>4 DEF OInv, OrderedTypeOK
  <2>2. unacked' \subseteq 0 .. (nextSendSeq' - 1)
    <3>1. unacked \subseteq 0 .. (nextSendSeq - 1) /\ unacked' = unacked \cup { nextSendSeq }
      BY DEF OInv, OrderedTypeOK, Transmit
    <3> QED  BY <1>1, <3>1
  <2>3. isReady' \in BOOLEAN  BY DEF Transmit, HasWindowSpace
  <2> QED  BY <1>1, <2>1, <2>2, <2>3 DEF OInv, OrderedTypeOK, Transmit, receiverVars
<1>6. \A j \in DOMAIN toB : \A seq : HasData(toB, j, seq) => j \in DOMAIN toB' /\ HasData(toB', j, seq)
  BY <1>4 DEF HasData
<1>7. NoGaps'
  <2> SUFFICES ASSUME NEW i \in DOMAIN toB', toB'[i].type = "data"
               PROVE  /\ toB'[i].seq < nextSendSeq'
                      /\ toB'[i].seq > nextReceiveSeq' =>
                           \E j \in DOMAIN toB' : j < i /\ HasData(toB', j, toB'[i].seq - 1)
    BY DEF NoGaps, HasData
  <2>1. CASE i \in DOMAIN toB
    <3>1. toB'[i] = toB[i] /\ toB[i].seq \in Nat
      BY <1>4, <2>1 DEF OInv, LinkOK, PacketsToB, DataPackets, OpenStream
    <3>2. toB[i].seq < nextSendSeq  BY <2>1, <3>1 DEF OInv, NoGaps
    <3>3. toB[i].seq > nextReceiveSeq => \E j \in DOMAIN toB : j < i /\ HasData(toB, j, toB[i].seq - 1)
      BY <2>1, <3>1 DEF OInv, NoGaps
    <3>4. ASSUME toB[i].seq > nextReceiveSeq
          PROVE  \E j \in DOMAIN toB' : j < i /\ HasData(toB', j, toB[i].seq - 1)
      <4>1. PICK j \in DOMAIN toB : j < i /\ HasData(toB, j, toB[i].seq - 1)  BY <3>3, <3>4
      <4> QED  BY <1>6, <4>1
    <3>5. toB[i].seq < nextSendSeq'  BY <1>1, <3>1, <3>2
    <3> QED  BY <1>1, <3>1, <3>4, <3>5
  <2>2. CASE i = Len(toB) + 1
    <3>1. toB'[i].seq = nextSendSeq  BY <1>2, <1>4, <2>2
    <3>2. ASSUME nextSendSeq > nextReceiveSeq
          PROVE  \E j \in DOMAIN toB : HasData(toB, j, nextSendSeq - 1)
      BY <1>1, <1>3, <3>2 DEF OInv, AllUnderWay
    <3>3. ASSUME nextSendSeq > nextReceiveSeq
          PROVE  \E j \in DOMAIN toB' : j < i /\ HasData(toB', j, nextSendSeq - 1)
      <4>1. PICK j \in DOMAIN toB : HasData(toB, j, nextSendSeq - 1)  BY <3>2, <3>3
      <4> QED  BY <1>4, <1>6, <2>2, <4>1
    <3> QED  BY <1>1, <3>1, <3>3
  <2> QED  BY <1>4, <2>1, <2>2
<1>8. AllUnderWay'
  <2> SUFFICES ASSUME NEW seq \in nextReceiveSeq' .. (nextSendSeq' - 1)
               PROVE  \E j \in DOMAIN toB' : HasData(toB', j, seq)
    BY DEF AllUnderWay, HasData
  <2>3. seq \in nextReceiveSeq .. nextSendSeq  BY <1>1
  <2>1. CASE seq = nextSendSeq
    <3>1. Len(toB) + 1 \in DOMAIN toB' /\ HasData(toB', Len(toB) + 1, seq)  BY <1>2, <1>4, <2>1 DEF HasData
    <3> QED  BY <3>1
  <2>2. CASE seq \in nextReceiveSeq .. (nextSendSeq - 1)  BY <1>3, <1>6, <2>2 DEF OInv, AllUnderWay
  <2> QED  BY <1>1, <2>1, <2>2, <2>3
<1>9. AckedIsDelivered'  BY <1>1, <1>3 DEF OInv, AckedIsDelivered, Transmit
<1> QED
  BY <1>3, <1>4, <1>5, <1>7, <1>8, <1>9
     DEF OInv, LinkOK, NothingBuffered, AcksAreTrue, SilentAfterClose, receiverVars

\* A retransmission: the packets below it are delivered or under way.
LEMMA RetransmitKeeps ==
  ASSUME OInv, NEW seq \in unacked, AckTimeout(seq)
  PROVE  OInv'
<1>1. /\ nextSendSeq \in Nat /\ nextReceiveSeq \in Nat /\ nextReceiveSeq <= nextSendSeq
      /\ UNCHANGED << senderVars, receiverVars, peer, toA >>
      /\ sentLog \in Seq(Calls)
  BY DEF OInv, OrderedTypeOK, nextSendSeq, AckTimeout, Retransmit
<1>2. nextReceiveSeq' = nextReceiveSeq /\ nextSendSeq' = nextSendSeq
  BY <1>1 DEF receiverVars, senderVars, nextSendSeq
<1>3. seq \in Nat /\ seq < nextSendSeq /\ ~destroyed  BY <1>1 DEF OInv, OrderedTypeOK, SilentAfterClose
<1> DEFINE p == DataPacket(seq, sentLog[seq + 1])
<1>4. p \in PacketsToB /\ p.type = "data" /\ p.seq = seq
  <2>1. sentLog[seq + 1] \in Calls  BY <1>1, <1>3 DEF nextSendSeq
  <2> QED  BY <1>3, <2>1 DEF DataPacket, PacketsToB, DataPackets
<1> HIDE DEF p
<1>5. /\ toB' \in Seq(PacketsToB)
      /\ DOMAIN toB = 1 .. Len(toB) /\ Len(toB) \in Nat
      /\ DOMAIN toB' = 1 .. (Len(toB) + 1)
      /\ \A i \in 1 .. Len(toB) : toB'[i] = toB[i]
      /\ toB'[Len(toB) + 1] = p
  BY <1>4, AppendFacts DEF OInv, LinkOK, p, AckTimeout
<1>6. \A j \in DOMAIN toB : \A s : HasData(toB, j, s) => j \in DOMAIN toB' /\ HasData(toB', j, s)
  BY <1>5 DEF HasData
<1>7. OrderedTypeOK'
  <2>1. \A i \in DOMAIN toB' : toB'[i].type \in { "open-stream", "data" }
    <3>1. \A i \in 1 .. Len(toB) : toB[i].type \in { "open-stream", "data" }  BY <1>5 DEF OInv, OrderedTypeOK
    <3>2. p.type = "data"  BY <1>4
    <3> SUFFICES ASSUME NEW i \in 1 .. (Len(toB) + 1)
                 PROVE  toB'[i].type \in { "open-stream", "data" }
      BY <1>5
    <3>3. CASE i = Len(toB) + 1  BY <1>5, <3>2, <3>3
    <3>4. CASE i # Len(toB) + 1  BY <1>5, <3>1, <3>4
    <3> QED  BY <3>3, <3>4
  <2> QED  BY <1>1, <1>2, <2>1 DEF OInv, OrderedTypeOK, senderVars, receiverVars
<1>8. NoGaps'
  <2> SUFFICES ASSUME NEW i \in DOMAIN toB', toB'[i].type = "data"
               PROVE  /\ toB'[i].seq < nextSendSeq'
                      /\ toB'[i].seq > nextReceiveSeq' =>
                           \E j \in DOMAIN toB' : j < i /\ HasData(toB', j, toB'[i].seq - 1)
    BY DEF NoGaps, HasData
  <2>1. CASE i \in DOMAIN toB
    <3>1. toB'[i] = toB[i]  BY <1>5, <2>1
    <3>2. toB[i].seq < nextSendSeq  BY <2>1, <3>1 DEF OInv, NoGaps
    <3>3. ASSUME toB[i].seq > nextReceiveSeq
          PROVE  \E j \in DOMAIN toB' : j < i /\ HasData(toB', j, toB[i].seq - 1)
      <4>1. PICK j \in DOMAIN toB : j < i /\ HasData(toB, j, toB[i].seq - 1)
        BY <2>1, <3>1, <3>3 DEF OInv, NoGaps
      <4> QED  BY <1>6, <4>1
    <3> QED  BY <1>2, <3>1, <3>2, <3>3
  <2>2. CASE i = Len(toB) + 1
    <3>1. toB'[i].seq = seq  BY <1>4, <1>5, <2>2
    <3>2. ASSUME seq > nextReceiveSeq
          PROVE  \E j \in DOMAIN toB' : j < i /\ HasData(toB', j, seq - 1)
      <4>1. PICK j \in DOMAIN toB : HasData(toB, j, seq - 1)  BY <1>1, <1>3, <3>2 DEF OInv, AllUnderWay
      <4> QED  BY <1>5, <1>6, <2>2, <4>1
    <3> QED  BY <1>2, <1>3, <3>1, <3>2
  <2> QED  BY <1>5, <2>1, <2>2
<1>9. AllUnderWay'
  <2> SUFFICES ASSUME NEW s \in nextReceiveSeq .. (nextSendSeq - 1)
               PROVE  \E j \in DOMAIN toB' : HasData(toB', j, s)
    BY <1>2 DEF AllUnderWay, HasData
  <2>1. PICK j \in DOMAIN toB : HasData(toB, j, s)  BY <1>3 DEF OInv, AllUnderWay
  <2> QED  BY <1>6, <2>1
<1>10. /\ NothingBuffered' /\ AcksAreTrue' /\ AckedIsDelivered' /\ ~destroyed'
       /\ toA' = toA
  BY <1>1, <1>2, <1>3 DEF OInv, NothingBuffered, AcksAreTrue, AckedIsDelivered, senderVars, receiverVars
<1> QED  BY <1>5, <1>7, <1>8, <1>9, <1>10 DEF OInv, LinkOK, SilentAfterClose

\* The link closes, and takes everything under way with it.
LEMMA LinkClosesKeeps == OInv /\ LinkCloses => OInv'
<1> SUFFICES ASSUME OInv, LinkCloses PROVE OInv'  OBVIOUS
<1>1. /\ toB' = << >> /\ toA' = << >> /\ destroyed' = TRUE /\ isReady' = FALSE /\ unacked' = {}
      /\ woken' = woken \o parked /\ parked' = << >>
      /\ UNCHANGED << status, sentLog, rejected, peer >>
      /\ UNCHANGED << nextReceiveSeq, receiveSlots, delivered >>
  BY DEF LinkCloses, DestroySender, EmitReady, receiverVars
<1>2. woken' \in Seq(Calls) /\ parked' \in Seq(Calls)
  <2>1. woken \in Seq(Calls) /\ parked \in Seq(Calls)  BY DEF OInv, OrderedTypeOK
  <2> QED  BY <1>1, <2>1
<1>3. OrderedTypeOK'
  <2>1. nextReceiveSeq' \in 0 .. nextSendSeq' /\ unacked' \subseteq 0 .. (nextSendSeq' - 1)
    BY <1>1 DEF OInv, OrderedTypeOK, nextSendSeq
  <2>2. /\ \A i \in DOMAIN toB' : toB'[i].type \in { "open-stream", "data" }
        /\ \A i \in DOMAIN toA' : toA'[i].type \in { "open-stream-ack", "ack" }
    BY <1>1
  <2> QED  BY <1>1, <1>2, <2>1, <2>2 DEF OInv, OrderedTypeOK
<1> QED
  BY <1>1, <1>3 DEF OInv, LinkOK, NothingBuffered, NoGaps, AllUnderWay, AcksAreTrue,
                    AckedIsDelivered, SilentAfterClose

\* A packet from B: only what it has delivered leaves unacked.
LEMMA ReceiveAtAKeeps == OInv /\ ReceiveAtA => OInv'
<1> SUFFICES ASSUME OInv, ReceiveAtA PROVE OInv'  OBVIOUS
<1>1. /\ toA' = Tail(toA) /\ toB' = toB /\ peer' = peer
      /\ nextReceiveSeq' = nextReceiveSeq /\ receiveSlots' = receiveSlots /\ delivered' = delivered
  BY DEF ReceiveAtA, receiverVars
<1>2. /\ Head(toA) = toA[1] /\ 1 \in DOMAIN toA
      /\ toA' \in Seq(PacketsToA)
      /\ \A i \in DOMAIN toA' : i + 1 \in DOMAIN toA /\ toA'[i] = toA[i + 1]
  <2>1. toA # << >> /\ toA \in Seq(PacketsToA)  BY DEF ReceiveAtA, OInv, LinkOK
  <2> QED  BY <1>1, <2>1, TailFacts
<1>3. /\ AcksAreTrue'
      /\ \A i \in DOMAIN toA' : toA'[i].type \in { "open-stream-ack", "ack" }
  BY <1>1, <1>2 DEF OInv, AcksAreTrue, OrderedTypeOK
<1>4. /\ ~destroyed /\ destroyed' = destroyed /\ sentLog' = sentLog /\ rejected' = rejected
      /\ status' \in { "PRE_HANDSHAKE", "ESTABLISHED" } /\ isReady' \in BOOLEAN
      /\ parked' \in Seq(Calls) /\ woken' \in Seq(Calls)
      /\ unacked' \subseteq unacked
      /\ \A seq \in unacked \ unacked' : seq < nextReceiveSeq
  <2>0. /\ status \in { "PRE_HANDSHAKE", "ESTABLISHED" } /\ isReady \in BOOLEAN
        /\ parked \in Seq(Calls) /\ woken \in Seq(Calls)
    BY DEF OInv, OrderedTypeOK
  <2>1. CASE Head(toA).type = "open-stream-ack" /\ Establish  BY <2>0, <2>1 DEF Establish
  <2>2. CASE Head(toA).type = "ack" /\ HandleAck(Head(toA).ackSeq)
    <3>1. Head(toA).ackSeq < nextReceiveSeq  BY <1>2, <2>2 DEF OInv, AcksAreTrue
    <3>2. /\ ~destroyed /\ UNCHANGED << status, destroyed, sentLog, rejected >>
          /\ unacked' = unacked \ { Head(toA).ackSeq }
      BY <2>2 DEF HandleAck
    <3>3. isReady' \in BOOLEAN
      <4>1. CASE Head(toA).ackSeq \in unacked  BY <2>2, <4>1 DEF HandleAck, HasWindowSpace
      <4>2. CASE Head(toA).ackSeq \notin unacked  BY <2>0, <2>2, <4>2 DEF HandleAck
      <4> QED  BY <4>1, <4>2
    <3>4. parked' \in Seq(Calls) /\ woken' \in Seq(Calls)
      <4>1. woken \o parked \in Seq(Calls) /\ << >> \in Seq(Calls)  BY <2>0
      <4>2. EmitReady \/ (parked' = parked /\ woken' = woken)  BY <2>2 DEF HandleAck
      <4> QED  BY <2>0, <4>1, <4>2 DEF EmitReady
    <3> QED  BY <2>0, <3>1, <3>2, <3>3, <3>4
  <2> QED  BY <2>1, <2>2 DEF ReceiveAtA
<1>5. OrderedTypeOK'  BY <1>1, <1>3, <1>4 DEF OInv, OrderedTypeOK, nextSendSeq
<1>6. AckedIsDelivered'  BY <1>1, <1>4 DEF OInv, AckedIsDelivered, nextSendSeq
<1>7. NoGaps' /\ AllUnderWay' /\ NothingBuffered'
  BY <1>1, <1>4 DEF OInv, NoGaps, AllUnderWay, HasData, NothingBuffered, nextSendSeq
<1> QED  BY <1>1, <1>2, <1>3, <1>4, <1>5, <1>6, <1>7 DEF OInv, LinkOK, SilentAfterClose

\* A packet that B may deliver now is delivered, alone, and leaves the buffer empty.
LEMMA DeliversAlone ==
  ASSUME OInv, NEW p \in DataPackets, p.seq <= nextReceiveSeq, HandleDataPacket(p)
  PROVE  /\ NothingBuffered'
         /\ DOMAIN receiveSlots' = Slots
         /\ nextReceiveSeq' = IF p.seq = nextReceiveSeq THEN nextReceiveSeq + 1 ELSE nextReceiveSeq
         /\ delivered' \in Seq(Calls)
<1>1. /\ nextReceiveSeq \in Nat /\ p.seq \in Nat /\ p.payload \in Calls /\ p # NoPacket
      /\ DOMAIN receiveSlots = Slots /\ delivered \in Seq(Calls)
      /\ \A i \in Slots : receiveSlots[i] = NoPacket
  BY NullAssumption, Numbers DEF OInv, OrderedTypeOK, DataPackets, NothingBuffered
<1>2. CASE p.seq < nextReceiveSeq
  <2>1. ~Accepts(p)  BY <1>1, <1>2 DEF Accepts, InWindow
  <2>2. UNCHANGED << nextReceiveSeq, receiveSlots, delivered >>  BY <2>1 DEF HandleDataPacket, receiverVars
  <2> QED  BY <1>1, <1>2, <2>2 DEF NothingBuffered
<1>3. CASE p.seq = nextReceiveSeq
  <2>1. SlotOf(p.seq) \in Slots  BY <1>1, ReceiverAssumption DEF SlotOf, Slots
  <2>2. Accepts(p)  BY <1>1, <1>3, <2>1, ReceiverAssumption DEF Accepts, InWindow
  <2> DEFINE slots == [ receiveSlots EXCEPT ![SlotOf(p.seq)] = p ]
  <2>3. /\ slots[SlotOf(p.seq)] = p
        /\ \A i \in Slots : i # SlotOf(p.seq) => slots[i] = NoPacket
    BY <1>1, <2>1
  <2>4. PICK stop \in nextReceiveSeq .. (nextReceiveSeq + BufferSize) : SlideTo(slots, stop)
    BY <2>2 DEF HandleDataPacket, SlideWindowAndProcess
  <2> HIDE DEF slots
  <2>5. Holds(slots, nextReceiveSeq)  BY <1>1, <1>3, <2>3 DEF Holds
  <2>6. stop # nextReceiveSeq  BY <1>1, <2>4, <2>5, ReceiverAssumption DEF SlideTo
  <2>7. ~Holds(slots, nextReceiveSeq + 1)
    <3>1. SlotOf(nextReceiveSeq + 1) \in Slots  BY <1>1, ReceiverAssumption DEF SlotOf, Slots
    <3> QED  BY <1>1, <1>3, <2>3, <3>1 DEF Holds
  <2>8. stop = nextReceiveSeq + 1
    <3>1. ASSUME stop > nextReceiveSeq + 1 PROVE FALSE
      <4>1. nextReceiveSeq + 1 \in nextReceiveSeq .. (stop - 1)  BY <1>1, <2>4, <3>1, ReceiverAssumption
      <4> QED  BY <2>4, <2>7, <4>1 DEF SlideTo
    <3> QED  BY <1>1, <2>4, <2>6, <3>1, ReceiverAssumption
  <2>9. receiveSlots' =
          [ i \in Slots |->
              IF \E seq \in nextReceiveSeq .. (stop - 1) : i = SlotOf(seq) THEN NoPacket ELSE slots[i] ]
    BY <2>4 DEF SlideTo
  <2>10. NothingBuffered'
    <3> SUFFICES ASSUME NEW i \in Slots PROVE receiveSlots'[i] = NoPacket  BY DEF NothingBuffered
    <3>1. CASE i = SlotOf(p.seq)
      <4>1. p.seq \in nextReceiveSeq .. (stop - 1)  BY <1>1, <1>3, <2>8
      <4> QED  BY <2>9, <3>1, <4>1
    <3>2. CASE i # SlotOf(p.seq)  BY <2>3, <2>9, <3>2
    <3> QED  BY <3>1, <3>2
  <2>11. delivered' \in Seq(Calls)
    <3> DEFINE more == [ k \in 1 .. (stop - nextReceiveSeq) |-> slots[SlotOf(nextReceiveSeq + k - 1)].payload ]
    <3>1. stop - nextReceiveSeq = 1  BY <1>1, <2>8
    <3>2. \A k \in 1 .. 1 : slots[SlotOf(nextReceiveSeq + k - 1)].payload \in Calls  BY <1>1, <1>3, <2>3
    <3>3. more \in Seq(Calls)  BY <3>1, <3>2
    <3>4. delivered' = delivered \o more  BY <2>4 DEF SlideTo
    <3> HIDE DEF more
    <3> QED  BY <1>1, <3>3, <3>4
  <2>12. nextReceiveSeq' = nextReceiveSeq + 1  BY <2>4, <2>8 DEF SlideTo
  <2> QED  BY <1>3, <2>9, <2>10, <2>11, <2>12
<1> QED  BY <1>1, <1>2, <1>3

\* A data packet at B: it is the next one, or one delivered already.
LEMMA ReceiveAtBKeeps == OInv /\ ReceiveAtB => OInv'
<1> SUFFICES ASSUME OInv, ReceiveAtB PROVE OInv'  OBVIOUS
<1>1. /\ toB # << >> /\ toB \in Seq(PacketsToB) /\ toB' = Tail(toB)
      /\ UNCHANGED << status, destroyed, sentLog, unacked, isReady, parked, woken, rejected >>
      /\ nextSendSeq' = nextSendSeq
  BY DEF ReceiveAtB, OInv, LinkOK, senderVars, nextSendSeq
<1>2. /\ Head(toB) = toB[1] /\ toB[1] \in PacketsToB /\ 1 \in DOMAIN toB
      /\ toB' \in Seq(PacketsToB)
      /\ DOMAIN toB = 1 .. Len(toB) /\ Len(toB) \in Nat /\ Len(toB) >= 1
      /\ DOMAIN toB' = 1 .. (Len(toB) - 1)
      /\ \A i \in 1 .. (Len(toB) - 1) : toB'[i] = toB[i + 1]
  BY <1>1, TailFacts
<1>3. /\ nextSendSeq \in Nat /\ nextReceiveSeq \in Nat /\ nextReceiveSeq <= nextSendSeq
      /\ ~destroyed
  BY <1>1, Numbers DEF OInv, SilentAfterClose
<1>4. \A j \in DOMAIN toB : \A seq : j # 1 /\ HasData(toB, j, seq) =>
        j - 1 \in DOMAIN toB' /\ HasData(toB', j - 1, seq)
  BY <1>2 DEF HasData
<1>5. \A i \in DOMAIN toB' : i + 1 \in DOMAIN toB /\ toB'[i] = toB[i + 1] /\ i \in Nat  BY <1>2
<1>6. \A i \in DOMAIN toB' : toB'[i].type \in { "open-stream", "data" }  BY <1>5 DEF OInv, OrderedTypeOK
<1>7. CASE toB[1].type = "open-stream"
  <2>1. /\ UNCHANGED << nextReceiveSeq, receiveSlots, delivered >>
        /\ \/ toA' = toA /\ peer' = peer
           \/ toA' = Append(toA, OpenStreamAck) /\ peer' = "ESTABLISHED"
    BY <1>2, <1>7 DEF ReceiveAtB, receiverVars
  <2>2. toA \in Seq(PacketsToA) /\ OpenStreamAck \in PacketsToA /\ OpenStreamAck.type = "open-stream-ack"
    BY DEF OInv, LinkOK, PacketsToA, OpenStreamAck
  <2>3. /\ toA' \in Seq(PacketsToA)
        /\ \A i \in DOMAIN toA' : (i \in DOMAIN toA /\ toA'[i] = toA[i]) \/ toA'[i] = OpenStreamAck
    BY <2>1, <2>2, AppendFacts
  <2>4. AcksAreTrue' /\ \A i \in DOMAIN toA' : toA'[i].type \in { "open-stream-ack", "ack" }
    BY <2>1, <2>2, <2>3 DEF OInv, AcksAreTrue, OrderedTypeOK
  <2>5. OrderedTypeOK'  BY <1>1, <1>6, <2>1, <2>4 DEF OInv, OrderedTypeOK
  <2>6. NoGaps'
    <3> SUFFICES ASSUME NEW i \in DOMAIN toB', toB'[i].type = "data"
                 PROVE  /\ toB'[i].seq < nextSendSeq'
                        /\ toB'[i].seq > nextReceiveSeq' =>
                             \E j \in DOMAIN toB' : j < i /\ HasData(toB', j, toB'[i].seq - 1)
      BY DEF NoGaps, HasData
    <3>1. toB'[i] = toB[i + 1] /\ i + 1 \in DOMAIN toB  BY <1>5
    <3>2. toB[i + 1].seq < nextSendSeq  BY <3>1 DEF OInv, NoGaps
    <3>3. ASSUME toB[i + 1].seq > nextReceiveSeq
          PROVE  \E j \in DOMAIN toB' : j < i /\ HasData(toB', j, toB[i + 1].seq - 1)
      <4>1. PICK j \in DOMAIN toB : j < i + 1 /\ HasData(toB, j, toB[i + 1].seq - 1)
        BY <3>1, <3>3 DEF OInv, NoGaps
      <4>2. j # 1  BY <1>7, <4>1 DEF HasData
      <4>3. j - 1 \in DOMAIN toB' /\ HasData(toB', j - 1, toB[i + 1].seq - 1)  BY <1>4, <4>1, <4>2
      <4>4. j - 1 < i  BY <1>2, <1>5, <4>1
      <4> QED  BY <4>3, <4>4
    <3> QED  BY <1>1, <2>1, <3>1, <3>2, <3>3
  <2>7. AllUnderWay'
    <3> SUFFICES ASSUME NEW seq \in nextReceiveSeq .. (nextSendSeq - 1)
                 PROVE  \E j \in DOMAIN toB' : HasData(toB', j, seq)
      BY <1>1, <2>1 DEF AllUnderWay, HasData
    <3>1. PICK j \in DOMAIN toB : HasData(toB, j, seq)  BY <1>3 DEF OInv, AllUnderWay
    <3>2. j # 1  BY <1>7, <3>1 DEF HasData
    <3> QED  BY <1>4, <3>1, <3>2
  <2>8. NothingBuffered' /\ AckedIsDelivered' /\ ~destroyed'
    BY <1>1, <1>3, <2>1 DEF OInv, NothingBuffered, AckedIsDelivered
  <2> QED  BY <1>2, <2>3, <2>4, <2>5, <2>6, <2>7, <2>8 DEF OInv, LinkOK, SilentAfterClose
<1>8. CASE toB[1].type = "data"
  <2> DEFINE p == toB[1]
  <2>1. p \in DataPackets /\ p.seq \in Nat  BY <1>2, <1>8 DEF PacketsToB, DataPackets, OpenStream
  <2>2. /\ HandleDataPacket(p)
        /\ toA' = Append(toA, AckPacket(p.seq))
        /\ peer' = IF peer = "ABSENT" THEN "PRE_HANDSHAKE" ELSE peer
    BY <1>2, <1>8 DEF ReceiveAtB
  <2>3. p.seq <= nextReceiveSeq /\ p.seq < nextSendSeq
    <3>1. ~ \E j \in DOMAIN toB : j < 1  BY <1>2
    <3> QED  BY <1>2, <1>3, <1>8, <2>1, <3>1 DEF OInv, NoGaps
  <2> HIDE DEF p
  <2>4. /\ NothingBuffered'
        /\ DOMAIN receiveSlots' = Slots
        /\ nextReceiveSeq' = IF p.seq = nextReceiveSeq THEN nextReceiveSeq + 1 ELSE nextReceiveSeq
        /\ delivered' \in Seq(Calls)
    BY <2>1, <2>2, <2>3, DeliversAlone
  <2>5. /\ nextReceiveSeq' \in Nat /\ nextReceiveSeq <= nextReceiveSeq'
        /\ p.seq < nextReceiveSeq' /\ nextReceiveSeq' <= nextSendSeq
    BY <1>3, <2>1, <2>3, <2>4
  <2>6. /\ toA \in Seq(PacketsToA) /\ AckPacket(p.seq) \in PacketsToA
        /\ AckPacket(p.seq).type = "ack" /\ AckPacket(p.seq).ackSeq = p.seq
    BY <2>1 DEF OInv, LinkOK, PacketsToA, AckPacket
  <2>7. /\ toA' \in Seq(PacketsToA)
        /\ \A i \in DOMAIN toA' : (i \in DOMAIN toA /\ toA'[i] = toA[i]) \/ toA'[i] = AckPacket(p.seq)
    BY <2>2, <2>6, AppendFacts
  <2>8. AcksAreTrue'
    <3> SUFFICES ASSUME NEW i \in DOMAIN toA', toA'[i].type = "ack" PROVE toA'[i].ackSeq < nextReceiveSeq'
      BY DEF AcksAreTrue
    <3>1. CASE toA'[i] = AckPacket(p.seq)  BY <2>5, <2>6, <3>1
    <3>2. CASE i \in DOMAIN toA /\ toA'[i] = toA[i]
      <4>1. toA[i].ackSeq < nextReceiveSeq /\ toA[i] \in PacketsToA  BY <2>6, <3>2 DEF OInv, AcksAreTrue
      <4>2. toA[i].ackSeq \in Nat  BY <3>2, <4>1 DEF PacketsToA, OpenStreamAck
      <4> QED  BY <1>3, <2>5, <3>2, <4>1, <4>2
    <3> QED  BY <2>7, <3>1, <3>2
  <2>9. \A i \in DOMAIN toA' : toA'[i].type \in { "open-stream-ack", "ack" }
    BY <2>6, <2>7 DEF OInv, OrderedTypeOK
  <2>10. OrderedTypeOK'
    <3>1. nextReceiveSeq' \in 0 .. nextSendSeq' /\ unacked' \subseteq 0 .. (nextSendSeq' - 1)
      BY <1>1, <1>3, <2>5 DEF OInv, OrderedTypeOK
    <3>2. peer' \in { "ABSENT", "PRE_HANDSHAKE", "ESTABLISHED" }  BY <2>2 DEF OInv, OrderedTypeOK
    <3> QED  BY <1>1, <1>6, <2>4, <2>9, <3>1, <3>2 DEF OInv, OrderedTypeOK
  <2>11. NoGaps'
    <3> SUFFICES ASSUME NEW i \in DOMAIN toB', toB'[i].type = "data"
                 PROVE  /\ toB'[i].seq < nextSendSeq'
                        /\ toB'[i].seq > nextReceiveSeq' =>
                             \E j \in DOMAIN toB' : j < i /\ HasData(toB', j, toB'[i].seq - 1)
      BY DEF NoGaps, HasData
    <3>1. toB'[i] = toB[i + 1] /\ i + 1 \in DOMAIN toB  BY <1>5
    <3>2. toB[i + 1].seq < nextSendSeq  BY <3>1 DEF OInv, NoGaps
    <3>3. toB[i + 1].seq \in Nat
      <4>1. toB[i + 1] \in PacketsToB /\ toB[i + 1].type = "data"  BY <1>1, <3>1
      <4> QED  BY <4>1 DEF PacketsToB, DataPackets, OpenStream
    <3>4. ASSUME toB[i + 1].seq > nextReceiveSeq'
          PROVE  \E j \in DOMAIN toB' : j < i /\ HasData(toB', j, toB[i + 1].seq - 1)
      <4>0. toB[i + 1].seq > nextReceiveSeq  BY <1>3, <2>5, <3>3, <3>4
      <4>1. PICK j \in DOMAIN toB : j < i + 1 /\ HasData(toB, j, toB[i + 1].seq - 1)
        BY <3>1, <4>0 DEF OInv, NoGaps
      <4>2. j # 1
        <5>1. p.seq < toB[i + 1].seq - 1  BY <1>3, <2>1, <2>3, <2>4, <3>3, <3>4
        <5> QED  BY <2>1, <3>3, <4>1, <5>1 DEF HasData, p
      <4>3. j - 1 \in DOMAIN toB' /\ HasData(toB', j - 1, toB[i + 1].seq - 1)  BY <1>4, <4>1, <4>2
      <4>4. j - 1 < i  BY <1>2, <1>5, <4>1
      <4> QED  BY <4>3, <4>4
    <3> QED  BY <1>1, <3>1, <3>2, <3>4
  <2>12. AllUnderWay'
    <3> SUFFICES ASSUME NEW seq \in nextReceiveSeq' .. (nextSendSeq - 1)
                 PROVE  \E j \in DOMAIN toB' : HasData(toB', j, seq)
      BY <1>1 DEF AllUnderWay, HasData
    <3>1. seq \in nextReceiveSeq .. (nextSendSeq - 1) /\ seq # p.seq  BY <1>3, <2>1, <2>5
    <3>2. PICK j \in DOMAIN toB : HasData(toB, j, seq)  BY <1>3, <3>1 DEF OInv, AllUnderWay
    <3>3. j # 1  BY <3>1, <3>2 DEF HasData, p
    <3> QED  BY <1>4, <3>2, <3>3
  <2>13. AckedIsDelivered' /\ ~destroyed'  BY <1>1, <1>3, <2>5 DEF OInv, AckedIsDelivered
  <2> QED  BY <1>2, <2>4, <2>7, <2>8, <2>10, <2>11, <2>12, <2>13 DEF OInv, LinkOK, SilentAfterClose
<1> QED  BY <1>2, <1>7, <1>8 DEF OInv, OrderedTypeOK

\* Every step of the channel is one of these.
LEMMA OrderedStepKeeps == OInv /\ [OrderedNext]_orderedVars => OInv'
<1> SUFFICES ASSUME OInv, [OrderedNext]_orderedVars PROVE OInv'  OBVIOUS
<1>0. /\ parked \in Seq(Calls) /\ woken \in Seq(Calls) /\ rejected \subseteq Calls  BY DEF OInv, OrderedTypeOK
<1>1. CASE \E c \in Calls : CallSend(c)
  <2> PICK c \in Calls : CallSend(c)  BY <1>1
  <2>1. CASE SendRejected(c) /\ UNCHANGED toB
    <3> Calm  BY <1>0, <2>1 DEF CallSend, SendRejected, Calm
    <3> QED  BY CalmKeeps
  <2>2. CASE SendNow(c) /\ toB' = Append(toB, DataPacket(nextSendSeq, c))
    <3>1. /\ Transmit(c) /\ isReady /\ parked' \in Seq(Calls) /\ woken' \in Seq(Calls)
          /\ UNCHANGED << status, destroyed, rejected, receiverVars, peer, toA >>
      BY <1>0, <2>2 DEF CallSend, SendNow
    <3> QED  BY <2>2, <3>1, TransmitKeeps
  <2>3. CASE SendParks(c) /\ UNCHANGED toB
    <3>1. Append(parked, c) \in Seq(Calls)  BY <1>0
    <3> Calm  BY <1>0, <2>3, <3>1 DEF CallSend, SendParks, Calm
    <3> QED  BY CalmKeeps
  <2> QED  BY <2>1, <2>2, <2>3 DEF CallSend
<1>2. CASE Resume
  <2>0. woken # << >> /\ Head(woken) \in Calls /\ Tail(woken) \in Seq(Calls)
    <3>1. woken # << >>  BY <1>2 DEF Resume, ResumeSends, ResumeParks
    <3> QED  BY <1>0, <3>1
  <2>1. CASE ResumeSends /\ toB' = Append(toB, DataPacket(nextSendSeq, Head(woken)))
    <3>1. /\ Transmit(Head(woken)) /\ isReady /\ parked' \in Seq(Calls) /\ woken' \in Seq(Calls)
          /\ UNCHANGED << status, destroyed, rejected, receiverVars, peer, toA >>
      BY <1>0, <1>2, <2>0, <2>1 DEF Resume, ResumeSends
    <3> QED  BY <2>0, <2>1, <3>1, TransmitKeeps
  <2>2. CASE ResumeParks /\ UNCHANGED toB
    <3>1. Append(parked, Head(woken)) \in Seq(Calls)  BY <1>0, <2>0
    <3> Calm  BY <1>0, <1>2, <2>0, <2>2, <3>1 DEF Resume, ResumeParks, Calm
    <3> QED  BY CalmKeeps
  <2> QED  BY <1>2, <2>1, <2>2 DEF Resume
<1>3. CASE \E seq \in unacked : AckTimeout(seq)  BY <1>3, RetransmitKeeps
<1>4. CASE ReceiveAtB  BY <1>4, ReceiveAtBKeeps
<1>5. CASE ReceiveAtA  BY <1>5, ReceiveAtAKeeps
<1>6. CASE LinkCloses  BY <1>6, LinkClosesKeeps
<1>7. CASE UNCHANGED orderedVars
  <2> Calm  BY <1>0, <1>7 DEF orderedVars, senderVars, Calm
  <2> QED  BY CalmKeeps
<1> QED  BY <1>1, <1>2, <1>3, <1>4, <1>5, <1>6, <1>7 DEF OrderedNext

-------------------------------------------------------------------------------

\* Over an ordered link, acknowledging before the window test loses nothing
\* (receiver.ts, handleDataPacket): what is no longer kept for retransmission
\* has been delivered, and nothing waits in the receive buffer.
THEOREM OrderedAckIsSafe == OrderedSpec => []AckIsSafe
<1>1. OInv => AckIsSafe  BY DEF OInv, AckIsSafe
<1> QED  BY <1>1, OInvInit, OrderedStepKeeps, PTL DEF OrderedSpec

===============================================================================
