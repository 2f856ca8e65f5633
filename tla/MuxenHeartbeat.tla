---------------------------- MODULE MuxenHeartbeat ----------------------------
(***************************************************************************)
(* The heartbeat of one Muxer (packages/muxen/src/muxer.ts) in discrete    *)
(* time: an interval timer sends pings and arms a timeout for each, a pong *)
(* clears the timeout heartbeatTimeoutId names, and a timeout that fires   *)
(* closes the link.  MuxenTransport composes it with the channels that     *)
(* hang on that link.                                                      *)
(*                                                                         *)
(* The link is ordered; while the peer is alive every pong arrives within  *)
(* MaxRtt ticks of its ping.                                               *)
(***************************************************************************)
EXTENDS Integers, Sequences

CONSTANTS
  HeartbeatInterval,  \* options.heartbeatInterval, in ticks
  HeartbeatTimeout,   \* options.heartbeatTimeout, in ticks
  MaxRtt,             \* the longest a live peer takes to answer
  None                \* the null of heartbeatTimeoutId

ASSUME HeartbeatAssumption ==
  /\ HeartbeatInterval \in Nat \ {0}
  /\ HeartbeatTimeout \in Nat \ {0}
  /\ MaxRtt \in 0 .. (HeartbeatTimeout - 1)

\* A null is no number of ticks.
ASSUME NoneAssumption == None \notin Int

VARIABLES
  closed,      \* _isClosed
  timedOut,    \* history: the link was closed by a timeout
  overlapped,  \* history: a ping was sent while another was unanswered
  untilPing,   \* ticks before the interval timer fires
  timeouts,    \* ticks left of each timeout that is armed
  timeoutId,   \* heartbeatTimeoutId: the ticks left of the timeout it names
  unanswered,  \* ages of the pings whose pong is still to come, oldest first
  silence      \* ticks since the peer died, or None while it lives

heartbeatVars ==
  << closed, timedOut, overlapped, untilPing, timeouts, timeoutId, unanswered, silence >>

Alive == silence = None

HeartbeatInit ==
  /\ closed = FALSE
  /\ timedOut = FALSE
  /\ overlapped = FALSE
  /\ untilPing = HeartbeatInterval
  /\ timeouts = {}
  /\ timeoutId = None
  /\ unanswered = << >>
  /\ silence = None

\* Mutant: a ping first clears the timeout of the one before.
SendPingClearing ==
  /\ ~closed
  /\ untilPing = 0
  /\ untilPing' = HeartbeatInterval
  /\ timeouts' = (timeouts \ { timeoutId }) \cup { HeartbeatTimeout }
  /\ timeoutId' = HeartbeatTimeout
  /\ unanswered' = IF Alive THEN Append(unanswered, 0) ELSE unanswered
  /\ overlapped' = (overlapped \/ unanswered # << >>)
  /\ UNCHANGED << closed, timedOut, silence >>

\* sendPing: the handle of an earlier timeout is overwritten, not cleared.
SendPing ==
  /\ ~closed
  /\ untilPing = 0
  /\ untilPing' = HeartbeatInterval
  /\ timeouts' = timeouts \cup { HeartbeatTimeout }
  /\ timeoutId' = HeartbeatTimeout
  /\ unanswered' = IF Alive THEN Append(unanswered, 0) ELSE unanswered
  /\ overlapped' = (overlapped \/ unanswered # << >>)
  /\ UNCHANGED << closed, timedOut, silence >>

\* handlePong: whichever ping it answers, the pong clears the newest timeout.
HandlePong ==
  /\ ~closed
  /\ unanswered # << >>
  /\ unanswered' = Tail(unanswered)
  /\ timeouts' = timeouts \ { timeoutId }
  /\ timeoutId' = None
  /\ UNCHANGED << closed, timedOut, overlapped, untilPing, silence >>

\* handleClose and destroy; a timeout left armed finds the muxer closed.
CloseMuxer ==
  /\ ~closed
  /\ closed' = TRUE
  /\ timeouts' = {}
  /\ timeoutId' = None
  /\ UNCHANGED << overlapped, untilPing, unanswered, silence >>

TimeoutFires ==
  /\ 0 \in timeouts
  /\ CloseMuxer
  /\ timedOut' = TRUE

\* The link reports its end, or refuses a ping.
LinkEnds ==
  /\ CloseMuxer
  /\ UNCHANGED timedOut

\* The peer stops answering; the pongs under way are lost with it.
PeerDies ==
  /\ Alive
  /\ ~closed
  /\ silence' = 0
  /\ unanswered' = << >>
  /\ UNCHANGED << closed, timedOut, overlapped, untilPing, timeouts, timeoutId >>

\* Time passes when no timer is due and no pong is overdue.
Tick ==
  /\ ~closed
  /\ untilPing > 0
  /\ 0 \notin timeouts
  /\ unanswered # << >> => Head(unanswered) < MaxRtt
  /\ untilPing' = untilPing - 1
  /\ timeouts' = { left - 1 : left \in timeouts }
  /\ timeoutId' = IF timeoutId = None THEN None ELSE timeoutId - 1
  /\ unanswered' = [ i \in DOMAIN unanswered |-> unanswered[i] + 1 ]
  /\ silence' = IF Alive THEN None ELSE silence + 1
  /\ UNCHANGED << closed, timedOut, overlapped >>

\* The steps that leave the link open.
HeartbeatStep == SendPing \/ HandlePong \/ PeerDies \/ Tick

-------------------------------------------------------------------------------

\* Every variable keeps its type; the handle names an armed timeout.
HeartbeatTypeOK ==
  /\ closed \in BOOLEAN
  /\ timedOut \in BOOLEAN
  /\ overlapped \in BOOLEAN
  /\ untilPing \in 0 .. HeartbeatInterval
  /\ timeouts \subseteq 0 .. HeartbeatTimeout
  /\ timeoutId \in timeouts \cup { None }
  /\ \A i \in DOMAIN unanswered : unanswered[i] \in 0 .. MaxRtt
  /\ silence \in Nat \cup { None }

\* A silent peer is noticed within one interval and one timeout, whatever
\* timeouts the pings that follow its death arm or overwrite.
DeadIsDropped == ~Alive /\ ~closed => silence <= HeartbeatInterval + HeartbeatTimeout

\* The heartbeat closes no link whose peer answers every ping before the next.
PromptIsKept == timedOut /\ ~overlapped => ~Alive

\* The heartbeat gives up the links of silent peers, in time, and no other, as
\* long as every ping is answered before the next is sent (muxer.ts, sendPing
\* and handlePong, with one handle for the timeouts of all pings).
DropsTheDeadOnly == DeadIsDropped /\ PromptIsKept

===============================================================================
