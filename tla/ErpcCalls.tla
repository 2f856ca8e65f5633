------------------------------ MODULE ErpcCalls ------------------------------
(***************************************************************************)
(* RPC calls and pinned objects of erpc (packages/erpc/src/features): the  *)
(* client half of a connection (CallManagerFeature and the pin proxies)    *)
(* and the server half (CallExecutorFeature, PinFeature), for several      *)
(* connections whose server halves share one ResourceManager, as those of  *)
(* a bus do.  One object is pinned over and over; it gets a new id each    *)
(* time after it was released.                                             *)
(*                                                                         *)
(* Control channels are FIFO.  A broken connection may still deliver what  *)
(* is under way, until the close event reaches the end in question.        *)
(* A proxy is named by the call that brought it.                           *)
(***************************************************************************)
EXTENDS Naturals, Sequences, FiniteSets

CONSTANTS
  Clients,     \* the connections
  Calls,       \* bound: the calls that may be made, each at most once
  ClientOf,    \* the connection of each call
  MayBreak     \* whether connections may break and nodes may close

ASSUME CallsAssumption ==
  /\ ClientOf \in [ Calls -> Clients ]
  /\ MayBreak \in BOOLEAN
  /\ IsFiniteSet(Calls)

VARIABLES
  status,     \* of each call at the client: "idle", "pending", "resolved", "rejected"
  connected,  \* clients whose transport has not been closed or broken
  open,       \* clients whose close event is still to come
  serving,    \* the same of their server halves
  toServer,   \* control messages under way, by client
  toClient,
  executing,  \* requests whose procedure or method runs
  users,      \* server halves that have acquired the ResourceManager
  current,    \* the PIN_ID_KEY of the object, or NoId
  refCount,   \* of the ids in the manager's map
  lastId,
  proxy,      \* the proxy each call brought: "none", "live" or "freed"
  pinnedAs,   \* the id it stands for
  silent,     \* history: calls that get no response
  missed      \* history: calls made on a live proxy that did not find the object

connectionVars == << connected, open, serving, users >>
pinVars == << current, refCount, lastId >>
proxyVars == << proxy, pinnedAs >>
vars == << status, connectionVars, toServer, toClient, executing, pinVars,
           proxyVars, silent, missed >>

NoId == 0
Ids == 1 .. Cardinality(Calls)
CallsOf(cl) == { c \in Calls : ClientOf[c] = cl }

\* target is NoId for a procedure of the API; `live` is whether the call was
\* made on a proxy not yet freed.
Request(c, target, live) ==
  [ type |-> "request", call |-> c, target |-> target, live |-> live ]
Release(id) == [ type |-> "release", target |-> id ]
Response(c, success, id) ==
  [ type |-> "response", call |-> c, success |-> success, pin |-> id ]

Init ==
  /\ status = [ c \in Calls |-> "idle" ]
  /\ connected = Clients /\ open = Clients /\ serving = Clients /\ users = Clients
  /\ toServer = [ cl \in Clients |-> << >> ]
  /\ toClient = [ cl \in Clients |-> << >> ]
  /\ executing = {}
  /\ current = NoId /\ refCount = [ id \in Ids |-> 0 ] /\ lastId = 0
  /\ proxy = [ c \in Calls |-> "none" ] /\ pinnedAs = [ c \in Calls |-> NoId ]
  /\ silent = {} /\ missed = {}

\* sendRawMessage() at either end: lost if the connection is broken.
Sent(wire, cl, m) ==
  IF cl \in connected THEN [ wire EXCEPT ![cl] = Append(@, m) ] ELSE wire

-----------------------------------------------------------------------------
(* ResourceManager.                                                        *)

\* Mutant: an object that has an id keeps its count.
PinUncounted ==
  IF current # NoId THEN UNCHANGED pinVars
  ELSE /\ lastId' = lastId + 1
       /\ current' = lastId'
       /\ refCount' = [ refCount EXCEPT ![lastId'] = 1 ]

\* pin(): one more reference, or a new id.
Pin ==
  IF current # NoId
  THEN refCount' = [ refCount EXCEPT ![current] = @ + 1 ] /\ UNCHANGED << current, lastId >>
  ELSE /\ lastId' = lastId + 1
       /\ current' = lastId'
       /\ refCount' = [ refCount EXCEPT ![lastId'] = 1 ]

\* releaseResource(): an unknown id is ignored; the last reference removes it.
ReleaseResource(id) ==
  /\ refCount' = [ refCount EXCEPT ![id] = IF @ = 0 THEN 0 ELSE @ - 1 ]
  /\ current' = IF id = current /\ refCount[id] <= 1 THEN NoId ELSE current
  /\ UNCHANGED lastId

\* release() by one user; the last one destroys the manager.
ReleaseManager(cl) ==
  /\ users' = users \ { cl }
  /\ IF users' = {} THEN /\ current' = NoId
                         /\ refCount' = [ id \in Ids |-> 0 ]
                         /\ UNCHANGED lastId
     ELSE UNCHANGED pinVars

-----------------------------------------------------------------------------
(* The client.                                                             *)

\* trackAsk(): rejected at once after the close event.
TrackAsk(c, m) ==
  /\ status[c] = "idle"
  /\ IF ClientOf[c] \in open
     THEN /\ status' = [ status EXCEPT ![c] = "pending" ]
          /\ toServer' = Sent(toServer, ClientOf[c], m)
     ELSE /\ status' = [ status EXCEPT ![c] = "rejected" ]
          /\ UNCHANGED toServer
  /\ UNCHANGED << connectionVars, toClient, executing, pinVars, proxyVars, silent, missed >>

\* sendRawMessage(request).catch(): the channel is gone before the close event.
SendFails(c) ==
  /\ status[c] = "pending"
  /\ ClientOf[c] \notin connected
  /\ status' = [ status EXCEPT ![c] = "rejected" ]
  /\ UNCHANGED << connectionVars, toServer, toClient, executing, pinVars, proxyVars,
                  silent, missed >>

Ask(c) == TrackAsk(c, Request(c, NoId, TRUE))

\* A call on a proxy; a method taken from it while it was live may be called
\* after it was freed or collected.
PinCall(c, p) ==
  /\ proxy[p] # "none"
  /\ ClientOf[p] = ClientOf[c]
  /\ TrackAsk(c, Request(c, pinnedAs[p], proxy[p] = "live"))

\* free(), or the FinalizationRegistry finds the proxy collected.
Free(p) ==
  /\ proxy[p] = "live"
  /\ proxy' = [ proxy EXCEPT ![p] = "freed" ]
  /\ toServer' = IF ClientOf[p] \in open
                 THEN Sent(toServer, ClientOf[p], Release(pinnedAs[p])) ELSE toServer
  /\ UNCHANGED << status, connectionVars, toClient, executing, pinVars, pinnedAs,
                  silent, missed >>

\* handleResponse(): a placeholder in the output becomes a proxy.
HandleResponse(cl) ==
  /\ toClient[cl] # << >>
  /\ LET m == Head(toClient[cl]) IN
       IF status[m.call] # "pending" THEN UNCHANGED << status, proxyVars >>
       ELSE /\ status' = [ status EXCEPT ![m.call] = IF m.success THEN "resolved" ELSE "rejected" ]
            /\ IF m.pin = NoId THEN UNCHANGED proxyVars
               ELSE /\ proxy' = [ proxy EXCEPT ![m.call] = "live" ]
                    /\ pinnedAs' = [ pinnedAs EXCEPT ![m.call] = m.pin ]
  /\ toClient' = [ toClient EXCEPT ![cl] = Tail(@) ]
  /\ UNCHANGED << connectionVars, toServer, executing, pinVars, silent, missed >>

\* Mutant: the close event leaves the pending calls alone.
HandleCloseQuietly(cl) ==
  /\ open' = open \ { cl }
  /\ toClient' = [ toClient EXCEPT ![cl] = << >> ]
  /\ UNCHANGED status

\* The close event: CallManager.handleClose() rejects every pending call, and
\* nothing is received any more.
HandleClose(cl) ==
  /\ open' = open \ { cl }
  /\ toClient' = [ toClient EXCEPT ![cl] = << >> ]
  /\ status' = [ c \in Calls |-> IF c \in CallsOf(cl) /\ status[c] = "pending"
                                 THEN "rejected" ELSE status[c] ]

-----------------------------------------------------------------------------
(* The server.                                                             *)

\* An `ask` starts its procedure.
ExecuteAsk(m) ==
  /\ m.target = NoId
  /\ executing' = executing \cup { m }
  /\ UNCHANGED << toClient, pinVars, missed >>

\* Mutant: the error of a missing id does not end the call.
HandlePinCallGoesOn(cl, m) ==
  /\ m.target # NoId
  /\ executing' = executing \cup { m }
  /\ IF refCount[m.target] > 0 THEN UNCHANGED << toClient, missed >>
     ELSE /\ toClient' = Sent(toClient, cl, Response(m.call, FALSE, NoId))
          /\ missed' = missed \cup { c \in { m.call } : m.live }
  /\ UNCHANGED pinVars

\* handlePinCall(): the id is looked up on arrival; one that is not there is
\* answered with an error.
HandlePinCall(cl, m) ==
  /\ m.target # NoId
  /\ IF refCount[m.target] > 0
     THEN executing' = executing \cup { m } /\ UNCHANGED << toClient, missed >>
     ELSE /\ toClient' = Sent(toClient, cl, Response(m.call, FALSE, NoId))
          /\ missed' = missed \cup { c \in { m.call } : m.live }
          /\ UNCHANGED executing
  /\ UNCHANGED pinVars

HandleRelease(m) ==
  /\ ReleaseResource(m.target)
  /\ UNCHANGED << executing, toClient, missed >>

ReceiveAtServer(cl) ==
  /\ toServer[cl] # << >>
  /\ toServer' = [ toServer EXCEPT ![cl] = Tail(@) ]
  /\ LET m == Head(toServer[cl]) IN
       \/ m.type = "request" /\ (ExecuteAsk(m) \/ HandlePinCall(cl, m))
       \/ m.type = "release" /\ HandleRelease(m)
  /\ UNCHANGED << status, connectionVars, proxyVars, silent >>

\* sendRawMessage() of a response rejects after the close event.
Respond(c, m) ==
  LET cl == ClientOf[c] IN
  toClient' = IF cl \in serving THEN Sent(toClient, cl, m) ELSE toClient

ProcedureEnds(m) ==
  /\ m \in executing
  /\ executing' = executing \ { m }
  /\ UNCHANGED << status, connectionVars, toServer, proxyVars, missed >>

\* The procedure or method returns a plain value or throws; or a method's
\* result cannot be serialized, which handlePinCall() catches.
Returns(m, success) ==
  /\ ProcedureEnds(m)
  /\ Respond(m.call, Response(m.call, success, NoId))
  /\ UNCHANGED << pinVars, silent >>

\* It returns the object: the serializer pins it before the response is sent.
ReturnsPin(m) ==
  /\ ProcedureEnds(m)
  /\ Pin
  /\ Respond(m.call, Response(m.call, TRUE, current'))
  /\ UNCHANGED silent

\* The output of an `ask` cannot be serialized: its listener throws, and no
\* response is sent.
ReturnsCycle(m) ==
  /\ m.target = NoId
  /\ ProcedureEnds(m)
  /\ silent' = silent \cup { m.call }
  /\ UNCHANGED << toClient, pinVars >>

Ends(m) == (\E success \in BOOLEAN : Returns(m, success)) \/ ReturnsPin(m) \/ ReturnsCycle(m)

-----------------------------------------------------------------------------
(* Connections.                                                            *)

\* The link breaks; either end is told in its own time.
LinkBreaks(cl) ==
  /\ MayBreak
  /\ cl \in connected
  /\ connected' = connected \ { cl }
  /\ UNCHANGED << status, open, serving, users, toServer, toClient, executing,
                  pinVars, proxyVars, silent, missed >>

ClientTold(cl) ==
  /\ cl \in open \ connected
  /\ HandleClose(cl)
  /\ UNCHANGED << connected, serving, users, toServer, executing, pinVars, proxyVars,
                  silent, missed >>

\* The peer stack hears of the close event; nobody closes its features, so it
\* remains a user of the manager.
ServerTold(cl) ==
  /\ cl \in serving \ connected
  /\ serving' = serving \ { cl }
  /\ toServer' = [ toServer EXCEPT ![cl] = << >> ]
  /\ UNCHANGED << status, connected, open, users, toClient, executing, pinVars,
                  proxyVars, silent, missed >>

\* close() of the client node: the close event first, then the transport.
ClientCloses(cl) ==
  /\ MayBreak
  /\ cl \in open
  /\ HandleClose(cl)
  /\ connected' = connected \ { cl }
  /\ UNCHANGED << serving, users, toServer, executing, pinVars, proxyVars, silent, missed >>

\* close() of the server half: its features in reverse order, the transport
\* adapter before the pins.
ServerCloses(cl) ==
  /\ MayBreak
  /\ cl \in users
  /\ ReleaseManager(cl)
  /\ serving' = serving \ { cl }
  /\ connected' = connected \ { cl }
  /\ toServer' = [ toServer EXCEPT ![cl] = << >> ]
  /\ UNCHANGED << status, open, toClient, executing, proxyVars, silent, missed >>

-----------------------------------------------------------------------------

Next ==
  \/ \E c \in Calls : Ask(c) \/ SendFails(c)
  \/ \E c, p \in Calls : PinCall(c, p)
  \/ \E p \in Calls : Free(p)
  \/ \E cl \in Clients : HandleResponse(cl) \/ ReceiveAtServer(cl)
  \/ \E m \in executing : Ends(m)
  \/ \E cl \in Clients : \/ LinkBreaks(cl) \/ ClientTold(cl) \/ ServerTold(cl)
                         \/ ClientCloses(cl) \/ ServerCloses(cl)

Spec == Init /\ [][Next]_vars

\* Messages and close events arrive and procedures end; each step here is taken
\* finitely often, so that one condition for all connections starves none.
\* Nobody has to free anything.
Fairness ==
  /\ WF_vars(\E cl \in Clients : HandleResponse(cl) \/ ReceiveAtServer(cl))
  /\ WF_vars(\E cl \in Clients : ClientTold(cl) \/ ServerTold(cl))
  /\ WF_vars(\E m \in executing : Ends(m))

-----------------------------------------------------------------------------

Requests == [ type : { "request" }, call : Calls, target : Ids \cup { NoId }, live : BOOLEAN ]
Releases == [ type : { "release" }, target : Ids ]
Responses ==
  [ type : { "response" }, call : Calls, success : BOOLEAN, pin : Ids \cup { NoId } ]

\* Every variable keeps its type; no more ids are made than calls can pin.
TypeOK ==
  /\ status \in [ Calls -> { "idle", "pending", "resolved", "rejected" } ]
  /\ connected \subseteq Clients /\ open \subseteq Clients
  /\ serving \subseteq Clients /\ users \subseteq Clients
  /\ toServer \in [ Clients -> Seq(Requests \cup Releases) ]
  /\ toClient \in [ Clients -> Seq(Responses) ]
  /\ executing \subseteq Requests
  /\ current \in Ids \cup { NoId }
  /\ refCount \in [ Ids -> Nat ]
  /\ lastId \in 0 .. Cardinality(Calls)
  /\ proxy \in [ Calls -> { "none", "live", "freed" } ]
  /\ pinnedAs \in [ Calls -> Ids \cup { NoId } ]
  /\ silent \subseteq Calls /\ missed \subseteq Calls

Among(wire, Test(_)) ==
  UNION { { << cl, k >> : k \in { i \in DOMAIN wire[cl] : Test(wire[cl][i]) } } : cl \in Clients }

\* Where call c is: on its way there, running, or on its way back.
Places(c) ==
  Cardinality(Among(toServer, LAMBDA m : m.type = "request" /\ m.call = c))
    + Cardinality({ m \in executing : m.call = c })
    + Cardinality(Among(toClient, LAMBDA m : m.call = c))

\* While the connection lives, a call is pending at the client exactly as long
\* as it is in one place, or will get no answer: no call is run twice,
\* answered twice or lost (call-manager and call-executor features).
PendingIsSomewhere ==
  /\ TypeOK
  /\ \A c \in Calls :
       ClientOf[c] \in connected =>
         Places(c) = IF status[c] = "pending" /\ c \notin silent THEN 1 ELSE 0

\* The references to id that have not been given back: live proxies, and pins
\* and releases under way.
Held(id) ==
  Cardinality({ p \in Calls : proxy[p] = "live" /\ pinnedAs[p] = id })
    + Cardinality(Among(toServer, LAMBDA m : m.type = "release" /\ m.target = id))
    + Cardinality(Among(toClient, LAMBDA m : m.pin = id))

\* The manager counts every reference that is held, so that no object goes away
\* under a proxy, and, unless a connection was lost, no other, so that it goes
\* away with the last one (resource-manager.ts, pin.handler.ts).
CountCoversHeld ==
  \A id \in Ids :
    /\ users # {} => refCount[id] >= Held(id)
    /\ connected = Clients => refCount[id] = Held(id)

\* A call made on a proxy before it was freed finds the object, though a
\* release may follow it and other connections come and go.
LiveCallsFind == missed = {}

\* An object lives as long as it is referred to, and no longer.
PinsAreKept == CountCoversHeld /\ LiveCallsFind

\* Every call is answered or rejected in the end, unless its procedure returned
\* what cannot be serialized (call-executor.feature.ts: "a response must be
\* sent").
CallsSettle ==
  <>[](\A c \in Calls : status[c] = "pending" => c \in silent)
=============================================================================
