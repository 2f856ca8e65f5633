------------------------------ MODULE ElepIpc ------------------------------
(***************************************************************************)
(* How the page in a window reaches the main process (packages/elep:       *)
(* GlobalIpcRouter, EWindow.accept, IpcLink; the preload script,           *)
(* IpcRendererLink, getService).  A page asks for a channel by a handshake,*)
(* which whoever accepted connections for the window answers; then both    *)
(* ends have a link that multiplexes over the one ipc channel there is.    *)
(* The page may be loaded again at any time and the window be destroyed.   *)
(* Electron's own delivery is external: in order, and to whatever page is  *)
(* in the window by then.                                                  *)
(***************************************************************************)
EXTENDS Naturals, Sequences, FiniteSets

CONSTANTS MaxPages,    \* bound on the pages that a window loads
          MaxPackets   \* bound on the packets of a link in each direction

ASSUME PagesAssumption == MaxPages \in Nat \ {0}

VARIABLES
    window,     \* "open" or "destroyed"
    acceptors,  \* whether the router has an acceptor for the window
    page,       \* the page that is loaded; its channel bears its number
    promise,    \* channelIdPromise of that page: "none", "pending", "given", "rejected"
    invoked,    \* handshakes on their way to the main process
    mainLink,   \* of each page, the main process's link: "none", "open", "closed"
    listeners,  \* the channels that the router has a listener for
    callback,   \* the handshakes in which the acceptor's callback is under way
    pageLink,   \* the loaded page's link: "none", "open", "closed"
    wire,       \* packets on their way to each end, in order: [channel, n]
    sent,       \* how many packets were sent on a channel, by each end
    heard       \* what the links of a channel's ends emitted

ipcvars == <<window, acceptors, page, promise, invoked, mainLink, listeners, callback, pageLink, wire, sent, heard>>

Pages == 1 .. MaxPages
ProcessEnds == {"main", "page"}

\* A page whose preload script has run: it has asked for no channel yet.
FreshPage == promise = "none" /\ pageLink = "none"

\* ECore.createWindow: the window, and the page in it.
WindowCreated == window = "open" /\ page = 1 /\ FreshPage

IpcInit ==
    /\ WindowCreated
    /\ acceptors = FALSE /\ listeners = {} /\ callback = {} /\ invoked = {}
    /\ mainLink = [c \in Pages |-> "none"]
    /\ wire = [e \in ProcessEnds |-> <<>>]
    /\ sent = [c \in Pages |-> [e \in ProcessEnds |-> 0]]
    /\ heard = [c \in Pages |-> [e \in ProcessEnds |-> <<>>]]

----------------------------------------------------------------------------
(* The main process.                                                       *)

RegisterAcceptor    == acceptors' = TRUE
RegisterListener(c) == listeners' = listeners \cup {c}
RemoveListener(c)   == listeners' = listeners \ {c}

Accept ==
    /\ window = "open" /\ ~ acceptors
    /\ RegisterAcceptor
    /\ UNCHANGED <<window, page, promise, invoked, mainLink, listeners, callback, pageLink, wire, sent, heard>>

\* A new IpcLink: the router has its listener from now on.
OpenLink(c) == mainLink' = [mainLink EXCEPT ![c] = "open"] /\ RegisterListener(c)

\* elep-handshake: a channel is made up, its link registered, and the
\* callback called with a transport over it.
Handshake(c) ==
    /\ c \in invoked
    /\ invoked' = invoked \ {c}
    /\ IF acceptors
       THEN /\ OpenLink(c)
            /\ callback' = callback \cup {c}
            /\ UNCHANGED promise
       ELSE /\ promise' = IF c = page /\ window = "open" THEN "rejected" ELSE promise
            /\ UNCHANGED <<mainLink, listeners, callback>>
    /\ UNCHANGED <<window, acceptors, page, pageLink, wire, sent, heard>>

\* internalClose of an IpcLink.
CloseLink(c) == mainLink' = [mainLink EXCEPT ![c] = "closed"] /\ RemoveListener(c)

\* A new IpcRendererLink, which the preload script hands the packets of its channel.
OpenPageLink == pageLink' = "open"

\* The callback is through, and the page that asked is told, if it is still
\* there; it opens its link at once.  If it throws, the transport is closed.
Answer(c, ok) ==
    /\ c \in callback
    /\ callback' = callback \ {c}
    /\ IF ok THEN UNCHANGED <<mainLink, listeners>> ELSE CloseLink(c)
    /\ IF c = page /\ window = "open"
       THEN /\ promise' = IF ok THEN "given" ELSE "rejected"
            /\ IF ok THEN OpenPageLink ELSE UNCHANGED pageLink
       ELSE UNCHANGED <<promise, pageLink>>
    /\ UNCHANGED <<window, acceptors, page, invoked, wire, sent, heard>>

\* Either end's transport closes its link; the other is not told.
CloseMain(c) ==
    /\ mainLink[c] = "open" /\ c \notin callback
    /\ CloseLink(c)
    /\ UNCHANGED <<window, acceptors, page, promise, invoked, callback, pageLink, wire, sent, heard>>

ClosePage ==
    /\ pageLink = "open"
    /\ pageLink' = "closed"
    /\ UNCHANGED <<window, acceptors, page, promise, invoked, mainLink, listeners, callback, wire, sent, heard>>

----------------------------------------------------------------------------
(* The page.                                                               *)

\* getService and openTransport: one handshake in the life of a page, whose
\* outcome is kept, a failure too.
OpenTransport ==
    /\ window = "open" /\ promise = "none"
    /\ promise' = "pending" /\ invoked' = invoked \cup {page}
    /\ UNCHANGED <<window, acceptors, page, mainLink, listeners, callback, pageLink, wire, sent, heard>>

\* What was in the page is gone; the main process is not told, and keeps its link.
Reload ==
    /\ window = "open" /\ page < MaxPages
    /\ page' = page + 1
    /\ promise' = "none" /\ pageLink' = "none"
    /\ UNCHANGED <<window, acceptors, invoked, mainLink, listeners, callback, wire, sent, heard>>

\* webContents "destroyed": the router's cleanup, and every link's own.
Destroy ==
    /\ window = "open"
    /\ window' = "destroyed" /\ acceptors' = FALSE /\ listeners' = {}
    /\ mainLink' = [c \in Pages |-> IF mainLink[c] = "open" THEN "closed" ELSE mainLink[c]]
    /\ pageLink' = "none" /\ promise' = "none"
    /\ wire' = [wire EXCEPT !["page"] = <<>>]
    /\ UNCHANGED <<page, invoked, callback, sent, heard>>

----------------------------------------------------------------------------
(* Packets.                                                                *)

\* sendMessage, and send of the preload script: nothing is sent to a window
\* that is destroyed, but then no link is open either.
SendMessage(to, c, n) == wire' = [wire EXCEPT ![to] = Append(@, [channel |-> c, n |-> n])]

SendPacket(c, e) ==
    /\ sent[c][e] < MaxPackets
    /\ IF e = "main" THEN mainLink[c] = "open" ELSE c = page /\ pageLink = "open"
    /\ sent' = [sent EXCEPT ![c][e] = @ + 1]
    /\ SendMessage(IF e = "main" THEN "page" ELSE "main", c, sent[c][e] + 1)
    /\ UNCHANGED <<window, acceptors, page, promise, invoked, mainLink, listeners, callback, pageLink, heard>>

\* Mutant: the page's listener takes packets of any channel.
PageTakesAny(m) == pageLink = "open"

\* The listener that preload installs, and the router's.
PageTakes(m) == pageLink = "open" /\ m.channel = page
MainTakes(m) == m.channel \in listeners

Hear(c, e, m) == heard' = [heard EXCEPT ![c][e] = Append(@, <<m.channel, m.n>>)]

\* The next packet to an end arrives.
Arrive(e) ==
    /\ wire[e] # <<>>
    /\ wire' = [wire EXCEPT ![e] = Tail(@)]
    /\ LET m == Head(wire[e]) IN
       CASE e = "page" /\ PageTakes(m) -> Hear(page, e, m)
         [] e = "main" /\ MainTakes(m) -> Hear(m.channel, e, m)
         [] OTHER -> UNCHANGED heard
    /\ UNCHANGED <<window, acceptors, page, promise, invoked, mainLink, listeners, callback, pageLink, sent>>

IpcNext ==
    \/ Accept \/ ClosePage \/ OpenTransport \/ Reload \/ Destroy
    \/ \E c \in Pages : Handshake(c) \/ CloseMain(c) \/ \E ok \in BOOLEAN : Answer(c, ok)
    \/ \E c \in Pages, e \in ProcessEnds : SendPacket(c, e)
    \/ \E e \in ProcessEnds : Arrive(e)

IpcSpec == IpcInit /\ [][IpcNext]_ipcvars

----------------------------------------------------------------------------

\* An end hears only what the other end of its own channel sent, in order and
\* without gaps, though one ipc channel serves all pages and links of earlier
\* pages are still open.  What the main process sends before the page listens
\* is lost, and only that: the page's packets arrive from the first.  When the
\* window is gone nothing of it is left in the router.
PagesHearTheirOwn ==
    /\ \A c \in Pages, e \in ProcessEnds :
          LET h == heard[c][e] IN
          /\ \A i \in DOMAIN h : h[i] = <<c, h[1][2] + i - 1>>
          /\ e = "main" /\ h # <<>> => h[1][2] = 1
    /\ listeners = { c \in Pages : mainLink[c] = "open" }
    /\ window = "destroyed" => listeners = {} /\ ~ acceptors

=============================================================================
