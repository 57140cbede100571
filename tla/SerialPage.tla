----------------------------- MODULE SerialPage -----------------------------
(***************************************************************************)
(* The serial console page (static/js/console_serial.js) on its Socket.IO  *)
(* client (static/js/socket.io.js): the websocket transport, the engine    *)
(* with its ping timer, the manager with its connect timer, the socket and *)
(* the page's handlers, each with what it still listens to.                *)
(*                                                                         *)
(* One step is one task of the browser's loop or one microtask; microtasks *)
(* (nextTick: drain, decoded, the noticed ping timeout) run before the     *)
(* next task.  A step applies the functions that the code calls, in their  *)
(* order, to the client's record.  The page asks for websocket first and   *)
(* for no reconnection, so neither polling nor an upgrade nor a retry runs.*)
(***************************************************************************)
EXTENDS Naturals, SequencesExt

CONSTANTS
  MaxDown,      \* bound on what is under way to the page
  MaxReloads    \* bound on the reloads

ASSUME PageAssumption == MaxDown \in Nat \ {0} /\ MaxReloads \in Nat

VARIABLES
  c,         \* the client and the page
  ticks,     \* microtasks that wait
  net,       \* "up"; "cut": nothing arrives any more, and nobody is told
  asked,     \* a CONNECT packet is under way to the server
  down,      \* packets under way to the page
  srv,       \* what the server has done with the connection
  reloads

pageVars == <<c, ticks, net, asked, down, srv, reloads>>

\* io(): a manager, its engine, its transport and a socket, subscribed; the
\* manager has not heard of the engine but for its opening, an error and the timer.
\* subs: what the manager listens to; active: the socket to the manager.
NewPage == [
  transport |-> "opening", writable |-> FALSE,
  engine |-> "opening", buf |-> <<>>, prev |-> 0, closing |-> FALSE, ping |-> "off",
  manager |-> "opening", subs |-> "opening",
  active |-> TRUE, connected |-> FALSE, receiveBuffer |-> <<>>,
  status |-> "Connecting", label |-> "Disconnect",
  takenBy |-> FALSE, refused |-> FALSE]

PageInit ==
  /\ c = NewPage /\ ticks = <<>> /\ net = "up"
  /\ asked = FALSE /\ down = <<>> /\ srv = "none" /\ reloads = 0

\* A call's effect: the client, the microtasks and the packets it leaves.
Eff(client, tasks, packets) == [c |-> client, ticks |-> tasks, sent |-> packets]
Nothing(client) == Eff(client, <<>>, <<>>)
\* e, and then the client is changed without a call.
Leaving(e, client) == Eff(client, e.ticks, e.sent)
\* What f does to the client that e left, after e.
Then(e, f(_)) ==
  LET g == f(e.c) IN Eff(g.c, e.ticks \o g.ticks, e.sent \o g.sent)

-----------------------------------------------------------------------------
(* The transport and the engine *)

\* flush, transport.send and write: all of the buffer goes out; "drain" follows.
Flush(k) ==
  IF k.engine # "closed" /\ k.writable /\ k.buf # <<>>
    THEN IF k.transport = "open"
           THEN Eff([k EXCEPT !.writable = FALSE, !.prev = Len(k.buf)], <<"drain">>, k.buf)
           ELSE Nothing([k EXCEPT !.prev = Len(k.buf)])
    ELSE Nothing(k)

\* _sendPacket
SendPacket(k, packet) ==
  IF k.engine \in {"closing", "closed"} THEN Nothing(k)
  ELSE Flush([k EXCEPT !.buf = Append(@, packet)])

\* _onClose up to its event: the timer, the listeners and the transport go.
EngineShut(k) ==
  [k EXCEPT !.engine = "closed", !.transport = "closed", !.ping = "off",
            !.buf = <<>>, !.prev = 0, !.closing = FALSE]

\* close: at once, or when what was written is out. The manager, who calls it,
\* has stopped listening before.
EngineClose(k) ==
  IF k.engine \notin {"opening", "open"} THEN k
  ELSE IF k.buf # <<>> THEN [k EXCEPT !.engine = "closing", !.closing = TRUE]
  ELSE EngineShut(k)

\* Mutant: a socket that has just connected has no deadline before its first ping.
ArmedLater(k) == k
\* _resetPingTimeout
Armed(k) == [k EXCEPT !.ping = "armed"]

-----------------------------------------------------------------------------
(* The page's handlers *)

ShowStatus(k, text) ==
  [k EXCEPT !.status = text, !.label = IF k.connected THEN "Disconnect" ELSE "Reconnect"]

\* Mutant: the page's own word hides who took the console.
OnDisconnectPlain(k) == ShowStatus(k, "Disconnected")
OnDisconnect(k) == ShowStatus(k, IF k.takenBy THEN "Taken over" ELSE "Disconnected")

OnConnectError(k, why) == ShowStatus(k, why)

OnTakenOver(k) == [k EXCEPT !.takenBy = TRUE]
\* Output is the terminal's.
EmitEvent(k, event) == IF event = "taken_over" THEN OnTakenOver(k) ELSE k

-----------------------------------------------------------------------------
(* The socket and the manager *)

\* emit: a ping that has expired unnoticed ends the connection in a microtask.
SocketEmit(k, event) ==
  IF k.ping \in {"expired", "noticed"}
    THEN Eff([k EXCEPT !.ping = "noticed"], IF k.ping = "expired" THEN <<"expired">> ELSE <<>>, <<>>)
    ELSE SendPacket(k, event)

\* The page's connect handler: the status, and the terminal's size.
OnConnect(k) == SocketEmit(ShowStatus(k, "Connected"), "event")

\* Mutant: the page is told before the socket knows.
SocketOnCloseLate(k) == [OnDisconnect(k) EXCEPT !.connected = FALSE]
\* onclose
SocketOnClose(k) == OnDisconnect([k EXCEPT !.connected = FALSE])

\* onerror: told only while it is not connected.
SocketOnError(k, why) == IF k.connected THEN k ELSE OnConnectError(k, why)

\* onclose: stop listening, close the engine, tell the socket.
ManagerOnClose(k) ==
  LET closed == [EngineClose([k EXCEPT !.subs = "none"]) EXCEPT !.manager = "closed"]
  IN  IF closed.active THEN SocketOnClose(closed) ELSE closed

\* _onClose, of any cause: a manager that is opening does not hear of it.
EngineOnClose(k) ==
  IF k.engine = "closed" THEN k
  ELSE IF k.subs = "open" THEN ManagerOnClose(EngineShut(k))
  ELSE EngineShut(k)

\* The manager's onError while it opens: no more of this engine.
OpenError(k, why) ==
  LET over == [k EXCEPT !.subs = "none", !.manager = "closed"]
  IN  IF over.active THEN SocketOnError(over, why) ELSE over

\* _onError: the error first, then the close.
EngineOnError(k, why) ==
  EngineOnClose(CASE k.subs = "opening" -> OpenError(k, why)
                  [] k.subs = "open" -> (IF k.active THEN SocketOnError(k, why) ELSE k)
                  [] k.subs = "none" -> k)

\* destroy: the only socket of its manager goes, and the connection with it.
Destroy(k) == ManagerOnClose([k EXCEPT !.active = FALSE])

\* emitBuffered: what came before the answer; of it, "taken_over" is the page's.
EmitBuffered(k) ==
  [k EXCEPT !.takenBy = @ \/ Contains(k.receiveBuffer, "taken_over"), !.receiveBuffer = <<>>]

\* onconnect: what was received is delivered, then "connect".
SocketOnConnect(k) == OnConnect(EmitBuffered([k EXCEPT !.connected = TRUE]))

\* onevent
SocketOnEvent(k, event) ==
  IF k.connected THEN EmitEvent(k, event) ELSE [k EXCEPT !.receiveBuffer = Append(@, event)]

\* onpacket
SocketOnPacket(k, packet) ==
  CASE packet = "connect" -> SocketOnConnect(k)
    [] packet \in {"output", "taken_over"} -> Nothing(SocketOnEvent(k, packet))
    [] packet = "disconnect" -> Nothing(SocketOnClose(Destroy(k)))
    [] packet = "connect_error" -> Nothing([OnConnectError(Destroy(k), "Refused") EXCEPT !.refused = TRUE])

\* The manager's onopen: no timer any more; the socket asks to be connected.
ManagerOnOpen(k) ==
  LET sent == SendPacket([k EXCEPT !.manager = "open", !.subs = "none"], "connect")
  IN  Leaving(sent, [sent.c EXCEPT !.subs = "open"])

\* onHandshake, onOpen
OnHandshake(k) ==
  LET opened == [k EXCEPT !.engine = "open"]
      told == IF k.subs = "opening" THEN ManagerOnOpen(opened) ELSE Nothing(opened)
      flushed == Then(told, Flush)
  IN  IF flushed.c.engine = "closed" THEN flushed ELSE Leaving(flushed, Armed(flushed.c))

\* _onPacket: a Socket.IO packet is decoded now and handled in a microtask.
EngineOnPacket(k, packet) ==
  IF k.engine = "closed" THEN Nothing(k)
  ELSE CASE packet = "open" -> OnHandshake(k)
         [] packet = "ping" -> (LET e == SendPacket(k, "pong") IN Leaving(e, Armed(e.c)))
         [] OTHER -> IF k.subs = "open" THEN Eff(k, <<packet>>, <<>>) ELSE Nothing(k)

\* _onDrain: the rest goes out, or a close that waited goes on.
OnDrain(k) ==
  LET left == [k EXCEPT !.writable = TRUE, !.buf = SubSeq(k.buf, k.prev + 1, Len(k.buf)), !.prev = 0]
  IN  IF k.engine = "closed" THEN Nothing([k EXCEPT !.writable = TRUE])
      ELSE IF left.buf # <<>> THEN Flush(left)
      ELSE Nothing(IF k.closing THEN EngineOnClose(left) ELSE left)

RunTick(k, tick) ==
  CASE tick = "drain" -> OnDrain(k)
    [] tick = "expired" -> Nothing(EngineOnClose(k))
    [] OTHER -> IF k.active THEN SocketOnPacket(k, tick) ELSE Nothing(k)

-----------------------------------------------------------------------------
(* Tasks *)

\* The client becomes e's; what the browser has of a closed websocket is gone.
Becomes(e, before, left) ==
  /\ c' = e.c
  /\ ticks' = before \o e.ticks
  /\ asked' = (asked \/ (net = "up" /\ Contains(e.sent, "connect")))
  /\ down' = IF e.c.transport = "closed" THEN <<>> ELSE left

Task(e) ==
  /\ ticks = <<>> /\ Becomes(e, <<>>, down)
  /\ UNCHANGED <<net, srv, reloads>>

Microtask ==
  /\ ticks # <<>>
  /\ Becomes(RunTick(c, Head(ticks)), Tail(ticks), down)
  /\ UNCHANGED <<net, srv, reloads>>

\* ws.onopen; the server's engine has sent its handshake.
WsOpens ==
  /\ ticks = <<>> /\ c.transport = "opening" /\ net = "up"
  /\ c' = [c EXCEPT !.transport = "open", !.writable = TRUE]
  /\ srv' = "engine" /\ down' = <<"open">>
  /\ UNCHANGED <<ticks, net, asked, reloads>>

\* ws.onmessage
Message ==
  /\ ticks = <<>> /\ c.transport = "open" /\ net = "up" /\ down # <<>>
  /\ Becomes(EngineOnPacket(c, Head(down)), <<>>, Tail(down))
  /\ UNCHANGED <<net, srv, reloads>>

\* ws.onerror, or ws.onclose alone: the server or the proxy ended it.
WsFails == c.transport # "closed" /\ Task(Nothing(EngineOnError(c, "websocket error")))
WsCloses == c.transport = "open" /\ Task(Nothing(EngineOnClose(c)))

\* The browser's offline event.
Offline == c.engine # "closed" /\ Task(Nothing(EngineOnClose(c)))

\* The manager's 20 seconds.
ConnectTimeout ==
  /\ c.subs = "opening"
  /\ Task(Nothing(EngineClose(OpenError(c, "timeout"))))

\* The ping's deadline passes; its timer may be late (a suspended laptop).
PingExpires ==
  /\ c.ping = "armed"
  /\ c' = [c EXCEPT !.ping = "expired"]
  /\ UNCHANGED <<ticks, net, asked, down, srv, reloads>>
PingTimeout == c.ping = "expired" /\ Task(Nothing(EngineOnClose(c)))

\* A key, a paste, a new size of the window.
Types ==
  /\ c.connected
  /\ Task(SocketEmit(c, "event"))

\* The button while connected: disconnect.
ClickDisconnect ==
  /\ c.connected
  /\ Task(LET sent == SendPacket(c, "disconnect")
          IN  Leaving(sent, SocketOnClose(Destroy(sent.c))))

\* The button otherwise, whatever it says: a new page, with a new token.
ClickReload ==
  /\ ticks = <<>> /\ ~c.connected /\ reloads < MaxReloads
  /\ c' = NewPage /\ net' = "up" /\ asked' = FALSE /\ down' = <<>> /\ srv' = "none"
  /\ reloads' = reloads + 1
  /\ UNCHANGED ticks

-----------------------------------------------------------------------------
(* The network and socketiod *)

Cut ==
  /\ net = "up" /\ net' = "cut"
  /\ UNCHANGED <<c, ticks, asked, down, srv, reloads>>

SrvSends(packet) ==
  /\ Len(down) < MaxDown
  /\ down' = IF c.transport = "open" THEN Append(down, packet) ELSE down

\* connect is called.
SrvReceives ==
  /\ asked /\ asked' = FALSE /\ srv' = "connecting"
  /\ UNCHANGED <<c, ticks, net, down, reloads>>

\* connect returns, or refuses; a taken over page is disconnected before or after.
SrvAnswers ==
  /\ srv \in {"connecting", "over early"}
  /\ \/ SrvSends("connect") /\ srv' = IF srv = "connecting" THEN "connected" ELSE "over"
     \/ srv = "connecting" /\ SrvSends("connect_error") /\ srv' = "over"
  /\ UNCHANGED <<c, ticks, net, asked, reloads>>

SrvOutput ==
  /\ srv = "connected" /\ SrvSends("output")
  /\ UNCHANGED <<c, ticks, net, asked, srv, reloads>>

\* A superuser takes over: also while connect has not returned yet.
SrvTakenOver ==
  /\ srv \in {"connecting", "connected"} /\ Len(down) + 1 < MaxDown
  /\ down' = IF c.transport = "open" THEN down \o <<"taken_over", "disconnect">> ELSE down
  /\ srv' = IF srv = "connecting" THEN "over early" ELSE "over"
  /\ UNCHANGED <<c, ticks, net, asked, reloads>>

\* The worker ended.
SrvEnds ==
  /\ srv = "connected" /\ SrvSends("disconnect")
  /\ srv' = "over"
  /\ UNCHANGED <<c, ticks, net, asked, reloads>>

SrvPing ==
  /\ srv # "none" /\ down = <<>> /\ c.ping \in {"armed", "expired"} /\ SrvSends("ping")
  /\ UNCHANGED <<c, ticks, net, asked, srv, reloads>>

PageNext ==
  \/ Microtask \/ WsOpens \/ Message \/ WsFails \/ WsCloses \/ Offline
  \/ ConnectTimeout \/ PingExpires \/ PingTimeout
  \/ Types \/ ClickDisconnect \/ ClickReload
  \/ Cut \/ SrvReceives \/ SrvAnswers \/ SrvOutput \/ SrvTakenOver \/ SrvEnds \/ SrvPing

\* The browser runs its microtasks and timers and delivers; socketiod answers.
\* Without pings the deadline passes.
PageFairness ==
  /\ WF_pageVars(Microtask) /\ WF_pageVars(Message) /\ WF_pageVars(ConnectTimeout)
  /\ WF_pageVars(net = "cut" /\ PingExpires) /\ WF_pageVars(PingTimeout)
  /\ WF_pageVars(SrvReceives) /\ WF_pageVars(SrvAnswers)

PageSpec == PageInit /\ [][PageNext]_pageVars /\ PageFairness

-----------------------------------------------------------------------------
(* Properties *)

\* The bar tells the truth, whichever layer an end came from and whatever it
\* still had to hear: "Connected" and "Disconnect" while keys go to the VM; no
\* page waits for an engine that is closed, unless the manager's timer still
\* comes; and neither a refusal nor who took the console is hidden by the
\* closing that follows it. [console_serial.js: showStatus; socket.io.js: destroy]
StatusTrue ==
  /\ c.connected <=> c.status = "Connected"
  /\ c.connected => c.engine = "open" /\ c.label = "Disconnect"
  /\ ~c.connected /\ c.status # "Connecting" => c.label = "Reconnect"
  /\ c.status = "Connecting" => c.engine # "closed" \/ c.subs = "opening"
  /\ c.refused => c.status = "Refused"
  /\ c.takenBy /\ ~c.connected => c.status = "Taken over"

\* A connection that died without a word is noticed, wherever it was cut, and
\* every attempt to connect comes to an end. [_resetPingTimeout, Manager.open]
Noticed ==
  /\ net = "cut" ~> net = "up" \/ c.status \notin {"Connecting", "Connected"}
  /\ c.status = "Connecting" ~> c.status # "Connecting"
=============================================================================
