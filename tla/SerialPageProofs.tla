-------------------------- MODULE SerialPageProofs --------------------------
(***************************************************************************)
(* Proofs about the serial console's page on its Socket.IO client, for any *)
(* bounds: the bar tells the truth.  What the bar may say depends on what  *)
(* the manager still listens to (Told), this on the layers below (Wired,   *)
(* Above), and that a refusal never meets a connected socket on the order  *)
(* of what is under way (Protocol): the CONNECT packet goes out once.      *)
(***************************************************************************)
EXTENDS SerialPage, TLAPS, SequenceTheorems

Texts == {"Connecting", "Connected", "Disconnected", "Taken over", "Refused", "timeout", "websocket error"}
Sent == {"connect", "event", "pong", "disconnect"}
Answers == {"connect", "output", "taken_over", "disconnect", "connect_error"}
Packets == Answers \cup {"open", "ping"}

Client == [
  transport : {"opening", "open", "closed"}, writable : BOOLEAN,
  engine : {"opening", "open", "closing", "closed"}, buf : Seq(Sent), prev : Nat,
  closing : BOOLEAN, ping : {"off", "armed", "expired", "noticed"},
  manager : {"opening", "open", "closed"}, subs : {"opening", "open", "none"},
  active : BOOLEAN, connected : BOOLEAN, receiveBuffer : Seq(Answers),
  status : Texts, label : {"Disconnect", "Reconnect"},
  takenBy : BOOLEAN, refused : BOOLEAN]

\* What the bar of the client k says, by what its manager listens to.
Told(k) ==
  /\ k.connected <=> k.status = "Connected"
  /\ k.connected => k.label = "Disconnect" /\ k.subs = "open"
  /\ ~k.connected /\ k.status # "Connecting" => k.label = "Reconnect"
  /\ k.status = "Connecting" => k.subs # "none" /\ ~k.takenBy
  /\ k.subs # "none" /\ ~k.connected => k.status = "Connecting"
  /\ k.subs # "none" => k.active
  /\ k.refused => k.subs = "none" /\ k.status = "Refused"
  /\ k.takenBy /\ ~k.connected => k.status = "Taken over"

\* The engine and its transport; a CONNECT packet in the buffer is already out.
Wired(k) ==
  /\ k.engine \in {"opening", "closed"} => k.buf = <<>> /\ k.prev = 0
  /\ k.engine = "closed" <=> k.transport = "closed"
  /\ k.transport = "opening" => k.engine = "opening" /\ ~k.writable
  /\ k.engine = "opening" /\ k.transport = "open" => k.writable
  /\ k.prev <= Len(k.buf) /\ (k.prev > 0 => ~k.writable)
  /\ \A i \in 1..Len(k.buf) : k.buf[i] = "connect" => i <= k.prev

\* The manager and the engine.
Above(k) ==
  /\ k.subs = "open" => k.engine = "open"
  /\ k.subs = "opening" => k.engine \in {"opening", "closed"}
  /\ k.engine = "opening" => k.subs = "opening"

ClientInv(k) == k \in Client /\ Told(k) /\ Wired(k) /\ Above(k)

Has(s, p) == \E i \in 1..Len(s) : s[i] = p
\* The packet p is under way to the page, or decoded and not handled yet.
UnderWay(p) == Has(down, p) \/ ticks = <<p>>

\* What is under way, by what the two ends have done.
Protocol ==
  /\ ticks = <<>> \/ \E p \in Answers \cup {"drain", "expired"} : ticks = <<p>>
  /\ \A p \in Answers : ticks = <<p>> => c.subs = "open"
  /\ c.transport = "opening" => down = <<>> /\ srv = "none"
  /\ c.transport = "closed" => down = <<>>
  /\ c.engine = "opening" /\ c.transport = "open" => down = <<"open">> /\ srv = "engine"
  /\ c.engine = "opening" => ~asked /\ ticks = <<>>
  /\ c.engine # "opening" => ~Has(down, "open")
  /\ asked => srv = "engine"
  /\ srv \in {"none", "engine", "connecting", "over early"} =>
       ~c.connected /\ ~UnderWay("connect") /\ ~UnderWay("connect_error")
  /\ UnderWay("connect_error") => ~c.connected /\ ~UnderWay("connect")

PageInv ==
  /\ ClientInv(c) /\ Protocol
  /\ down \in Seq(Packets) /\ asked \in BOOLEAN
  /\ srv \in {"none", "engine", "connecting", "connected", "over early", "over"}

-----------------------------------------------------------------------------
(* The client's functions *)

\* What the page shows, and what decides it.
SameFace(k, l) ==
  /\ l.subs = k.subs /\ l.active = k.active /\ l.connected = k.connected
  /\ l.status = k.status /\ l.label = k.label /\ l.takenBy = k.takenBy /\ l.refused = k.refused
SameWire(k, l) ==
  /\ l.transport = k.transport /\ l.writable = k.writable /\ l.engine = k.engine
  /\ l.buf = k.buf /\ l.prev = k.prev

LEMMA FaceKeeps == \A k, l : Told(k) /\ SameFace(k, l) => Told(l)
BY ZenonT(60) DEF Told, SameFace

LEMMA WireKeeps == \A k, l : Wired(k) /\ SameWire(k, l) => Wired(l)
BY DEF Wired, SameWire

\* _onClose
LEMMA ShutFacts ==
  ASSUME NEW k \in Client
  PROVE  /\ EngineShut(k) \in Client /\ SameFace(k, EngineShut(k)) /\ Wired(EngineShut(k))
         /\ EngineShut(k).engine = "closed" /\ EngineShut(k).transport = "closed"
<1> DEFINE l == EngineShut(k)
<1>1. <<>> \in Seq(Sent) /\ Len(<<>>) = 0
  OBVIOUS
<1>2. l \in Client
  BY <1>1 DEF Client, EngineShut
<1>3. /\ l.engine = "closed" /\ l.transport = "closed" /\ l.buf = <<>> /\ l.prev = 0
      /\ SameFace(k, l)
  BY DEF Client, EngineShut, SameFace
<1>4. Wired(l)
  BY <1>1, <1>3 DEF Wired
<1> QED BY <1>2, <1>3, <1>4

\* close
LEMMA CloseFacts ==
  ASSUME NEW k \in Client, Wired(k)
  PROVE  /\ EngineClose(k) \in Client /\ SameFace(k, EngineClose(k)) /\ Wired(EngineClose(k))
         /\ EngineClose(k).engine \in {"closing", "closed"}
<1>1. CASE k.engine \notin {"opening", "open"}
  BY <1>1 DEF EngineClose, SameFace, Client
<1>2. CASE k.engine \in {"opening", "open"} /\ k.buf # <<>>
  <2> DEFINE l == [k EXCEPT !.engine = "closing", !.closing = TRUE]
  <2>1. EngineClose(k) = l
    BY <1>2 DEF EngineClose
  <2>2. k.engine = "open"
    BY <1>2 DEF Wired
  <2>3. /\ l \in Client /\ SameFace(k, l)
        /\ l.transport = k.transport /\ l.writable = k.writable /\ l.engine = "closing"
        /\ l.buf = k.buf /\ l.prev = k.prev
    BY DEF Client, SameFace
  <2> HIDE DEF l
  <2>4. Wired(l)
    BY <2>2, <2>3 DEF Wired
  <2> QED BY <2>1, <2>3, <2>4
<1>3. CASE k.engine \in {"opening", "open"} /\ k.buf = <<>>
  BY <1>3, ShutFacts DEF EngineClose
<1> QED BY <1>1, <1>2, <1>3

\* showStatus
LEMMA ShowFacts ==
  ASSUME NEW k \in Client, NEW text \in Texts
  PROVE  LET l == ShowStatus(k, text)
         IN  /\ l \in Client /\ SameWire(k, l)
             /\ l.subs = k.subs /\ l.active = k.active /\ l.connected = k.connected
             /\ l.takenBy = k.takenBy /\ l.refused = k.refused /\ l.ping = k.ping
             /\ l.status = text
             /\ k.connected => l.label = "Disconnect"
             /\ ~k.connected => l.label = "Reconnect"
BY DEF ShowStatus, Client, SameWire

\* Socket.onclose
LEMMA OnCloseFacts ==
  ASSUME NEW k \in Client
  PROVE  LET l == SocketOnClose(k)
         IN  /\ l \in Client /\ SameWire(k, l)
             /\ l.subs = k.subs /\ l.active = k.active /\ ~l.connected
             /\ l.takenBy = k.takenBy /\ l.refused = k.refused
             /\ l.status = (IF k.takenBy THEN "Taken over" ELSE "Disconnected") /\ l.label = "Reconnect"
<1> DEFINE h == [k EXCEPT !.connected = FALSE]
<1>1. /\ h \in Client /\ SameWire(k, h) /\ h.subs = k.subs /\ h.active = k.active /\ h.connected = FALSE
      /\ h.takenBy = k.takenBy /\ h.refused = k.refused
  BY DEF Client, SameWire
<1>2. SocketOnClose(k) = OnDisconnect(h)
  BY DEF SocketOnClose
<1> HIDE DEF h
<1> DEFINE text == IF h.takenBy THEN "Taken over" ELSE "Disconnected"
           l == ShowStatus(h, text)
<1>3. SocketOnClose(k) = ShowStatus(h, text)
  BY <1>2 DEF OnDisconnect
<1>4. text \in Texts /\ text = (IF k.takenBy THEN "Taken over" ELSE "Disconnected")
  BY <1>1 DEF Texts
<1> HIDE DEF text
<1>5. /\ l \in Client /\ SameWire(h, l)
      /\ l.subs = h.subs /\ l.active = h.active /\ l.connected = h.connected
      /\ l.takenBy = h.takenBy /\ l.refused = h.refused
      /\ l.status = text /\ l.label = "Reconnect"
  <2>1. h \in Client /\ text \in Texts /\ ~h.connected
    BY <1>1, <1>4
  <2> QED BY ONLY <2>1, ShowFacts
<1> HIDE DEF l
<1>6. SocketOnClose(k) = l
  BY <1>3 DEF l
<1> QED BY <1>1, <1>4, <1>5, <1>6 DEF SameWire

\* Manager.onclose
LEMMA ManagerFacts ==
  ASSUME NEW k \in Client, Wired(k)
  PROVE  LET l == ManagerOnClose(k)
         IN  /\ l \in Client /\ Wired(l) /\ l.subs = "none" /\ l.active = k.active
             /\ l.engine \in {"closing", "closed"} /\ l.takenBy = k.takenBy /\ l.refused = k.refused
             /\ k.active => /\ ~l.connected /\ l.label = "Reconnect"
                            /\ l.status = IF k.takenBy THEN "Taken over" ELSE "Disconnected"
             /\ ~k.active => l.connected = k.connected /\ l.label = k.label /\ l.status = k.status
<1> DEFINE h == [k EXCEPT !.subs = "none"]
           g == EngineClose(h)
           closed == [g EXCEPT !.manager = "closed"]
<1>1. /\ h \in Client /\ SameWire(k, h) /\ h.subs = "none" /\ h.active = k.active
      /\ h.connected = k.connected /\ h.status = k.status /\ h.label = k.label
      /\ h.takenBy = k.takenBy /\ h.refused = k.refused
  BY DEF Client, SameWire
<1>2. ManagerOnClose(k) = IF closed.active THEN SocketOnClose(closed) ELSE closed
  BY DEF ManagerOnClose
<1> HIDE DEF h
<1>3. g \in Client /\ SameFace(h, g) /\ Wired(g) /\ g.engine \in {"closing", "closed"}
  BY <1>1, WireKeeps, CloseFacts
<1> HIDE DEF g
<1>4. closed \in Client /\ SameFace(g, closed) /\ SameWire(g, closed) /\ closed.engine = g.engine
  BY <1>3 DEF Client, SameFace, SameWire
<1> HIDE DEF closed
<1>5. closed \in Client /\ SameFace(h, closed) /\ Wired(closed) /\ closed.engine \in {"closing", "closed"}
  BY <1>3, <1>4, WireKeeps DEF SameFace
<1>6. CASE closed.active
  <2>1. ManagerOnClose(k) = SocketOnClose(closed)
    BY <1>2, <1>6
  <2> DEFINE l == SocketOnClose(closed)
  <2>2. /\ l \in Client /\ SameWire(closed, l)
        /\ l.subs = closed.subs /\ l.active = closed.active /\ ~l.connected
        /\ l.takenBy = closed.takenBy /\ l.refused = closed.refused
        /\ l.status = (IF closed.takenBy THEN "Taken over" ELSE "Disconnected") /\ l.label = "Reconnect"
    BY <1>5, OnCloseFacts
  <2> HIDE DEF l
  <2>3. Wired(l) /\ l.engine = closed.engine
    BY <1>5, <2>2, WireKeeps DEF SameWire
  <2>4. ManagerOnClose(k) = l
    BY <2>1 DEF l
  <2> QED BY <1>1, <1>5, <1>6, <2>2, <2>3, <2>4 DEF SameFace
<1>7. CASE ~closed.active
  BY <1>1, <1>2, <1>5, <1>7 DEF SameFace
<1> QED BY <1>6, <1>7

\* _onClose, of any cause: the bar is told by a manager that listens.
LEMMA EngineOnCloseFacts ==
  ASSUME NEW k \in Client, Wired(k),
         k.subs = "open" => k.active /\ ~k.refused /\ k.engine # "closed",
         k.subs # "open" => Told(k)
  PROVE  LET l == EngineOnClose(k)
         IN  /\ ClientInv(l) /\ l.engine = "closed" /\ l.transport = "closed" /\ l.subs # "open"
<1>1. CASE k.engine = "closed"
  BY <1>1 DEF EngineOnClose, ClientInv, Above, Wired, Client
<1>2. CASE k.engine # "closed" /\ k.subs = "open"
  <2> DEFINE h == EngineShut(k)
             l == ManagerOnClose(h)
  <2>1. EngineOnClose(k) = l
    BY <1>2 DEF EngineOnClose
  <2>2. h \in Client /\ SameFace(k, h) /\ Wired(h) /\ h.engine = "closed"
    BY ShutFacts
  <2>3. h.active /\ ~h.refused /\ h.subs = "open"
    BY <1>2, <2>2 DEF SameFace
  <2>4. ManagerOnClose(h).engine = "closed"
    BY <2>2 DEF ManagerOnClose, EngineClose, SocketOnClose, OnDisconnect, ShowStatus, Client
  <2> HIDE DEF h
  <2>5. /\ l \in Client /\ Wired(l) /\ l.subs = "none" /\ l.active
        /\ ~l.refused /\ ~l.connected /\ l.label = "Reconnect"
        /\ l.takenBy = h.takenBy /\ l.status = IF h.takenBy THEN "Taken over" ELSE "Disconnected"
    BY <2>2, <2>3, ManagerFacts
  <2>6. l.engine = "closed" /\ l.transport = "closed"
    BY <2>4, <2>5 DEF Wired
  <2> HIDE DEF l
  <2>7. Told(l) /\ Above(l)
    BY <2>5, <2>6 DEF Told, Above
  <2> QED BY <2>1, <2>5, <2>6, <2>7 DEF ClientInv
<1>3. CASE k.engine # "closed" /\ k.subs # "open"
  <2> DEFINE l == EngineShut(k)
  <2>1. EngineOnClose(k) = l
    BY <1>3 DEF EngineOnClose
  <2>2. l \in Client /\ SameFace(k, l) /\ Wired(l) /\ l.engine = "closed" /\ l.transport = "closed"
    BY ShutFacts
  <2> HIDE DEF l
  <2>3. Told(l) /\ Above(l) /\ l.subs # "open"
    BY <1>3, <2>2, FaceKeeps DEF Above, SameFace
  <2> QED BY <2>1, <2>2, <2>3 DEF ClientInv
<1> QED BY <1>1, <1>2, <1>3

\* A client that its manager listens to may be closed by the engine.
LEMMA EngineOnCloseKeeps ==
  ASSUME NEW k, ClientInv(k)
  PROVE  LET l == EngineOnClose(k)
         IN  ClientInv(l) /\ l.engine = "closed" /\ l.transport = "closed" /\ l.subs # "open"
<1>1. k \in Client /\ Wired(k) /\ Told(k)
  BY DEF ClientInv
<1>2. k.subs = "open" => k.active /\ ~k.refused /\ k.engine # "closed"
  BY DEF ClientInv, Told, Above
<1> QED BY <1>1, <1>2, EngineOnCloseFacts

\* _onError and the manager's onError: the word of the error is the bar's last one
\* of a manager that was opening.
LEMMA OpenErrorFacts ==
  ASSUME NEW k, ClientInv(k), k.subs = "opening", NEW why \in {"timeout", "websocket error"}
  PROVE  LET l == OpenError(k, why)
         IN  /\ l \in Client /\ Wired(l) /\ Told(l) /\ l.subs = "none" /\ l.engine = k.engine
<1> DEFINE over == [k EXCEPT !.subs = "none", !.manager = "closed"]
           l == ShowStatus(over, why)
<1>1. k \in Client /\ Wired(k) /\ k.active /\ ~k.connected /\ ~k.takenBy /\ ~k.refused
  BY DEF ClientInv, Told
<1>2. /\ over \in Client /\ SameWire(k, over) /\ over.subs = "none" /\ over.active = k.active
      /\ over.connected = k.connected /\ over.takenBy = k.takenBy /\ over.refused = k.refused
  BY <1>1 DEF Client, SameWire
<1>3. OpenError(k, why) = IF over.active THEN SocketOnError(over, why) ELSE over
  BY DEF OpenError
<1> HIDE DEF over
<1>4. OpenError(k, why) = l
  BY <1>1, <1>2, <1>3 DEF SocketOnError, OnConnectError
<1>5. why \in Texts /\ why \notin {"Connecting", "Connected"}
  BY DEF Texts
<1>6. /\ l \in Client /\ SameWire(over, l)
      /\ l.subs = over.subs /\ l.active = over.active /\ l.connected = over.connected
      /\ l.takenBy = over.takenBy /\ l.refused = over.refused
      /\ l.status = why /\ l.label = "Reconnect"
  <2>1. over \in Client /\ why \in Texts /\ ~over.connected
    BY <1>1, <1>2, <1>5
  <2> QED BY ONLY <2>1, ShowFacts
<1> HIDE DEF l
<1>7. Wired(l) /\ l.engine = k.engine
  BY <1>1, <1>2, <1>6, WireKeeps DEF SameWire
<1>8. Told(l)
  BY <1>1, <1>2, <1>5, <1>6 DEF Told
<1> QED BY <1>2, <1>4, <1>6, <1>7, <1>8

LEMMA EngineOnErrorKeeps ==
  ASSUME NEW k, ClientInv(k), NEW why \in {"timeout", "websocket error"}
  PROVE  LET l == EngineOnError(k, why)
         IN  ClientInv(l) /\ l.engine = "closed" /\ l.transport = "closed" /\ l.subs # "open"
<1>0. k \in Client /\ Wired(k) /\ Told(k) /\ Above(k)
  BY DEF ClientInv
<1>1. CASE k.subs = "opening"
  <2> DEFINE h == OpenError(k, why)
  <2>1. EngineOnError(k, why) = EngineOnClose(h)
    BY <1>1, Zenon DEF EngineOnError
  <2>2. h \in Client /\ Wired(h) /\ Told(h) /\ h.subs = "none"
    BY <1>1, OpenErrorFacts
  <2> HIDE DEF h
  <2> QED BY <2>1, <2>2, EngineOnCloseFacts
<1>2. CASE k.subs = "open"
  <2> DEFINE h == IF k.active THEN SocketOnError(k, why) ELSE k
  <2>1. EngineOnError(k, why) = EngineOnClose(h)
    BY <1>2, Zenon DEF EngineOnError
  <2>2. k.active /\ ~k.refused /\ k.engine # "closed"
    BY <1>0, <1>2 DEF Told, Above
  <2>3. h \in Client /\ SameWire(k, h) /\ h.subs = "open" /\ h.active /\ ~h.refused
    <3>1. why \in Texts
      BY DEF Texts
    <3>2. CASE k.connected
      BY <3>2, <1>0, <1>2, <2>2 DEF SocketOnError, SameWire
    <3>3. CASE ~k.connected
      <4>1. h = ShowStatus(k, why)
        BY <2>2, <3>3 DEF SocketOnError, OnConnectError
      <4> DEFINE l == ShowStatus(k, why)
      <4>2. /\ l \in Client /\ SameWire(k, l)
            /\ l.subs = k.subs /\ l.active = k.active /\ l.refused = k.refused
        BY <1>0, <3>1, ShowFacts
      <4> HIDE DEF h, l
      <4>3. h = l
        BY <4>1 DEF l
      <4> QED BY <1>2, <2>2, <4>2, <4>3
    <3> QED BY <3>2, <3>3
  <2>4. Wired(h) /\ h.engine # "closed"
    BY <1>0, <2>2, <2>3, WireKeeps DEF SameWire
  <2> HIDE DEF h
  <2> QED BY <2>1, <2>3, <2>4, EngineOnCloseFacts
<1>3. CASE k.subs = "none"
  <2>1. EngineOnError(k, why) = EngineOnClose(k)
    BY <1>3, Zenon DEF EngineOnError
  <2> QED BY <2>1, EngineOnCloseKeeps
<1> QED BY <1>0, <1>1, <1>2, <1>3 DEF Client

\* destroy leaves the page as it is; nobody listens any more.
LEMMA DestroyFacts ==
  ASSUME NEW k \in Client, Wired(k)
  PROVE  LET l == Destroy(k)
         IN  /\ l \in Client /\ Wired(l) /\ l.subs = "none" /\ l.engine \in {"closing", "closed"}
             /\ l.connected = k.connected /\ l.takenBy = k.takenBy /\ l.refused = k.refused
<1> DEFINE h == [k EXCEPT !.active = FALSE]
           l == ManagerOnClose(h)
<1>1. /\ h \in Client /\ SameWire(k, h) /\ ~h.active
      /\ h.connected = k.connected /\ h.takenBy = k.takenBy /\ h.refused = k.refused
  BY DEF Client, SameWire
<1>2. Destroy(k) = l
  BY DEF Destroy
<1> HIDE DEF h
<1>3. h \in Client /\ Wired(h)
  BY <1>1, WireKeeps
<1>4. /\ l \in Client /\ Wired(l) /\ l.subs = "none" /\ l.engine \in {"closing", "closed"}
      /\ l.takenBy = h.takenBy /\ l.refused = h.refused
      /\ ~h.active => l.connected = h.connected
  BY <1>3, ManagerFacts
<1> HIDE DEF l
<1> QED BY <1>1, <1>2, <1>4

\* The socket's end, by the server's word or by the button's.
LEMMA EndKeeps ==
  ASSUME NEW k, ClientInv(k), k.subs = "open"
  PROVE  LET l == SocketOnClose(Destroy(k))
         IN  ClientInv(l) /\ ~l.connected /\ l.subs = "none" /\ l.engine \in {"closing", "closed"}
<1> DEFINE h == Destroy(k)
           l == SocketOnClose(h)
<1>1. k \in Client /\ Wired(k) /\ ~k.refused
  BY DEF ClientInv, Told
<1>2. h \in Client /\ Wired(h) /\ h.subs = "none" /\ h.engine \in {"closing", "closed"} /\ h.refused = k.refused
  BY <1>1, DestroyFacts
<1> HIDE DEF h
<1>3. /\ l \in Client /\ SameWire(h, l) /\ l.subs = h.subs /\ ~l.connected
      /\ l.takenBy = h.takenBy /\ l.refused = h.refused
      /\ l.status = (IF h.takenBy THEN "Taken over" ELSE "Disconnected") /\ l.label = "Reconnect"
  BY <1>2, OnCloseFacts
<1> HIDE DEF l
<1>4. Wired(l) /\ l.engine = h.engine
  BY <1>2, <1>3, WireKeeps DEF SameWire
<1>5. Told(l) /\ Above(l)
  BY <1>1, <1>2, <1>3, <1>4 DEF Told, Above
<1>6. ClientInv(l) /\ ~l.connected /\ l.subs = "none" /\ l.engine \in {"closing", "closed"}
  BY <1>2, <1>3, <1>4, <1>5 DEF ClientInv
<1> QED BY <1>6 DEF l, h

\* A refusal: of a socket that is not connected.
LEMMA RefusedKeeps ==
  ASSUME NEW k, ClientInv(k), k.subs = "open", ~k.connected
  PROVE  LET l == [OnConnectError(Destroy(k), "Refused") EXCEPT !.refused = TRUE]
         IN  ClientInv(l) /\ ~l.connected /\ l.subs = "none" /\ l.engine \in {"closing", "closed"}
<1> DEFINE h == Destroy(k)
           g == ShowStatus(h, "Refused")
           l == [g EXCEPT !.refused = TRUE]
<1>1. k \in Client /\ Wired(k) /\ ~k.takenBy
  BY DEF ClientInv, Told
<1>2. /\ h \in Client /\ Wired(h) /\ h.subs = "none" /\ h.engine \in {"closing", "closed"}
      /\ ~h.connected /\ ~h.takenBy
  BY <1>1, DestroyFacts
<1> HIDE DEF h
<1>3. /\ g \in Client /\ SameWire(h, g) /\ g.subs = h.subs /\ g.connected = h.connected
      /\ g.takenBy = h.takenBy /\ g.status = "Refused" /\ g.label = "Reconnect"
  <2>1. h \in Client /\ "Refused" \in Texts /\ ~h.connected
    BY <1>2 DEF Texts
  <2> QED BY ONLY <2>1, ShowFacts
<1> HIDE DEF g
<1>4. /\ l \in Client /\ SameWire(g, l) /\ l.subs = "none" /\ ~l.connected
      /\ ~l.takenBy /\ l.status = "Refused" /\ l.label = "Reconnect"
  BY <1>2, <1>3 DEF Client, SameWire
<1> HIDE DEF l
<1>5. Wired(l) /\ l.engine = h.engine
  <2>1. Wired(g) /\ g.engine = h.engine
    BY <1>2, <1>3, WireKeeps DEF SameWire
  <2> QED BY <2>1, <1>4, WireKeeps DEF SameWire
<1>6. Told(l) /\ Above(l)
  BY <1>2, <1>4, <1>5 DEF Told, Above
<1>7. ClientInv(l) /\ ~l.connected /\ l.subs = "none" /\ l.engine \in {"closing", "closed"}
  BY <1>2, <1>4, <1>5, <1>6 DEF ClientInv
<1>8. [OnConnectError(Destroy(k), "Refused") EXCEPT !.refused = TRUE] = l
  BY DEF l, g, h, OnConnectError
<1> QED BY <1>7, <1>8

-----------------------------------------------------------------------------
(* What the client sends *)

\* A call that leaves the page alone, leaves a microtask at most, and sends no
\* CONNECT packet.
Quiet(k, e) ==
  /\ ClientInv(e.c) /\ SameFace(k, e.c)
  /\ e.c.engine = k.engine /\ e.c.transport = k.transport
  /\ e.ticks \in {<<>>, <<"drain">>, <<"expired">>}
  /\ ~Contains(e.sent, "connect")

LEMMA NothingQuiet ==
  ASSUME NEW k, ClientInv(k)
  PROVE  Quiet(k, Nothing(k))
<1>1. ~Contains(<<>>, "connect")
  BY DEF Contains
<1>2. Nothing(k).c = k /\ Nothing(k).ticks = <<>> /\ Nothing(k).sent = <<>>
  BY DEF Nothing, Eff
<1> QED BY <1>1, <1>2 DEF Quiet, SameFace

\* flush: what goes out again is what was put in after the CONNECT packet.
LEMMA FlushQuiet ==
  ASSUME NEW k, ClientInv(k), k.engine # "opening"
  PROVE  Quiet(k, Flush(k))
<1>1. k \in Client /\ Told(k) /\ Wired(k) /\ Above(k)
  BY DEF ClientInv
<1>2. CASE ~(k.engine # "closed" /\ k.writable /\ k.buf # <<>>)
  <2>1. Flush(k) = Nothing(k)
    BY <1>2 DEF Flush
  <2> QED BY <2>1, NothingQuiet
<1>3. CASE k.engine # "closed" /\ k.writable /\ k.buf # <<>>
  <2> DEFINE l == [k EXCEPT !.writable = FALSE, !.prev = Len(k.buf)]
  <2>1. k.transport = "open"
    BY <1>1, <1>3 DEF Wired, Client
  <2>2. Flush(k).c = l /\ Flush(k).ticks = <<"drain">> /\ Flush(k).sent = k.buf
    BY <1>3, <2>1 DEF Flush, Eff
  <2>3. k.buf \in Seq(Sent) /\ Len(k.buf) \in Nat
    BY <1>1 DEF Client
  <2>4. /\ l \in Client /\ SameFace(k, l) /\ l.engine = k.engine /\ l.transport = k.transport
        /\ l.writable = FALSE /\ l.prev = Len(k.buf) /\ l.buf = k.buf
    BY <1>1, <2>3 DEF Client, SameFace
  <2> HIDE DEF l
  <2>5. Wired(l)
    BY <1>1, <2>3, <2>4, <2>1 DEF Wired
  <2>6. Told(l) /\ Above(l)
    BY <1>1, <2>4, FaceKeeps DEF Above, SameFace
  <2>7. \A i \in 1..Len(k.buf) : k.buf[i] # "connect"
    <3>1. k.prev \in Nat /\ ~(k.prev > 0)
      BY <1>1, <1>3 DEF Wired, Client
    <3> QED BY <1>1, <2>3, <3>1 DEF Wired
  <2>8. ~Contains(k.buf, "connect")
    BY <2>7 DEF Contains
  <2> QED BY <2>2, <2>4, <2>5, <2>6, <2>8 DEF Quiet, ClientInv
<1> QED BY <1>2, <1>3

\* _sendPacket of anything but the CONNECT packet.
LEMMA SendQuiet ==
  ASSUME NEW k, ClientInv(k), k.engine # "opening", NEW packet \in Sent \ {"connect"}
  PROVE  Quiet(k, SendPacket(k, packet))
<1>1. k \in Client /\ Told(k) /\ Wired(k) /\ Above(k)
  BY DEF ClientInv
<1>2. CASE k.engine \in {"closing", "closed"}
  <2>1. SendPacket(k, packet) = Nothing(k)
    BY <1>2 DEF SendPacket
  <2> QED BY <2>1, NothingQuiet
<1>3. CASE k.engine \notin {"closing", "closed"}
  <2> DEFINE b == Append(k.buf, packet)
             l == [k EXCEPT !.buf = b]
  <2>1. SendPacket(k, packet) = Flush(l)
    BY <1>3 DEF SendPacket
  <2>2. k.buf \in Seq(Sent) /\ Len(k.buf) \in Nat /\ packet \in Sent
    BY <1>1 DEF Client
  <2>3. /\ b \in Seq(Sent) /\ Len(b) = Len(k.buf) + 1
        /\ \A i \in 1..Len(b) : b[i] = IF i <= Len(k.buf) THEN k.buf[i] ELSE packet
    BY <2>2
  <2>4. \A i \in 1..Len(b) : b[i] = "connect" => i \in 1..Len(k.buf) /\ k.buf[i] = "connect"
    BY <2>2, <2>3
  <2> HIDE DEF b
  <2>5. /\ l \in Client /\ SameFace(k, l) /\ l.engine = k.engine /\ l.transport = k.transport
        /\ l.writable = k.writable /\ l.prev = k.prev /\ l.buf = b
    BY <1>1, <2>3 DEF Client, SameFace
  <2> HIDE DEF l
  <2>6. Wired(l)
    <3>1. k.prev \in Nat /\ k.prev <= Len(k.buf)
      BY <1>1 DEF Wired, Client
    <3>2. k.prev <= Len(b)
      BY <2>2, <2>3, <3>1
    <3> QED BY <1>1, <1>3, <2>4, <2>5, <3>2 DEF Wired
  <2>7. ClientInv(l) /\ l.engine # "opening"
    BY <1>1, <2>5, <2>6, FaceKeeps DEF ClientInv, Above, SameFace
  <2>8. Quiet(l, Flush(l))
    BY <2>7, FlushQuiet
  <2> QED BY <2>1, <2>5, <2>8 DEF Quiet, SameFace
<1> QED BY <1>2, <1>3

\* emit
LEMMA EmitQuiet ==
  ASSUME NEW k, ClientInv(k), k.engine # "opening"
  PROVE  Quiet(k, SocketEmit(k, "event"))
<1>1. CASE k.ping \in {"expired", "noticed"}
  <2> DEFINE l == [k EXCEPT !.ping = "noticed"]
  <2>1. /\ SocketEmit(k, "event").c = l /\ SocketEmit(k, "event").sent = <<>>
        /\ SocketEmit(k, "event").ticks \in {<<>>, <<"expired">>}
    BY <1>1 DEF SocketEmit, Eff
  <2>2. k \in Client /\ Told(k) /\ Wired(k) /\ Above(k)
    BY DEF ClientInv
  <2>3. l \in Client /\ SameFace(k, l) /\ SameWire(k, l)
    BY <2>2 DEF Client, SameFace, SameWire
  <2> HIDE DEF l
  <2>4. ClientInv(l) /\ l.engine = k.engine /\ l.transport = k.transport
    BY <2>2, <2>3, FaceKeeps, WireKeeps DEF ClientInv, Above, SameFace, SameWire
  <2>5. ~Contains(<<>>, "connect")
    BY DEF Contains
  <2> QED BY <2>1, <2>3, <2>4, <2>5 DEF Quiet
<1>2. CASE k.ping \notin {"expired", "noticed"}
  <2>1. SocketEmit(k, "event") = SendPacket(k, "event") /\ "event" \in Sent \ {"connect"}
    BY <1>2 DEF SocketEmit, Sent
  <2> QED BY <2>1, SendQuiet
<1> QED BY <1>1, <1>2

\* _resetPingTimeout
LEMMA ArmedKeeps ==
  ASSUME NEW k, ClientInv(k)
  PROVE  /\ ClientInv(Armed(k)) /\ SameFace(k, Armed(k))
         /\ Armed(k).engine = k.engine /\ Armed(k).transport = k.transport
<1> DEFINE l == Armed(k)
<1>1. k \in Client /\ Told(k) /\ Wired(k) /\ Above(k)
  BY DEF ClientInv
<1>2. l \in Client /\ SameFace(k, l) /\ SameWire(k, l)
  BY <1>1 DEF Armed, Client, SameFace, SameWire
<1> HIDE DEF l
<1>3. ClientInv(l) /\ SameFace(k, l) /\ l.engine = k.engine /\ l.transport = k.transport
  BY <1>1, <1>2, FaceKeeps, WireKeeps DEF ClientInv, Above, SameFace, SameWire
<1> QED BY <1>3 DEF l

\* The ping is answered and the deadline moves.
LEMMA PongQuiet ==
  ASSUME NEW k, ClientInv(k), k.engine \notin {"opening", "closed"}
  PROVE  Quiet(k, EngineOnPacket(k, "ping"))
<1> DEFINE e == SendPacket(k, "pong")
<1>1. EngineOnPacket(k, "ping") = Leaving(e, Armed(e.c))
  BY Zenon DEF EngineOnPacket
<1>2. Quiet(k, e)
  BY SendQuiet DEF Sent
<1> HIDE DEF e
<1>3. /\ ClientInv(Armed(e.c)) /\ SameFace(e.c, Armed(e.c))
      /\ Armed(e.c).engine = e.c.engine /\ Armed(e.c).transport = e.c.transport
  BY <1>2, ArmedKeeps DEF Quiet
<1>4. /\ EngineOnPacket(k, "ping").c = Armed(e.c) /\ EngineOnPacket(k, "ping").ticks = e.ticks
      /\ EngineOnPacket(k, "ping").sent = e.sent
  BY <1>1 DEF Leaving, Eff
<1> QED BY <1>2, <1>3, <1>4 DEF Quiet, SameFace

\* onconnect: the page is told, and sends its size.
LEMMA ConnectFacts ==
  ASSUME NEW k, ClientInv(k), k.subs = "open"
  PROVE  LET e == SocketOnConnect(k)
         IN  /\ ClientInv(e.c) /\ e.c.subs = "open" /\ e.c.engine = "open" /\ e.c.transport = k.transport
             /\ e.ticks \in {<<>>, <<"drain">>, <<"expired">>} /\ ~Contains(e.sent, "connect")
<1> DEFINE h == [k EXCEPT !.connected = TRUE]
           g == EmitBuffered(h)
           l == ShowStatus(g, "Connected")
<1>1. k \in Client /\ Told(k) /\ Wired(k) /\ k.engine = "open" /\ k.active /\ ~k.refused
  BY DEF ClientInv, Told, Above
<1>2. SocketOnConnect(k) = SocketEmit(l, "event")
  BY DEF SocketOnConnect, OnConnect
<1>3. h \in Client /\ SameWire(k, h) /\ h.connected /\ h.subs = k.subs /\ h.active = k.active /\ h.refused = k.refused
  BY <1>1 DEF Client, SameWire
<1> HIDE DEF h
<1>4. /\ g \in Client /\ SameWire(h, g) /\ g.connected /\ g.subs = h.subs /\ g.active = h.active
      /\ g.refused = h.refused
  <2> DEFINE t == h.takenBy \/ Contains(h.receiveBuffer, "taken_over")
  <2>1. t \in BOOLEAN /\ <<>> \in Seq(Answers)
    OBVIOUS
  <2>2. g = [h EXCEPT !.takenBy = t, !.receiveBuffer = <<>>]
    BY DEF EmitBuffered
  <2> HIDE DEF t, g
  <2> QED BY <1>3, <2>1, <2>2 DEF Client, SameWire
<1> HIDE DEF g
<1>5. /\ l \in Client /\ SameWire(g, l) /\ l.subs = g.subs /\ l.active = g.active /\ l.connected = g.connected
      /\ l.refused = g.refused /\ l.status = "Connected" /\ l.label = "Disconnect"
  <2>1. g \in Client /\ "Connected" \in Texts /\ g.connected
    BY <1>4 DEF Texts
  <2> QED BY ONLY <2>1, ShowFacts
<1> HIDE DEF l
<1>6. SameWire(k, l) /\ l.subs = "open" /\ l.active /\ l.connected /\ ~l.refused
  BY <1>1, <1>3, <1>4, <1>5 DEF SameWire
<1>7. Wired(l) /\ l.engine = "open" /\ l.transport = k.transport
  BY <1>1, <1>6, WireKeeps DEF SameWire
<1>8. ClientInv(l)
  BY <1>5, <1>6, <1>7 DEF ClientInv, Told, Above
<1>9. Quiet(l, SocketEmit(l, "event"))
  BY <1>7, <1>8, EmitQuiet
<1> QED BY <1>2, <1>6, <1>7, <1>9 DEF Quiet, SameFace

\* onevent
LEMMA EventKeeps ==
  ASSUME NEW k, ClientInv(k), NEW event \in Answers, k.subs = "open"
  PROVE  LET l == SocketOnEvent(k, event)
         IN  ClientInv(l) /\ l.subs = k.subs /\ l.connected = k.connected /\ l.engine = k.engine /\ l.transport = k.transport
<1>1. k \in Client /\ Told(k) /\ Wired(k) /\ Above(k)
  BY DEF ClientInv
<1>2. CASE k.connected /\ event = "taken_over"
  <2> DEFINE l == [k EXCEPT !.takenBy = TRUE]
  <2>1. SocketOnEvent(k, event) = l
    BY <1>2 DEF SocketOnEvent, EmitEvent, OnTakenOver
  <2>2. /\ l \in Client /\ SameWire(k, l) /\ l.subs = k.subs /\ l.active = k.active /\ l.connected = k.connected
        /\ l.status = k.status /\ l.label = k.label /\ l.refused = k.refused
    BY <1>1 DEF Client, SameWire
  <2> HIDE DEF l
  <2>3. Told(l)
    BY <1>1, <1>2, <2>2 DEF Told
  <2>4. ClientInv(l) /\ l.engine = k.engine /\ l.transport = k.transport
    BY <1>1, <2>2, <2>3, WireKeeps DEF ClientInv, Above, SameWire
  <2> QED BY <2>1, <2>2, <2>4
<1>3. CASE k.connected /\ event # "taken_over"
  <2>1. SocketOnEvent(k, event) = k
    BY <1>3 DEF SocketOnEvent, EmitEvent
  <2> QED BY <2>1
<1>4. CASE ~k.connected
  <2> DEFINE b == Append(k.receiveBuffer, event)
             l == [k EXCEPT !.receiveBuffer = b]
  <2>1. SocketOnEvent(k, event) = l
    BY <1>4 DEF SocketOnEvent
  <2>2. k.receiveBuffer \in Seq(Answers)
    BY <1>1 DEF Client
  <2>3. b \in Seq(Answers)
    BY <2>2
  <2> HIDE DEF b
  <2>4. l \in Client /\ SameWire(k, l) /\ SameFace(k, l)
    BY <1>1, <2>3 DEF Client, SameWire, SameFace
  <2> HIDE DEF l
  <2>5. ClientInv(l) /\ l.engine = k.engine /\ l.transport = k.transport
    BY <1>1, <2>4, FaceKeeps, WireKeeps DEF ClientInv, Above, SameWire, SameFace
  <2> QED BY <2>1, <2>4, <2>5 DEF SameFace
<1> QED BY <1>2, <1>3, <1>4

\* _onDrain: a flush, or a close that waited.
LEMMA DrainKeeps ==
  ASSUME NEW k, ClientInv(k), k.engine # "opening"
  PROVE  LET e == OnDrain(k)
         IN  /\ ClientInv(e.c) /\ e.ticks \in {<<>>, <<"drain">>, <<"expired">>} /\ ~Contains(e.sent, "connect")
             /\ e.c.engine # "opening" /\ e.c.transport # "opening" /\ (e.c.connected => k.connected)
<1>1. k \in Client /\ Told(k) /\ Wired(k) /\ Above(k)
  BY DEF ClientInv
<1> DEFINE b == SubSeq(k.buf, k.prev + 1, Len(k.buf))
           left == [k EXCEPT !.writable = TRUE, !.buf = b, !.prev = 0]
<1>2. CASE k.engine = "closed"
  <2> DEFINE l == [k EXCEPT !.writable = TRUE]
  <2>1. OnDrain(k) = Nothing(l)
    BY <1>2 DEF OnDrain
  <2>2. /\ l \in Client /\ SameFace(k, l) /\ l.engine = k.engine /\ l.transport = k.transport
        /\ l.writable = TRUE /\ l.buf = k.buf /\ l.prev = k.prev
    BY <1>1 DEF Client, SameFace
  <2>3. ~Contains(<<>>, "connect") /\ Nothing(l).c = l /\ Nothing(l).ticks = <<>> /\ Nothing(l).sent = <<>>
    BY DEF Contains, Nothing, Eff
  <2> HIDE DEF l
  <2>4. Wired(l)
    BY <1>1, <1>2, <2>2 DEF Wired
  <2>5. ClientInv(l) /\ l.engine # "opening" /\ l.transport # "opening" /\ l.connected = k.connected
    BY <1>1, <1>2, <2>2, <2>4, FaceKeeps DEF ClientInv, Above, SameFace, Wired
  <2> QED BY <2>1, <2>3, <2>5
<1>3. CASE k.engine # "closed"
  <2>1. k.buf \in Seq(Sent) /\ Len(k.buf) \in Nat /\ k.prev \in Nat /\ k.prev <= Len(k.buf)
    BY <1>1 DEF Client, Wired
  <2>2. k.prev + 1 \in 1..(Len(k.buf) + 1) /\ Len(k.buf) \in ((k.prev + 1) - 1)..Len(k.buf)
    BY <2>1
  <2>3. /\ b \in Seq(Sent) /\ Len(b) = Len(k.buf) - (k.prev + 1) + 1
        /\ \A i \in 1..(Len(k.buf) - (k.prev + 1) + 1) : b[i] = k.buf[k.prev + 1 + i - 1]
    BY <2>1, <2>2, SubSeqProperties
  <2>4. \A i \in 1..Len(b) : b[i] # "connect"
    <3> SUFFICES ASSUME NEW i \in 1..Len(b), b[i] = "connect" PROVE FALSE
      OBVIOUS
    <3>0. i \in Nat /\ i >= 1 /\ i <= Len(k.buf) - (k.prev + 1) + 1
      BY <2>1, <2>3
    <3>1. k.prev + i \in 1..Len(k.buf) /\ k.prev + i > k.prev /\ k.prev + 1 + i - 1 = k.prev + i
      <4>1. \A p, n, m \in Nat : m >= 1 /\ m <= n - (p + 1) + 1 =>
               p + m \in 1..n /\ p + m > p /\ p + 1 + m - 1 = p + m
        OBVIOUS
      <4> QED BY ONLY <2>1, <3>0, <4>1
    <3>2. k.buf[k.prev + i] = "connect"
      BY <2>3, <2>1, <3>0, <3>1
    <3>3. k.prev + i <= k.prev
      BY <1>1, <3>1, <3>2 DEF Wired
    <3> QED BY <2>1, <3>0, <3>1, <3>3
  <2>5. Len(b) \in Nat
    BY <2>3
  <2> HIDE DEF b
  <2>6. /\ left \in Client /\ SameFace(k, left) /\ left.engine = k.engine /\ left.transport = k.transport
        /\ left.writable = TRUE /\ left.buf = b /\ left.prev = 0
    BY <1>1, <2>3 DEF Client, SameFace
  <2>7. OnDrain(k) = IF left.buf # <<>> THEN Flush(left) ELSE Nothing(IF k.closing THEN EngineOnClose(left) ELSE left)
    BY <1>3 DEF OnDrain, b
  <2> HIDE DEF left
  <2>8. Wired(left)
    BY <1>1, <1>3, <2>4, <2>5, <2>6 DEF Wired
  <2>9. ClientInv(left) /\ left.connected = k.connected
    BY <1>1, <2>6, <2>8, FaceKeeps DEF ClientInv, Above, SameFace
  <2>10. left.engine # "opening" /\ left.transport # "opening"
    BY <2>6, <2>8 DEF Wired
  <2>11. CASE left.buf # <<>>
    <3>1. OnDrain(k) = Flush(left)
      BY <2>7, <2>11
    <3>2. Quiet(left, Flush(left))
      BY <2>9, <2>10, FlushQuiet
    <3> QED BY <2>9, <2>10, <3>1, <3>2 DEF Quiet, SameFace
  <2>12. CASE left.buf = <<>> /\ ~k.closing
    <3>1. OnDrain(k) = Nothing(left)
      BY <2>7, <2>12
    <3>2. Quiet(left, Nothing(left))
      BY <2>9, NothingQuiet
    <3> QED BY <2>9, <2>10, <3>1, <3>2 DEF Quiet, SameFace
  <2>13. CASE left.buf = <<>> /\ k.closing
    <3> DEFINE l == EngineOnClose(left)
    <3>1. OnDrain(k) = Nothing(l)
      BY <2>7, <2>13
    <3>2. ClientInv(l) /\ l.engine = "closed" /\ l.transport = "closed" /\ l.subs # "open"
      BY <2>9, EngineOnCloseKeeps
    <3> HIDE DEF l
    <3>3. Quiet(l, Nothing(l))
      BY <3>2, NothingQuiet
    <3>4. ~l.connected
      BY <3>2 DEF ClientInv, Told
    <3> QED BY <3>1, <3>2, <3>3, <3>4 DEF Quiet, SameFace
  <2> QED BY <2>11, <2>12, <2>13
<1> QED BY <1>2, <1>3

\* onHandshake: the manager listens from here on, and the CONNECT packet is out.
LEMMA HandshakeFacts ==
  ASSUME NEW k, ClientInv(k), k.engine = "opening", k.transport = "open"
  PROVE  LET e == EngineOnPacket(k, "open")
         IN  /\ ClientInv(e.c) /\ e.c.subs = "open" /\ e.c.engine = "open" /\ e.c.transport = "open"
             /\ ~e.c.connected /\ e.ticks = <<"drain">>
<1>1. /\ k \in Client /\ Told(k) /\ Wired(k) /\ k.subs = "opening" /\ k.buf = <<>> /\ k.prev = 0 /\ k.writable
      /\ k.active /\ ~k.connected /\ k.status = "Connecting" /\ ~k.takenBy /\ ~k.refused
  BY DEF ClientInv, Told, Wired, Above
<1> DEFINE opened == [k EXCEPT !.engine = "open"]
           h == [opened EXCEPT !.manager = "open", !.subs = "none"]
           b == Append(h.buf, "connect")
           g == [h EXCEPT !.buf = b]
           f == [g EXCEPT !.writable = FALSE, !.prev = Len(g.buf)]
           l == [f EXCEPT !.subs = "open"]
<1>2. /\ opened \in Client /\ opened.engine = "open" /\ opened.transport = "open" /\ opened.writable
      /\ opened.buf = <<>> /\ opened.prev = 0 /\ opened.subs = "opening" /\ opened.active
      /\ ~opened.connected /\ opened.status = "Connecting" /\ ~opened.takenBy /\ ~opened.refused
  BY <1>1 DEF Client
<1>3. /\ h \in Client /\ h.engine = "open" /\ h.transport = "open" /\ h.writable
      /\ h.buf = <<>> /\ h.prev = 0 /\ h.active
      /\ ~h.connected /\ h.status = "Connecting" /\ ~h.takenBy /\ ~h.refused
  <2> HIDE DEF opened
  <2> QED BY <1>2 DEF Client
<1>4. b = <<"connect">> /\ b \in Seq(Sent) /\ Len(b) = 1 /\ b # <<>> /\ b[1] = "connect"
  <2> HIDE DEF h
  <2> QED BY <1>3 DEF Sent
<1>5. /\ g \in Client /\ g.engine = "open" /\ g.transport = "open" /\ g.writable
      /\ g.buf = b /\ g.prev = 0 /\ g.active
      /\ ~g.connected /\ g.status = "Connecting" /\ ~g.takenBy /\ ~g.refused
  <2> HIDE DEF h, b
  <2> QED BY <1>3, <1>4 DEF Client
<1>6. /\ f \in Client /\ f.engine = "open" /\ f.transport = "open" /\ ~f.writable
      /\ f.buf = b /\ f.prev = 1 /\ f.active
      /\ ~f.connected /\ f.status = "Connecting" /\ ~f.takenBy /\ ~f.refused
  <2> HIDE DEF g, b
  <2>1. Len(g.buf) = 1 /\ 1 \in Nat
    BY <1>4, <1>5
  <2>2. f = [g EXCEPT !.writable = FALSE, !.prev = 1]
    BY <2>1
  <2> HIDE DEF f
  <2> QED BY <1>5, <2>1, <2>2 DEF Client
<1>7. /\ l \in Client /\ l.engine = "open" /\ l.transport = "open" /\ ~l.writable
      /\ l.buf = b /\ l.prev = 1 /\ l.active /\ l.subs = "open"
      /\ ~l.connected /\ l.status = "Connecting" /\ ~l.takenBy /\ ~l.refused
  <2> HIDE DEF f, b
  <2> QED BY <1>6 DEF Client
<1>8. SendPacket(h, "connect") = Eff(f, <<"drain">>, g.buf)
  <2>1. SendPacket(h, "connect") = Flush(g)
    <3> HIDE DEF h
    <3> QED BY <1>3 DEF SendPacket
  <2>2. Flush(g) = Eff(f, <<"drain">>, g.buf)
    <3> HIDE DEF g
    <3> QED BY <1>4, <1>5 DEF Flush
  <2> QED BY <2>1, <2>2
<1> HIDE DEF f
<1>9. ManagerOnOpen(opened) = Eff(l, <<"drain">>, g.buf)
  <2> HIDE DEF g
  <2>1. ManagerOnOpen(opened) = Leaving(SendPacket(h, "connect"), [SendPacket(h, "connect").c EXCEPT !.subs = "open"])
    <3> HIDE DEF opened
    <3> QED BY DEF ManagerOnOpen
  <2> HIDE DEF h
  <2> QED BY <1>8, <2>1 DEF Leaving, Eff
<1> HIDE DEF l, b
<1>10. Wired(l) /\ Told(l) /\ Above(l)
  BY <1>4, <1>7 DEF Wired, Told, Above
<1>11. ClientInv(l)
  BY <1>7, <1>10 DEF ClientInv
<1>12. Flush(l) = Nothing(l)
  BY <1>7 DEF Flush
<1> DEFINE told == ManagerOnOpen(opened)
           flushed == Then(told, Flush)
<1>13. flushed.c = l /\ flushed.ticks = <<"drain">>
  <2> HIDE DEF g, opened
  <2>1. told.c = l /\ told.ticks = <<"drain">>
    BY <1>9 DEF Eff
  <2>2. <<"drain">> \o <<>> = <<"drain">>
    OBVIOUS
  <2> HIDE DEF told
  <2>3. flushed.c = Flush(told.c).c /\ flushed.ticks = told.ticks \o Flush(told.c).ticks
    BY DEF Then, Eff
  <2>4. Nothing(l).c = l /\ Nothing(l).ticks = <<>>
    BY DEF Nothing, Eff
  <2> QED BY <1>12, <2>1, <2>2, <2>3, <2>4
<1>14. EngineOnPacket(k, "open") = OnHandshake(k)
  BY Zenon DEF EngineOnPacket
<1>15. OnHandshake(k) = IF flushed.c.engine = "closed" THEN flushed ELSE Leaving(flushed, Armed(flushed.c))
  BY <1>1 DEF OnHandshake
<1> HIDE DEF flushed
<1>16. OnHandshake(k).c = Armed(l) /\ OnHandshake(k).ticks = <<"drain">>
  BY <1>7, <1>13, <1>15 DEF Leaving, Eff
<1>17. ClientInv(Armed(l)) /\ SameFace(l, Armed(l)) /\ Armed(l).engine = l.engine /\ Armed(l).transport = l.transport
  BY <1>11, ArmedKeeps
<1> QED BY <1>7, <1>14, <1>16, <1>17 DEF SameFace

-----------------------------------------------------------------------------
(* The steps *)

LEMMA HasTail ==
  ASSUME NEW s \in Seq(Packets), s # <<>>
  PROVE  /\ Tail(s) \in Seq(Packets)
         /\ \A p : Has(Tail(s), p) => Has(s, p)
<1>1. Tail(s) \in Seq(Packets) /\ Len(Tail(s)) = Len(s) - 1 /\ \A i \in 1..Len(Tail(s)) : Tail(s)[i] = s[i + 1]
  BY HeadTailProperties
<1>2. Len(s) \in Nat
  OBVIOUS
<1>3. \A i \in 1..Len(Tail(s)) : i + 1 \in 1..Len(s)
  BY <1>1, <1>2
<1> QED BY <1>1, <1>3 DEF Has

\* A step of the client that handles no CONNECT answer: nothing comes under way.
LEMMA ProtocolKeeps ==
  ASSUME PageInv, NEW left, left = down \/ (left = Tail(down) /\ down # <<>>),
         ClientInv(c'), c'.engine # "opening",
         c.engine = "opening" => c'.transport = "closed",
         c'.connected => c.connected,
         ticks' \in {<<>>, <<"drain">>, <<"expired">>},
         down' = IF c'.transport = "closed" THEN <<>> ELSE left,
         asked' \in BOOLEAN, asked' => asked, srv' = srv
  PROVE  PageInv'
<1>1. left \in Seq(Packets) /\ \A p : Has(left, p) => Has(down, p)
  BY HasTail DEF PageInv
<1>2. <<>> \in Seq(Packets) /\ \A p : ~Has(<<>>, p)
  BY DEF Has
<1>3. down' \in Seq(Packets) /\ \A p : Has(down', p) => Has(down, p)
  BY <1>1, <1>2
<1>4. \A p \in Answers : ticks' # <<p>>
  BY DEF Answers
<1>5. \A p \in Answers : UnderWay(p)' => UnderWay(p)
  BY <1>3, <1>4 DEF UnderWay, Has
<1>6. c'.transport # "opening"
  BY DEF ClientInv, Wired
<1>7. c.engine # "opening" => ~Has(down', "open")
  BY <1>3 DEF PageInv, Protocol
<1>8. c.engine = "opening" => ~Has(down', "open")
  BY <1>2
<1>9. "connect" \in Answers /\ "connect_error" \in Answers
  BY DEF Answers
<1>10. Protocol'
  <2>1. ticks' = <<>> \/ \E p \in Answers \cup {"drain", "expired"} : ticks' = <<p>>
    OBVIOUS
  <2>2. ~Has(down', "open")
    BY <1>7, <1>8
  <2>3. asked' => srv' = "engine"
    BY DEF PageInv, Protocol
  <2>4. srv' \in {"none", "engine", "connecting", "over early"} =>
          ~c'.connected /\ ~UnderWay("connect")' /\ ~UnderWay("connect_error")'
    BY <1>5, <1>9 DEF PageInv, Protocol
  <2>5. UnderWay("connect_error")' => ~c'.connected /\ ~UnderWay("connect")'
    BY <1>5, <1>9 DEF PageInv, Protocol
  <2> QED BY <1>4, <1>6, <2>1, <2>2, <2>3, <2>4, <2>5 DEF Protocol, Has
<1> QED BY <1>3, <1>10 DEF PageInv

\* What a call leaves becomes the state.
LEMMA BecomesFacts ==
  ASSUME NEW e, NEW left, Becomes(e, <<>>, left), asked \in BOOLEAN,
         e.ticks = <<>> \/ \E p : e.ticks = <<p>>
  PROVE  /\ c' = e.c /\ ticks' = e.ticks /\ asked' \in BOOLEAN
         /\ down' = IF c'.transport = "closed" THEN <<>> ELSE left
         /\ ~Contains(e.sent, "connect") => (asked' => asked)
<1>1. <<>> \o e.ticks = e.ticks
  <2>1. <<>> \o <<>> = <<>> /\ \A p : <<>> \o <<p>> = <<p>>
    OBVIOUS
  <2> QED BY <2>1
<1>2. asked' = (asked \/ (net = "up" /\ Contains(e.sent, "connect")))
  BY DEF Becomes
<1>3. asked' \in BOOLEAN /\ (~Contains(e.sent, "connect") => (asked' => asked))
  BY <1>2
<1> QED BY <1>1, <1>3 DEF Becomes

\* The page as it is loaded.
Fresh == c = NewPage /\ ticks = <<>> /\ asked = FALSE /\ down = <<>> /\ srv = "none"

LEMMA FreshInv == Fresh => PageInv
<1> SUFFICES ASSUME Fresh PROVE PageInv
  OBVIOUS
<1>1. <<>> \in Seq(Sent) /\ <<>> \in Seq(Answers) /\ <<>> \in Seq(Packets) /\ Len(<<>>) = 0
  OBVIOUS
<1>2. NewPage \in Client
  BY <1>1 DEF NewPage, Client, Texts
<1>3. Told(NewPage) /\ Wired(NewPage) /\ Above(NewPage)
  BY <1>1 DEF NewPage, Told, Wired, Above
<1>4. NewPage.transport = "opening" /\ NewPage.engine = "opening" /\ ~NewPage.connected
  BY DEF NewPage
<1>5. ~UnderWay("connect") /\ ~UnderWay("connect_error")
  BY <1>1 DEF Fresh, UnderWay, Has
<1> QED BY <1>1, <1>2, <1>3, <1>4, <1>5 DEF Fresh, PageInv, ClientInv, Protocol

\* A close or an error of the engine, whoever noticed it.
LEMMA ClosedKeeps ==
  ASSUME PageInv, NEW l, ClientInv(l), l.engine = "closed", l.subs # "open", Task(Nothing(l))
  PROVE  PageInv'
<1>1. /\ Becomes(Nothing(l), <<>>, down) /\ srv' = srv /\ asked \in BOOLEAN
      /\ Nothing(l).c = l /\ Nothing(l).ticks = <<>> /\ Nothing(l).sent = <<>>
  BY DEF Task, Nothing, Eff, PageInv
<1>2. ~Contains(<<>>, "connect")
  BY DEF Contains
<1>3. /\ c' = l /\ ticks' = <<>> /\ asked' \in BOOLEAN /\ (asked' => asked)
      /\ down' = IF c'.transport = "closed" THEN <<>> ELSE down
  BY <1>1, <1>2, BecomesFacts
<1>4. l.transport = "closed" /\ ~l.connected
  BY DEF ClientInv, Wired, Told
<1> QED BY <1>1, <1>3, <1>4, ProtocolKeeps

\* The page sends something, and may close behind it.
LEMMA QuietKeeps ==
  ASSUME PageInv, NEW e, Quiet(c, e), c.engine # "opening",
         NEW left, left = down \/ (left = Tail(down) /\ down # <<>>),
         Becomes(e, <<>>, left), srv' = srv
  PROVE  PageInv'
<1>1. /\ c' = e.c /\ ticks' = e.ticks /\ asked' \in BOOLEAN /\ (asked' => asked)
      /\ down' = IF c'.transport = "closed" THEN <<>> ELSE left
  BY BecomesFacts DEF Quiet, PageInv
<1>2. ClientInv(c') /\ c'.engine # "opening" /\ (c'.connected => c.connected)
  BY <1>1 DEF Quiet, SameFace
<1> QED BY <1>1, <1>2, ProtocolKeeps DEF Quiet

\* A decoded packet is handled.
LEMMA PacketKeeps ==
  ASSUME PageInv, NEW p \in Answers, ticks = <<p>>,
         Becomes(RunTick(c, p), <<>>, down), srv' = srv
  PROVE  PageInv'
<1>1. ClientInv(c) /\ c.subs = "open" /\ c.active /\ c.engine = "open" /\ asked \in BOOLEAN
  BY DEF PageInv, Protocol, ClientInv, Told, Above
<1>2. c.transport = "open"
  BY <1>1 DEF ClientInv, Wired, Client
<1>3. RunTick(c, p) = SocketOnPacket(c, p)
  <2>1. p # "drain" /\ p # "expired"
    BY DEF Answers
  <2> QED BY <1>1, <2>1, Zenon DEF RunTick
<1>4. ~Contains(<<>>, "connect")
  BY DEF Contains
<1>5. CASE p = "connect"
  <2> DEFINE e == SocketOnConnect(c)
  <2>1. RunTick(c, p) = e
    BY <1>3, <1>5, Zenon DEF SocketOnPacket
  <2>2. /\ ClientInv(e.c) /\ e.c.subs = "open" /\ e.c.engine = "open" /\ e.c.transport = c.transport
        /\ e.ticks \in {<<>>, <<"drain">>, <<"expired">>} /\ ~Contains(e.sent, "connect")
    BY <1>1, ConnectFacts
  <2> HIDE DEF e
  <2>3. /\ c' = e.c /\ ticks' = e.ticks /\ asked' \in BOOLEAN /\ (asked' => asked)
        /\ down' = IF c'.transport = "closed" THEN <<>> ELSE down
    BY <1>1, <2>1, <2>2, BecomesFacts
  <2>4. down' = down /\ UnderWay("connect")
    BY <1>2, <1>5, <2>2, <2>3 DEF UnderWay
  <2>5. \A q \in Answers : ticks' # <<q>>
    <3>1. ticks' \in {<<>>, <<"drain">>, <<"expired">>}
      BY <2>2, <2>3
    <3> QED BY ONLY <3>1 DEF Answers
  <2>6. srv \notin {"none", "engine", "connecting", "over early"} /\ ~UnderWay("connect_error")
    BY <2>4 DEF PageInv, Protocol
  <2>7. ~UnderWay("connect_error")'
    BY <2>4, <2>5, <2>6 DEF UnderWay, Has, Answers
  <2>8. c'.engine = "open" /\ c'.transport = "open" /\ ~Has(down', "open")
    BY <1>1, <1>2, <2>2, <2>3, <2>4 DEF PageInv, Protocol
  <2>9. ticks' = <<>> \/ \E q \in Answers \cup {"drain", "expired"} : ticks' = <<q>>
    BY <2>2, <2>3
  <2>10. asked' => srv' = "engine"
    BY <2>3 DEF PageInv, Protocol
  <2>11. Protocol'
    BY <2>5, <2>6, <2>7, <2>8, <2>9, <2>10 DEF Protocol, Has
  <2> QED BY <2>2, <2>3, <2>4, <2>11 DEF PageInv
<1>6. CASE p \in {"output", "taken_over"}
  <2> DEFINE l == SocketOnEvent(c, p)
  <2>1. RunTick(c, p) = Nothing(l)
    BY <1>3, <1>6, Zenon DEF SocketOnPacket
  <2>2. ClientInv(l) /\ l.subs = c.subs /\ l.connected = c.connected /\ l.engine = c.engine /\ l.transport = c.transport
    BY <1>1, EventKeeps
  <2> HIDE DEF l
  <2>3. Nothing(l).c = l /\ Nothing(l).ticks = <<>> /\ Nothing(l).sent = <<>>
    BY DEF Nothing, Eff
  <2>4. /\ c' = l /\ ticks' = <<>> /\ asked' \in BOOLEAN /\ (asked' => asked)
        /\ down' = IF c'.transport = "closed" THEN <<>> ELSE down
    BY <1>1, <1>4, <2>1, <2>3, BecomesFacts
  <2> QED BY <1>1, <2>2, <2>4, ProtocolKeeps
<1>7. ASSUME NEW l, RunTick(c, p) = Nothing(l), ClientInv(l), ~l.connected, l.engine \in {"closing", "closed"}
      PROVE  PageInv'
  <2>1. Nothing(l).c = l /\ Nothing(l).ticks = <<>> /\ Nothing(l).sent = <<>>
    BY DEF Nothing, Eff
  <2>2. /\ c' = l /\ ticks' = <<>> /\ asked' \in BOOLEAN /\ (asked' => asked)
        /\ down' = IF c'.transport = "closed" THEN <<>> ELSE down
    BY <1>1, <1>4, <1>7, <2>1, BecomesFacts
  <2> QED BY <1>1, <1>7, <2>2, ProtocolKeeps
<1>8. CASE p = "disconnect"
  <2>1. RunTick(c, p) = Nothing(SocketOnClose(Destroy(c)))
    BY <1>3, <1>8, Zenon DEF SocketOnPacket
  <2> QED BY <1>1, <1>7, <2>1, EndKeeps
<1>9. CASE p = "connect_error"
  <2>1. RunTick(c, p) = Nothing([OnConnectError(Destroy(c), "Refused") EXCEPT !.refused = TRUE])
    BY <1>3, <1>9, Zenon DEF SocketOnPacket
  <2>2. ~c.connected
    BY <1>9 DEF PageInv, Protocol, UnderWay
  <2> QED BY <1>1, <1>7, <2>1, <2>2, RefusedKeeps
<1> QED BY <1>5, <1>6, <1>8, <1>9 DEF Answers

LEMMA MicrotaskKeeps ==
  ASSUME PageInv, Microtask
  PROVE  PageInv'
<1>1. PICK p \in Answers \cup {"drain", "expired"} : ticks = <<p>>
  BY DEF PageInv, Protocol, Microtask
<1>2. Head(ticks) = p /\ Tail(ticks) = <<>>
  BY <1>1
<1>3. Becomes(RunTick(c, p), <<>>, down) /\ srv' = srv
  BY <1>2 DEF Microtask
<1>4. c.engine # "opening" /\ ClientInv(c) /\ asked \in BOOLEAN
  BY <1>1 DEF PageInv, Protocol
<1>5. CASE p = "drain"
  <2> DEFINE e == OnDrain(c)
  <2>1. RunTick(c, p) = e
    BY <1>5, Zenon DEF RunTick
  <2>2. /\ ClientInv(e.c) /\ e.ticks \in {<<>>, <<"drain">>, <<"expired">>} /\ ~Contains(e.sent, "connect")
        /\ e.c.engine # "opening" /\ e.c.transport # "opening" /\ (e.c.connected => c.connected)
    BY <1>4, DrainKeeps
  <2> HIDE DEF e
  <2>3. /\ c' = e.c /\ ticks' = e.ticks /\ asked' \in BOOLEAN /\ (asked' => asked)
        /\ down' = IF c'.transport = "closed" THEN <<>> ELSE down
    BY <1>3, <1>4, <2>1, <2>2, BecomesFacts
  <2> QED BY <1>3, <1>4, <2>2, <2>3, ProtocolKeeps
<1>6. CASE p = "expired"
  <2> DEFINE l == EngineOnClose(c)
  <2>1. RunTick(c, p) = Nothing(l)
    BY <1>6, Zenon DEF RunTick
  <2>2. ClientInv(l) /\ l.engine = "closed" /\ l.transport = "closed" /\ l.subs # "open"
    BY <1>4, EngineOnCloseKeeps
  <2> HIDE DEF l
  <2>3. /\ Nothing(l).c = l /\ Nothing(l).ticks = <<>> /\ Nothing(l).sent = <<>>
        /\ ~Contains(<<>>, "connect")
    BY DEF Nothing, Eff, Contains
  <2>4. /\ c' = l /\ ticks' = <<>> /\ asked' \in BOOLEAN /\ (asked' => asked)
        /\ down' = IF c'.transport = "closed" THEN <<>> ELSE down
    BY <1>3, <1>4, <2>1, <2>3, BecomesFacts
  <2>5. ~l.connected
    BY <2>2 DEF ClientInv, Told
  <2> QED BY <1>3, <1>4, <2>2, <2>4, <2>5, ProtocolKeeps
<1>7. CASE p \in Answers
  BY <1>1, <1>3, <1>7, PacketKeeps
<1> QED BY <1>5, <1>6, <1>7

\* A packet arrives.
LEMMA MessageKeeps ==
  ASSUME PageInv, Message
  PROVE  PageInv'
<1>1. /\ ticks = <<>> /\ c.transport = "open" /\ down # <<>> /\ down \in Seq(Packets)
      /\ ClientInv(c) /\ asked \in BOOLEAN /\ c.engine # "closed"
  BY DEF Message, PageInv, ClientInv, Wired
<1> DEFINE p == Head(down)
           e == EngineOnPacket(c, p)
<1>2. p \in Packets /\ p = down[1] /\ Len(down) >= 1 /\ Len(down) \in Nat
  BY <1>1, HeadTailProperties
<1>3. Has(down, p)
  BY <1>2 DEF Has
<1>4. Becomes(e, <<>>, Tail(down)) /\ srv' = srv
  BY DEF Message
<1>5. ~Contains(<<>>, "connect")
  BY DEF Contains
<1> HIDE DEF p
<1>6. CASE c.engine = "opening"
  <2>1. down = <<"open">> /\ srv = "engine" /\ p = "open"
    BY <1>1, <1>6 DEF PageInv, Protocol, p
  <2>2. /\ ClientInv(e.c) /\ e.c.subs = "open" /\ e.c.engine = "open" /\ e.c.transport = "open"
        /\ ~e.c.connected /\ e.ticks = <<"drain">>
    BY <1>1, <1>6, <2>1, HandshakeFacts
  <2> HIDE DEF e
  <2>3. c' = e.c /\ ticks' = e.ticks /\ asked' \in BOOLEAN /\ down' = Tail(down)
    BY <1>1, <1>4, <2>2, BecomesFacts
  <2>4. Tail(down) = <<>> /\ <<>> \in Seq(Packets)
    BY <2>1
  <2>5. ~Has(down', "open") /\ ~UnderWay("connect")' /\ ~UnderWay("connect_error")'
    BY <2>2, <2>3, <2>4 DEF UnderWay, Has
  <2>6. \A q \in Answers : ticks' # <<q>>
    BY <2>2, <2>3 DEF Answers
  <2>7. Protocol'
    BY <1>4, <2>1, <2>2, <2>3, <2>5, <2>6 DEF Protocol, Has
  <2> QED BY <1>4, <2>1, <2>2, <2>3, <2>4, <2>7 DEF PageInv
<1>7. CASE c.engine # "opening" /\ p = "ping"
  <2>1. Quiet(c, e)
    BY <1>1, <1>7, PongQuiet
  <2> QED BY <1>1, <1>4, <1>7, <2>1, QuietKeeps
<1>8. CASE c.engine # "opening" /\ p # "ping"
  <2>1. p # "open" /\ p \in Answers
    BY <1>2, <1>3, <1>8 DEF PageInv, Protocol, Packets
  <2>2. e = IF c.subs = "open" THEN Eff(c, <<p>>, <<>>) ELSE Nothing(c)
    BY <1>1, <1>8, <2>1, Zenon DEF EngineOnPacket
  <2>3. e.c = c /\ e.sent = <<>> /\ e.ticks = IF c.subs = "open" THEN <<p>> ELSE <<>>
    BY <2>2 DEF Eff, Nothing
  <2>4. CASE c.subs # "open"
    <3>1. e.ticks = <<>>
      BY <2>3, <2>4
    <3>2. Quiet(c, e)
      BY <1>1, <1>5, <2>3, <3>1 DEF Quiet, SameFace
    <3> QED BY <1>1, <1>4, <1>8, <3>2, QuietKeeps
  <2>5. CASE c.subs = "open"
    <3>1. e.ticks = <<p>>
      BY <2>3, <2>5
    <3> HIDE DEF e
    <3>2. c' = c /\ ticks' = <<p>> /\ asked' \in BOOLEAN /\ (asked' => asked) /\ down' = Tail(down)
      BY <1>1, <1>4, <1>5, <2>3, <3>1, BecomesFacts
    <3>3. Tail(down) \in Seq(Packets) /\ \A q : Has(Tail(down), q) => Has(down, q)
      BY <1>1, HasTail
    <3>4. \A q \in Answers : UnderWay(q)' => UnderWay(q)
      BY <1>3, <3>2, <3>3 DEF UnderWay
    <3>5. "connect" \in Answers /\ "connect_error" \in Answers
      BY DEF Answers
    <3>6. ~Has(down', "open")
      BY <1>8, <3>2, <3>3 DEF PageInv, Protocol
    <3>7. srv' \in {"none", "engine", "connecting", "over early"} =>
            ~c'.connected /\ ~UnderWay("connect")' /\ ~UnderWay("connect_error")'
      BY <1>4, <3>2, <3>4, <3>5 DEF PageInv, Protocol
    <3>8. UnderWay("connect_error")' => ~c'.connected /\ ~UnderWay("connect")'
      BY <3>2, <3>4, <3>5 DEF PageInv, Protocol
    <3>9. asked' => srv' = "engine"
      BY <1>4, <3>2 DEF PageInv, Protocol
    <3>10. Protocol'
      BY <1>1, <1>8, <2>1, <2>5, <3>2, <3>6, <3>7, <3>8, <3>9 DEF Protocol, Has
    <3> QED BY <1>1, <1>4, <3>2, <3>3, <3>10 DEF PageInv
  <2> QED BY <2>4, <2>5
<1> QED BY <1>6, <1>7, <1>8

LEMMA PageTaskKeeps ==
  ASSUME PageInv, WsFails \/ WsCloses \/ Offline \/ PingTimeout \/ ConnectTimeout \/ Types \/ ClickDisconnect
  PROVE  PageInv'
<1>1. ClientInv(c) /\ asked \in BOOLEAN
  BY DEF PageInv
<1>2. CASE WsFails
  <2>1. Task(Nothing(EngineOnError(c, "websocket error")))
    BY <1>2 DEF WsFails
  <2> QED BY <1>1, <2>1, EngineOnErrorKeeps, ClosedKeeps
<1>3. CASE WsCloses \/ Offline \/ PingTimeout
  <2>1. Task(Nothing(EngineOnClose(c)))
    BY <1>3 DEF WsCloses, Offline, PingTimeout
  <2> QED BY <1>1, <2>1, EngineOnCloseKeeps, ClosedKeeps
<1>4. CASE ConnectTimeout
  <2> DEFINE h == OpenError(c, "timeout")
             l == EngineClose(h)
  <2>1. c.subs = "opening" /\ Task(Nothing(l))
    BY <1>4 DEF ConnectTimeout
  <2>2. h \in Client /\ Wired(h) /\ Told(h) /\ h.subs = "none" /\ h.engine = c.engine
    BY <1>1, <2>1, OpenErrorFacts
  <2> HIDE DEF h
  <2>3. l \in Client /\ SameFace(h, l) /\ Wired(l)
    BY <2>2, CloseFacts
  <2>4. c.engine \in {"opening", "closed"}
    BY <1>1, <2>1 DEF ClientInv, Above
  <2>5. l.engine = "closed"
    <3>1. CASE c.engine = "closed"
      BY <2>2, <3>1 DEF EngineClose
    <3>2. CASE c.engine = "opening"
      <4>1. l = EngineShut(h)
        BY <2>2, <3>2 DEF EngineClose, Wired
      <4> QED BY <2>2, <4>1, ShutFacts
    <3> QED BY <2>4, <3>1, <3>2
  <2> HIDE DEF l
  <2>6. ClientInv(l) /\ l.subs # "open"
    BY <2>2, <2>3, <2>5, FaceKeeps DEF ClientInv, Above, SameFace
  <2> QED BY <2>1, <2>5, <2>6, ClosedKeeps
<1>5. ASSUME c.connected PROVE c.subs = "open" /\ c.engine = "open"
  BY <1>1, <1>5 DEF ClientInv, Told, Above
<1>6. CASE Types
  <2>1. c.connected /\ Becomes(SocketEmit(c, "event"), <<>>, down) /\ srv' = srv
    BY <1>6 DEF Types, Task
  <2>2. Quiet(c, SocketEmit(c, "event"))
    BY <1>1, <1>5, <2>1, EmitQuiet
  <2> QED BY <1>5, <2>1, <2>2, QuietKeeps
<1>7. CASE ClickDisconnect
  <2> DEFINE sent == SendPacket(c, "disconnect")
             l == SocketOnClose(Destroy(sent.c))
             e == Leaving(sent, l)
  <2>1. c.connected /\ Becomes(e, <<>>, down) /\ srv' = srv
    BY <1>7 DEF ClickDisconnect, Task
  <2>2. Quiet(c, sent)
    BY <1>1, <1>5, <2>1, SendQuiet DEF Sent
  <2> HIDE DEF sent
  <2>3. ClientInv(sent.c) /\ sent.c.subs = "open"
    BY <1>5, <2>1, <2>2 DEF Quiet, SameFace
  <2>4. ClientInv(l) /\ ~l.connected /\ l.subs = "none" /\ l.engine \in {"closing", "closed"}
    BY <2>3, EndKeeps
  <2> HIDE DEF l
  <2>5. e.c = l /\ e.ticks = sent.ticks /\ e.sent = sent.sent
    BY DEF Leaving, Eff
  <2> HIDE DEF e
  <2>6. e.ticks \in {<<>>, <<"drain">>, <<"expired">>} /\ ~Contains(e.sent, "connect")
    BY <2>2, <2>5 DEF Quiet
  <2>7. /\ c' = e.c /\ ticks' = e.ticks /\ asked' \in BOOLEAN /\ (asked' => asked)
        /\ down' = IF c'.transport = "closed" THEN <<>> ELSE down
    BY <1>1, <2>1, <2>6, BecomesFacts
  <2> QED BY <1>5, <2>1, <2>4, <2>5, <2>6, <2>7, ProtocolKeeps
<1> QED BY <1>2, <1>3, <1>4, <1>6, <1>7

\* The server sends a packet.
LEMMA SendsFacts ==
  ASSUME NEW packet \in Packets, down \in Seq(Packets), SrvSends(packet)
  PROVE  /\ down' \in Seq(Packets)
         /\ \A p : Has(down', p) => Has(down, p) \/ p = packet
         /\ c.transport # "open" => down' = down
<1>1. CASE c.transport # "open"
  BY <1>1 DEF SrvSends
<1>2. CASE c.transport = "open"
  <2>1. down' = Append(down, packet)
    BY <1>2 DEF SrvSends
  <2>2. /\ down' \in Seq(Packets) /\ Len(down') = Len(down) + 1 /\ Len(down) \in Nat
        /\ \A i \in 1..Len(down) : down'[i] = down[i]
        /\ down'[Len(down) + 1] = packet
    BY <2>1
  <2>3. \A i \in 1..Len(down') : i \in 1..Len(down) \/ i = Len(down) + 1
    BY <2>2
  <2> QED BY <1>2, <2>2, <2>3 DEF Has
<1> QED BY <1>1, <1>2

\* The network and the server: where they are tells what they may still send.
LEMMA ServerKeeps ==
  ASSUME PageInv, SrvReceives \/ SrvAnswers \/ SrvOutput \/ SrvTakenOver \/ SrvEnds \/ SrvPing
  PROVE  PageInv'
<1>1. c' = c /\ ticks' = ticks /\ ClientInv(c) /\ down \in Seq(Packets) /\ asked \in BOOLEAN
  BY DEF PageInv, SrvReceives, SrvAnswers, SrvOutput, SrvTakenOver, SrvEnds, SrvPing
<1>2. ClientInv(c')
  BY <1>1
<1>3. CASE SrvReceives
  <2>1. asked /\ asked' = FALSE /\ srv' = "connecting" /\ down' = down
    BY <1>3 DEF SrvReceives
  <2>2. c.engine # "opening" /\ srv = "engine"
    BY <2>1 DEF PageInv, Protocol
  <2>3. \A p : UnderWay(p)' <=> UnderWay(p)
    BY <1>1, <2>1 DEF UnderWay
  <2>4. Protocol'
    BY <1>1, <2>1, <2>2, <2>3 DEF PageInv, Protocol, ClientInv, Wired
  <2> QED BY <1>1, <1>2, <2>1, <2>4 DEF PageInv
<1>4. CASE SrvPing
  <2>1. SrvSends("ping") /\ srv' = srv /\ asked' = asked /\ "ping" \in Packets /\ srv # "none" /\ down = <<>>
    BY <1>4 DEF SrvPing, Packets
  <2>2. down' \in Seq(Packets) /\ (\A p : Has(down', p) => Has(down, p) \/ p = "ping") /\ (c.transport # "open" => down' = down)
    BY <1>1, <2>1, SendsFacts
  <2>3. c.engine # "opening"
    BY <1>1, <2>1 DEF PageInv, Protocol, ClientInv, Wired, Client
  <2>4. \A p \in Answers : UnderWay(p)' => UnderWay(p)
    BY <1>1, <2>2 DEF UnderWay, Answers
  <2>5. "connect" \in Answers /\ "connect_error" \in Answers
    BY DEF Answers
  <2>6. c.transport # "opening"
    BY <2>3 DEF PageInv, ClientInv, Wired
  <2>7. Protocol'
    BY <1>1, <2>1, <2>2, <2>3, <2>4, <2>5, <2>6 DEF PageInv, Protocol
  <2> QED BY <1>1, <1>2, <2>1, <2>2, <2>7 DEF PageInv
<1>5. ASSUME srv \in {"connecting", "connected", "over early"}
      PROVE  c.engine # "opening" /\ c.transport # "opening" /\ ~asked
  BY <1>1, <1>5 DEF PageInv, Protocol, ClientInv, Wired, Client
<1>6. ASSUME NEW packet \in {"output", "disconnect"}, SrvSends(packet), srv = "connected",
             srv' \in {"connected", "over"}, asked' = asked
      PROVE  PageInv'
  <2>1. packet \in Packets
    BY DEF Packets, Answers
  <2>2. down' \in Seq(Packets) /\ (\A p : Has(down', p) => Has(down, p) \/ p = packet) /\ (c.transport # "open" => down' = down)
    BY <1>1, <1>6, <2>1, SendsFacts
  <2>3. c.engine # "opening" /\ c.transport # "opening" /\ ~asked
    BY <1>5, <1>6
  <2>4. (UnderWay("connect")' => UnderWay("connect")) /\ (UnderWay("connect_error")' => UnderWay("connect_error"))
    BY <1>1, <2>2 DEF UnderWay
  <2>5. ~Has(down', "open")
    BY <2>2, <2>3 DEF PageInv, Protocol
  <2>6. Protocol'
    BY <1>1, <1>6, <2>2, <2>3, <2>4, <2>5 DEF PageInv, Protocol
  <2> QED BY <1>1, <1>2, <1>6, <2>2, <2>6 DEF PageInv
<1>7. CASE SrvOutput
  BY <1>7, <1>6 DEF SrvOutput
<1>8. CASE SrvEnds
  BY <1>8, <1>6 DEF SrvEnds
<1>9. CASE SrvAnswers
  <2>1. PICK packet \in {"connect", "connect_error"} :
          SrvSends(packet) /\ srv \in {"connecting", "over early"} /\ srv' \in {"connected", "over"} /\ asked' = asked
    BY <1>9 DEF SrvAnswers
  <2>2. packet \in Packets
    BY DEF Packets, Answers
  <2>3. down' \in Seq(Packets) /\ (\A p : Has(down', p) => Has(down, p) \/ p = packet) /\ (c.transport # "open" => down' = down)
    BY <1>1, <2>1, <2>2, SendsFacts
  <2>4. c.engine # "opening" /\ c.transport # "opening" /\ ~asked
    BY <1>5, <2>1
  <2>5. ~c.connected /\ ~UnderWay("connect") /\ ~UnderWay("connect_error")
    BY <2>1 DEF PageInv, Protocol
  <2>6. UnderWay("connect_error")' => ~UnderWay("connect")'
    BY <1>1, <2>3, <2>5 DEF UnderWay
  <2>7. ~Has(down', "open")
    BY <2>3, <2>4 DEF PageInv, Protocol
  <2>8. Protocol'
    BY <1>1, <2>1, <2>3, <2>4, <2>5, <2>6, <2>7 DEF PageInv, Protocol
  <2> QED BY <1>1, <1>2, <2>1, <2>3, <2>8 DEF PageInv
<1>10. CASE SrvTakenOver
  <2>1. /\ srv \in {"connecting", "connected"} /\ asked' = asked
        /\ down' = IF c.transport = "open" THEN down \o <<"taken_over", "disconnect">> ELSE down
        /\ srv' = IF srv = "connecting" THEN "over early" ELSE "over"
    BY <1>10 DEF SrvTakenOver
  <2>2. down' \in Seq(Packets) /\ (\A p : Has(down', p) => Has(down, p) \/ p \in {"taken_over", "disconnect"})
    <3> DEFINE two == <<"taken_over", "disconnect">>
               long == down \o two
    <3>1. two \in Seq(Packets) /\ Len(two) = 2 /\ two[1] = "taken_over" /\ two[2] = "disconnect"
      BY DEF Packets, Answers
    <3> HIDE DEF two
    <3>2. /\ long \in Seq(Packets) /\ Len(long) = Len(down) + Len(two) /\ Len(down) \in Nat
          /\ \A i \in 1..(Len(down) + Len(two)) : long[i] = IF i <= Len(down) THEN down[i] ELSE two[i - Len(down)]
      <4>1. down \in Seq(Packets) /\ two \in Seq(Packets) /\ Len(down) \in Nat
        BY <1>1, <3>1
      <4>2. /\ down \o two \in Seq(Packets) /\ Len(down \o two) = Len(down) + Len(two)
            /\ \A i \in 1..Len(down) + Len(two) :
                 (down \o two)[i] = IF i <= Len(down) THEN down[i] ELSE two[i - Len(down)]
        BY ONLY <4>1, ConcatProperties
      <4> QED BY <4>1, <4>2
    <3>3. \A i \in 1..Len(long) : i \in 1..Len(down) \/ i - Len(down) \in 1..2
      BY <3>1, <3>2
    <3>4. \A i \in 1..Len(long) : (i \in 1..Len(down) /\ long[i] = down[i]) \/ long[i] \in {"taken_over", "disconnect"}
      BY <3>1, <3>2, <3>3
    <3> HIDE DEF long
    <3>5. \A p : Has(long, p) => Has(down, p) \/ p \in {"taken_over", "disconnect"}
      BY <3>4 DEF Has
    <3>6. down' = down \/ down' = long
      BY <2>1 DEF long, two
    <3> QED BY <1>1, <3>2, <3>5, <3>6
  <2>3. c.engine # "opening" /\ c.transport # "opening" /\ ~asked
    BY <1>5, <2>1
  <2>4. (UnderWay("connect")' => UnderWay("connect")) /\ (UnderWay("connect_error")' => UnderWay("connect_error"))
    BY <1>1, <2>2 DEF UnderWay
  <2>5. ~Has(down', "open")
    BY <2>2, <2>3 DEF PageInv, Protocol
  <2>6. c.transport = "closed" => down' = <<>>
    BY <2>1 DEF PageInv, Protocol
  <2>7. Protocol'
    BY <1>1, <2>1, <2>3, <2>4, <2>5, <2>6 DEF PageInv, Protocol
  <2> QED BY <1>1, <1>2, <2>1, <2>2, <2>7 DEF PageInv
<1> QED BY <1>3, <1>4, <1>7, <1>8, <1>9, <1>10

LEMMA PageInvNext == PageInv /\ [PageNext]_pageVars => PageInv'
<1> SUFFICES ASSUME PageInv, [PageNext]_pageVars PROVE PageInv'
  OBVIOUS
<1>1. CASE UNCHANGED pageVars
  BY <1>1 DEF pageVars, PageInv, Protocol, UnderWay
<1>2. CASE Cut
  BY <1>2 DEF Cut, PageInv, Protocol, UnderWay
<1>3. CASE ClickReload
  <2>1. Fresh'
    BY <1>3 DEF ClickReload, Fresh
  <2> QED BY <2>1, FreshInv, PTL
<1>4. CASE PingExpires
  <2> DEFINE l == [c EXCEPT !.ping = "expired"]
  <2>1. c' = l /\ UNCHANGED <<ticks, asked, down, srv>>
    BY <1>4 DEF PingExpires
  <2>2. c \in Client /\ Told(c) /\ Wired(c) /\ Above(c)
    BY DEF PageInv, ClientInv
  <2>3. l \in Client /\ SameFace(c, l) /\ SameWire(c, l)
    BY <2>2 DEF Client, SameFace, SameWire
  <2> HIDE DEF l
  <2>4. ClientInv(l) /\ l.subs = c.subs /\ l.engine = c.engine /\ l.transport = c.transport /\ l.connected = c.connected
    BY <2>2, <2>3, FaceKeeps, WireKeeps DEF ClientInv, Above, SameFace, SameWire
  <2> QED BY <2>1, <2>4 DEF PageInv, Protocol, UnderWay
<1>5. CASE WsOpens
  <2> DEFINE l == [c EXCEPT !.transport = "open", !.writable = TRUE]
  <2>1. /\ c' = l /\ c.transport = "opening" /\ ticks = <<>> /\ srv' = "engine" /\ down' = <<"open">>
        /\ ticks' = ticks /\ asked' = asked
    BY <1>5 DEF WsOpens
  <2>2. c \in Client /\ Told(c) /\ Wired(c) /\ Above(c) /\ c.engine = "opening" /\ ~asked
    BY <2>1 DEF PageInv, ClientInv, Wired, Protocol
  <2>3. /\ l \in Client /\ SameFace(c, l) /\ l.engine = c.engine /\ l.transport = "open" /\ l.writable
        /\ l.buf = c.buf /\ l.prev = c.prev
    BY <2>2 DEF Client, SameFace
  <2> HIDE DEF l
  <2>4. Wired(l)
    BY <2>2, <2>3 DEF Wired
  <2>5. ClientInv(l) /\ ~l.connected
    BY <2>2, <2>3, <2>4, FaceKeeps DEF ClientInv, Above, SameFace, Told
  <2>6. <<"open">> \in Seq(Packets) /\ Len(<<"open">>) = 1 /\ <<"open">>[1] = "open"
    BY DEF Packets
  <2>7. ~UnderWay("connect")' /\ ~UnderWay("connect_error")'
    BY <2>1, <2>6 DEF UnderWay, Has
  <2>8. Protocol'
    BY <2>1, <2>2, <2>3, <2>5, <2>7 DEF Protocol
  <2> QED BY <2>1, <2>2, <2>5, <2>6, <2>8 DEF PageInv
<1>6. CASE Microtask
  BY <1>6, MicrotaskKeeps
<1>7. CASE Message
  BY <1>7, MessageKeeps
<1>8. CASE WsFails \/ WsCloses \/ Offline \/ PingTimeout \/ ConnectTimeout \/ Types \/ ClickDisconnect
  BY <1>8, PageTaskKeeps
<1>9. CASE SrvReceives \/ SrvAnswers \/ SrvOutput \/ SrvTakenOver \/ SrvEnds \/ SrvPing
  BY <1>9, ServerKeeps
<1> QED BY <1>1, <1>2, <1>3, <1>4, <1>5, <1>6, <1>7, <1>8, <1>9 DEF PageNext

LEMMA PageInvShows == PageInv => StatusTrue
<1> SUFFICES ASSUME PageInv PROVE StatusTrue
  OBVIOUS
<1>1. c \in Client /\ Told(c) /\ Above(c)
  BY DEF PageInv, ClientInv
<1>2. c.subs \in {"opening", "open", "none"}
  BY <1>1 DEF Client
<1>3. c.status = "Connecting" => c.engine # "closed" \/ c.subs = "opening"
  BY <1>1, <1>2 DEF Told, Above
<1>4. c.connected => c.engine = "open" /\ c.label = "Disconnect"
  BY <1>1 DEF Told, Above
<1> QED BY <1>1, <1>3, <1>4 DEF Told, StatusTrue

\* The bar tells the truth, whichever layer an end came from and whatever was
\* still under way, for any number of packets and reloads.
THEOREM StatusTheorem == PageSpec => []StatusTrue
<1>1. PageInit /\ [][PageNext]_pageVars => []PageInv
  <2>1. PageInit => Fresh
    BY DEF PageInit, Fresh
  <2> QED BY <2>1, FreshInv, PageInvNext, PTL
<1> QED BY <1>1, PageInvShows, PTL DEF PageSpec
=============================================================================
