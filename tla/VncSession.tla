------------------------------ MODULE VncSession ------------------------------
(***************************************************************************)
(* A VNC console from the page's load to its end: noVNC's connection       *)
(* states, handshake, credentials and teardown (rfb.js, websock.js), the   *)
(* console page that drives it (console_vnc.js) with its password dialog,  *)
(* the browser's WebSocket, and a server that may refuse or hang up.       *)
(* Messages are whole here; VncStream cuts them into frames.               *)
(***************************************************************************)
EXTENDS Naturals, Sequences, SequencesExt

CONSTANTS
  Servers,      \* how a server authenticates: [scheme, old (before 3.8), accepts]
  Stored,       \* credentials the page may hold at its load: "none", "password"
  MaxUpdates,   \* bound on the updates a server sends
  MaxSubmits    \* bound on the submissions of the password dialog

Schemes == {"none", "vnc", "mslogon", "xvp", "vencrypt", "tight", "ard", "ra2",
            "empty", "unsupported"}    \* no type, no known type

ASSUME SessionAssumption ==
  /\ Servers \subseteq [scheme : Schemes, old : BOOLEAN, accepts : BOOLEAN]
  /\ Stored \subseteq {"none", "password"}
  /\ MaxUpdates \in Nat /\ MaxSubmits \in Nat

VARIABLES
  server,       \* the server's way of authenticating
  ws,           \* the WebSocket's readyState
  inbox,        \* messages on the way to the client
  rq,           \* messages in its receive queue
  sent,         \* messages the client put on the wire
  served,       \* how many of them the server has answered
  r,            \* the RFB object
  p,            \* the page: status flags, dialog, submissions
  viewOnly

sesVars == <<server, ws, inbox, rq, sent, served, r, p, viewOnly>>

-----------------------------------------------------------------------------
(* The server: a script of what it expects and what it sends then. *)

Turn(expect, send) == [expect |-> expect, send |-> send]

Verdict(s) == IF s.accepts THEN <<"ok">> ELSE IF s.old THEN <<"failed">> ELSE <<"failed", "reason">>

\* First messages of each scheme, after the version.
Authentication(s) ==
  CASE s.scheme = "none" -> IF s.old THEN <<>> ELSE <<Turn("choice", Verdict(s))>>
    [] s.scheme \in {"empty", "unsupported"} -> <<>>
    [] s.scheme \in {"vnc", "mslogon"} -> <<Turn("choice", <<"challenge">>), Turn("response", Verdict(s))>>
    [] s.scheme = "xvp" -> <<Turn("choice", <<>>)>>      \* the page never goes on
    [] s.scheme = "vencrypt" -> <<Turn("choice", <<"version">>), Turn("version", <<"subtypes">>),
                                  Turn("subtype", <<>>), Turn("login", Verdict(s))>>
    [] s.scheme = "tight" -> <<Turn("choice", <<"tunnels">>), Turn("notunnel", <<"subauths">>),
                               Turn("subauth", <<>>), Turn("login", Verdict(s))>>
    [] s.scheme = "ard" -> <<Turn("choice", <<"key">>), Turn("answer", Verdict(s))>>
    [] s.scheme = "ra2" -> <<Turn("choice", <<"key">>)>>

\* In 3.3 the server chooses: its choice stands for the client's.
Dialogue(s) ==
  LET auth == Authentication(s)
      offer == IF s.scheme = "empty" THEN <<"types", "reason">> ELSE <<"types">>
  IN  IF s.old /\ auth # <<>>
      THEN <<Turn("version", offer \o auth[1].send)>> \o Tail(auth)
      ELSE <<Turn("version", offer)>> \o auth

Talk ==
  Dialogue(server) \o <<Turn("clientInit", <<"serverInit">>)>> \o
  [u \in 1..MaxUpdates |-> Turn("request", <<"update">>)] \o <<Turn("request", <<>>)>>

ServerTurn ==
  /\ ws = "open" /\ ~r.loop
  /\ served < Len(sent) /\ served < Len(Talk)
  /\ sent[served + 1] = Talk[served + 1].expect
  /\ served' = served + 1
  /\ inbox' = inbox \o Talk[served + 1].send
  /\ UNCHANGED <<server, ws, rq, sent, r, p, viewOnly>>

-----------------------------------------------------------------------------
(* The page. A Bootstrap dialog ignores show and hide while it moves. *)

Show(d) == IF d = "hidden" THEN "opening" ELSE d
Hide(d) == IF d = "shown" THEN "closing" ELSE d

\* The page's listeners run inside the dispatch: q is the page, e the event.
Dispatch(q, e) ==
  CASE e = "connect" -> [q EXCEPT !.connected = TRUE, !.late = @ \/ q.closed]
    [] e = "securityfailure" -> [q EXCEPT !.refused = TRUE, !.late = @ \/ q.closed]
    [] e = "disconnect" -> [q EXCEPT !.closed = TRUE, !.dialog = Hide(@), !.late = @ \/ q.closed]
    [] OTHER -> [q EXCEPT !.dialog = Show(@), !.asked = e, !.late = @ \/ q.closed]

-----------------------------------------------------------------------------
(* The RFB object. x is [r, p, ws] on the way through a handler. *)

\* Mutant: a socket that is not open yet is left alone.
TeardownOpen(x) ==
  [x EXCEPT !.r.listening = FALSE, !.r.grabbed = FALSE, !.r.messages = FALSE,
            !.ws = IF @ = "open" THEN "closing" ELSE @]

\* _disconnect: listeners, keyboard, socket.
Teardown(x) ==
  [x EXCEPT !.r.listening = FALSE, !.r.grabbed = FALSE, !.r.messages = FALSE,
            !.ws = IF @ \in {"connecting", "open"} THEN "closing" ELSE @]

Legal == {<<"connecting", "connected">>, <<"connecting", "disconnecting">>,
          <<"connected", "disconnecting">>, <<"disconnecting", "disconnected">>}

UpdateConnectionState(x, s) ==
  IF <<x.r.conn, s>> \notin Legal THEN x
  ELSE LET clear == x.r.timer /\ s # "disconnecting"
           y == [x EXCEPT !.r.conn = s, !.r.timer = @ /\ ~clear, !.r.onclose = @ /\ ~clear]
       IN  CASE s = "connected" -> [y EXCEPT !.p = Dispatch(@, "connect")]
             [] s = "disconnecting" -> [Teardown(y) EXCEPT !.r.timer = TRUE]
             [] s = "disconnected" -> [y EXCEPT !.p = Dispatch(@, "disconnect")]

\* _fail
Fail(x) ==
  UpdateConnectionState(
    UpdateConnectionState([x EXCEPT !.r.clean = FALSE], "disconnecting"), "disconnected")

\* _socketClose
SocketClose(x) ==
  LET y == CASE x.r.conn \in {"connecting", "disconnected"} -> Fail(x)
             [] x.r.conn = "connected" ->
                  UpdateConnectionState(UpdateConnectionState(x, "disconnecting"), "disconnected")
             [] x.r.conn = "disconnecting" -> UpdateConnectionState(x, "disconnected")
  IN  [y EXCEPT !.r.onclose = FALSE]

\* The wait of RA2 is rejected, and its promise goes on to SecurityResult.
EndRA2(x) ==
  IF x.r.ra2 THEN [x EXCEPT !.r.init = "SecurityResult", !.r.ra2 = FALSE] ELSE x

\* disconnect()
Disconnect(x) ==
  EndRA2([UpdateConnectionState(x, "disconnecting") EXCEPT !.r.messages = FALSE, !.r.onopen = FALSE])

X == [r |-> r, p |-> p, ws |-> ws]
Becomes(x) == r' = x.r /\ p' = x.p /\ ws' = x.ws

\* The constructor connects at once; the page then sets viewOnly, which grabs the keyboard.
NewRFB(c) ==
  [conn |-> "connecting", init |-> "", scheme |-> "none", clean |-> TRUE,
   creds |-> c, listening |-> TRUE, grabbed |-> ~viewOnly,
   messages |-> TRUE, onopen |-> TRUE, onclose |-> TRUE, timer |-> FALSE,
   resumes |-> 0, ard |-> "none", ra2 |-> FALSE, loop |-> FALSE, once |-> FALSE]

SesInit ==
  /\ server \in Servers
  /\ viewOnly \in BOOLEAN
  /\ ws = "connecting" /\ inbox = <<>> /\ rq = <<>> /\ sent = <<>> /\ served = 0
  /\ \E c \in Stored : r = NewRFB(c)
  /\ p = [connected |-> FALSE, refused |-> FALSE, closed |-> FALSE, dialog |-> "hidden",
          asked |-> "none", submits |-> 0, late |-> FALSE]

\* _socketOpen; the server greets at once.
SocketOpen ==
  /\ ~r.loop /\ ws = "connecting"
  /\ ws' = "open" /\ inbox' = <<"version">>
  /\ IF r.onopen THEN r' = [r EXCEPT !.init = "ProtocolVersion"] ELSE UNCHANGED r
  /\ UNCHANGED <<server, rq, sent, served, p, viewOnly>>

\* The socket is closed, by either side or by the network.
SocketCloses ==
  /\ ~r.loop /\ ws # "closed"
  /\ LET x == [X EXCEPT !.ws = "closed"] IN Becomes(IF r.onclose THEN SocketClose(x) ELSE x)
  /\ inbox' = <<>>
  /\ UNCHANGED <<server, rq, sent, served, viewOnly>>

\* A message arrives: _handleMessage. A socket that is being closed drops it.
Message ==
  /\ ~r.loop /\ ws = "open" /\ inbox # <<>> /\ r.messages
  /\ r' = [r EXCEPT !.loop = TRUE, !.once = FALSE]
  /\ inbox' = Tail(inbox) /\ rq' = Append(rq, Head(inbox))
  /\ UNCHANGED <<server, ws, sent, served, p, viewOnly>>

-----------------------------------------------------------------------------
(* One turn of _initMsg or _normalMsg. A handler reads the next message    *)
(* (take), sends (out), leaves x, and returns whether the loop goes on.    *)

Turns(x, take, out, on) ==
  /\ rq' = IF take THEN Tail(rq) ELSE rq
  /\ sent' = IF x.ws = "open" THEN sent \o out ELSE sent
  /\ Becomes([x EXCEPT !.r.loop = on /\ ~r.once /\ x.r.conn = "connecting"])
  /\ UNCHANGED <<server, inbox, served, viewOnly>>

Head1 == IF rq = <<>> THEN "nothing" ELSE Head(rq)
To(init) == [X EXCEPT !.r.init = init]
Wait == Turns(X, FALSE, <<>>, FALSE)
Ask(types) == Turns([X EXCEPT !.p = Dispatch(@, types)], FALSE, <<>>, FALSE)

Version ==
  IF Head1 = "version" THEN Turns(To("Security"), TRUE, <<"version">>, FALSE) ELSE Wait

Security ==
  IF Head1 # "types" THEN Wait
  ELSE IF server.scheme = "empty" THEN Turns(To("SecurityReason"), TRUE, <<>>, TRUE)
  ELSE IF server.scheme = "unsupported" THEN Turns(Fail(X), TRUE, <<>>, FALSE)
  ELSE Turns([To("Authentication") EXCEPT !.r.scheme = server.scheme], TRUE,
             IF server.old THEN <<>> ELSE <<"choice">>, TRUE)

AuthNone == Turns(To(IF server.old THEN "ClientInitialisation" ELSE "SecurityResult"), FALSE, <<>>, TRUE)

\* Mutant: the challenge is taken off the queue before the password is there.
StdVNCAuthEager ==
  IF Head1 # "challenge" THEN Wait
  ELSE IF r.creds = "none" THEN Turns([X EXCEPT !.p = Dispatch(@, "password")], TRUE, <<>>, FALSE)
  ELSE Turns(To("SecurityResult"), TRUE, <<"response">>, TRUE)

StdVNCAuth ==
  IF Head1 # "challenge" THEN Wait
  ELSE IF r.creds = "none" THEN Ask("password")
  ELSE Turns(To("SecurityResult"), TRUE, <<"response">>, TRUE)

MSLogonIIAuth ==
  IF Head1 # "challenge" THEN Wait
  ELSE IF r.creds # "full" THEN Ask("full")
  ELSE Turns(To("SecurityResult"), TRUE, <<"response">>, TRUE)

\* It wants a target, too, which the page has no field for: it asks ever again.
XvpAuth == Ask("full")

VeNCryptAuth ==
  CASE Head1 = "version" -> Turns(X, TRUE, <<"version">>, FALSE)
    [] Head1 = "subtypes" -> Turns([X EXCEPT !.r.scheme = "plain"], TRUE, <<"subtype">>, TRUE)
    [] OTHER -> Wait

TightAuth ==
  CASE Head1 = "tunnels" -> Turns(X, TRUE, <<"notunnel">>, FALSE)
    [] Head1 = "subauths" -> Turns([X EXCEPT !.r.scheme = "plain"], TRUE, <<"subauth">>, TRUE)
    [] OTHER -> Wait

\* Also the Unix logon of TightVNC.
PlainAuth ==
  IF r.creds # "full" THEN Ask("full") ELSE Turns(To("SecurityResult"), FALSE, <<"login">>, TRUE)

\* Mutant: the answer is kept and sent whenever the handshake is resumed.
ARDAuthKeeps ==
  IF r.creds # "full" THEN Ask("full")
  ELSE IF r.ard = "ready" THEN Turns(X, FALSE, <<"answer">>, TRUE)
  ELSE IF Head1 = "key" THEN Turns([X EXCEPT !.r.ard = "busy"], TRUE, <<>>, FALSE)
  ELSE Wait

\* The answer is computed by a promise, which calls _initMsg again.
ARDAuth ==
  IF r.creds # "full" THEN Ask("full")
  ELSE IF r.ard = "ready" THEN Turns([To("SecurityResult") EXCEPT !.r.ard = "none"], FALSE, <<"answer">>, TRUE)
  ELSE IF Head1 = "key" THEN Turns([X EXCEPT !.r.ard = "busy"], TRUE, <<>>, FALSE)
  ELSE Wait

\* The page has no listener for serververification: nobody approves the key.
RA2neAuthAsync == Turns([X EXCEPT !.r.ra2 = TRUE], TRUE, <<>>, FALSE)
RA2neAuth == IF Head1 = "key" THEN RA2neAuthAsync ELSE Wait

SecurityResult ==
  CASE Head1 = "ok" -> Turns(To("ClientInitialisation"), TRUE, <<>>, TRUE)
    [] Head1 = "failed" ->
         IF server.old THEN Turns(Fail([X EXCEPT !.p = Dispatch(@, "securityfailure")]), TRUE, <<>>, FALSE)
         ELSE Turns(To("SecurityReason"), TRUE, <<>>, TRUE)
    [] OTHER -> Wait

SecurityReason ==
  IF Head1 = "reason" THEN Turns(Fail([X EXCEPT !.p = Dispatch(@, "securityfailure")]), TRUE, <<>>, FALSE)
  ELSE Wait

ClientInitialisation == Turns(To("ServerInitialisation"), FALSE, <<"clientInit">>, TRUE)

ServerInitialisation ==
  IF Head1 # "serverInit" THEN Wait
  ELSE Turns(UpdateConnectionState([X EXCEPT !.r.grabbed = @ \/ ~viewOnly], "connected"),
             TRUE, <<"request">>, FALSE)

InitMsg ==
  /\ r.loop /\ (r.once \/ r.conn # "connected")
  /\ CASE r.init = "ProtocolVersion" -> Version
       [] r.init = "Security" -> Security
       [] r.init = "Authentication" ->
            (CASE r.scheme = "none" -> AuthNone
               [] r.scheme = "vnc" -> StdVNCAuth
               [] r.scheme = "mslogon" -> MSLogonIIAuth
               [] r.scheme = "xvp" -> XvpAuth
               [] r.scheme = "vencrypt" -> VeNCryptAuth
               [] r.scheme = "tight" -> TightAuth
               [] r.scheme = "plain" -> PlainAuth
               [] r.scheme = "ard" -> ARDAuth
               [] r.scheme = "ra2" -> RA2neAuth)
       [] r.init = "SecurityResult" -> SecurityResult
       [] r.init = "SecurityReason" -> SecurityReason
       [] r.init = "ClientInitialisation" -> ClientInitialisation
       [] r.init = "ServerInitialisation" -> ServerInitialisation

\* Connected: an update asks for the next one; another message is an error.
NormalMsg ==
  /\ r.loop /\ ~r.once /\ r.conn = "connected"
  /\ \/ Head1 = "update" /\ Turns(X, TRUE, <<"request">>, FALSE)
     \/ Head1 # "nothing" /\ Turns(Fail(X), TRUE, <<>>, FALSE)      \* unreadable
     \/ Head1 = "nothing" /\ Wait

-----------------------------------------------------------------------------
(* Timers, promises and the user. *)

\* _resumeAuthentication's timer calls _initMsg once, whatever the state is by then.
Resume ==
  /\ ~r.loop /\ r.resumes > 0
  /\ r' = [r EXCEPT !.resumes = @ - 1, !.loop = TRUE, !.once = TRUE]
  /\ UNCHANGED <<server, ws, inbox, rq, sent, served, p, viewOnly>>

ARDAuthAsync ==
  /\ ~r.loop /\ r.ard = "busy"
  /\ r' = [r EXCEPT !.ard = "ready", !.resumes = @ + 1]
  /\ UNCHANGED <<server, ws, inbox, rq, sent, served, p, viewOnly>>

DisconnectTimeout ==
  /\ ~r.loop /\ r.timer
  /\ Becomes(UpdateConnectionState([X EXCEPT !.r.timer = FALSE], "disconnected"))
  /\ UNCHANGED <<server, inbox, rq, sent, served, viewOnly>>

\* The form is visible until the dialog is hidden. The password field is emptied.
\* sendCredentials replaces the credentials, and with them the answer of ARD that
\* is kept there; one that is still computed is kept in the new ones.
Submit ==
  /\ ~r.loop /\ p.dialog # "hidden" /\ p.submits < MaxSubmits
  /\ p' = [p EXCEPT !.dialog = Hide(@), !.submits = @ + 1]
  /\ r' = [r EXCEPT !.creds = p.asked, !.resumes = @ + 1,
                     !.ard = IF @ = "ready" THEN "lost" ELSE @]
  /\ UNCHANGED <<server, ws, inbox, rq, sent, served, viewOnly>>

\* The dialog's Cancel, or the bar's button while the page is not closed.
UserDisconnects ==
  /\ ~r.loop
  /\ \/ p.dialog \in {"opening", "shown"} /\ Becomes(Disconnect([X EXCEPT !.p.dialog = Hide(@)]))
     \/ ~p.closed /\ Becomes(Disconnect(X))
  /\ UNCHANGED <<server, inbox, rq, sent, served, viewOnly>>

\* Mutant: a dialog that opened after the end of the session stays.
DialogMovesOnly ==
  /\ ~r.loop
  /\ \/ p.dialog = "opening" /\ p' = [p EXCEPT !.dialog = "shown"]
     \/ p.dialog = "closing" /\ p' = [p EXCEPT !.dialog = "hidden"]
  /\ UNCHANGED <<server, ws, inbox, rq, sent, served, r, viewOnly>>

\* The end of an animation. Opened on a closed session, the dialog is hidden again.
DialogMoves ==
  /\ ~r.loop
  /\ \/ p.dialog = "opening" /\ p' = [p EXCEPT !.dialog = IF p.closed THEN "closing" ELSE "shown"]
     \/ p.dialog = "closing" /\ p' = [p EXCEPT !.dialog = "hidden"]
  /\ UNCHANGED <<server, ws, inbox, rq, sent, served, r, viewOnly>>

\* The View menu: the viewOnly setter grabs or releases the keyboard.
ToggleViewOnly ==
  /\ ~r.loop
  /\ viewOnly' = ~viewOnly
  /\ r' = [r EXCEPT !.grabbed = IF r.conn \in {"connecting", "connected"} THEN viewOnly ELSE @]
  /\ UNCHANGED <<server, ws, inbox, rq, sent, served, p>>

SesNext ==
  \/ ServerTurn \/ SocketOpen \/ SocketCloses \/ Message \/ InitMsg \/ NormalMsg
  \/ Resume \/ ARDAuthAsync \/ DisconnectTimeout
  \/ Submit \/ UserDisconnects \/ DialogMoves \/ ToggleViewOnly

\* The browser serves its tasks and timers; nobody has to open or close the socket.
SesFairness ==
  /\ WF_sesVars(Message) /\ WF_sesVars(InitMsg \/ NormalMsg) /\ WF_sesVars(Resume)
  /\ WF_sesVars(ARDAuthAsync) /\ WF_sesVars(DisconnectTimeout) /\ WF_sesVars(DialogMoves)
  /\ WF_sesVars(ServerTurn) /\ WF_sesVars(Submit)

SesSpec == SesInit /\ [][SesNext]_sesVars /\ SesFairness

-----------------------------------------------------------------------------

\* The client never speaks out of turn: what it has put on the wire is what the
\* server waits for, in that order and once, also when the password is submitted
\* twice, the handshake is resumed by a timer that is late, or the crypto is slow.
InTurn == IsPrefix(sent, [i \in 1..Len(Talk) |-> Talk[i].expect])

\* A session that ends holds nothing of the page: no listener, no keyboard, no
\* open socket; and it tells the page once, after which no event reaches it but
\* XVP's: resumed by a password submitted too late, it asks the page again.
TornDown ==
  /\ r.conn \in {"disconnecting", "disconnected"} =>
        ~r.listening /\ ~r.grabbed /\ ws \in {"closing", "closed"}
  /\ p.closed <=> r.conn = "disconnected"
  /\ p.late => server.scheme = "xvp"

\* A server that is reached and answers gets the user to a screen or to an end: no
\* exchange of timers, promises and dialogs leaves the handshake waiting for
\* nobody. Not with RA2, whose key nobody approves here, not with XVP, whose target
\* nobody gives, and not when the password submitted a second time takes the ARD
\* answer with it. A disconnect ends though the server never answers it, and the
\* password dialog does not stay on a page whose session is over, however they
\* interleave. [_initMsg, _resumeAuthentication, sendCredentials, _socketClose]
Settles ==
  /\ server.scheme \notin {"ra2", "xvp"} =>
       (ws = "open" ~> (r.conn \in {"connected", "disconnecting", "disconnected"} \/ r.ard = "lost"))
  /\ r.conn = "disconnecting" ~> p.closed
  /\ p.closed ~> [](p.dialog = "hidden")
=============================================================================
