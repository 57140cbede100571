------------------------------- MODULE VncSend -------------------------------
(***************************************************************************)
(* What the VNC console sends: the send queue of noVNC's Websock, the      *)
(* messages RFB builds in it field by field, and the exchange the messages *)
(* are most entangled in, the clipboard of page and VM (rfb.js,            *)
(* websock.js, console_vnc.js), with the server that reads them.           *)
(*                                                                         *)
(* A byte is its message and its place in it; a text is a model value.     *)
(***************************************************************************)
EXTENDS Integers, Sequences

CONSTANTS
  SQSize,       \* _sQbufferSize: 10 KiB in the code
  Texts,        \* texts of the page and of the VM
  Latin1,       \* those that ISO 8859-1 can hold
  Blurred,      \* stands for a text whose other letters became '?'
  MaxPastes, MaxCopies, MaxInputs   \* bounds on what the user and the VM do

NoText == "no text"

ASSUME SendAssumption ==
  /\ SQSize \in Nat /\ SQSize >= 4 /\ Latin1 \subseteq Texts /\ NoText \notin Texts
  /\ MaxPastes \in Nat /\ MaxCopies \in Nat /\ MaxInputs \in Nat

VARIABLES
  sock,         \* Websock: buf and len are _sQ and _sQlen, wire what it sent,
                \* open its readyState, hung a sQpushBytes that never returns
  toClient,     \* messages on the way to the client
  serverCaps,   \* _clipboardServerCapabilities...: what the client knows
  ownText,      \* _clipboardText
  readOnly,     \* _viewOnly
  field,        \* the text field of the page's clipboard dialog
  vm,           \* the VM's clipboard
  vmServer,     \* the server: what it supports, garbled: it lost the stream
  counts,       \* pastes, copies and inputs so far
  latest        \* who changed a clipboard last: [by, text]; "both": two changes
                \* met on the way, or view-only stopped one there

sendVars == <<sock, toClient, serverCaps, ownText, readOnly, field, vm, vmServer, counts, latest>>

Nothing == {}

\* Nothing is under way in either direction.
Quiet == sock.open /\ sock.wire = <<>> /\ toClient = <<>>

\* A change at one end while one of the other is under way: they may be swapped
\* or lost.
Changed(who, t) ==
  [by |-> IF latest.by \in {"nobody", who} \/ Quiet THEN who ELSE "both", text |-> t]
Stopped == [by |-> "both", text |-> NoText]

-----------------------------------------------------------------------------
(***************************************************************************)
(* RFB.messages: the fields a message pushes and the bytes that follow.    *)
(***************************************************************************)

\* _sendEncodings: preference order is left out, the number is not.
EncodingCount(depth, h264) ==
  LET full == IF depth = 24 THEN 7 + 2 + (IF h264 THEN 1 ELSE 0) ELSE 0
  IN  1 + full + 1 + 2 + 11

\* Bytes of a payload: the text's own, or deflated after its length.
PlainBytes == 3
DeflatedBytes == 11

Message0(kind) == [kind |-> kind, n |-> 0, text |-> NoText]
ClientCutText(kind, n, text) == [kind |-> kind, n |-> n, text |-> text]
Encodings(depth, h264) == [kind |-> "clientEncodings", n |-> EncodingCount(depth, h264), text |-> NoText]
CutTexts == {"cutText", "notify", "notifyNone", "request", "provide", "caps"}

Fields(m) ==
  CASE m.kind = "keyEvent" -> <<1, 1, 2, 4>>
    [] m.kind = "QEMUExtendedKeyEvent" -> <<1, 1, 2, 4, 4>>
    [] m.kind = "pointerEvent" -> <<1, 1, 2, 2>>
    [] m.kind = "extendedPointerEvent" -> <<1, 1, 2, 2, 1>>
    [] m.kind \in CutTexts -> <<1, 1, 1, 1, 4>>
    [] m.kind = "setDesktopSize" -> <<1, 1, 2, 2, 1, 1, 4, 2, 2, 2, 2, 4>>
    [] m.kind = "clientFence" -> <<1, 1, 1, 1, 4, 1>>
    [] m.kind = "enableContinuousUpdates" -> <<1, 1, 2, 2, 2, 2>>
    [] m.kind = "pixelFormat" -> <<1, 1, 1, 1, 1, 1, 1, 1, 2, 2, 2, 1, 1, 1, 1, 1, 1>>
    [] m.kind = "clientEncodings" -> <<1, 1, 2>> \o [i \in 1..m.n |-> 4]
    [] m.kind = "fbUpdateRequest" -> <<1, 1, 2, 2, 2, 2>>
    [] m.kind = "xvpOp" -> <<1, 1, 1, 1>>

\* sQpushBytes and sQpushString come last in the messages that have them.
Payload(m) == IF m.kind \in CutTexts \cup {"clientFence"} THEN m.n ELSE 0

\* What the protocol lets a server expect of each message.
ProtocolSize(m) ==
  CASE m.kind = "keyEvent" -> 8
    [] m.kind = "QEMUExtendedKeyEvent" -> 12
    [] m.kind = "pointerEvent" -> 6
    [] m.kind = "extendedPointerEvent" -> 7
    [] m.kind \in CutTexts -> 8 + m.n
    [] m.kind = "setDesktopSize" -> 8 + 16
    [] m.kind = "clientFence" -> 9 + m.n
    [] m.kind = "enableContinuousUpdates" -> 10
    [] m.kind = "pixelFormat" -> 20
    [] m.kind = "clientEncodings" -> 4 + 4 * m.n
    [] m.kind = "fbUpdateRequest" -> 10
    [] m.kind = "xvpOp" -> 4

Bytes(m, from, n) == [i \in 1..n |-> [msg |-> m, i |-> from + i]]

-----------------------------------------------------------------------------
(***************************************************************************)
(* The send queue.                                                         *)
(***************************************************************************)

Flush(q) ==
  IF q.len > 0 /\ q.open THEN [q EXCEPT !.wire = @ \o q.buf, !.buf = <<>>, !.len = 0] ELSE q

\* Mutant: a queue that is one byte short is not flushed.
EnsureSpaceOffByOne(q, n) == IF SQSize - q.len < n - 1 THEN Flush(q) ELSE q

\* _sQensureSpace
EnsureSpace(q, n) == IF SQSize - q.len < n THEN Flush(q) ELSE q

\* sQpush8, sQpush16, sQpush32: what does not fit into the array is lost.
Push(q, bytes) ==
  LET e   == EnsureSpace(q, Len(bytes))
      all == e.buf \o bytes
  IN  [e EXCEPT !.buf = SubSeq(all, 1, IF Len(all) < SQSize THEN Len(all) ELSE SQSize),
                !.len = @ + Len(bytes)]

\* A byte of sQpushBytes, as space gets free; with the socket closed and the
\* queue full none does, and the loop does not end.
PushByte(q, byte) ==
  LET e == EnsureSpace(q, 1)
  IN  IF e.hung \/ e.len >= SQSize THEN [e EXCEPT !.hung = TRUE]
      ELSE [e EXCEPT !.buf = Append(@, byte), !.len = @ + 1]

\* sQpushBytes
PushBytes(q, bytes) ==
  LET pushed[n \in 0..Len(bytes)] == IF n = 0 THEN q ELSE PushByte(pushed[n - 1], bytes[n])
  IN  pushed[Len(bytes)]

\* The fields of a message, one by one: the queue and the bytes pushed so far.
PushField(m, h, size) == [queue |-> Push(h.queue, Bytes(m, h.at, size)), at |-> h.at + size]

PushFields(q, m, fields) ==
  LET head[k \in 0..Len(fields)] ==
        IF k = 0 THEN [queue |-> q, at |-> 0] ELSE PushField(m, head[k - 1], fields[k])
  IN  head[Len(fields)]

\* One message, flushed at its end.
Send(q, m) ==
  LET done == PushFields(q, m, Fields(m))
  IN  Flush(PushBytes(done.queue, Bytes(m, done.at, Payload(m))))

\* The answer to a message, if it has one.
SendAny(q, ms) == IF ms = <<>> THEN q ELSE Send(q, ms[1])

-----------------------------------------------------------------------------
(***************************************************************************)
(* The client.                                                             *)
(***************************************************************************)

SendInit ==
  /\ sock = [buf |-> <<>>, len |-> 0, wire |-> <<>>, open |-> TRUE, hung |-> FALSE]
  /\ toClient = <<>> /\ serverCaps = Nothing /\ ownText = NoText /\ readOnly = FALSE
  /\ field = NoText /\ vm = NoText
  /\ vmServer \in [extended : BOOLEAN, known : {FALSE}, garbled : {FALSE}]
  /\ counts = [pastes |-> 0, copies |-> 0, inputs |-> 0, started |-> FALSE]
  /\ latest = [by |-> "nobody", text |-> NoText]

\* _negotiateServerInit ends: the client speaks first, in one go, and is connected.
ServerInitDone(depth, h264) ==
  /\ ~counts.started
  /\ counts' = [counts EXCEPT !.started = TRUE]
  /\ \E q1 \in {Send(sock, Message0("pixelFormat"))} :
       \E q2 \in {Send(q1, Encodings(depth, h264))} :
         sock' = Send(q2, Message0("fbUpdateRequest"))
  /\ UNCHANGED <<toClient, serverCaps, ownText, readOnly, field, vm, vmServer, latest>>

ClientRuns == counts.started /\ ~sock.hung

\* Keys, pointer and resizes, which view-only holds back, fences, continuous
\* updates, requests for updates, power operations.
HeldBack == {"keyEvent", "QEMUExtendedKeyEvent", "pointerEvent", "extendedPointerEvent", "setDesktopSize"}
Inputs == {Message0("keyEvent"), Message0("QEMUExtendedKeyEvent"), Message0("pointerEvent"),
           Message0("extendedPointerEvent"), Message0("setDesktopSize"),
           [kind |-> "clientFence", n |-> 5, text |-> NoText],
           Message0("enableContinuousUpdates"), Message0("fbUpdateRequest"), Message0("xvpOp")}

SendInput(m) ==
  /\ ClientRuns /\ counts.inputs < MaxInputs
  /\ readOnly => m.kind \notin HeldBack
  /\ sock.open => sock.wire = <<>>     \* bound: not into a busy stream
  /\ counts' = [counts EXCEPT !.inputs = @ + 1]
  /\ sock' = Send(sock, m)
  /\ UNCHANGED <<toClient, serverCaps, ownText, readOnly, field, vm, vmServer, latest>>

Notify == ClientCutText("notify", 4, NoText)

\* Mutant: the text that was sent last is kept.
PasteKeepsOld(t) ==
  /\ ClientRuns /\ ~readOnly /\ counts.pastes < MaxPastes
  /\ counts' = [counts EXCEPT !.pastes = @ + 1]
  /\ field' = t
  /\ latest' = Changed("page", t)
  /\ IF {"text", "notify"} \subseteq serverCaps
       THEN /\ ownText' = IF ownText = NoText THEN t ELSE ownText
            /\ sock' = Send(sock, Notify)
       ELSE /\ sock' = Send(sock, ClientCutText("cutText", PlainBytes, t))
            /\ UNCHANGED ownText
  /\ UNCHANGED <<toClient, serverCaps, readOnly, vm, vmServer>>

\* clipboardPasteFrom the dialog: announced to a server that asks for it, or
\* sent as it is, with '?' for what ISO 8859-1 lacks.
Paste(t) ==
  /\ ClientRuns /\ ~readOnly /\ counts.pastes < MaxPastes
  /\ counts' = [counts EXCEPT !.pastes = @ + 1]
  /\ field' = t
  /\ latest' = Changed("page", t)
  /\ IF {"text", "notify"} \subseteq serverCaps
       THEN /\ ownText' = t
            /\ sock' = Send(sock, Notify)
       ELSE /\ sock' = Send(sock, ClientCutText("cutText", PlainBytes, IF t \in Latin1 THEN t ELSE Blurred))
            /\ UNCHANGED ownText
  /\ UNCHANGED <<toClient, serverCaps, readOnly, vm, vmServer>>

\* _handleServerCutText, one case per kind of message.
Reply(m) ==
  CASE m.kind = "caps" -> <<ClientCutText("caps", 8, NoText)>>
    [] m.kind = "request" /\ ownText # NoText /\ "provide" \in serverCaps ->
         <<ClientCutText("provide", 4 + DeflatedBytes, ownText)>>
    [] m.kind = "peek" /\ "notify" \in serverCaps ->
         <<IF ownText # NoText THEN Notify ELSE ClientCutText("notifyNone", 4, NoText)>>
    [] m.kind = "notify" /\ "request" \in serverCaps -> <<ClientCutText("request", 4, NoText)>>
    [] OTHER -> <<>>

HandleServerCutText ==
  /\ ClientRuns /\ sock.open /\ toClient # <<>>
  /\ LET m == Head(toClient)
         ignored == readOnly /\ m.kind # "caps"
     IN  /\ sock' = IF ignored THEN sock ELSE SendAny(sock, Reply(m))
         /\ serverCaps' = IF m.kind = "caps" THEN m.caps ELSE serverCaps
         /\ ownText' = IF m.kind = "provide" /\ ~ignored THEN NoText ELSE ownText
         /\ field' = IF m.kind \in {"provide", "text"} /\ ~ignored THEN m.text ELSE field
  /\ toClient' = Tail(toClient)
  /\ UNCHANGED <<readOnly, vm, vmServer, counts, latest>>

\* The View menu, either way: an exchange it meets on the way may end half done,
\* and what was to be told may be told much later.
SwitchReadOnly ==
  /\ ClientRuns
  /\ readOnly' = ~readOnly
  /\ latest' = IF Quiet THEN latest ELSE Stopped
  /\ UNCHANGED <<sock, toClient, serverCaps, ownText, field, vm, vmServer, counts>>

\* The socket ends before its event reaches RFB, which goes on sending.
SocketEnds ==
  /\ sock.open
  /\ sock' = [sock EXCEPT !.open = FALSE]
  /\ UNCHANGED <<toClient, serverCaps, ownText, readOnly, field, vm, vmServer, counts, latest>>

-----------------------------------------------------------------------------
(***************************************************************************)
(* The server and the VM.                                                  *)
(***************************************************************************)

ToClient(kind, text) == [kind |-> kind, text |-> text]
Caps == [kind |-> "caps", caps |-> {"text", "request", "peek", "notify", "provide"}, text |-> NoText]

Answer(m) ==
  CASE m.kind = "clientEncodings" /\ vmServer.extended -> <<Caps>>
    [] m.kind = "notify" -> <<ToClient("request", NoText)>>
    [] m.kind = "request" /\ vm # NoText -> <<ToClient("provide", vm)>>
    [] OTHER -> <<>>

\* It takes whole messages off the stream; bytes that are not the ones it
\* expects end all understanding.
ServerReads ==
  /\ sock.wire # <<>> /\ ~vmServer.garbled
  /\ LET m == sock.wire[1].msg
         n == ProtocolSize(m)
         whole == Len(sock.wire) >= n /\ SubSeq(sock.wire, 1, n) = Bytes(m, 0, n)
     IN  IF whole
           THEN /\ sock' = [sock EXCEPT !.wire = SubSeq(@, n + 1, Len(@))]
                /\ toClient' = IF sock.open THEN toClient \o Answer(m) ELSE toClient
                /\ vm' = IF m.kind \in {"provide", "cutText"} THEN m.text ELSE vm
                /\ vmServer' = [vmServer EXCEPT !.known = @ \/ m.kind = "caps"]
           ELSE /\ vmServer' = [vmServer EXCEPT !.garbled = TRUE]
                /\ UNCHANGED <<sock, toClient, vm>>
  /\ UNCHANGED <<serverCaps, ownText, readOnly, field, counts, latest>>

\* Something is copied in the VM: announced to a client that knows how to ask.
\* In view-only mode the client does not.
VmCopies(t) ==
  /\ counts.started /\ counts.copies < MaxCopies /\ sock.open
  /\ counts' = [counts EXCEPT !.copies = @ + 1]
  /\ vm' = t
  /\ latest' = IF readOnly THEN Stopped ELSE Changed("vm", t)
  /\ toClient' = Append(toClient, IF vmServer.known THEN ToClient("notify", NoText) ELSE ToClient("text", t))
  /\ UNCHANGED <<sock, serverCaps, ownText, readOnly, field, vmServer>>

\* Asks what the client has.
Peeks ==
  /\ vmServer.known /\ toClient = <<>> /\ sock.open
  /\ toClient' = <<ToClient("peek", NoText)>>
  /\ counts.copies < MaxCopies
  /\ counts' = [counts EXCEPT !.copies = @ + 1]
  /\ UNCHANGED <<sock, serverCaps, ownText, readOnly, field, vm, vmServer, latest>>

SendNext ==
  \/ \E depth \in {8, 24}, h264 \in BOOLEAN : ServerInitDone(depth, h264)
  \/ \E m \in Inputs : SendInput(m)
  \/ \E t \in Texts : Paste(t)
  \/ HandleServerCutText
  \/ SwitchReadOnly
  \/ SocketEnds
  \/ ServerReads
  \/ \E t \in Texts : VmCopies(t)
  \/ Peeks

SendSpec == SendInit /\ [][SendNext]_sendVars

-----------------------------------------------------------------------------
(***************************************************************************)
(* Properties.                                                             *)
(***************************************************************************)

\* The server never loses the stream: every message is as long as the protocol
\* says, complete and in order, also one that does not fit into what is left of
\* the send queue, and while the socket is open none of it stays behind.
\* [_sQensureSpace, sQpushBytes, flush, RFB.messages]
ServerInStep == ~vmServer.garbled /\ (sock.open => sock.buf = <<>>)

\* When nothing is under way the two clipboards agree: the VM has what was
\* pasted last, the page shows what was copied last, however often either end
\* changes while announcements, requests and texts of earlier changes are under
\* way, and however often view-only is switched on and off before. Nothing is
\* promised for a change that met one of the other end, or a switch of view-only,
\* on the way, nor for a copy made in view-only mode; the next change after the
\* exchange has come to rest is told again.
\* [clipboardPasteFrom, _handleServerCutText, the page's clipboard event]
ClipboardsAgree ==
  Quiet =>
    /\ latest.by = "page" => vm \in {latest.text, Blurred}
    /\ latest.by = "vm" => field = latest.text
=============================================================================
