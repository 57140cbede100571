------------------------------ MODULE VncStream ------------------------------
(***************************************************************************)
(* How the VNC console (noVNC: websock.js, rfb.js, decoders/) cuts the     *)
(* byte stream of a server into messages. A WebSocket frame may end        *)
(* anywhere. A handler takes bytes off the receive queue as it goes; a     *)
(* wait that fails goes back some bytes and gives up until the next frame, *)
(* which calls the handler again from what it kept in the object's fields. *)
(*                                                                         *)
(* A handler is the sequence of its stages, the points it resumes from; a  *)
(* stage is a sequence of reads, each with the code's own numbers: the     *)
(* bytes it waits for, how far it goes back, the bytes it takes. Contents  *)
(* of messages are left out except the lengths and counts they carry.      *)
(***************************************************************************)
EXTENDS Integers, Sequences, SequencesExt

CONSTANTS
  Scripts,     \* what a server may send: sequences of messages, as records
  FrameSizes,  \* sizes of WebSocket frames
  BufSize,     \* Websock._rQbufferSize at the start
  MaxBuf       \* MAX_RQ_GROW_SIZE

ASSUME StreamAssumption ==
  /\ FrameSizes \subseteq Nat \ {0}
  /\ BufSize \in Nat \ {0} /\ MaxBuf \in Nat /\ BufSize <= MaxBuf

VARIABLES
  script,      \* what this server sends
  strViewOnly,    \* RFB._viewOnly
  got, at,     \* bytes received (_rQlen) and read (_rQi), from the stream's start
  base, cap,   \* stream position of _rQ[0], and _rQbufferSize
  lost,        \* size of the frame the queue could not hold: the model ends there
  pos,         \* message, stage and read the parser is at
  running,     \* a handler runs: no frame, timer or promise is served
  looping,     \* ... called from _handleMessage's loop, not from a timer
  state,       \* _rfbConnectionState
  paused,      \* the handshake waits for the page, the timer or the crypto
  creds,       \* _rfbCredentials are complete
  pending,     \* display.pending()
  flushing     \* _flushing

queue == <<got, base, cap, lost>>
strVars == <<script, strViewOnly, at, queue, pos, running, looping, state, paused, creds,
          pending, flushing>>

Max2(a, b) == IF a > b THEN a ELSE b
Min2(a, b) == IF a < b THEN a ELSE b
CeilDiv(a, b) == (a + b - 1) \div b

-----------------------------------------------------------------------------
(* Reads: wait for need bytes or go back; then take; then act. *)

Read(need, back, take) == [need |-> need, back |-> back, take |-> take, act |-> "none"]
Creds == [Read(0, 0, 0) EXCEPT !.act = "creds"]
Image(need, back, take) == [Read(need, back, take) EXCEPT !.act = "image"]
Whole(n) == <<Read(n, 0, n)>>
Counted(header, n) == <<Read(header, 0, header), Read(n, header, n)>>

-----------------------------------------------------------------------------
(* Handshake. Version 3.3 is m.old. *)

NegotiateProtocolVersion == <<Whole(12)>>

NegotiateSecurity(m) ==
  IF m.old THEN <<Whole(4)>> ELSE << <<Read(0, 0, 1), Read(m.n, 1, m.n)>> >>

HandleSecurityReason(m) == <<Counted(4, m.n)>>

\* Answers without a message of the server: XVP, Plain, Unix logon.
NegotiatePlainAuth == << <<Creds>> >>

NegotiateVeNCryptVersion == <<Whole(2)>>
NegotiateVeNCryptSubtypes(m) == <<Whole(1), Whole(1), Whole(4 * m.n)>>

NegotiateStdVNCAuth == << <<Read(16, 0, 0), Creds, Read(0, 0, 16)>> >>

NegotiateARDAuth(m) == << <<Creds>> \o Counted(4, 2 * m.n) >>

NegotiateTightTunnels(m) == <<Counted(4, 16 * m.n)>>
NegotiateTightAuth(m) == <<Counted(4, 16 * m.n)>>

NegotiateMSLogonIIAuth == << <<Read(24, 0, 0), Creds, Read(0, 0, 24)>> >>

HandleSecurityResult == <<Whole(4)>>

\* m.caps is -1 without the TightVNC extension.
NegotiateServerInit(m) ==
  << Counted(24, m.n) \o
     IF m.caps < 0 THEN <<>>
     ELSE <<Read(8, 24 + m.n, 8), Read(16 * m.caps, 32 + m.n, 16 * m.caps)>> >>

-----------------------------------------------------------------------------
(* Normal messages. The loop has seen one byte, the type. *)

MsgType == Read(0, 0, 1)

HandleBell == << <<MsgType>> >>

\* ro: view only. m.action is "text" for a standard message, else the extended clipboard's.
HandleServerCutText(m, ro) ==
  LET taken == CASE m.action = "text" -> m.n
                 [] m.action = "caps" -> 4 + 4 * m.formats
                 [] m.action = "provide" -> IF ro \/ ~m.text THEN 4 ELSE m.n
                 [] OTHER -> 4
  IN  << <<MsgType, Read(7, 1, 7), Read(m.n, 8, taken)>> >>

\* Mutant: the wait for the payload forgets the message type's byte.
HandleServerFenceShort(m) == << <<MsgType, Read(8, 1, 8), Read(m.n, 8, Min2(m.n, 64))>> >>

HandleServerFence(m) == << <<MsgType, Read(8, 1, 8), Read(m.n, 9, Min2(m.n, 64))>> >>

HandleXvp == << <<MsgType, Read(3, 1, 3)>> >>

-----------------------------------------------------------------------------
(* Rectangles: pseudo encodings, then the decoders. *)

HandleVMwareCursor(r) ==
  LET n == r.w * r.h * (IF r.alpha THEN 4 ELSE 8) IN << <<Read(1, 0, 2), Read(n, 2, n)>> >>

HandleCursor(r) == <<Whole(r.w * r.h * 4 + CeilDiv(r.w, 8) * r.h)>>

HandleDesktopName(r) == <<Counted(4, r.n)>>

HandleLedEvent == <<Whole(1)>>

HandleExtendedDesktopSize(r) == << <<Read(4, 0, 0), Read(4 + 16 * r.n, 0, 4 + 16 * r.n)>> >>

RawDecoder(r) == IF r.w = 0 THEN <<>> ELSE [line \in 1..r.h |-> Whole(4 * r.w)]

CopyRectDecoder == <<Whole(4)>>

RREDecoder(r) == <<Whole(8)>> \o [sub \in 1..r.n |-> Whole(12)]

\* The length is kept in _length, the data follows.
ZlibDecoder(r) == <<Whole(4), Whole(r.n)>>
ZRLEDecoder(r) == <<Whole(4), Whole(r.n)>>

\* r.tiles: raw pixels, or colours (bytes) and subrectangles of some size, -1 if none.
HextileTile(t) ==
  IF t.raw > 0 THEN <<Read(1, 0, 0), Read(1 + 4 * t.raw, 0, 1 + 4 * t.raw)>>
  ELSE IF t.subs < 0 THEN <<Read(1, 0, 0), Read(1 + t.colours, 0, 1 + t.colours)>>
  ELSE LET n == 2 + t.colours + t.subs * t.size
       IN  <<Read(1, 0, 0), Read(2 + t.colours, 0, 0), Read(n, 0, n)>>
HextileDecoder(r) == [t \in 1..Len(r.tiles) |-> HextileTile(r.tiles[t])]

\* _readData: a compact length of one to three bytes, kept in _len.
ReadData(n, act) ==
  << <<Read(3, 0, IF n < 128 THEN 1 ELSE IF n < 16384 THEN 2 ELSE 3)>>,
     <<[Read(n, 0, n) EXCEPT !.act = act]>> >>

\* Data of a filter, u bytes of pixels: as they are, or n compressed bytes.
TightData(u, n) ==
  IF u = 0 THEN <<>> ELSE IF u < 12 THEN <<Whole(u)>> ELSE ReadData(n, "none")

TightPalette(r) ==
  LET row == CeilDiv(r.w * (IF r.colours <= 2 THEN 1 ELSE 8), 8)
  IN  << <<Read(1, 0, 0), Read(1 + 3 * r.colours, 0, 1 + 3 * r.colours)>> >> \o
      TightData(row * r.h, r.n)

TightGradient(r) == TightData(3 * r.w * r.h, r.n)

\* An explicit filter has a byte of its own; without one it is the copy filter.
TightFilter(r) ==
  (IF r.filter = "implicit" THEN <<>> ELSE <<Whole(1)>>) \o
  CASE r.filter = "palette" -> TightPalette(r)
    [] r.filter = "gradient" -> TightGradient(r)
    [] OTHER -> TightData(3 * r.w * r.h, r.n)

TightDecoder(r) ==
  <<Whole(1)>> \o CASE r.ctl = "fill" -> <<Whole(3)>>
                    [] r.ctl = "jpeg" -> ReadData(r.n, "image")
                    [] r.ctl = "basic" -> TightFilter(r)

\* As TightDecoder, with PNG in place of the basic compression.
TightPNGDecoder(r) == IF r.ctl = "png" THEN <<Whole(1)>> \o ReadData(r.n, "image") ELSE TightDecoder(r)

\* r.segs: lengths of segments, 0 for a bare marker; the scan data of the
\* start of scan, -1 for other segments, ends at the next marker.
JpegSegment(s) ==
  IF s.n = 0 THEN <<Read(2, 0, 2)>>
  ELSE <<Read(2, 0, 2), Read(2, 2, 2)>> \o
       IF s.scan < 0 THEN <<Read(s.n - 2, 4, s.n - 2)>>
       ELSE <<Read(s.n - 2, 4, 0), Read(s.n, 4, 0), Read(s.n + s.scan, 4, s.n - 2 + s.scan)>>
JpegDecoder(r) == [s \in 1..Len(r.segs) |-> JpegSegment(r.segs[s])] \o << <<Image(2, 0, 2)>> >>

H264Decoder(r) == << <<Read(8, 0, 8), Image(r.n, 8, r.n)>> >>

HandleRect(r) ==
  CASE r.enc = "vmwareCursor" -> HandleVMwareCursor(r)
    [] r.enc = "cursor" -> HandleCursor(r)
    [] r.enc = "desktopName" -> HandleDesktopName(r)
    [] r.enc = "led" -> HandleLedEvent
    [] r.enc = "extendedDesktopSize" -> HandleExtendedDesktopSize(r)
    [] r.enc = "raw" -> RawDecoder(r)
    [] r.enc = "copyRect" -> CopyRectDecoder
    [] r.enc = "rre" -> RREDecoder(r)
    [] r.enc = "zlib" -> ZlibDecoder(r)
    [] r.enc = "zrle" -> ZRLEDecoder(r)
    [] r.enc = "hextile" -> HextileDecoder(r)
    [] r.enc = "tight" -> TightDecoder(r)
    [] r.enc = "tightPNG" -> TightPNGDecoder(r)
    [] r.enc = "jpeg" -> JpegDecoder(r)
    [] r.enc = "h264" -> H264Decoder(r)
    [] OTHER -> <<>>      \* lastRect, desktopSize, extended keys and buttons

FramebufferUpdate(m) ==
  << <<MsgType, Read(3, 1, 3)>> >> \o
  FlattenSeq([r \in 1..Len(m.rects) |-> <<Whole(12)>> \o HandleRect(m.rects[r])])

Stages(m, ro) ==
  CASE m.kind = "version" -> NegotiateProtocolVersion
    [] m.kind = "security" -> NegotiateSecurity(m)
    [] m.kind = "reason" -> HandleSecurityReason(m)
    [] m.kind = "plain" -> NegotiatePlainAuth
    [] m.kind = "vencrypt" -> NegotiateVeNCryptVersion
    [] m.kind = "subtypes" -> NegotiateVeNCryptSubtypes(m)
    [] m.kind = "vncauth" -> NegotiateStdVNCAuth
    [] m.kind = "ard" -> NegotiateARDAuth(m)
    [] m.kind = "tunnels" -> NegotiateTightTunnels(m)
    [] m.kind = "subauths" -> NegotiateTightAuth(m)
    [] m.kind = "mslogon" -> NegotiateMSLogonIIAuth
    [] m.kind = "result" -> HandleSecurityResult
    [] m.kind = "serverInit" -> NegotiateServerInit(m)
    [] m.kind = "bell" -> HandleBell
    [] m.kind = "endOfContinuousUpdates" -> HandleBell
    [] m.kind = "cutText" -> HandleServerCutText(m, ro)
    [] m.kind = "fence" -> HandleServerFence(m)
    [] m.kind = "xvp" -> HandleXvp
    [] m.kind = "fbu" -> FramebufferUpdate(m)

\* The stages of each message of the scripts, by message and view-only mode.
Handler == [m \in UNION {Range(s) : s \in Scripts}, ro \in BOOLEAN |-> Stages(m, ro)]

-----------------------------------------------------------------------------
(* The server: the sizes of its messages, from the RFB protocol, and when  *)
(* it waits for the client's answer.                                       *)

RectSize(r) ==
  12 +
  CASE r.enc = "vmwareCursor" -> 2 + r.w * r.h * (IF r.alpha THEN 4 ELSE 8)
    [] r.enc = "cursor" -> r.w * r.h * 4 + ((r.w + 7) \div 8) * r.h
    [] r.enc = "desktopName" -> 4 + r.n
    [] r.enc = "led" -> 1
    [] r.enc = "extendedDesktopSize" -> 4 + 16 * r.n
    [] r.enc = "raw" -> 4 * r.w * r.h
    [] r.enc = "copyRect" -> 4
    [] r.enc = "rre" -> 8 + 12 * r.n
    [] r.enc \in {"zlib", "zrle"} -> 4 + r.n
    [] r.enc = "hextile" ->
         FoldLeft(LAMBDA sum, t: sum + 1 + (IF t.raw > 0 THEN 4 * t.raw
                                           ELSE t.colours + (IF t.subs < 0 THEN 0 ELSE 1 + t.subs * t.size)),
                  0, r.tiles)
    [] r.enc \in {"tight", "tightPNG"} ->
         (CASE r.ctl = "fill" -> 4
            [] r.ctl \in {"jpeg", "png"} -> 1 + (IF r.n < 128 THEN 1 ELSE 2) + r.n
            [] r.ctl = "basic" ->
                 LET bits == IF r.filter # "palette" THEN 24 ELSE IF r.colours <= 2 THEN 1 ELSE 8
                     plain == ((r.w * bits + 7) \div 8) * r.h
                 IN  1 + (IF r.filter = "implicit" THEN 0 ELSE 1)
                     + (IF r.filter = "palette" THEN 1 + 3 * r.colours ELSE 0)
                     + (IF plain < 12 THEN plain ELSE (IF r.n < 128 THEN 1 ELSE 2) + r.n))
    [] r.enc = "jpeg" ->
         2 + FoldLeft(LAMBDA sum, s: sum + 2 + s.n + (IF s.scan < 0 THEN 0 ELSE s.scan), 0, r.segs)
    [] r.enc = "h264" -> 8 + r.n
    [] OTHER -> 0

Size(m) ==
  CASE m.kind = "version" -> 12
    [] m.kind = "security" -> IF m.old THEN 4 ELSE 1 + m.n
    [] m.kind = "reason" -> 4 + m.n
    [] m.kind = "plain" -> 0
    [] m.kind = "vencrypt" -> 2
    [] m.kind = "subtypes" -> 2 + 4 * m.n
    [] m.kind = "vncauth" -> 16
    [] m.kind = "ard" -> 4 + 2 * m.n
    [] m.kind \in {"tunnels", "subauths"} -> 4 + 16 * m.n
    [] m.kind = "mslogon" -> 24
    [] m.kind = "result" -> 4
    [] m.kind = "serverInit" -> 24 + m.n + (IF m.caps < 0 THEN 0 ELSE 8 + 16 * m.caps)
    [] m.kind \in {"bell", "endOfContinuousUpdates"} -> 1
    [] m.kind = "cutText" -> 8 + m.n
    [] m.kind = "fence" -> 9 + m.n
    [] m.kind = "xvp" -> 4
    [] m.kind = "fbu" -> FoldLeft(LAMBDA sum, r: sum + RectSize(r), 4, m.rects)

\* The stream position where the first n messages end.
Ends == [s \in Scripts |-> [n \in 0..Len(s) |->
           FoldLeft(LAMBDA sum, m: sum + Size(m), 0, SubSeq(s, 1, n))]]
End(n) == Ends[script][n]

\* The server goes on only when the client has answered this message.
ServerWaits(m) ==
  \/ m.kind \in {"version", "plain", "vencrypt", "subtypes", "vncauth", "ard", "mslogon",
                 "result", "serverInit"}
  \/ m.kind = "security" /\ ~m.old /\ m.n > 0
  \/ m.kind \in {"tunnels", "subauths"} /\ m.n > 0

\* Bytes the server may have sent by now.
Sent ==
  LET turns == {i \in pos.msg..Len(script) : ServerWaits(script[i])}
  IN  End(IF turns = {} THEN Len(script) ELSE CHOOSE i \in turns : \A j \in turns : i <= j)

-----------------------------------------------------------------------------

\* Only the clipboard's handler looks at it, and a server provides its clipboard
\* to a client that asked, which a view-only one does not.
ViewOnlyMatters ==
  LET actions == {script[i].action : i \in {j \in 1..Len(script) : script[j].kind = "cutText"}}
  IN  actions # {} /\ "provide" \notin actions

StrInit ==
  /\ script \in Scripts
  /\ strViewOnly \in BOOLEAN /\ (strViewOnly => ViewOnlyMatters)
  /\ got = 0 /\ at = 0 /\ base = 0 /\ cap = BufSize /\ lost = 0
  /\ pos = [msg |-> 1, stage |-> 1, read |-> 1]
  /\ running = FALSE /\ looping = FALSE
  /\ state = "connecting" /\ paused = "no" /\ creds = FALSE
  /\ pending = FALSE /\ flushing = FALSE


\* _expandCompactRQ: the new start of the buffer and its new size, or an exception.
ExpandCompactRQ(n) ==
  LET required == (got - at + n) * 8
      size == Min2(MaxBuf, IF cap < required THEN Max2(2 * cap, required) ELSE cap)
  IN  IF cap < required /\ size = MaxBuf /\ MaxBuf - (got - at) < n
      THEN lost' = n /\ UNCHANGED <<got, base, cap>>
      ELSE got' = got + n /\ base' = at /\ cap' = size /\ UNCHANGED lost

\* _recvMessage: a frame of n bytes. An empty queue is reset first.
RecvMessage(n) ==
  /\ ~running /\ state # "disconnected" /\ lost = 0
  /\ got + n <= Sent
  /\ LET start == IF got = at THEN at ELSE base
     IN  IF n > cap - (got - start)
         THEN ExpandCompactRQ(n)
         ELSE got' = got + n /\ base' = start /\ UNCHANGED <<cap, lost>>
  /\ running' = (lost' = 0 /\ ~flushing) /\ looping' = TRUE
  /\ UNCHANGED <<script, strViewOnly, at, pos, state, paused, creds, pending, flushing>>

M == script[pos.msg]
H == Handler[M, strViewOnly]
Now == H[pos.stage][pos.read]

\* The read after this one; a message that is over is followed by the next.
NextPos ==
  IF pos.read < Len(H[pos.stage]) THEN [pos EXCEPT !.read = @ + 1]
  ELSE IF pos.stage < Len(H) THEN [pos EXCEPT !.stage = @ + 1, !.read = 1]
  ELSE [msg |-> pos.msg + 1, stage |-> 1, read |-> 1]

\* rQwait: too little has arrived; the handler returns false.
RQwait ==
  /\ running /\ got - at < Now.need
  /\ at' = at - Now.back
  /\ pos' = [pos EXCEPT !.read = 1]
  /\ running' = FALSE
  /\ UNCHANGED <<script, strViewOnly, queue, looping, state, paused, creds, pending, flushing>>

\* The credentials are not there: credentialsrequired, and return false.
CredentialsRequired ==
  /\ running /\ got - at >= Now.need
  /\ Now.act = "creds" /\ ~creds
  /\ pos' = [pos EXCEPT !.read = 1]
  /\ running' = FALSE /\ paused' = "credentials"
  /\ UNCHANGED <<script, strViewOnly, at, queue, looping, state, creds, pending, flushing>>

\* After this message the handler returns false or undefined: the loop ends.
EndsLoop(m) == m.kind \in {"version", "ard"} \/ (m.kind = "tunnels" /\ m.n > 0)

\* _framebufferUpdate: the header is read and the previous frame is not drawn.
MustFlush == M.kind = "fbu" /\ pos.stage = 1 /\ NextPos.read = 1 /\ pending

\* Mutant: one message per frame.
ContinuesOnce(over) == ~over \/ (looping /\ state = "connecting" /\ M.kind \notin {"reason", "serverInit"})

\* _handleMessage: what follows a message, by the state it leaves.
Continues(over) ==
  IF ~over THEN TRUE
  ELSE IF M.kind = "serverInit" \/ EndsLoop(M) \/ ~looping THEN FALSE
  ELSE IF state = "connected" THEN at' < got
  ELSE M.kind # "reason"

Take ==
  /\ running /\ got - at >= Now.need
  /\ Now.act = "creds" => creds
  /\ at' = at + Now.take
  /\ pos' = NextPos
  /\ flushing' = MustFlush
  /\ LET over == NextPos.msg > pos.msg
     IN  /\ running' = (~MustFlush /\ Continues(over))
         /\ state' = IF over /\ M.kind = "serverInit" THEN "connected"
                     ELSE IF over /\ M.kind = "reason" THEN "disconnected" ELSE state
         /\ paused' = IF over /\ M.kind = "ard" THEN "crypto" ELSE paused
  /\ pending' = (pending \/ Now.act = "image")
  /\ UNCHANGED <<script, strViewOnly, queue, looping, creds>>

\* sendCredentials by the page; _negotiateARDAuthAsync computes its answer.
SendCredentials ==
  /\ ~running /\ paused = "credentials"
  /\ creds' = TRUE /\ paused' = "timer"
  /\ UNCHANGED <<script, strViewOnly, at, queue, pos, running, looping, state, pending, flushing>>

ARDKeysReady ==
  /\ ~running /\ paused = "crypto"
  /\ paused' = "no"
  /\ UNCHANGED <<script, strViewOnly, at, queue, pos, running, looping, state, creds, pending, flushing>>

\* _resumeAuthentication's timer: one call of _initMsg.
ResumeAuthentication ==
  /\ ~running /\ paused = "timer"
  /\ paused' = "no" /\ running' = TRUE /\ looping' = FALSE
  /\ UNCHANGED <<script, strViewOnly, at, queue, pos, state, creds, pending, flushing>>

\* The images load, the queue is drawn; the flush's promise resumes the parser.
Drawn ==
  /\ ~running /\ pending
  /\ pending' = FALSE /\ flushing' = FALSE
  /\ running' = (flushing /\ at < got)
  /\ looping' = TRUE
  /\ UNCHANGED <<script, strViewOnly, at, queue, pos, state, paused, creds>>

AllRead == pos.msg > Len(script)

\* Everything sent has arrived and nothing is left to run, or a frame was lost and
\* with it the place in the stream.
Stop ==
  /\ ~running /\ ~pending /\ paused = "no"
  /\ got = Sent \/ lost > 0
  /\ UNCHANGED strVars

StrNext ==
  \/ \E n \in FrameSizes : RecvMessage(n)
  \/ ~AllRead /\ (RQwait \/ CredentialsRequired \/ Take)
  \/ SendCredentials \/ ARDKeysReady \/ ResumeAuthentication \/ Drawn \/ Stop

StrSpec == StrInit /\ [][StrNext]_strVars

-----------------------------------------------------------------------------


\* No whole message lies unhandled while nothing is left to resume the parser:
\* it would stay there until the server happens to send something else.
NoneLeft ==
  ~running /\ ~flushing /\ paused = "no" /\ got > 0 /\ lost = 0 =>
     (AllRead \/ got < End(pos.msg))
=============================================================================
