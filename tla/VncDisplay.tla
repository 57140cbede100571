----------------------------- MODULE VncDisplay -----------------------------
(***************************************************************************)
(* What the VNC console draws: the render queue of noVNC's Display, which  *)
(* keeps everything behind an image that still loads or a video frame that *)
(* is still decoded, the H.264 contexts whose decoders answer later, and   *)
(* RFB, which reads no further update while the last one is not drawn.     *)
(*                                                                         *)
(* Drawing operations are numbered as the server sent them; pixels and     *)
(* positions are left out.                                                 *)
(***************************************************************************)
EXTENDS Integers, Sequences, FiniteSets, SequencesExt

CONSTANTS
  Rects,        \* positions of H.264 rectangles, the keys of the contexts
  MaxContexts,  \* 64 in the code
  MaxOps,       \* bound: operations sent
  MaxPerUpdate, \* bound: operations of one update
  Breaks        \* an image may be broken, a decoder refuse a frame or fail

ASSUME DisplayAssumption ==
  MaxContexts \in Nat \ {0} /\ MaxOps \in Nat /\ MaxPerUpdate \in Nat /\ Breaks \in BOOLEAN

VARIABLES
  ops,          \* operations sent so far
  inUpdate,     \* operations of the update RFB is reading, -1 between updates
  rfbFlushing,     \* RFB._flushing: reading waits for the display
  renderQ,      \* Display._renderQ
  drawn,        \* operations on the back buffer, in the order they were drawn
  damage,       \* operations drawn since the last flip
  shown,        \* operations on the visible canvas
  promise,      \* Display._flushPromise is not null
  listening,    \* operations whose load event or promise resumes the queue
  contexts,     \* H264Decoder._contexts: rectangle and context, least recent first
  decoding,     \* per context ever made: its _pendingFrames, n is 0 for one not
                \* kept, at the timestamp of its rectangle
  due,          \* per context ever made: timestamps of the frames its decoder owes
  configured    \* contexts whose decoder is configured

rfbVars == <<ops, inUpdate, rfbFlushing>>
queueVars == <<renderQ, drawn, damage, shown, promise, listening>>
h264Vars == <<contexts, decoding, due, configured>>
dispVars == <<rfbVars, queueVars, h264Vars>>

DispInit ==
  /\ ops = 0 /\ inUpdate = -1 /\ rfbFlushing = FALSE
  /\ renderQ = <<>> /\ drawn = <<>> /\ damage = {} /\ shown = {}
  /\ promise = FALSE /\ listening = {}
  /\ contexts = <<>> /\ decoding = <<>> /\ due = <<>> /\ configured = {}

-----------------------------------------------------------------------------
(***************************************************************************)
(* The queue, as a record d = [q, drawn, damage, shown, promise, listening,*)
(* flushing].                                                              *)
(***************************************************************************)

Screen == [q |-> renderQ, drawn |-> drawn, damage |-> damage, shown |-> shown,
           promise |-> promise, listening |-> listening, flushing |-> rfbFlushing]

ScreenBecomes(next) ==
  \E d \in {next} :   \* evaluated once
    /\ renderQ' = d.q /\ drawn' = d.drawn /\ damage' = d.damage /\ shown' = d.shown
    /\ promise' = d.promise /\ listening' = d.listening /\ rfbFlushing' = d.flushing

\* One operation on the canvases c: a flip shows the damage, the others add to it.
Paint(c, op) ==
  IF op.kind = "flip"
    THEN [c EXCEPT !.shown = @ \cup c.damage, !.damage = {}]
    ELSE [c EXCEPT !.damage = @ \cup {op.n}]

\* Operations are drawn one after the other.
Draw(d, these) ==
  LET c == FoldLeft(Paint, [damage |-> d.damage, shown |-> d.shown], these)
  IN  [d EXCEPT !.drawn = @ \o [i \in DOMAIN these |-> these[i].n],
                !.damage = c.damage, !.shown = c.shown]

\* How many operations from the head of the queue can be drawn now.
ReadyPrefix(q) ==
  CHOOSE n \in 0..Len(q) :
    /\ \A i \in 1..n : q[i].state = "ready"
    /\ n < Len(q) => q[n + 1].state # "ready"

\* _scanRenderQ: draw up to the first image that loads or frame that decodes,
\* listen for it, and resolve the flush of an empty queue.  A broken image, or
\* one of the wrong size, stops it for good.
Scan(d) ==
  LET n    == ReadyPrefix(d.q)
      rest == SubSeq(d.q, n + 1, Len(d.q))
      d1   == Draw([d EXCEPT !.q = rest], SubSeq(d.q, 1, n))
  IN  IF rest = <<>>
        THEN [d1 EXCEPT !.promise = FALSE, !.flushing = @ /\ ~d.promise]
      ELSE IF rest[1].state = "waiting"
        THEN [d1 EXCEPT !.listening = @ \cup {rest[1].n}]
      ELSE d1

\* Mutant: the head of the queue is not looked at when it is pushed.
RenderQPushOnly(d, op) == [d EXCEPT !.q = Append(@, op)]

RenderQPush(d, op) ==
  LET d1 == [d EXCEPT !.q = Append(@, op)]
  IN  IF Len(d1.q) = 1 THEN Scan(d1) ELSE d1

\* Mutant: a fill, copy or blit does not wait its turn.
DrawOrQueueAtOnce(d, op) == Draw(d, <<op>>)

\* fillRect, copyImage, blitImage, flip: at once, or behind what is queued.
DrawOrQueue(d, op) == IF d.q = <<>> THEN Draw(d, <<op>>) ELSE RenderQPush(d, op)

-----------------------------------------------------------------------------
(***************************************************************************)
(* Updates of the server.                                                  *)
(***************************************************************************)

\* A FramebufferUpdate: first the last one is drawn, then its rectangles come.
BeginUpdate ==
  /\ inUpdate = -1 /\ ~rfbFlushing /\ ops < MaxOps
  /\ IF renderQ # <<>>
       THEN rfbFlushing' = TRUE /\ promise' = TRUE /\ UNCHANGED inUpdate
       ELSE inUpdate' = 0 /\ UNCHANGED <<rfbFlushing, promise>>
  /\ UNCHANGED <<ops, renderQ, drawn, damage, shown, listening, h264Vars>>

Operation(kind, state) == [n |-> ops + 1, kind |-> kind, state |-> state]

MoreRects == inUpdate >= 0 /\ inUpdate < MaxPerUpdate /\ ops < MaxOps - 1

\* A rectangle of plain pixels, a fill or a copy.
PixelRect ==
  /\ MoreRects
  /\ ops' = ops + 1 /\ inUpdate' = inUpdate + 1
  /\ ScreenBecomes(DrawOrQueue(Screen, Operation("pixels", "ready")))
  /\ UNCHANGED h264Vars

\* imageRect: a JPEG or PNG, whose data the browser decodes.
ImageRect ==
  /\ MoreRects
  /\ ops' = ops + 1 /\ inUpdate' = inUpdate + 1
  /\ ScreenBecomes(RenderQPush(Screen, Operation("image", "waiting")))
  /\ UNCHANGED h264Vars

EndUpdate ==
  /\ inUpdate >= 0
  /\ ops' = ops + 1 /\ inUpdate' = -1
  /\ ScreenBecomes(DrawOrQueue(Screen, Operation("flip", "ready")))
  /\ UNCHANGED h264Vars

\* The state of an operation in the queue changes; if it was waited for, its
\* event resumes the queue.
Settle(n, state) ==
  LET d == [Screen EXCEPT !.q = [i \in DOMAIN @ |->
                IF @[i].n = n THEN [@[i] EXCEPT !.state = state] ELSE @[i]],
                          !.listening = @ \ {n}]
  IN  IF n \in listening /\ state = "ready" THEN Scan(d) ELSE d

Waiting(kind) == {renderQ[i].n : i \in {j \in DOMAIN renderQ :
                     renderQ[j].kind = kind /\ renderQ[j].state = "waiting"}}

ImageLoads(n) ==
  /\ n \in Waiting("image")
  /\ ScreenBecomes(Settle(n, "ready"))
  /\ UNCHANGED <<ops, inUpdate, h264Vars>>

\* No load event comes of an image that cannot be decoded.
ImageBreaks(n) ==
  /\ Breaks /\ n \in Waiting("image")
  /\ ScreenBecomes(Settle(n, "broken"))
  /\ UNCHANGED <<ops, inUpdate, h264Vars>>

-----------------------------------------------------------------------------
(***************************************************************************)
(* H.264: a context per rectangle, the least recently used one makes room. *)
(***************************************************************************)

\* _resetAllContexts, _resetContext or neither, before the lookup.
AfterReset(r, reset) ==
  CASE reset = "all"  -> <<>>
    [] reset = "this" -> SelectSeq(contexts, LAMBDA c : c.rect # r)
    [] OTHER          -> contexts

\* _createContext
MakeRoom(table) ==
  IF Len(table) < MaxContexts THEN table ELSE Tail(table)

\* _getContext, lastUsed: the rectangle's context, new or known, is used last.
Lookup(r, table) ==
  LET known == {c \in ToSet(table) : c.rect = r}
  IN  IF known # {}
        THEN Append(SelectSeq(table, LAMBDA c : c.rect # r), CHOOSE c \in known : TRUE)
        ELSE Append(MakeRoom(table), [rect |-> r, id |-> Len(decoding) + 1])

\* decode: frames before the first key frame are dropped, all others are pending
\* and go to the decoder, and only the last one of the rectangle is drawn. It takes
\* some of them: a frame whose decode throws stays pending, and is drawn if it is
\* the last. A payload that cannot be parsed ends the session instead.
H264Rect(r, reset, frames, key, taken) ==
  /\ MoreRects
  /\ taken <= frames /\ (~Breaks => taken = frames)
  /\ contexts' = Lookup(r, AfterReset(r, reset))
  /\ LET id    == Last(contexts').id
         Known(table) == IF id > Len(table) THEN Append(table, <<>>) ELSE table
         goes  == frames > 0 /\ (key \/ id \in configured)
         kept  == [i \in 1..frames |-> [n |-> IF i = frames THEN ops + 1 ELSE 0, at |-> ops + 1]]
         owed  == [i \in 1..taken |-> ops + 1]
     IN  /\ configured' = IF goes THEN configured \cup {id} ELSE configured
         /\ decoding' = IF goes THEN [Known(decoding) EXCEPT ![id] = @ \o kept] ELSE Known(decoding)
         /\ due' = IF goes THEN [Known(due) EXCEPT ![id] = @ \o owed] ELSE Known(due)
         /\ IF goes
              THEN /\ ops' = ops + 1
                   /\ ScreenBecomes(RenderQPush(Screen, Operation("frame", "waiting")))
              ELSE UNCHANGED <<ops, queueVars, rfbFlushing>>
  /\ inUpdate' = inUpdate + 1

\* _handleFrame: the decoder's frames come in order, each for the frame pending
\* longest; one nobody keeps is closed. With another timestamp it throws, and
\* what was pending never gets ready; two rectangles may have one timestamp.
HandleFrame(c) ==
  /\ due[c] # <<>>
  /\ due' = [due EXCEPT ![c] = Tail(@)]
  /\ decoding' = [decoding EXCEPT ![c] = Tail(@)]
  /\ LET pending == Head(decoding[c])
     IN  \/ pending.n # 0 /\ ScreenBecomes(Settle(pending.n, "ready"))
         \/ /\ pending.n = 0 \/ pending.at # Head(due[c])
            /\ UNCHANGED <<queueVars, rfbFlushing>>
  /\ UNCHANGED <<ops, inUpdate, contexts, configured>>

\* _handleError: the decoder is closed and owes nothing any more; what is pending
\* stays so, also when a key frame configures a new one.
DecoderFails(c) ==
  /\ Breaks /\ c \in configured
  /\ configured' = configured \ {c}
  /\ due' = [due EXCEPT ![c] = <<>>]
  /\ UNCHANGED <<rfbVars, queueVars, contexts, decoding>>

DispNext ==
  \/ BeginUpdate
  \/ PixelRect
  \/ ImageRect
  \/ EndUpdate
  \/ \E n \in 1..MaxOps : ImageLoads(n)
  \/ \E n \in 1..MaxOps : ImageBreaks(n)
  \/ \E r \in Rects, reset \in {"all", "this", "none"}, frames \in 0..2, key \in BOOLEAN,
        taken \in 0..2 : H264Rect(r, reset, frames, key, taken)
  \/ \E c \in DOMAIN decoding : HandleFrame(c)
  \/ \E c \in DOMAIN decoding : DecoderFails(c)

\* The browser ends every load it began, and its decoders give what they owe.
DispFairness ==
  /\ WF_dispVars(\E n \in 1..MaxOps : ImageLoads(n) \/ ImageBreaks(n))
  /\ WF_dispVars(\E c \in DOMAIN decoding : HandleFrame(c))
  /\ WF_dispVars(EndUpdate)

DispSpec == DispInit /\ [][DispNext]_dispVars /\ DispFairness

-----------------------------------------------------------------------------
(***************************************************************************)
(* Properties.                                                             *)
(***************************************************************************)

\* The screen is drawn in the order the server sent it, however the images and
\* the frames of different decoders come in.
DrawnInOrder == \A i \in DOMAIN drawn : drawn[i] = i

\* A frame in the queue that no decoder will make ready: its decode threw, its
\* decoder failed, or the frames that come are those of later rectangles.
Unanswered(n) ==
  \A c \in DOMAIN decoding : \A i \in DOMAIN decoding[c] :
    decoding[c][i].n = n => i > Len(due[c]) \/ due[c][i] # decoding[c][i].at

Broken ==
  \E i \in DOMAIN renderQ :
    \/ renderQ[i].state = "broken"
    \/ renderQ[i].kind = "frame" /\ renderQ[i].state = "waiting" /\ Unanswered(renderQ[i].n)

\* An update that was sent is seen: the queue drains, a reader that waits for it
\* goes on, and all that was drawn gets shown, also when the context that decodes
\* a frame was reset or made room meanwhile. Only an image that is broken, or a
\* frame no decoder will make ready, stops the screen.
\* [_scanRenderQ, _handleFrame, flush, RFB._framebufferUpdate]
UpdatesShown ==
  (ops > 0 \/ rfbFlushing) ~>
    (Broken \/ (renderQ = <<>> /\ ~rfbFlushing /\ damage = {} ))
=============================================================================
