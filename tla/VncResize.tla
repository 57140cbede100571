------------------------------ MODULE VncResize -----------------------------
(***************************************************************************)
(* The size of the VM's screen and of the window (novnc/core/rfb.js,       *)
(* display.js): the console asks for a desktop of the window's size, one   *)
(* request at a time and ten a second, clips what does not fit, and meets  *)
(* resizes of the VM itself.  One dimension stands for both.               *)
(***************************************************************************)
EXTENDS Integers, Sequences

CONSTANTS
  Sizes,        \* sizes of the window and of the desktop
  MaxReplies    \* bound on the messages of the server that are on their way

ASSUME VncResizeAssumption == Sizes \subseteq Nat \ {0} /\ MaxReplies \in Nat

VARIABLES
  window,       \* the screen element's size
  observed,     \* what the ResizeObserver reported last
  expected,     \* _expectedClientWidth
  frame,        \* an animation frame is to update the viewport
  view,         \* the View menu: mode ("off", "scale", "remote"), clip, viewOnly
  supports,     \* _supportsSetDesktopSize
  asking,       \* _pendingRemoteResize
  recent,       \* less than 100 ms since _lastResize
  later,        \* _resizeTimeout runs
  fb, viewport, \* _fbWidth; _viewportLoc: x, w
  desk,         \* the VM's desktop
  requests, replies,
  left          \* the last change is one the console does not follow

resizeVars == <<window, observed, expected, frame, view, supports, asking, recent, later,
                fb, viewport, desk, requests, replies, left>>

ResizeInit ==
  /\ window \in Sizes /\ desk \in Sizes /\ fb = desk
  /\ expected = window /\ observed = 0 /\ frame = FALSE
  /\ view \in [mode : {"off", "scale", "remote"}, clip : {FALSE}, viewOnly : BOOLEAN]
  /\ supports = FALSE /\ asking = FALSE /\ recent = FALSE /\ later = FALSE
  /\ viewport = [x |-> 0, w |-> fb]
  /\ requests = <<>> /\ replies = <<>> /\ left = FALSE

-----------------------------------------------------------------------------
(* The viewport *)

Least(a, b) == IF a < b THEN a ELSE b

\* viewportChangePos: inside the framebuffer of size n; unclipped, at its start.
ViewportChangePos(vp, clip, d, n) ==
  LET back == IF clip THEN d ELSE -vp.w
      in == IF vp.x + back < 0 THEN -vp.x ELSE back
  IN  [vp EXCEPT !.x = @ + Least(in, n - (vp.x + vp.w))]

ViewportChangeSize(vp, clip, w, n) ==
  LET fit == IF clip THEN Least(w, n) ELSE n
  IN  IF vp.w = fit THEN vp ELSE ViewportChangePos([vp EXCEPT !.w = fit], clip, 0, n)

\* The readjustment of Display.resize and of its clipViewport.
Readjusted(vp, clip, n) ==
  ViewportChangePos(ViewportChangeSize(vp, clip, vp.w, n), clip, 0, n)

\* Scaling trumps clipping.
Clips(v) == v.clip /\ v.mode # "scale"

\* _updateClip when the display clips already as it should.
UpdateClip(vp, n) ==
  IF Clips(view) THEN ViewportChangeSize(vp, TRUE, window, n) ELSE vp

-----------------------------------------------------------------------------
(* Requests *)

MayAsk(mode, viewOnly) == mode = "remote" /\ ~viewOnly /\ supports'

\* _requestRemoteResize, for a framebuffer of size n; waits: the timer still runs.
RequestRemoteResize(mode, viewOnly, n, pend, waits) ==
  LET may == MayAsk(mode, viewOnly)
      asks == may /\ ~pend /\ ~recent /\ window # n
  IN  /\ asking' = (pend \/ asks)
      /\ recent' = (recent \/ asks)
      /\ requests' = IF asks THEN Append(requests, window) ELSE requests
      /\ later' = (waits \/ (may /\ ~pend /\ recent))
      /\ left' = (left /\ ~may)

NoRequest == UNCHANGED <<asking, recent, requests, later>>

\* The observer reports a size before the window gets another; animation frames,
\* clicks and messages may come first.
ResizeWindow(n) ==
  /\ n # window /\ observed = window
  /\ window' = n
  /\ UNCHANGED <<observed, expected, frame, view, supports, asking, recent, later,
                 fb, viewport, desk, requests, replies, left>>

\* _handleResize. The size may be expected already: the frame before saved it.
HandleResize ==
  /\ observed # window
  /\ observed' = window
  /\ UNCHANGED supports
  /\ IF window = expected
     THEN NoRequest /\ frame' = frame /\ left' = (left \/ window # fb)
     ELSE frame' = TRUE /\ RequestRemoteResize(view.mode, view.viewOnly, fb, asking, later)
  /\ UNCHANGED <<window, expected, view, fb, viewport, desk, replies>>

AnimationFrame ==
  /\ frame /\ frame' = FALSE
  /\ viewport' = UpdateClip(viewport, fb)
  /\ expected' = window
  /\ UNCHANGED <<window, observed, view, supports, asking, recent, later, fb, desk, requests, replies, left>>

\* The timer of the rate limit.
ResizeTimeout ==
  /\ later
  /\ UNCHANGED supports
  /\ RequestRemoteResize(view.mode, view.viewOnly, fb, asking, FALSE)
  /\ UNCHANGED <<window, observed, expected, frame, view, fb, viewport, desk, replies>>

TimePasses ==
  /\ recent /\ recent' = FALSE
  /\ UNCHANGED <<window, observed, expected, frame, view, supports, asking, later,
                 fb, viewport, desk, requests, replies, left>>

\* applyView: the size is asked for before viewOnly is set.
ApplySizing(v) ==
  LET turned == Clips(v) # Clips(view)
      vp == IF turned THEN Readjusted(viewport, Clips(v), fb) ELSE viewport
  IN  /\ v # view /\ view' = v
      /\ UNCHANGED supports
      /\ viewport' = IF Clips(v) THEN ViewportChangeSize(vp, TRUE, window, fb) ELSE vp
      /\ expected' = IF turned THEN window ELSE expected
      /\ IF v.mode = "remote"
         THEN \/ ~view.viewOnly /\ RequestRemoteResize(v.mode, FALSE, fb, asking, later)
              \/ view.viewOnly /\ NoRequest /\ left' = TRUE
         ELSE NoRequest /\ UNCHANGED left
      /\ UNCHANGED <<window, observed, frame, fb, desk, replies>>

\* A drag of the clipped screen.
DragViewport(d) ==
  /\ Clips(view)
  /\ viewport' = ViewportChangePos(viewport, TRUE, d, fb)
  /\ UNCHANGED <<window, observed, expected, frame, view, supports, asking, recent, later,
                 fb, desk, requests, replies, left>>

-----------------------------------------------------------------------------
(* The server *)

\* Mutant: an answer to the console's own request is not checked against the window.
AsksAgainNot(m) == ~supports
\* The first message, and the answer to a request that was granted.
AsksAgain(m) == ~supports \/ (m.by = "us" /\ m.ok)

\* _handleExtendedDesktopSize, _resize
HandleExtendedDesktopSize ==
  /\ replies # <<>>
  /\ LET m == Head(replies)
         pend == asking /\ m.by # "us"
         n == IF m.ok THEN m.size ELSE fb
     IN  /\ supports' = TRUE
         /\ fb' = n
         /\ viewport' = IF m.ok THEN UpdateClip(Readjusted(viewport, Clips(view), n), n) ELSE viewport
         /\ expected' = IF m.ok THEN window ELSE expected
         /\ IF AsksAgain(m)
            THEN RequestRemoteResize(view.mode, view.viewOnly, n, pend, later)
            ELSE /\ asking' = pend /\ left' = (left \/ m.by # "us" \/ ~m.ok)
                 /\ UNCHANGED <<recent, requests, later>>
  /\ replies' = Tail(replies)
  /\ UNCHANGED <<window, observed, frame, view, desk>>

Tells(by, ok, n) == replies' = Append(replies, [by |-> by, ok |-> ok, size |-> n])

\* It grants a request or refuses it.
ServerAnswers(ok) ==
  /\ requests # <<>> /\ requests' = Tail(requests)
  /\ desk' = IF ok THEN Head(requests) ELSE desk
  /\ Tells("us", ok, Head(requests))
  /\ UNCHANGED <<window, observed, expected, frame, view, supports, asking, recent, later, fb, viewport, left>>

\* The VM or another client changes the size; the first message tells the size.
VmResizes(n) ==
  /\ Len(replies) < MaxReplies
  /\ desk' = n
  /\ Tells("others", TRUE, n)
  /\ UNCHANGED <<window, observed, expected, frame, view, supports, asking, recent, later,
                 fb, viewport, requests, left>>

ResizeNext ==
  \/ \E n \in Sizes : ResizeWindow(n) \/ VmResizes(n)
  \/ HandleResize \/ AnimationFrame \/ ResizeTimeout \/ TimePasses
  \/ \E v \in [mode : {"off", "scale", "remote"}, clip : BOOLEAN, viewOnly : BOOLEAN] : ApplySizing(v)
  \/ \E d \in {-1, 1} : DragViewport(d)
  \/ HandleExtendedDesktopSize
  \/ \E ok \in BOOLEAN : ServerAnswers(ok)

ResizeSpec == ResizeInit /\ [][ResizeNext]_resizeVars

-----------------------------------------------------------------------------

Still ==
  /\ observed = window /\ ~frame /\ ~asking /\ ~later
  /\ requests = <<>> /\ replies = <<>>

\* Once everything has come to rest, a desktop that follows the window has its
\* size, however window, answers and timer interleaved - unless the last change
\* was one the console leaves: the VM's own, a refusal, the end of view-only, or
\* a window that changed again in the frame of a change that asked for nothing.
\* What the console shows always lies in the VM's screen, and fills the window
\* as far as the screen reaches. [_handleResize, _requestRemoteResize, "check if
\* we are in sync", viewportChangePos]
FollowsWindow ==
  /\ viewport.x >= 0 /\ viewport.x + viewport.w <= fb
  /\ Still /\ view.mode = "remote" /\ ~view.viewOnly /\ supports /\ ~left => fb = window /\ desk = window
  /\ Still /\ Clips(view) => viewport.w = Least(window, fb)
=============================================================================
