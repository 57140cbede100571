----------------------------- MODULE VncPointer -----------------------------
(***************************************************************************)
(* The pointer of the VNC console: noVNC's gesture handler turns the       *)
(* fingers on a touch screen into gestures, RFB turns gestures and mouse   *)
(* events into the pointer messages of the protocol, and the View menu of  *)
(* the page switches view-only and viewport dragging at any time.          *)
(*                                                                         *)
(* Positions are abstracted to what the code decides from them: whether a  *)
(* finger went further than the threshold and which way, whether a drag    *)
(* went far enough to move the viewport, and how far a scroll went.  Time  *)
(* is the age of the first touch (0: under 250 ms, 1: up to 1000 ms, 2:    *)
(* more), and a timer may fire at any moment it is set and due.            *)
(***************************************************************************)
EXTENDS Integers, Sequences, FiniteSets, SequencesExt

CONSTANTS
  Fingers,      \* touch identifiers
  Buttons       \* buttons of the mouse, a subset of {"left", "right"}

VARIABLES
  touching,     \* the fingers on the canvas
  held,         \* the mouse buttons that are down (MouseEvent.buttons)
  gest,         \* _state: the gestures still possible
  tracked,      \* _tracked
  age,          \* how long ago the first of them started
  ignored,      \* _ignored
  waiting,      \* _waitingRelease
  releaseLate,  \* more than 250 ms since _releaseStart
  longpress,    \* _longpressTimeoutId is pending
  twoTouch,     \* _twoTouchTimeoutId: null, pending, or left set after it ran
  ptr,          \* RFB: _mouseButtonMask, _mouseMoveTimer, _viewportDragging,
                \* _viewportHasMoved; the buttons down at the server, and
                \* whether the last touch sent a tap
  viewOnly,     \* RFB._viewOnly
  dragView,     \* RFB.dragViewport
  kept,         \* why the release of a press may not be sent: no reason, a View
                \* setting changed under it, or the viewport was moved
  ptrFault      \* an exception left a handler

fingerVars == <<touching, gest, tracked, age, ignored, waiting, releaseLate,
                longpress, twoTouch>>
viewVars == <<viewOnly, dragView>>
ptrVars == <<fingerVars, held, ptr, viewVars, kept, ptrFault>>

Taps == {"onetap", "twotap", "threetap"}
Gestures == Taps \cup {"drag", "longpress", "twodrag", "pinch"}
Wheel == {"up", "down", "scrollleft", "scrollright"}
NoWheel == "none"

PtrInit ==
  /\ touching = {} /\ held = {} /\ gest = Gestures /\ tracked = <<>>
  /\ age = 0 /\ ignored = {} /\ waiting = FALSE /\ releaseLate = FALSE
  /\ longpress = FALSE /\ twoTouch = "null"
  /\ ptr = [mask |-> {}, timer |-> FALSE, dragging |-> FALSE, moved |-> FALSE,
            remote |-> {}]
  /\ viewOnly \in BOOLEAN /\ dragView \in BOOLEAN
  /\ kept = "no" /\ ptrFault = FALSE

-----------------------------------------------------------------------------
(***************************************************************************)
(* RFB: pointer messages, as functions of the pointer's state p.           *)
(***************************************************************************)

\* Nothing is sent in view-only mode.
SendMouse(p, mask) == IF viewOnly THEN p ELSE [p EXCEPT !.remote = mask]

FlushMouseMoveTimer(p) ==
  IF p.timer THEN SendMouse([p EXCEPT !.timer = FALSE], p.mask) ELSE p

HandleMouseButton(p, mask) ==
  SendMouse([FlushMouseMoveTimer(p) EXCEPT !.mask = mask], mask)

\* Moves closer than 17 ms apart (soon) are put off, the last one wins.
HandleMouseMove(p, soon) ==
  IF p.timer THEN p
  ELSE IF soon THEN [p EXCEPT !.timer = TRUE] ELSE SendMouse(p, p.mask)

Click(p, mask) == HandleMouseButton(HandleMouseButton(p, mask), {})

\* One step of a wheel: pressed and released over the buttons held.
WheelStep(p, step, mask) ==
  IF step = NoWheel THEN p
  ELSE HandleMouseButton(HandleMouseButton(p, mask \cup {step}), mask)

HandleTapEvent(p, mask, soon) ==
  Click(HandleMouseMove(p, soon), mask)

DragMoves(p, far) ==
  [p EXCEPT !.dragging = TRUE, !.moved = @ \/ far]

GestureStart(p, g, soon) ==
  CASE g = "onetap"    -> HandleTapEvent(p, {"left"}, soon)
    [] g = "twotap"    -> HandleTapEvent(p, {"right"}, soon)
    [] g = "threetap"  -> HandleTapEvent(p, {"middle"}, soon)
    [] g = "drag"      -> IF dragView
                            THEN [p EXCEPT !.moved = FALSE, !.dragging = TRUE]
                            ELSE HandleMouseButton(HandleMouseMove(p, soon), {"left"})
    [] g = "longpress" -> IF dragView
                            THEN [p EXCEPT !.moved = FALSE]
                            ELSE HandleMouseButton(HandleMouseMove(p, soon), {"right"})
    [] OTHER           -> HandleMouseMove(p, soon)

\* A two-finger drag scrolls and a pinch scrolls under Control, by step; the
\* other gestures drag the pointer or the viewport.
GestureMove(p, g, soon, far, step) ==
  CASE g \in Taps -> p
    [] g \in {"drag", "longpress"} ->
         IF dragView THEN DragMoves(p, far) ELSE HandleMouseMove(p, soon)
    [] g \in {"twodrag", "pinch"} -> WheelStep(HandleMouseMove(p, soon), step, {})

\* Only the gestures of two fingers scroll.
StepOf(g) == IF g \cap {"twodrag", "pinch"} = {} THEN NoWheel ELSE "up"

\* Mutant: the end of a drag only moves the pointer.
GestureEndNoRelease(p, g, soon) ==
  CASE g = "drag" -> IF dragView THEN [p EXCEPT !.dragging = FALSE] ELSE HandleMouseMove(p, soon)
    [] g = "longpress" /\ ~p.moved -> Click(HandleMouseMove(p, soon), {"right"})
    [] OTHER -> p

GestureEnd(p, g, soon) ==
  CASE g = "drag" ->
         IF dragView THEN [p EXCEPT !.dragging = FALSE]
         ELSE HandleMouseButton(HandleMouseMove(p, soon), {})
    [] g = "longpress" ->
         IF p.moved THEN p
         ELSE IF dragView
           THEN [Click(HandleMouseMove(p, soon), {"right"}) EXCEPT !.dragging = FALSE]
           ELSE HandleMouseButton(HandleMouseMove(p, soon), {})
    [] OTHER -> p

\* Something is pressed, here or at the server.
Pressing(p) == touching # {} \/ held # {} \/ p.mask # {} \/ p.remote # {}

\* Why a release may not come is kept until nothing is pressed.
Track(p, why) ==
  /\ ptr' = p
  /\ kept' = IF ~Pressing(p) THEN "no" ELSE IF kept # "no" THEN kept ELSE why

-----------------------------------------------------------------------------
(***************************************************************************)
(* The mouse.  Its buttons are the ones down after the event.              *)
(***************************************************************************)

\* mousedown and mouseup: with viewport dragging the press is kept back, and
\* sent with the release when the viewport did not move.
MouseButtonEvent(mask, down) ==
  IF ~dragView THEN HandleMouseButton(ptr, mask)
  ELSE IF down /\ ~ptr.dragging
    THEN [FlushMouseMoveTimer([ptr EXCEPT !.dragging = TRUE, !.moved = FALSE])
            EXCEPT !.mask = mask]
  ELSE IF ptr.moved THEN [ptr EXCEPT !.dragging = FALSE, !.mask = mask]
  ELSE HandleMouseButton(SendMouse([ptr EXCEPT !.dragging = FALSE], ptr.mask), mask)

\* A press or release that a moved viewport keeps from the server.
KeptBack(down) ==
  IF dragView /\ ptr.moved /\ (down => ptr.dragging) THEN "moved" ELSE "no"

MouseDown(b) ==
  /\ b \notin held
  /\ held' = held \cup {b}
  /\ Track(MouseButtonEvent(held', TRUE), KeptBack(TRUE))
  /\ UNCHANGED <<fingerVars, viewVars, ptrFault>>

MouseUp(b) ==
  /\ b \in held
  /\ held' = held \ {b}
  /\ Track(MouseButtonEvent(held', FALSE), KeptBack(FALSE))
  /\ UNCHANGED <<fingerVars, viewVars, ptrFault>>

MouseMove(soon, far) ==
  /\ Track(IF ptr.dragging THEN DragMoves(ptr, far) ELSE HandleMouseMove(ptr, soon), "no")
  /\ UNCHANGED <<fingerVars, held, viewVars, ptrFault>>

HandleDelayedMouseMove ==
  /\ ptr.timer
  /\ Track(SendMouse([ptr EXCEPT !.timer = FALSE], ptr.mask), "no")
  /\ UNCHANGED <<fingerVars, held, viewVars, ptrFault>>

HandleWheel(step) ==
  /\ ~viewOnly
  /\ Track(WheelStep(ptr, step, held), "no")
  /\ UNCHANGED <<fingerVars, held, viewVars, ptrFault>>

-----------------------------------------------------------------------------
(***************************************************************************)
(* The gesture handler.                                                    *)
(***************************************************************************)

\* Exactly one gesture left, and for a tap no finger left either.
Detected(g, tr) ==
  /\ Cardinality(g) = 1
  /\ g \subseteq Taps => \A i \in DOMAIN tr : ~tr[i].active

Only(g) == CHOOSE x \in g : TRUE

\* The finger is the n-th of the gesture: what n fingers can no longer be, and
\* more than three are none.
FewerFingers(g, n) ==
  CASE n = 1 -> g
    [] n = 2 -> g \ {"onetap", "drag", "longpress"}
    [] n = 3 -> g \ {"twotap", "twodrag", "pinch"}
    [] OTHER -> {}

\* The first finger starts the long-press timer, the second stops it.
LongpressTimer(set, n) == (set /\ n # 2) \/ n = 1

\* More than 250 ms after the first finger, or after the first release, a finger
\* is not part of the gesture.
TooLate == waiting \/ (tracked # <<>> /\ age > 0)

TouchStart(f) ==
  /\ f \notin touching
  /\ touching' = touching \cup {f}
  /\ \/ /\ Detected(gest, tracked) \/ gest = {}
        /\ ignored' = ignored \cup {f}
        /\ UNCHANGED <<gest, tracked, age, longpress>>
     \/ /\ ~Detected(gest, tracked) /\ gest # {}
        /\ TooLate
        /\ gest' = {} /\ ignored' = ignored \cup {f}
        /\ UNCHANGED <<tracked, age, longpress>>
     \/ /\ ~Detected(gest, tracked) /\ gest # {}
        /\ ~TooLate
        /\ tracked' = Append(tracked, [id |-> f, active |-> TRUE, moved |-> "no"])
        /\ age' = IF tracked = <<>> THEN 0 ELSE age
        /\ gest' = FewerFingers(gest, Len(tracked'))
        /\ longpress' = LongpressTimer(longpress, Len(tracked'))
        /\ UNCHANGED ignored
  /\ UNCHANGED <<ptr, waiting, releaseLate, twoTouch, held, viewVars, kept, ptrFault>>

\* A finger past the threshold: no tap, no long press, a drag of one finger, a
\* scroll or a pinch of two, told apart once both have moved.
Moved(g, tr, other) ==
  LET g1 == g \ (Taps \cup {"longpress"})
      g2 == IF Len(tr) # 1 THEN g1 \ {"drag"} ELSE g1
      g3 == IF Len(tr) # 2 THEN g2 \ {"twodrag", "pinch"} ELSE g2
  IN  IF Len(tr) = 2 /\ tr[other].moved # "no"
        THEN g3 \ {IF tr[3 - other].moved # tr[other].moved THEN "twodrag" ELSE "pinch"}
        ELSE g3

TouchMove(i, to, soon, far, step) ==
  /\ tracked[i].id \in touching
  /\ tracked' = IF Detected(gest, tracked) THEN tracked
                ELSE [tracked EXCEPT ![i].moved = to]
  /\ LET two   == Len(tracked) = 2
         both  == two /\ tracked[3 - i].moved # "no"
         known == Detected(gest, tracked)
         after == Moved(gest, tracked', 3 - i)
         found == Detected(after, tracked')
     IN  IF ~known /\ to = "no"
           THEN UNCHANGED <<gest, longpress, twoTouch, ptr, kept>>
         ELSE IF known
           THEN /\ Track(GestureMove(ptr, Only(gest), soon, far, step), "no")
                /\ UNCHANGED <<gest, longpress, twoTouch>>
         ELSE /\ gest' = after
              /\ longpress' = FALSE
              /\ twoTouch' = IF both THEN "null"
                             ELSE IF two /\ twoTouch = "null" THEN "pending"
                             ELSE twoTouch
              /\ Track(IF found
                         THEN GestureMove(GestureStart(ptr, Only(after), soon),
                                          Only(after), soon, far, step)
                         ELSE ptr, "no")
  /\ UNCHANGED <<touching, held, age, ignored, waiting, releaseLate, viewVars, ptrFault>>

\* Mutant: the handler still waits for a release after the last finger.
IgnoredEndStillWaits(f) ==
  /\ ignored' = ignored \ {f}
  /\ gest' = IF ignored' = {} /\ tracked = <<>> THEN Gestures ELSE gest
  /\ UNCHANGED <<ptr, tracked, age, waiting, releaseLate, longpress, twoTouch, kept, ptrFault>>

\* The release of an ignored finger, the last one resets the handler.
IgnoredEnd(f) ==
  /\ ignored' = ignored \ {f}
  /\ IF ignored' = {} /\ tracked = <<>>
       THEN gest' = Gestures /\ waiting' = FALSE
       ELSE UNCHANGED <<gest, waiting>>
  /\ UNCHANGED <<ptr, tracked, age, releaseLate, longpress, twoTouch, kept, ptrFault>>

\* What a gesture can still be when the first of n fingers is lifted.
Lifted(g, n) ==
  LET g1 == g \ {"drag", "twodrag", "pinch", "longpress"}
  IN  IF waiting THEN g1
      ELSE CASE n = 1  -> g1 \ {"twotap", "threetap"}
             [] n = 2  -> g1 \ {"onetap", "threetap"}
             [] OTHER  -> g1

\* Mutant: a release leaves the two-finger timer alone.
ReleasedEarlyNot == FALSE

\* Released while the two-finger timer seems to run: no gesture any more.
ReleasedEarly == ~Detected(gest, tracked) /\ twoTouch # "null"

\* The release of a tracked finger: the gesture ends, or a tap waits for the
\* other fingers, or nothing can come of it any more.
TrackedEnd(f, soon) ==
  LET early  == ReleasedEarly
      g1     == IF early THEN {} ELSE gest
      open   == ~Detected(g1, tracked)
      g2     == IF open THEN Lifted(g1, Len(tracked)) ELSE g1
      wait   == waiting \/ open
      slow   == (waiting /\ releaseLate) \/ age = 2
      g3     == IF wait /\ slow THEN {} ELSE g2
      tr     == IF wait
                  THEN [i \in DOMAIN tracked |->
                         [tracked[i] EXCEPT !.active = @ /\ tracked[i].id # f]]
                  ELSE tracked
      found  == Detected(g3, tr)
      begun  == IF wait /\ found THEN GestureStart(ptr, Only(g3), soon) ELSE ptr
      rest   == {tr[i].id : i \in {j \in DOMAIN tr : tr[j].active}}
  IN  /\ ptrFault' = (ptrFault \/ (wait /\ \A i \in DOMAIN tracked : tracked[i].id # f))
      /\ twoTouch' = IF early THEN "null" ELSE twoTouch
      /\ longpress' = (longpress /\ ~open)
      /\ releaseLate' = (releaseLate /\ waiting)
      /\ IF wait /\ ~found /\ g3 # {}
           THEN /\ gest' = g3 /\ tracked' = tr /\ waiting' = TRUE
                /\ UNCHANGED <<age, ignored, ptr, kept>>
           ELSE /\ ignored' = (ignored \cup rest) \ {f}
                /\ tracked' = <<>> /\ age' = 0
                /\ gest' = IF ignored' = {} THEN Gestures ELSE {}
                /\ waiting' = (wait /\ ignored' # {})
                /\ Track(IF found THEN GestureEnd(begun, Only(g3), soon) ELSE begun,
                         IF g3 = {"longpress"} /\ ptr.moved THEN "moved" ELSE "no")

\* touchend and touchcancel
TouchEnd(f, soon) ==
  /\ f \in touching
  /\ touching' = touching \ {f}
  /\ IF f \in ignored THEN IgnoredEnd(f) ELSE TrackedEnd(f, soon)
  /\ UNCHANGED <<held, viewVars>>

\* It sets the gesture whatever was still possible.
LongpressTimeout(soon) ==
  /\ longpress /\ age > 0
  /\ longpress' = FALSE
  /\ IF Detected(gest, tracked)
       THEN ptrFault' = TRUE /\ UNCHANGED <<gest, ptr, kept>>
       ELSE /\ gest' = {"longpress"}
            /\ Track(GestureStart(ptr, "longpress", soon), "no")
            /\ UNCHANGED ptrFault
  /\ UNCHANGED <<touching, held, tracked, age, ignored, waiting, releaseLate, twoTouch, viewVars>>

\* The timer's identifier is not cleared.
TwoTouchTimeout(g, soon, step) ==
  /\ twoTouch = "pending"
  /\ twoTouch' = "ran"
  /\ IF tracked = <<>>
       THEN ptrFault' = TRUE /\ UNCHANGED <<gest, ptr, kept>>
       ELSE /\ gest' = {g}
            /\ Track(GestureMove(GestureStart(ptr, g, soon), g, soon, FALSE, step), "no")
            /\ UNCHANGED ptrFault
  /\ UNCHANGED <<touching, held, tracked, age, ignored, waiting, releaseLate, longpress, viewVars>>

\* Time passes: the gesture grows older, or the release of a tap takes too
\* long.  Only where the code still asks.
Asked == (gest # {} /\ ~Detected(gest, tracked)) \/ longpress

GestureAges ==
  /\ tracked # <<>> /\ Asked /\ age < 2
  /\ age' = age + 1
  /\ UNCHANGED <<touching, held, gest, tracked, ignored, waiting, releaseLate, longpress,
                 twoTouch, ptr, viewVars, kept, ptrFault>>

ReleaseLate ==
  /\ Asked /\ waiting /\ ~releaseLate
  /\ releaseLate' = TRUE
  /\ UNCHANGED <<ptr, touching, held, gest, tracked, age, ignored, waiting, longpress,
                 twoTouch, viewVars, kept, ptrFault>>

-----------------------------------------------------------------------------
(***************************************************************************)
(* The session and the page's View menu.                                   *)
(***************************************************************************)

\* applyView: the settings apply at once, also while a button is down.
ApplyView(only, drag) ==
  /\ <<only, drag>> # <<viewOnly, dragView>>
  /\ viewOnly' = only /\ dragView' = drag
  /\ kept' = IF Pressing(ptr) THEN "view" ELSE kept
  /\ UNCHANGED <<ptr, fingerVars, held, ptrFault>>

PtrNext ==
  \/ \E b \in Buttons : MouseDown(b) \/ MouseUp(b)
  \/ \E soon \in BOOLEAN, far \in {FALSE, ptr.dragging} : MouseMove(soon, far)
  \/ HandleDelayedMouseMove
  \/ \E step \in {"up", NoWheel} : HandleWheel(step)
  \/ \E f \in Fingers : TouchStart(f)
  \/ \E f \in Fingers, soon \in BOOLEAN : TouchEnd(f, soon)
  \/ \E i \in DOMAIN tracked, to \in {"no", "ahead", "back"}, soon \in BOOLEAN,
        far \in {FALSE, dragView}, step \in {NoWheel, StepOf(gest)} :
          TouchMove(i, to, soon, far, step)
  \/ \E soon \in BOOLEAN : LongpressTimeout(soon)
  \/ \E g \in {"pinch", "twodrag"}, soon \in BOOLEAN, step \in {"up", NoWheel} :
        TwoTouchTimeout(g, soon, step)
  \/ GestureAges
  \/ ReleaseLate
  \/ \E only, drag \in BOOLEAN : ApplyView(only, drag)

PtrSpec == PtrInit /\ [][PtrNext]_ptrVars

-----------------------------------------------------------------------------
(***************************************************************************)
(* Properties.                                                             *)
(***************************************************************************)

\* Once the last finger is off the screen the gesture handler is as new: no
\* order of presses, moves, releases and timers leaves it deaf to the next
\* touch or with a finger it waits for, and none makes a handler throw (the
\* long-press timer never meets another gesture, the two-finger timer always
\* has a finger, a finger that is lifted is known).
FingersForgotten ==
  /\ ~ptrFault
  /\ touching = {} =>
       gest = Gestures /\ tracked = <<>> /\ ignored = {} /\ ~waiting /\ ~longpress

\* With no finger on the screen and no mouse button down the server has no
\* button down, unless a View setting changed under the press or the release
\* was kept back for a viewport that had moved.
ButtonsReleased ==
  touching = {} /\ held = {} /\ kept = "no" => ptr.remote = {}
=============================================================================
