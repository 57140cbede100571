--------------------------- MODULE VncInputProofs ---------------------------
(***************************************************************************)
(* Theorems about the input side of the VNC console: the size of the VM's  *)
(* screen follows the window, the gesture handler forgets the fingers, no  *)
(* button or key stays down at the VM, typed text arrives as the field     *)
(* shows it, the server never loses the stream of messages, and the two    *)
(* clipboards agree, for any sizes, fingers, keys, characters and texts.   *)
(***************************************************************************)
EXTENDS VncPointer, VncResize, VncKeys, VncTyping, VncSend, TLAPS, FiniteSetTheorems,
  NaturalsInduction, WellFoundedInduction, SequenceTheorems

-----------------------------------------------------------------------------
(***************************************************************************)
(* The invariant of VncResize.                                             *)
(***************************************************************************)

Views == [mode : {"off", "scale", "remote"}, clip : BOOLEAN, viewOnly : BOOLEAN]

ResizeTypes ==
  /\ window \in Sizes /\ observed \in Sizes \cup {0} /\ expected \in Sizes
  /\ frame \in BOOLEAN /\ view \in Views
  /\ supports \in BOOLEAN /\ asking \in BOOLEAN /\ recent \in BOOLEAN /\ later \in BOOLEAN
  /\ fb \in Sizes /\ desk \in Sizes
  /\ viewport \in [x : Int, w : Int]
  /\ requests \in Seq(Sizes)
  /\ replies \in Seq([by : {"us", "others"}, ok : BOOLEAN, size : Sizes])
  /\ left \in BOOLEAN

\* A viewport that lies in a framebuffer of size n.
Within(vp, n) == vp.x >= 0 /\ vp.w >= 0 /\ vp.x + vp.w <= n

\* The size the VM has is the last one it told, be it read yet or not.
DeskTold ==
  /\ (\A i \in DOMAIN replies : ~replies[i].ok) => fb = desk
  /\ \A i \in DOMAIN replies :
       replies[i].ok /\ (\A j \in DOMAIN replies : j > i => ~replies[j].ok) => replies[i].size = desk

\* The console follows, and then the two sizes agree or somebody still looks at them.
Follows == supports /\ view.mode = "remote" /\ ~view.viewOnly /\ ~left
InSight == Follows => fb = window \/ asking \/ later \/ observed # window

\* What was clipped to another window than this one is clipped again by a frame.
Clipped ==
  /\ ~frame /\ observed = window => expected = window
  /\ Clips(view) /\ ~frame =>
       \/ viewport.w = Least(expected, fb)
       \/ viewport.w = Least(window, fb) /\ observed # window /\ expected # window

ResizeInv == ResizeTypes /\ Within(viewport, fb) /\ DeskTold /\ InSight /\ Clipped

-----------------------------------------------------------------------------
(***************************************************************************)
(* What the operators on the viewport return.                              *)
(***************************************************************************)

\* The smaller of two numbers.
LEMMA LeastIs ==
  ASSUME NEW a \in Int, NEW b \in Int
  PROVE  /\ Least(a, b) \in Int /\ Least(a, b) <= a /\ Least(a, b) <= b
         /\ Least(a, b) = a \/ Least(a, b) = b
  BY DEF Least

\* viewportChangePos brings a viewport that is not too wide into the framebuffer.
LEMMA PosWithin ==
  ASSUME NEW vp \in [x : Int, w : Int], NEW clip \in BOOLEAN, NEW d \in Int, NEW n \in Int,
         vp.x >= 0, vp.w >= 0, vp.w <= n
  PROVE  LET c == ViewportChangePos(vp, clip, d, n)
         IN  c \in [x : Int, w : Int] /\ c.w = vp.w /\ Within(c, n)
  <1> DEFINE back == IF clip THEN d ELSE -vp.w
             in == IF vp.x + back < 0 THEN -vp.x ELSE back
             step == Least(in, n - (vp.x + vp.w))
             c == [vp EXCEPT !.x = @ + step]
  <1>1. vp.x \in Int /\ vp.w \in Int
    OBVIOUS
  <1>2. in \in Int /\ vp.x + in >= 0
    BY <1>1
  <1>3. step \in Int /\ (step = in \/ step = n - (vp.x + vp.w)) /\ step <= n - (vp.x + vp.w)
    <2> DEFINE rest == n - (vp.x + vp.w)
    <2>1. rest \in Int
      BY <1>1
    <2> HIDE DEF in, rest
    <2>2. /\ Least(in, rest) \in Int /\ Least(in, rest) <= rest
          /\ Least(in, rest) = in \/ Least(in, rest) = rest
      BY <1>2, <2>1, LeastIs
    <2> QED
      BY <2>2 DEF rest
  <1>4. c.x = vp.x + step /\ c.w = vp.w /\ c \in [x : Int, w : Int]
    BY <1>1, <1>3
  <1>5. Within(c, n)
    <2> HIDE DEF c, step, in
    <2> QED
      BY <1>1, <1>2, <1>3, <1>4 DEF Within
  <1>6. ViewportChangePos(vp, clip, d, n) = c
    BY DEF ViewportChangePos
  <1> HIDE DEF c
  <1> QED
    BY <1>4, <1>5, <1>6

\* viewportChangeSize gives the wanted width, or all there is, and leaves what lay
\* in the framebuffer there.
LEMMA SizeFits ==
  ASSUME NEW vp \in [x : Int, w : Int], NEW clip \in BOOLEAN, NEW w \in Int, NEW n \in Int,
         vp.x >= 0, vp.w >= 0, w >= 0, n >= 0
  PROVE  LET c == ViewportChangeSize(vp, clip, w, n)
         IN  /\ c \in [x : Int, w : Int] /\ c.x >= 0 /\ c.w >= 0 /\ c.w <= n
             /\ clip => c.w = Least(w, n)
             /\ Within(vp, n) => Within(c, n)
  <1> DEFINE fit == IF clip THEN Least(w, n) ELSE n
             wide == [vp EXCEPT !.w = fit]
             c == ViewportChangeSize(vp, clip, w, n)
  <1>1. fit \in Int /\ fit >= 0 /\ fit <= n /\ (clip => fit = Least(w, n))
    BY LeastIs
  <1> HIDE DEF fit
  <1>2. c = IF vp.w = fit THEN vp ELSE ViewportChangePos(wide, clip, 0, n)
    BY DEF ViewportChangeSize, fit
  <1> SUFFICES /\ c \in [x : Int, w : Int] /\ c.x >= 0 /\ c.w = fit
               /\ Within(vp, n) => Within(c, n)
    BY <1>1
  <1> HIDE DEF c
  <1>3. CASE vp.w = fit
    BY <1>1, <1>2, <1>3
  <1>4. CASE vp.w # fit
    <2>1. wide \in [x : Int, w : Int] /\ wide.x = vp.x /\ wide.w = fit
      BY <1>1
    <2> HIDE DEF wide
    <2> DEFINE e == ViewportChangePos(wide, clip, 0, n)
    <2>2. e \in [x : Int, w : Int] /\ e.w = wide.w /\ Within(e, n)
      BY <1>1, <2>1, PosWithin
    <2>3. c = e
      BY <1>2, <1>4
    <2> HIDE DEF e
    <2> QED
      BY <1>1, <2>1, <2>2, <2>3 DEF Within
  <1> QED
    BY <1>3, <1>4

\* Display.resize brings the viewport into a framebuffer of any size.
LEMMA ReadjustedWithin ==
  ASSUME NEW vp \in [x : Int, w : Int], NEW clip \in BOOLEAN, NEW n \in Int,
         vp.x >= 0, vp.w >= 0, n >= 0
  PROVE  Readjusted(vp, clip, n) \in [x : Int, w : Int] /\ Within(Readjusted(vp, clip, n), n)
  <1> DEFINE s == ViewportChangeSize(vp, clip, vp.w, n)
             c == ViewportChangePos(s, clip, 0, n)
  <1>1. vp.w \in Int
    OBVIOUS
  <1>2. s \in [x : Int, w : Int] /\ s.x >= 0 /\ s.w >= 0 /\ s.w <= n
    BY <1>1, SizeFits
  <1> HIDE DEF s
  <1>3. c \in [x : Int, w : Int] /\ Within(c, n)
    BY <1>2, PosWithin
  <1>4. Readjusted(vp, clip, n) = c
    BY DEF Readjusted, s
  <1> QED
    BY <1>3, <1>4

\* A viewport clipped anew.
LEMMA UpdateFits ==
  ASSUME NEW vp \in [x : Int, w : Int], NEW n \in Int, Within(vp, n), window \in Nat, view \in Views
  PROVE  /\ UpdateClip(vp, n) \in [x : Int, w : Int] /\ Within(UpdateClip(vp, n), n)
         /\ Clips(view) => UpdateClip(vp, n).w = Least(window, n)
  <1>1. vp.x >= 0 /\ vp.w >= 0 /\ n >= 0 /\ vp.x \in Int /\ vp.w \in Int
    BY DEF Within
  <1> DEFINE c == ViewportChangeSize(vp, TRUE, window, n)
  <1>2. c \in [x : Int, w : Int] /\ c.w = Least(window, n) /\ Within(c, n)
    <2> HIDE DEF c
    <2>1. TRUE \in BOOLEAN /\ window \in Int /\ window >= 0
      OBVIOUS
    <2> QED
      BY <1>1, <2>1, SizeFits DEF c
  <1> HIDE DEF c
  <1>3. UpdateClip(vp, n) = IF Clips(view) THEN c ELSE vp
    BY DEF UpdateClip, c
  <1> QED
    BY <1>2, <1>3

-----------------------------------------------------------------------------
(***************************************************************************)
(* The invariant holds at first and is kept by every step.                 *)
(***************************************************************************)

\* A request keeps the types; where the console may ask, the sizes agree after it,
\* or an answer or the timer is to come.
LEMMA RequestLooks ==
  ASSUME ResizeTypes, NEW mode, NEW fixed \in BOOLEAN, NEW n \in Sizes,
         NEW pend \in BOOLEAN, NEW waits \in BOOLEAN, supports' \in BOOLEAN,
         RequestRemoteResize(mode, fixed, n, pend, waits)
  PROVE  /\ asking' \in BOOLEAN /\ recent' \in BOOLEAN /\ later' \in BOOLEAN /\ left' \in BOOLEAN
         /\ requests' \in Seq(Sizes)
         /\ mode = "remote" /\ ~fixed /\ supports' => n = window \/ asking' \/ later'
         /\ ~(mode = "remote" /\ ~fixed /\ supports') => left' = left
  <1> DEFINE may == MayAsk(mode, fixed)
             asks == may /\ ~pend /\ ~recent /\ window # n
  <1>1. /\ asking' = (pend \/ asks) /\ recent' = (recent \/ asks)
        /\ requests' = IF asks THEN Append(requests, window) ELSE requests
        /\ later' = (waits \/ (may /\ ~pend /\ recent))
        /\ left' = (left /\ ~may)
    BY Zenon DEF RequestRemoteResize
  <1>2. may <=> mode = "remote" /\ ~fixed /\ supports'
    BY DEF MayAsk
  <1> HIDE DEF may
  <1>3. asking' \in BOOLEAN /\ recent' \in BOOLEAN /\ later' \in BOOLEAN /\ left' \in BOOLEAN
    BY <1>1 DEF ResizeTypes
  <1>4. requests' \in Seq(Sizes)
    BY <1>1 DEF ResizeTypes
  <1>5. may => n = window \/ asking' \/ later'
    BY <1>1 DEF ResizeTypes
  <1>6. ~may => left' = left
    BY <1>1 DEF ResizeTypes
  <1> QED
    BY <1>2, <1>3, <1>4, <1>5, <1>6

LEMMA ResizeInitInv ==
  ASSUME ResizeInit
  PROVE  ResizeInv
  <1> USE VncResizeAssumption
  <1>1. /\ window \in Sizes /\ desk \in Sizes /\ fb = desk /\ expected = window /\ observed = 0
        /\ frame = FALSE /\ supports = FALSE /\ asking = FALSE /\ recent = FALSE /\ later = FALSE
        /\ left = FALSE /\ requests = <<>> /\ replies = <<>> /\ viewport = [x |-> 0, w |-> fb]
    BY DEF ResizeInit
  <1>2. view \in Views /\ ~view.clip
    <2>1. view \in [mode : {"off", "scale", "remote"}, clip : {FALSE}, viewOnly : BOOLEAN]
      BY DEF ResizeInit
    <2>2. view.clip = FALSE
      BY <2>1
    <2> QED
      BY <2>1, <2>2 DEF Views
  <1>3. viewport \in [x : Int, w : Int] /\ Within(viewport, fb)
    BY <1>1 DEF Within
  <1>4. requests \in Seq(Sizes) /\ replies \in Seq([by : {"us", "others"}, ok : BOOLEAN, size : Sizes])
    BY <1>1
  <1>5. ResizeTypes
    BY <1>1, <1>2, <1>3, <1>4 DEF ResizeTypes
  <1>6. DeskTold
    BY <1>1 DEF DeskTold
  <1>7. InSight /\ Clipped
    BY <1>1, <1>2 DEF InSight, Follows, Clipped, Clips
  <1> QED
    BY <1>3, <1>5, <1>6, <1>7 DEF ResizeInv

\* A message that is appended tells the size the desktop has then.
LEMMA TellsDesk ==
  ASSUME ResizeTypes, DeskTold, NEW by \in {"us", "others"}, NEW ok \in BOOLEAN, NEW n \in Sizes,
         Tells(by, ok, n), UNCHANGED fb, desk' = IF ok THEN n ELSE desk
  PROVE  DeskTold' /\ replies' \in Seq([by : {"us", "others"}, ok : BOOLEAN, size : Sizes])
  <1> DEFINE m == [by |-> by, ok |-> ok, size |-> n]
  <1>1. m \in [by : {"us", "others"}, ok : BOOLEAN, size : Sizes] /\ m.ok = ok /\ m.size = n
    OBVIOUS
  <1>2. replies' = Append(replies, m)
    BY DEF Tells
  <1> HIDE DEF m
  <1>3. /\ replies' \in Seq([by : {"us", "others"}, ok : BOOLEAN, size : Sizes])
        /\ Len(replies') = Len(replies) + 1 /\ Len(replies) \in Nat
        /\ replies'[Len(replies) + 1] = m
        /\ \A i \in 1..Len(replies) : replies'[i] = replies[i]
        /\ DOMAIN replies = 1..Len(replies) /\ DOMAIN replies' = 1..Len(replies')
    BY <1>1, <1>2 DEF ResizeTypes
  <1>4. (\A i \in DOMAIN replies' : ~replies'[i].ok) => fb' = desk'
    <2> SUFFICES ASSUME \A i \in DOMAIN replies' : ~replies'[i].ok PROVE fb' = desk'
      OBVIOUS
    <2>1. ~ok
      BY <1>1, <1>3
    <2>2. \A i \in DOMAIN replies : ~replies[i].ok
      BY <1>3
    <2> QED
      BY <2>1, <2>2 DEF DeskTold
  <1>5. ASSUME NEW i \in DOMAIN replies', replies'[i].ok,
               \A j \in DOMAIN replies' : j > i => ~replies'[j].ok
        PROVE  replies'[i].size = desk'
    <2>1. CASE i = Len(replies) + 1
      BY <1>1, <1>3, <1>5, <2>1
    <2>2. CASE i # Len(replies) + 1
      <3>1. i \in 1..Len(replies) /\ Len(replies) + 1 > i
        BY <1>3, <2>2
      <3>2. ~ok
        BY <1>1, <1>3, <1>5, <3>1
      <3>3. \A j \in DOMAIN replies : j > i => ~replies[j].ok
        BY <1>3, <1>5
      <3> QED
        BY <1>3, <1>5, <3>1, <3>2, <3>3 DEF DeskTold
    <2> QED
      BY <2>1, <2>2
  <1> QED
    BY <1>3, <1>4, <1>5 DEF DeskTold

\* A message that is read tells the console what it tells.
LEMMA ReadsDesk ==
  ASSUME ResizeTypes, DeskTold, replies # <<>>, replies' = Tail(replies),
         UNCHANGED desk, fb' = IF Head(replies).ok THEN Head(replies).size ELSE fb
  PROVE  DeskTold' /\ replies' \in Seq([by : {"us", "others"}, ok : BOOLEAN, size : Sizes])
  <1>1. /\ replies' \in Seq([by : {"us", "others"}, ok : BOOLEAN, size : Sizes])
        /\ Len(replies') = Len(replies) - 1 /\ Len(replies) \in Nat \ {0}
        /\ Head(replies) = replies[1]
        /\ \A i \in 1..Len(replies') : replies'[i] = replies[i + 1]
        /\ DOMAIN replies = 1..Len(replies) /\ DOMAIN replies' = 1..Len(replies')
    BY DEF ResizeTypes
  <1>2. (\A i \in DOMAIN replies' : ~replies'[i].ok) => fb' = desk'
    <2> SUFFICES ASSUME \A i \in DOMAIN replies' : ~replies'[i].ok PROVE fb' = desk'
      OBVIOUS
    <2>1. \A i \in DOMAIN replies : i > 1 => ~replies[i].ok
      <3> SUFFICES ASSUME NEW i \in DOMAIN replies, i > 1 PROVE ~replies[i].ok
        OBVIOUS
      <3>1. i - 1 \in DOMAIN replies' /\ (i - 1) + 1 = i
        BY <1>1
      <3> QED
        BY <1>1, <3>1
    <2>2. 1 \in DOMAIN replies
      BY <1>1
    <2>3. CASE replies[1].ok
      BY <1>1, <2>1, <2>2, <2>3 DEF DeskTold
    <2>4. CASE ~replies[1].ok
      <3>1. \A i \in DOMAIN replies : i = 1 \/ i > 1
        BY <1>1
      <3> QED
        BY <1>1, <2>1, <2>4, <3>1 DEF DeskTold
    <2> QED
      BY <2>3, <2>4
  <1>3. ASSUME NEW i \in DOMAIN replies', replies'[i].ok,
               \A j \in DOMAIN replies' : j > i => ~replies'[j].ok
        PROVE  replies'[i].size = desk'
    <2>1. i + 1 \in DOMAIN replies /\ replies'[i] = replies[i + 1]
      BY <1>1
    <2>2. \A j \in DOMAIN replies : j > i + 1 => ~replies[j].ok
      <3> SUFFICES ASSUME NEW j \in DOMAIN replies, j > i + 1 PROVE ~replies[j].ok
        OBVIOUS
      <3>1. j - 1 \in DOMAIN replies' /\ (j - 1) + 1 = j /\ j - 1 > i
        BY <1>1
      <3> QED
        BY <1>1, <1>3, <3>1
    <2> QED
      BY <1>3, <2>1, <2>2 DEF DeskTold
  <1> QED
    BY <1>1, <1>2, <1>3 DEF DeskTold

\* The steps that leave the sizes and the messages alone.
LEMMA WindowSteps ==
  ASSUME ResizeInv,
         \/ \E n \in Sizes : ResizeWindow(n)
         \/ HandleResize \/ AnimationFrame \/ ResizeTimeout \/ TimePasses
  PROVE  ResizeInv'
  <1> USE VncResizeAssumption
  <1>1. ASSUME NEW n \in Sizes, ResizeWindow(n) PROVE ResizeInv'
    <2>1. n # window /\ observed = window /\ window' = n
          /\ UNCHANGED <<observed, expected, frame, view, supports, asking, recent, later,
                         fb, viewport, desk, requests, replies, left>>
      BY <1>1 DEF ResizeWindow
    <2>2. ResizeTypes' /\ Within(viewport, fb)'
      BY <2>1 DEF ResizeInv, ResizeTypes, Within
    <2>3. DeskTold' /\ InSight'
      BY <2>1 DEF ResizeInv, DeskTold, InSight, Follows
    <2>4. Clipped'
      BY <2>1 DEF ResizeInv, Clipped, Clips
    <2> QED
      BY <2>2, <2>3, <2>4 DEF ResizeInv
  <1>2. CASE HandleResize
    <2>1. observed' = window /\ UNCHANGED <<supports, window, expected, view, fb, viewport, desk, replies>>
      BY <1>2 DEF HandleResize
    <2>2. CASE window = expected
      <3>1. NoRequest /\ frame' = frame /\ left' = (left \/ window # fb)
        BY <1>2, <2>2 DEF HandleResize
      <3>2. ResizeTypes' /\ Within(viewport, fb)'
        BY <2>1, <3>1 DEF ResizeInv, ResizeTypes, Within, NoRequest
      <3>3. DeskTold' /\ InSight'
        BY <2>1, <3>1 DEF ResizeInv, DeskTold, InSight, Follows, NoRequest, ResizeTypes
      <3>4. Clipped'
        BY <2>1, <2>2, <3>1 DEF ResizeInv, Clipped, Clips
      <3> QED
        BY <3>2, <3>3, <3>4 DEF ResizeInv
    <2>3. CASE window # expected
      <3>1. frame' = TRUE /\ RequestRemoteResize(view.mode, view.viewOnly, fb, asking, later)
        BY <1>2, <2>3 DEF HandleResize
      <3>2. view.viewOnly \in BOOLEAN
        BY DEF ResizeInv, ResizeTypes, Views
      <3>3. /\ asking' \in BOOLEAN /\ recent' \in BOOLEAN /\ later' \in BOOLEAN /\ left' \in BOOLEAN
            /\ requests' \in Seq(Sizes)
            /\ view.mode = "remote" /\ ~view.viewOnly /\ supports' => fb = window \/ asking' \/ later'
        BY <2>1, <3>1, <3>2, RequestLooks DEF ResizeInv, ResizeTypes
      <3>4. ResizeTypes' /\ Within(viewport, fb)'
        BY <2>1, <3>1, <3>3 DEF ResizeInv, ResizeTypes, Within
      <3>5. DeskTold' /\ InSight'
        BY <2>1, <3>3 DEF ResizeInv, DeskTold, InSight, Follows
      <3>6. Clipped'
        BY <3>1 DEF Clipped
      <3> QED
        BY <3>4, <3>5, <3>6 DEF ResizeInv
    <2> QED
      BY <2>2, <2>3
  <1>3. CASE AnimationFrame
    <2>1. /\ frame' = FALSE /\ viewport' = UpdateClip(viewport, fb) /\ expected' = window
          /\ UNCHANGED <<window, observed, view, supports, asking, recent, later, fb, desk,
                         requests, replies, left>>
      BY <1>3 DEF AnimationFrame
    <2>2. /\ viewport' \in [x : Int, w : Int] /\ Within(viewport', fb)
          /\ Clips(view) => viewport'.w = Least(window, fb)
      BY <2>1, UpdateFits DEF ResizeInv, ResizeTypes
    <2>3. ResizeTypes' /\ Within(viewport, fb)'
      BY <2>1, <2>2 DEF ResizeInv, ResizeTypes
    <2>4. DeskTold' /\ InSight'
      BY <2>1 DEF ResizeInv, DeskTold, InSight, Follows
    <2>5. Clipped'
      BY <2>1, <2>2 DEF Clipped, Clips
    <2> QED
      BY <2>3, <2>4, <2>5 DEF ResizeInv
  <1>4. CASE ResizeTimeout
    <2>1. /\ UNCHANGED <<supports, window, observed, expected, frame, view, fb, viewport, desk, replies>>
          /\ RequestRemoteResize(view.mode, view.viewOnly, fb, asking, FALSE)
      BY <1>4 DEF ResizeTimeout
    <2>2. view.viewOnly \in BOOLEAN
      BY DEF ResizeInv, ResizeTypes, Views
    <2>3. /\ asking' \in BOOLEAN /\ recent' \in BOOLEAN /\ later' \in BOOLEAN /\ left' \in BOOLEAN
          /\ requests' \in Seq(Sizes)
          /\ view.mode = "remote" /\ ~view.viewOnly /\ supports' => fb = window \/ asking' \/ later'
      <3>1. /\ FALSE \in BOOLEAN /\ supports' \in BOOLEAN /\ fb \in Sizes /\ asking \in BOOLEAN
            /\ ResizeTypes
        BY <2>1 DEF ResizeInv, ResizeTypes
      <3> QED
        BY ONLY <3>1, <2>1, <2>2, RequestLooks
    <2>4. ResizeTypes' /\ Within(viewport, fb)'
      BY <2>1, <2>3 DEF ResizeInv, ResizeTypes, Within
    <2>5. DeskTold' /\ InSight'
      BY <2>1, <2>3 DEF ResizeInv, DeskTold, InSight, Follows
    <2>6. Clipped'
      BY <2>1 DEF ResizeInv, Clipped, Clips
    <2> QED
      BY <2>4, <2>5, <2>6 DEF ResizeInv
  <1>5. CASE TimePasses
    BY <1>5 DEF TimePasses, ResizeInv, ResizeTypes, Within, DeskTold, InSight, Follows, Clipped, Clips
  <1> QED
    BY <1>1, <1>2, <1>3, <1>4, <1>5

\* The View menu and a drag of the screen.
LEMMA ViewSteps ==
  ASSUME ResizeInv, (\E v \in Views : ApplySizing(v)) \/ \E d \in {-1, 1} : DragViewport(d)
  PROVE  ResizeInv'
  <1> USE VncResizeAssumption
  <1>1. ASSUME NEW v \in Views, ApplySizing(v) PROVE ResizeInv'
    <2> DEFINE turned == Clips(v) # Clips(view)
               vp == IF turned THEN Readjusted(viewport, Clips(v), fb) ELSE viewport
               sized == ViewportChangeSize(vp, TRUE, window, fb)
    <2>1. /\ view' = v
          /\ viewport' = IF Clips(v) THEN sized ELSE vp
          /\ expected' = IF turned THEN window ELSE expected
          /\ UNCHANGED <<window, observed, frame, fb, desk, replies, supports>>
      BY <1>1 DEF ApplySizing
    <2>2. /\ v.mode = "remote" => \/ ~view.viewOnly /\ RequestRemoteResize(v.mode, FALSE, fb, asking, later)
                                  \/ view.viewOnly /\ NoRequest /\ left' = TRUE
          /\ v.mode # "remote" => NoRequest /\ UNCHANGED left
      BY <1>1 DEF ApplySizing
    <2>3. Clips(v) \in BOOLEAN /\ Clips(view) \in BOOLEAN
      BY DEF Clips, Views, ResizeInv, ResizeTypes
    <2>4. /\ window \in Int /\ window >= 0 /\ fb \in Int /\ fb >= 0
          /\ viewport \in [x : Int, w : Int] /\ viewport.x >= 0 /\ viewport.w >= 0
      BY DEF ResizeInv, ResizeTypes, Within
    <2>5. vp \in [x : Int, w : Int] /\ Within(vp, fb)
      BY <2>3, <2>4, ReadjustedWithin DEF ResizeInv
    <2> HIDE DEF vp
    <2>6. sized \in [x : Int, w : Int] /\ Within(sized, fb) /\ sized.w = Least(window, fb)
      <3>1. /\ TRUE \in BOOLEAN /\ vp \in [x : Int, w : Int] /\ vp.x >= 0 /\ vp.w >= 0 /\ Within(vp, fb)
        BY <2>5 DEF Within
      <3> HIDE DEF sized
      <3>2. /\ sized \in [x : Int, w : Int] /\ (TRUE => sized.w = Least(window, fb))
            /\ Within(vp, fb) => Within(sized, fb)
        BY ONLY <2>4, <3>1, SizeFits DEF sized
      <3> QED
        BY <3>1, <3>2
    <2> HIDE DEF sized
    <2>7. /\ viewport' \in [x : Int, w : Int] /\ Within(viewport', fb)
          /\ Clips(v) => viewport'.w = Least(window, fb)
      BY <2>1, <2>5, <2>6
    <2>8. /\ asking' \in BOOLEAN /\ recent' \in BOOLEAN /\ later' \in BOOLEAN /\ left' \in BOOLEAN
          /\ requests' \in Seq(Sizes)
          /\ v.mode = "remote" /\ supports' /\ ~left' => fb = window \/ asking' \/ later'
      <3>1. CASE v.mode = "remote" /\ ~view.viewOnly
        <4>1. RequestRemoteResize(v.mode, FALSE, fb, asking, later)
          BY <2>2, <3>1
        <4>2. /\ FALSE \in BOOLEAN /\ supports' \in BOOLEAN /\ fb \in Sizes /\ asking \in BOOLEAN
              /\ later \in BOOLEAN /\ ResizeTypes
          BY <2>1 DEF ResizeInv, ResizeTypes
        <4> QED
          BY ONLY <4>1, <4>2, RequestLooks
      <3>2. CASE v.mode = "remote" /\ view.viewOnly
        BY <2>2, <3>2 DEF NoRequest, ResizeInv, ResizeTypes
      <3>3. CASE v.mode # "remote"
        BY <2>2, <3>3 DEF NoRequest, ResizeInv, ResizeTypes
      <3> QED
        BY <3>1, <3>2, <3>3
    <2>9. ResizeTypes'
      BY <2>1, <2>7, <2>8 DEF ResizeInv, ResizeTypes
    <2>10. DeskTold' /\ InSight'
      BY <2>1, <2>8 DEF ResizeInv, DeskTold, InSight, Follows
    <2>11. Clipped'
      <3>1. (~frame /\ observed = window => expected = window)'
        BY <2>1 DEF ResizeInv, Clipped
      <3>2. ASSUME Clips(v), ~frame
            PROVE  \/ viewport'.w = Least(expected', fb)
                   \/ viewport'.w = Least(window, fb) /\ observed # window /\ expected' # window
        BY <2>1, <2>7, <3>1, <3>2
      <3> QED
        BY <2>1, <3>1, <3>2 DEF Clipped
    <2> QED
      BY <2>1, <2>7, <2>9, <2>10, <2>11 DEF ResizeInv
  <1>2. ASSUME NEW d \in {-1, 1}, DragViewport(d) PROVE ResizeInv'
    <2>1. /\ viewport' = ViewportChangePos(viewport, TRUE, d, fb)
          /\ UNCHANGED <<window, observed, expected, frame, view, supports, asking, recent, later,
                         fb, desk, requests, replies, left>>
      BY <1>2 DEF DragViewport
    <2>2. /\ d \in Int /\ fb \in Int /\ viewport \in [x : Int, w : Int] /\ viewport.x \in Int
          /\ viewport.w \in Int /\ viewport.x >= 0 /\ viewport.w >= 0 /\ viewport.w <= fb
      BY DEF ResizeInv, ResizeTypes, Within
    <2>3. viewport' \in [x : Int, w : Int] /\ viewport'.w = viewport.w /\ Within(viewport', fb)
      <3> DEFINE c == ViewportChangePos(viewport, TRUE, d, fb)
      <3>1. c \in [x : Int, w : Int] /\ c.w = viewport.w /\ Within(c, fb)
        BY <2>2, PosWithin
      <3> HIDE DEF c
      <3>2. viewport' = c
        BY <2>1 DEF c
      <3> QED
        BY <3>1, <3>2
    <2>4. ResizeTypes' /\ Within(viewport, fb)'
      BY <2>1, <2>3 DEF ResizeInv, ResizeTypes
    <2>5. DeskTold' /\ InSight' /\ Clipped'
      BY <2>1, <2>3 DEF ResizeInv, DeskTold, InSight, Follows, Clipped, Clips
    <2> QED
      BY <2>4, <2>5 DEF ResizeInv
  <1> QED
    BY <1>1, <1>2

\* A message of the server is read.
LEMMA ReadStep ==
  ASSUME ResizeInv, HandleExtendedDesktopSize
  PROVE  ResizeInv'
  <1> USE VncResizeAssumption
  <1> DEFINE m == Head(replies)
             pend == asking /\ m.by # "us"
             n == IF m.ok THEN m.size ELSE fb
             back == Readjusted(viewport, Clips(view), n)
  <1>1. m \in [by : {"us", "others"}, ok : BOOLEAN, size : Sizes] /\ replies # <<>>
    <2>1. replies # <<>>
      BY DEF HandleExtendedDesktopSize
    <2>2. replies \in Seq([by : {"us", "others"}, ok : BOOLEAN, size : Sizes])
      BY DEF ResizeInv, ResizeTypes
    <2>3. \A S, s : s \in Seq(S) /\ s # <<>> => Head(s) \in S
      OBVIOUS
    <2> QED
      BY ONLY <2>1, <2>2, <2>3 DEF m
  <1> HIDE DEF m
  <1>2. /\ supports' = TRUE /\ fb' = n /\ replies' = Tail(replies)
        /\ viewport' = IF m.ok THEN UpdateClip(back, n) ELSE viewport
        /\ expected' = IF m.ok THEN window ELSE expected
        /\ UNCHANGED <<window, observed, frame, view, desk>>
    BY DEF HandleExtendedDesktopSize, m
  <1>3. /\ AsksAgain(m) => RequestRemoteResize(view.mode, view.viewOnly, n, pend, later)
        /\ ~AsksAgain(m) => /\ asking' = pend /\ left' = (left \/ m.by # "us" \/ ~m.ok)
                            /\ UNCHANGED <<recent, requests, later>>
    BY DEF HandleExtendedDesktopSize, m
  <1>4. /\ n \in Sizes /\ pend \in BOOLEAN /\ supports' \in BOOLEAN /\ view.viewOnly \in BOOLEAN
        /\ later \in BOOLEAN /\ ResizeTypes
    BY <1>1, <1>2 DEF ResizeInv, ResizeTypes, Views
  <1>5. fb' = IF m.ok THEN m.size ELSE fb
    BY <1>2
  <1>6. DeskTold' /\ replies' \in Seq([by : {"us", "others"}, ok : BOOLEAN, size : Sizes])
    <2>1. DeskTold /\ ResizeTypes
      BY DEF ResizeInv
    <2>2. fb' = IF Head(replies).ok THEN Head(replies).size ELSE fb
      BY <1>5 DEF m
    <2>3. replies # <<>> /\ replies' = Tail(replies) /\ UNCHANGED desk
      BY <1>1, <1>2
    <2> QED
      BY ONLY <2>1, <2>2, <2>3, ReadsDesk
  <1> HIDE DEF pend, n
  <1>7. /\ asking' \in BOOLEAN /\ recent' \in BOOLEAN /\ later' \in BOOLEAN /\ left' \in BOOLEAN
        /\ requests' \in Seq(Sizes)
        /\ view.mode = "remote" /\ ~view.viewOnly /\ ~left' => n = window \/ asking' \/ later'
    <2>1. CASE AsksAgain(m)
      <3>1. RequestRemoteResize(view.mode, view.viewOnly, n, pend, later)
        BY <1>3, <2>1
      <3>2. /\ asking' \in BOOLEAN /\ recent' \in BOOLEAN /\ later' \in BOOLEAN /\ left' \in BOOLEAN
            /\ requests' \in Seq(Sizes)
            /\ view.mode = "remote" /\ ~view.viewOnly /\ supports' => n = window \/ asking' \/ later'
        BY ONLY <1>4, <3>1, RequestLooks
      <3> QED
        BY <1>2, <3>2
    <2>2. CASE ~AsksAgain(m)
      <3>1. left' = TRUE
        BY <1>1, <1>3, <2>2 DEF AsksAgain
      <3> QED
        BY <1>3, <1>4, <2>2, <3>1 DEF ResizeTypes
    <2> QED
      BY <2>1, <2>2
  <1>8. /\ viewport' \in [x : Int, w : Int] /\ Within(viewport', n)
        /\ m.ok /\ Clips(view) => viewport'.w = Least(window, n)
    <2>1. CASE m.ok
      <3>1. /\ viewport \in [x : Int, w : Int] /\ viewport.x >= 0 /\ viewport.w >= 0
            /\ n \in Int /\ n >= 0 /\ Clips(view) \in BOOLEAN /\ window \in Nat /\ view \in Views
        BY <1>4 DEF ResizeInv, ResizeTypes, Within, Clips, Views
      <3>2. back \in [x : Int, w : Int] /\ Within(back, n)
        BY <3>1, ReadjustedWithin
      <3> HIDE DEF back
      <3> DEFINE c == UpdateClip(back, n)
      <3>3. c \in [x : Int, w : Int] /\ Within(c, n) /\ (Clips(view) => c.w = Least(window, n))
        BY <3>1, <3>2, UpdateFits
      <3> QED
        BY <1>2, <2>1, <3>3
    <2>2. CASE ~m.ok
      BY <1>2, <2>2 DEF ResizeInv, ResizeTypes, n
    <2> QED
      BY <2>1, <2>2
  <1>9. ResizeTypes'
    BY <1>2, <1>4, <1>6, <1>7, <1>8 DEF ResizeTypes
  <1>10. InSight'
    BY <1>2, <1>7 DEF InSight, Follows
  <1>11. Clipped'
    <2>1. CASE m.ok
      BY <1>2, <1>8, <2>1 DEF Clipped, Clips
    <2>2. CASE ~m.ok
      BY <1>2, <2>2 DEF Clipped, Clips, ResizeInv, n
    <2> QED
      BY <2>1, <2>2
  <1> QED
    BY <1>2, <1>6, <1>8, <1>9, <1>10, <1>11 DEF ResizeInv

\* The server answers a request, or the desktop changes by itself.
LEMMA ServerSteps ==
  ASSUME ResizeInv, (\E ok \in BOOLEAN : ServerAnswers(ok)) \/ \E n \in Sizes : VmResizes(n)
  PROVE  ResizeInv'
  <1> USE VncResizeAssumption
  <1>1. ASSUME NEW ok \in BOOLEAN, ServerAnswers(ok) PROVE ResizeInv'
    <2> DEFINE n == Head(requests)
    <2>1. /\ n \in Sizes /\ requests' = Tail(requests) /\ requests' \in Seq(Sizes)
          /\ desk' = IF ok THEN n ELSE desk
          /\ Tells("us", ok, n)
          /\ UNCHANGED <<window, observed, expected, frame, view, supports, asking, recent, later,
                         fb, viewport, left>>
      BY <1>1 DEF ServerAnswers, ResizeInv, ResizeTypes
    <2> HIDE DEF n
    <2>2. "us" \in {"us", "others"} /\ ResizeTypes /\ DeskTold /\ UNCHANGED fb
      BY <2>1 DEF ResizeInv
    <2>3. DeskTold' /\ replies' \in Seq([by : {"us", "others"}, ok : BOOLEAN, size : Sizes])
      BY ONLY <2>1, <2>2, ok \in BOOLEAN, TellsDesk
    <2>4. ResizeTypes' /\ Within(viewport, fb)'
      BY <2>1, <2>3 DEF ResizeInv, ResizeTypes, Within
    <2>5. InSight' /\ Clipped'
      BY <2>1 DEF ResizeInv, InSight, Follows, Clipped, Clips
    <2> QED
      BY <2>3, <2>4, <2>5 DEF ResizeInv
  <1>2. ASSUME NEW n \in Sizes, VmResizes(n) PROVE ResizeInv'
    <2>1. /\ desk' = n /\ Tells("others", TRUE, n)
          /\ UNCHANGED <<window, observed, expected, frame, view, supports, asking, recent, later,
                         fb, viewport, requests, left>>
      BY <1>2 DEF VmResizes
    <2>2. /\ "others" \in {"us", "others"} /\ TRUE \in BOOLEAN /\ n \in Sizes /\ ResizeTypes /\ DeskTold
          /\ UNCHANGED fb /\ desk' = IF TRUE THEN n ELSE desk
      BY <2>1 DEF ResizeInv
    <2>3. DeskTold' /\ replies' \in Seq([by : {"us", "others"}, ok : BOOLEAN, size : Sizes])
      BY ONLY <2>1, <2>2, TellsDesk
    <2>4. ResizeTypes' /\ Within(viewport, fb)'
      BY <2>1, <2>3 DEF ResizeInv, ResizeTypes, Within
    <2>5. InSight' /\ Clipped'
      BY <2>1 DEF ResizeInv, InSight, Follows, Clipped, Clips
    <2> QED
      BY <2>3, <2>4, <2>5 DEF ResizeInv
  <1> QED
    BY <1>1, <1>2

LEMMA ResizeNextInv ==
  ASSUME ResizeInv, [ResizeNext]_resizeVars
  PROVE  ResizeInv'
  <1>1. CASE UNCHANGED resizeVars
    BY <1>1 DEF resizeVars, ResizeInv, ResizeTypes, Within, DeskTold, InSight, Follows, Clipped, Clips
  <1>2. ASSUME NEW n \in Sizes, ResizeWindow(n) \/ VmResizes(n) PROVE ResizeInv'
    BY <1>2, WindowSteps, ServerSteps
  <1>3. CASE HandleResize \/ AnimationFrame \/ ResizeTimeout \/ TimePasses
    BY <1>3, WindowSteps
  <1>4. ASSUME NEW v \in [mode : {"off", "scale", "remote"}, clip : BOOLEAN, viewOnly : BOOLEAN],
               ApplySizing(v)
        PROVE  ResizeInv'
    BY <1>4, ViewSteps DEF Views
  <1>5. ASSUME NEW d \in {-1, 1}, DragViewport(d) PROVE ResizeInv'
    BY <1>5, ViewSteps
  <1>6. CASE HandleExtendedDesktopSize
    BY <1>6, ReadStep
  <1>7. ASSUME NEW ok \in BOOLEAN, ServerAnswers(ok) PROVE ResizeInv'
    BY <1>7, ServerSteps
  <1> QED
    BY <1>1, <1>2, <1>3, <1>4, <1>5, <1>6, <1>7 DEF ResizeNext

\* At rest, what is in sight agrees, and what was told has been read.
LEMMA ResizeInvShows ==
  ASSUME ResizeInv
  PROVE  FollowsWindow
  <1>1. viewport.x >= 0 /\ viewport.x + viewport.w <= fb
    BY DEF ResizeInv, Within
  <1>2. ASSUME Still, Follows PROVE fb = window /\ desk = window
    <2>1. fb = desk
      BY <1>2 DEF Still, ResizeInv, DeskTold
    <2> QED
      BY <1>2, <2>1 DEF Still, ResizeInv, InSight
  <1>3. ASSUME Still, Clips(view) PROVE viewport.w = Least(window, fb)
    BY <1>3 DEF Still, ResizeInv, Clipped
  <1> QED
    BY <1>1, <1>2, <1>3 DEF FollowsWindow, Follows

\* Whatever sizes there are, and however the window, the timer, the frames and the
\* answers interleave: what is shown lies in the VM's screen, and a console at rest
\* that follows its window has a desktop of the window's size.
\* [_handleResize, _requestRemoteResize, _handleExtendedDesktopSize, viewportChangePos]
THEOREM ResizeTheorem == ResizeSpec => []FollowsWindow
  <1>1. ResizeInit => ResizeInv
    BY ResizeInitInv
  <1>2. ResizeInv /\ [ResizeNext]_resizeVars => ResizeInv'
    BY ResizeNextInv
  <1>3. ResizeInv => FollowsWindow
    BY ResizeInvShows
  <1> QED
    BY <1>1, <1>2, <1>3, PTL DEF ResizeSpec

-----------------------------------------------------------------------------
(***************************************************************************)
(* The invariant of the gesture handler of VncPointer.                     *)
(***************************************************************************)

Touch == [id : Fingers, active : BOOLEAN, moved : {"no", "ahead", "back"}]

\* What the fingers of a gesture can still become, by their number.
OfOne == {Gestures, {"drag"}, {"longpress"}, {}}
OfTwo == {{"twotap", "threetap", "twodrag", "pinch"}, {"twodrag", "pinch"},
          {"twotap"}, {"twodrag"}, {"pinch"}, {}}
OfThree == {{"threetap"}, {"twodrag"}, {"pinch"}, {}}
OfMore == {{"twodrag"}, {"pinch"}, {}}

Shaped(g, n) ==
  \/ n = 1 /\ g \in OfOne
  \/ n = 2 /\ g \in OfTwo
  \/ n = 3 /\ g \in OfThree
  \/ n > 3 /\ g \in OfMore

\* The fingers of a gesture that are still on the screen.
ActiveIn(tr) == {f \in Fingers : \E i \in DOMAIN tr : tr[i].active /\ tr[i].id = f}

TouchTypes ==
  /\ tracked \in Seq(Touch)
  /\ touching \subseteq Fingers /\ ignored \subseteq Fingers
  /\ waiting \in BOOLEAN /\ longpress \in BOOLEAN /\ ptrFault \in BOOLEAN
  /\ twoTouch \in {"null", "pending", "ran"}

\* Each finger on the screen is part of the gesture or ignored.
Known(tr, ig, on) == on = ActiveIn(tr) \cup ig /\ ActiveIn(tr) \cap ig = {}

\* Without a gesture the handler is as new, but for fingers it ignores; with one,
\* a finger of it is still there, and what is possible fits their number.
FitsGesture(tr, g, ig, wait) ==
  /\ tr = <<>> => /\ ig = {} => g = Gestures /\ ~wait
                  /\ ig # {} => g = {}
  /\ tr # <<>> => ActiveIn(tr) # {} /\ Shaped(g, Len(tr))
  /\ ~wait => g # {"twotap"} /\ \A i \in DOMAIN tr : tr[i].active
  /\ wait => Len(tr) # 1 /\ g \in {{"twotap"}, {"threetap"}, {"twodrag"}, {"pinch"}, {}}

\* Each timer knows what gesture it can meet.
TimersKnow ==
  /\ longpress => Len(tracked) = 1 /\ gest \in {Gestures, {}}
  /\ twoTouch = "pending" =>
       Len(tracked) >= 2 /\ ~longpress /\ gest \in {{"twodrag", "pinch"}, {}}

TouchInv ==
  /\ TouchTypes
  /\ Known(tracked, ignored, touching)
  /\ FitsGesture(tracked, gest, ignored, waiting)
  /\ TimersKnow
  /\ ~ptrFault

-----------------------------------------------------------------------------
(***************************************************************************)
(* What the operators on gestures return.                                  *)
(***************************************************************************)

LEMMA GesturesFinite == \A g \in SUBSET Gestures : IsFiniteSet(g)
  <1>1. IsFiniteSet({"onetap"})
    BY FS_Singleton
  <1>2. IsFiniteSet({"onetap"} \cup {"twotap"})
    BY <1>1, FS_AddElement
  <1>3. IsFiniteSet({"onetap"} \cup {"twotap"} \cup {"threetap"})
    BY <1>2, FS_AddElement
  <1>4. IsFiniteSet({"onetap"} \cup {"twotap"} \cup {"threetap"} \cup {"drag"})
    BY <1>3, FS_AddElement
  <1>5. IsFiniteSet({"onetap"} \cup {"twotap"} \cup {"threetap"} \cup {"drag"} \cup {"longpress"})
    BY <1>4, FS_AddElement
  <1>6. IsFiniteSet({"onetap"} \cup {"twotap"} \cup {"threetap"} \cup {"drag"} \cup {"longpress"}
                    \cup {"twodrag"})
    BY <1>5, FS_AddElement
  <1>7. IsFiniteSet({"onetap"} \cup {"twotap"} \cup {"threetap"} \cup {"drag"} \cup {"longpress"}
                    \cup {"twodrag"} \cup {"pinch"})
    BY <1>6, FS_AddElement
  <1>8. Gestures = {"onetap"} \cup {"twotap"} \cup {"threetap"} \cup {"drag"} \cup {"longpress"}
                   \cup {"twodrag"} \cup {"pinch"}
    BY DEF Gestures, Taps
  <1> QED
    BY <1>7, <1>8, FS_Subset

\* A gesture is detected when it is the only one left, and for a tap when no
\* finger is left either.
LEMMA DetectedIs ==
  ASSUME NEW g \in SUBSET Gestures, NEW tr
  PROVE  /\ g \in {{"drag"}, {"longpress"}, {"twodrag"}, {"pinch"}} => Detected(g, tr)
         /\ g \in {{"onetap"}, {"twotap"}, {"threetap"}} =>
              (Detected(g, tr) <=> \A i \in DOMAIN tr : ~tr[i].active)
         /\ (\A x : g # {x}) => ~Detected(g, tr)
  <1>1. IsFiniteSet(g)
    BY GesturesFinite
  <1>2. Cardinality(g) = 1 <=> \E x : g = {x}
    BY <1>1, FS_Singleton
  <1>3. g \in {{"drag"}, {"longpress"}, {"twodrag"}, {"pinch"}} => ~(g \subseteq Taps)
    BY DEF Taps
  <1>4. g \in {{"onetap"}, {"twotap"}, {"threetap"}} => g \subseteq Taps
    BY DEF Taps
  <1> QED
    BY <1>2, <1>3, <1>4 DEF Detected

\* Several gestures are not one.
LEMMA Several ==
  \A x : Gestures # {x} /\ {"twotap", "threetap", "twodrag", "pinch"} # {x} /\ {"twodrag", "pinch"} # {x}
         /\ {} # {x}
  BY DEF Gestures, Taps

LEMMA SeveralNotDetected ==
  ASSUME NEW tr, NEW g \in {Gestures, {"twotap", "threetap", "twodrag", "pinch"}, {"twodrag", "pinch"}, {}}
  PROVE  ~Detected(g, tr)
  <1>1. g \in SUBSET Gestures
    BY DEF Gestures, Taps
  <1>2. \A x : g # {x}
    BY Several
  <1> QED
    BY ONLY <1>1, <1>2, DetectedIs

\* What another finger leaves possible.
LEMMA FewerFits ==
  ASSUME NEW n \in Nat \ {0}, NEW g, Shaped(g, n), g \notin {{"drag"}, {"longpress"}, {"twodrag"}, {"pinch"}}
  PROVE  /\ Shaped(FewerFingers(g, n + 1), n + 1) /\ FewerFingers(g, n + 1) # {"twotap"}
         /\ n > 1 /\ g = {"twodrag", "pinch"} => FewerFingers(g, n + 1) = {}
  <1>1. CASE n = 1
    <2>1. g = Gestures \/ g = {}
      BY <1>1 DEF Shaped, OfOne
    <2>2. FewerFingers(g, 2) = g \ {"onetap", "drag", "longpress"}
      BY DEF FewerFingers
    <2>3. FewerFingers(g, 2) = {"twotap", "threetap", "twodrag", "pinch"} \/ FewerFingers(g, 2) = {}
      BY <2>1, <2>2 DEF Gestures, Taps
    <2>4. {"twotap", "threetap", "twodrag", "pinch"} # {"twotap"}
      OBVIOUS
    <2> HIDE DEF FewerFingers
    <2> QED
      BY <1>1, <2>3, <2>4 DEF Shaped, OfTwo
  <1>2. CASE n = 2
    <2>1. \/ g = {"twotap", "threetap", "twodrag", "pinch"} \/ g = {"twodrag", "pinch"}
          \/ g = {"twotap"} \/ g = {}
      BY <1>2 DEF Shaped, OfTwo
    <2>2. FewerFingers(g, 3) = g \ {"twotap", "twodrag", "pinch"}
      BY DEF FewerFingers
    <2>3. FewerFingers(g, 3) = {"threetap"} \/ FewerFingers(g, 3) = {}
      BY <2>1, <2>2
    <2>4. g = {"twodrag", "pinch"} => FewerFingers(g, 3) = {}
      BY <2>2
    <2>5. {"threetap"} # {"twotap"} /\ {} # {"twotap"}
      OBVIOUS
    <2> HIDE DEF FewerFingers
    <2> QED
      BY <1>2, <2>3, <2>4, <2>5 DEF Shaped, OfThree
  <1>3. CASE n > 2
    <2>1. FewerFingers(g, n + 1) = {}
      BY <1>3 DEF FewerFingers
    <2>2. {} # {"twotap"}
      OBVIOUS
    <2> QED
      BY <1>3, <2>1, <2>2 DEF Shaped, OfMore
  <1> QED
    BY <1>1, <1>2, <1>3

\* What a move past the threshold leaves possible: a drag of one finger; of two, a
\* scroll or a pinch, and one of them when both have moved; nothing of more.
LEMMA MovedFits ==
  ASSUME NEW n \in Nat \ {0}, NEW g, Shaped(g, n), NEW tr, Len(tr) = n, NEW o,
         g \notin {{"drag"}, {"longpress"}, {"twodrag"}, {"pinch"}}
  PROVE  LET m == Moved(g, tr, o)
         IN  /\ Shaped(m, n) /\ m # {"twotap"}
             /\ m \in {{"drag"}, {"twodrag"}, {"pinch"}, {"twodrag", "pinch"}, {}}
             /\ n # 1 => m # {"drag"}
             /\ n > 2 => m = {}
             /\ n = 2 /\ tr[o].moved = "no" => m \in {{"twodrag", "pinch"}, {}}
             /\ g \in {{"twotap"}, {"threetap"}, {}} => m = {}
  <1> DEFINE m == Moved(g, tr, o)
             g1 == g \ (Taps \cup {"longpress"})
             g2 == IF n # 1 THEN g1 \ {"drag"} ELSE g1
             g3 == IF n # 2 THEN g2 \ {"twodrag", "pinch"} ELSE g2
             out == IF tr[3 - o].moved # tr[o].moved THEN "twodrag" ELSE "pinch"
  <1>1. m = IF n = 2 /\ tr[o].moved # "no" THEN g3 \ {out} ELSE g3
    BY DEF Moved
  <1>2. out \in {"twodrag", "pinch"}
    OBVIOUS
  <1> HIDE DEF out, m
  <1>3. {"twotap"} \notin {{"drag"}, {"twodrag"}, {"pinch"}, {"twodrag", "pinch"}, {}}
    OBVIOUS
  <1> SUFFICES /\ Shaped(m, n)
               /\ m \in {{"drag"}, {"twodrag"}, {"pinch"}, {"twodrag", "pinch"}, {}}
               /\ n # 1 => m # {"drag"}
               /\ n > 2 => m = {}
               /\ n = 2 /\ tr[o].moved = "no" => m \in {{"twodrag", "pinch"}, {}}
               /\ g \in {{"twotap"}, {"threetap"}, {}} => m = {}
    BY <1>3 DEF m
  <1>4. CASE n = 1
    <2>1. g = Gestures \/ g = {}
      BY <1>4 DEF Shaped, OfOne
    <2>2. m = (g \ (Taps \cup {"longpress"})) \ {"twodrag", "pinch"}
      BY <1>1, <1>4
    <2>3. g = Gestures => m = {"drag"}
      BY <2>2 DEF Gestures, Taps
    <2>4. g = {} => m = {}
      BY <2>2
    <2>5. Gestures \notin {{"twotap"}, {"threetap"}, {}}
      BY DEF Gestures, Taps
    <2> QED
      BY <1>4, <2>1, <2>3, <2>4, <2>5 DEF Shaped, OfOne
  <1>5. CASE n = 2
    <2>1. \/ g = {"twotap", "threetap", "twodrag", "pinch"} \/ g = {"twodrag", "pinch"}
          \/ g = {"twotap"} \/ g = {}
      BY <1>5 DEF Shaped, OfTwo
    <2>2. g3 = (g \ (Taps \cup {"longpress"})) \ {"drag"}
      BY <1>5
    <2>3. g \in {{"twotap", "threetap", "twodrag", "pinch"}, {"twodrag", "pinch"}} => g3 = {"twodrag", "pinch"}
      BY <2>2 DEF Taps
    <2>4. g \in {{"twotap"}, {}} => g3 = {}
      BY <2>2 DEF Taps
    <2>5. /\ {"twotap", "threetap", "twodrag", "pinch"} \notin {{"twotap"}, {"threetap"}, {}}
          /\ {"twodrag", "pinch"} \notin {{"twotap"}, {"threetap"}, {}}
      OBVIOUS
    <2> HIDE DEF g3
    <2>6. /\ {"twodrag", "pinch"} \ {"twodrag"} = {"pinch"} /\ {"twodrag", "pinch"} \ {"pinch"} = {"twodrag"}
          /\ \A x : {} \ {x} = {}
      OBVIOUS
    <2>7. g3 = {"twodrag", "pinch"} => m \in {{"twodrag"}, {"pinch"}, {"twodrag", "pinch"}}
                                      /\ (tr[o].moved = "no" => m = {"twodrag", "pinch"})
      BY <1>1, <1>2, <1>5, <2>6
    <2>8. g3 = {} => m = {}
      BY <1>1, <2>6
    <2>9. {"drag"} \notin {{"twodrag"}, {"pinch"}, {"twodrag", "pinch"}, {}}
      OBVIOUS
    <2> QED
      BY <1>5, <2>1, <2>3, <2>4, <2>5, <2>7, <2>8, <2>9 DEF Shaped, OfTwo
  <1>6. CASE n > 2
    <2>1. g = {"threetap"} \/ g = {}
      BY <1>6 DEF Shaped, OfThree, OfMore
    <2>2. m = {}
      BY <1>1, <1>6, <2>1 DEF Taps
    <2>3. {} # {"drag"}
      OBVIOUS
    <2> QED
      BY <1>6, <2>2, <2>3 DEF Shaped, OfThree, OfMore
  <1> QED
    BY <1>4, <1>5, <1>6

\* What the first finger that is lifted leaves possible: the tap of all of them.
LEMMA LiftedFits ==
  ASSUME NEW n \in Nat \ {0}, NEW g, Shaped(g, n), waiting \in BOOLEAN,
         waiting => n # 1 /\ g \in {{"twotap"}, {"threetap"}, {"twodrag"}, {"pinch"}, {}}
  PROVE  \/ Lifted(g, n) = {}
         \/ n = 1 /\ Lifted(g, n) = {"onetap"}
         \/ n = 2 /\ Lifted(g, n) = {"twotap"}
         \/ n = 3 /\ Lifted(g, n) = {"threetap"}
  <1> DEFINE g1 == g \ {"drag", "twodrag", "pinch", "longpress"}
  <1>1. CASE n = 1
    <2>1. Lifted(g, n) = g1 \ {"twotap", "threetap"}
      BY <1>1 DEF Lifted
    <2>2. g \in {Gestures, {"drag"}, {"longpress"}, {}}
      BY <1>1 DEF Shaped, OfOne
    <2> QED
      BY <1>1, <2>1, <2>2 DEF Gestures, Taps
  <1>2. CASE n = 2
    <2>1. CASE waiting
      <3>1. Lifted(g, n) = g1
        BY <2>1 DEF Lifted
      <3>2. g \in {{"twotap"}, {"twodrag"}, {"pinch"}, {}}
        BY <1>2, <2>1 DEF Shaped, OfTwo
      <3> QED
        BY <1>2, <3>1, <3>2
    <2>2. CASE ~waiting
      <3>1. Lifted(g, n) = g1 \ {"onetap", "threetap"}
        BY <1>2, <2>2 DEF Lifted
      <3>2. g \in OfTwo
        BY <1>2 DEF Shaped
      <3> QED
        BY <1>2, <3>1, <3>2 DEF OfTwo
    <2> QED
      BY <2>1, <2>2
  <1>3. CASE n > 2
    <2>1. Lifted(g, n) = g1
      BY <1>3 DEF Lifted
    <2>2. (n = 3 /\ g = {"threetap"}) \/ g \in {{"twodrag"}, {"pinch"}, {}}
      BY <1>3 DEF Shaped, OfThree, OfMore
    <2> QED
      BY <2>1, <2>2
  <1> QED
    BY <1>1, <1>2, <1>3

\* The gestures that are possible are gestures; a detected one is the only one left.
LEMMA ShapedIs ==
  ASSUME NEW n \in Nat \ {0}, NEW g, Shaped(g, n)
  PROVE  g \in SUBSET Gestures
  BY DEF Shaped, OfOne, OfTwo, OfThree, OfMore, Gestures, Taps

\* The fingers of a gesture with one more, and of one whose fingers moved.
LEMMA ActiveAppended ==
  ASSUME NEW tr \in Seq(Touch), NEW f \in Fingers, NEW t \in Touch, t.id = f, t.active
  PROVE  /\ Append(tr, t) \in Seq(Touch) /\ Len(Append(tr, t)) = Len(tr) + 1
         /\ ActiveIn(Append(tr, t)) = ActiveIn(tr) \cup {f}
         /\ (\A i \in DOMAIN tr : tr[i].active) => \A i \in DOMAIN Append(tr, t) : Append(tr, t)[i].active
  <1> DEFINE a == Append(tr, t)
  <1>1. /\ a \in Seq(Touch) /\ Len(a) = Len(tr) + 1 /\ Len(tr) \in Nat
        /\ DOMAIN a = 1..(Len(tr) + 1) /\ DOMAIN tr = 1..Len(tr)
        /\ a[Len(tr) + 1] = t /\ \A i \in 1..Len(tr) : a[i] = tr[i]
    OBVIOUS
  <1> HIDE DEF a
  <1>2. \A i \in DOMAIN a : i = Len(tr) + 1 \/ i \in DOMAIN tr
    BY <1>1
  <1>3. Len(tr) + 1 \in DOMAIN a /\ DOMAIN tr \subseteq DOMAIN a
    BY <1>1
  <1>4. ActiveIn(a) = ActiveIn(tr) \cup {f}
    BY <1>1, <1>2, <1>3 DEF ActiveIn
  <1>5. (\A i \in DOMAIN tr : tr[i].active) => \A i \in DOMAIN a : a[i].active
    BY <1>1, <1>2
  <1> QED
    BY <1>1, <1>4, <1>5 DEF a

LEMMA ActiveMoved ==
  ASSUME NEW tr \in Seq(Touch), NEW u \in Seq(Touch), Len(u) = Len(tr),
         \A j \in DOMAIN tr : u[j].id = tr[j].id /\ u[j].active = tr[j].active
  PROVE  /\ ActiveIn(u) = ActiveIn(tr)
         /\ (\A j \in DOMAIN tr : tr[j].active) => \A j \in DOMAIN u : u[j].active
  <1>1. DOMAIN tr = DOMAIN u
    OBVIOUS
  <1> QED
    BY <1>1 DEF ActiveIn

\* An empty gesture has no fingers.
LEMMA NobodyTracked ==
  /\ ActiveIn(<<>>) = {} /\ <<>> \in Seq(Touch) /\ Len(<<>>) = 0
  /\ \A tr \in Seq(Touch) : tr # <<>> => Len(tr) \in Nat \ {0}
  BY DEF ActiveIn

-----------------------------------------------------------------------------
(***************************************************************************)
(* The invariant of the gesture handler holds at first and is kept.        *)
(***************************************************************************)

LEMMA TouchInitInv ==
  ASSUME PtrInit
  PROVE  TouchInv
  <1>1. /\ touching = {} /\ gest = Gestures /\ tracked = <<>> /\ ignored = {} /\ waiting = FALSE
        /\ longpress = FALSE /\ twoTouch = "null" /\ ptrFault = FALSE
    BY DEF PtrInit
  <1>2. Gestures # {"twotap"}
    BY DEF Gestures, Taps
  <1>3. TouchTypes
    BY <1>1, NobodyTracked DEF TouchTypes
  <1>4. Known(tracked, ignored, touching)
    BY <1>1, NobodyTracked DEF Known
  <1>5. FitsGesture(tracked, gest, ignored, waiting) /\ TimersKnow
    BY <1>1, <1>2, NobodyTracked DEF FitsGesture, TimersKnow
  <1> QED
    BY <1>1, <1>3, <1>4, <1>5 DEF TouchInv

\* Steps that leave the fingers, their gesture and its timers alone.
LEMMA TouchStays ==
  ASSUME TouchInv,
         UNCHANGED <<touching, gest, tracked, ignored, waiting, longpress, twoTouch, ptrFault>>
  PROVE  TouchInv'
  BY DEF TouchInv, TouchTypes, Known, FitsGesture, TimersKnow

\* A gesture that is not detected, by what it can still become.
LEMMA NotDetected ==
  ASSUME TouchInv, tracked # <<>>, ~Detected(gest, tracked)
  PROVE  /\ gest \notin {{"drag"}, {"longpress"}, {"twodrag"}, {"pinch"}}
         /\ Shaped(gest, Len(tracked)) /\ Len(tracked) \in Nat \ {0} /\ gest \in SUBSET Gestures
  <1>1. Shaped(gest, Len(tracked)) /\ Len(tracked) \in Nat \ {0}
    BY NobodyTracked DEF TouchInv, TouchTypes, FitsGesture
  <1>2. gest \in SUBSET Gestures
    BY <1>1, ShapedIs
  <1> QED
    BY <1>1, <1>2, DetectedIs

\* The timers meet gestures that are not detected.
LEMMA TimersEarly ==
  ASSUME TouchInv
  PROVE  /\ longpress => ~Detected(gest, tracked)
         /\ twoTouch = "pending" => ~Detected(gest, tracked)
  <1>1. gest \in {Gestures, {"twodrag", "pinch"}, {}} => ~Detected(gest, tracked)
    BY SeveralNotDetected
  <1> QED
    BY <1>1 DEF TouchInv, TimersKnow

LEMMA TouchStartInv ==
  ASSUME TouchInv, NEW f \in Fingers, TouchStart(f)
  PROVE  TouchInv'
  <1>1. /\ f \notin touching /\ touching' = touching \cup {f}
        /\ UNCHANGED <<waiting, twoTouch, ptrFault>>
    BY DEF TouchStart
  <1>2. tracked = <<>> /\ ignored = {} => gest = Gestures /\ ~waiting
    BY DEF TouchInv, FitsGesture
  <1>3. CASE (Detected(gest, tracked) \/ gest = {}) /\ ignored' = ignored \cup {f}
             /\ UNCHANGED <<gest, tracked, age, longpress>>
    <2>1. tracked = <<>> => ignored # {}
      <3>1. ~Detected(Gestures, tracked) /\ Gestures # {}
        BY SeveralNotDetected DEF Gestures
      <3> QED
        BY <1>2, <1>3, <3>1
    <2>2. FitsGesture(tracked, gest, ignored, waiting)'
      BY <1>1, <1>3, <2>1 DEF TouchInv, FitsGesture
    <2>3. Known(tracked, ignored, touching)'
      BY <1>1, <1>3 DEF TouchInv, Known
    <2>4. TouchTypes' /\ TimersKnow' /\ ~ptrFault'
      BY <1>1, <1>3 DEF TouchInv, TouchTypes, TimersKnow
    <2> QED
      BY <2>2, <2>3, <2>4 DEF TouchInv
  <1>4. CASE /\ ~Detected(gest, tracked) /\ gest # {} /\ TooLate
             /\ gest' = {} /\ ignored' = ignored \cup {f}
             /\ UNCHANGED <<tracked, age, longpress>>
    <2>1. tracked # <<>>
      BY <1>2, <1>4 DEF TooLate, TouchInv, FitsGesture
    <2>2. Len(tracked) \in Nat \ {0}
      BY <2>1, NobodyTracked DEF TouchInv, TouchTypes
    <2>3. Shaped({}, Len(tracked)) /\ {} # {"twotap"}
      <3>1. \A k \in Nat \ {0} : k = 1 \/ k = 2 \/ k = 3 \/ k > 3
        OBVIOUS
      <3>2. {} \in OfOne /\ {} \in OfTwo /\ {} \in OfThree /\ {} \in OfMore /\ {} # {"twotap"}
        BY DEF OfOne, OfTwo, OfThree, OfMore
      <3> QED
        BY <2>2, <3>1, <3>2 DEF Shaped
    <2>4. FitsGesture(tracked, gest, ignored, waiting)'
      BY <1>1, <1>4, <2>1, <2>3 DEF TouchInv, FitsGesture
    <2>5. Known(tracked, ignored, touching)'
      BY <1>1, <1>4 DEF TouchInv, Known
    <2>6. TouchTypes' /\ TimersKnow' /\ ~ptrFault'
      BY <1>1, <1>4 DEF TouchInv, TouchTypes, TimersKnow
    <2> QED
      BY <2>4, <2>5, <2>6 DEF TouchInv
  <1>5. CASE /\ ~Detected(gest, tracked) /\ gest # {} /\ ~TooLate
             /\ tracked' = Append(tracked, [id |-> f, active |-> TRUE, moved |-> "no"])
             /\ gest' = FewerFingers(gest, Len(tracked'))
             /\ longpress' = LongpressTimer(longpress, Len(tracked'))
             /\ UNCHANGED ignored
    <2> DEFINE t == [id |-> f, active |-> TRUE, moved |-> "no"]
    <2>1. t \in Touch /\ t.id = f /\ t.active
      BY DEF Touch
    <2>2. tracked \in Seq(Touch) /\ tracked' = Append(tracked, t)
      BY <1>5 DEF TouchInv, TouchTypes
    <2> HIDE DEF t
    <2>3. /\ tracked' \in Seq(Touch) /\ Len(tracked') = Len(tracked) + 1 /\ tracked' # <<>>
          /\ ActiveIn(tracked') = ActiveIn(tracked) \cup {f}
          /\ (\A i \in DOMAIN tracked : tracked[i].active) => \A i \in DOMAIN tracked' : tracked'[i].active
      BY <2>1, <2>2, ActiveAppended
    <2>4. ~waiting
      BY <1>5 DEF TooLate
    <2>5. Known(tracked, ignored, touching)'
      BY <1>1, <1>5, <2>3 DEF TouchInv, Known
    <2>6. CASE tracked = <<>>
      <3>1. Len(tracked') = 1 /\ gest = Gestures
        BY <1>5, <2>3, <2>6, NobodyTracked DEF TouchInv, FitsGesture
      <3>2. gest' = Gestures /\ longpress' = TRUE
        <4>1. FewerFingers(Gestures, 1) = Gestures
          BY DEF FewerFingers
        <4>2. LongpressTimer(longpress, 1) = TRUE
          BY DEF LongpressTimer
        <4> QED
          BY <1>5, <3>1, <4>1, <4>2
      <3>3. Gestures # {"twotap"} /\ twoTouch # "pending"
        <4>1. Len(tracked) = 0
          BY <2>6, NobodyTracked
        <4>2. twoTouch # "pending"
          BY <4>1 DEF TouchInv, TimersKnow
        <4> QED
          BY <4>2, Several
      <3>4. FitsGesture(tracked, gest, ignored, waiting)'
        BY <1>1, <2>3, <2>4, <2>6, <3>1, <3>2, <3>3 DEF FitsGesture, Shaped, OfOne, TouchInv
      <3>5. TouchTypes' /\ TimersKnow' /\ ~ptrFault'
        BY <1>1, <1>5, <2>3, <3>1, <3>2, <3>3 DEF TouchInv, TouchTypes, TimersKnow
      <3> QED
        BY <2>5, <3>4, <3>5 DEF TouchInv
    <2>7. CASE tracked # <<>>
      <3>1. /\ gest \notin {{"drag"}, {"longpress"}, {"twodrag"}, {"pinch"}}
            /\ Shaped(gest, Len(tracked)) /\ Len(tracked) \in Nat \ {0}
        BY <1>5, <2>7, NotDetected
      <3>2. /\ Shaped(gest', Len(tracked')) /\ gest' # {"twotap"}
            /\ Len(tracked) > 1 /\ gest = {"twodrag", "pinch"} => gest' = {}
        BY <1>5, <2>3, <3>1, FewerFits
      <3>3. longpress' = FALSE
        BY <1>5, <2>3, <3>1 DEF LongpressTimer, TouchInv, TimersKnow, TouchTypes
      <3>4. twoTouch = "pending" => gest' = {} /\ Len(tracked') >= 2
        <4>1. twoTouch = "pending" => Len(tracked) >= 2 /\ gest = {"twodrag", "pinch"}
          BY <1>5 DEF TouchInv, TimersKnow
        <4> QED
          BY <2>3, <3>1, <3>2, <4>1
      <3>5. FitsGesture(tracked, gest, ignored, waiting)'
        BY <1>1, <2>3, <2>4, <2>7, <3>2 DEF FitsGesture, TouchInv
      <3>6. TouchTypes' /\ TimersKnow' /\ ~ptrFault'
        BY <1>1, <1>5, <2>3, <3>3, <3>4 DEF TouchInv, TouchTypes, TimersKnow
      <3> QED
        BY <2>5, <3>5, <3>6 DEF TouchInv
    <2> QED
      BY <2>6, <2>7
  <1> QED
    BY <1>3, <1>4, <1>5 DEF TouchStart

LEMMA TouchMoveInv ==
  ASSUME TouchInv, NEW i \in DOMAIN tracked, NEW to \in {"no", "ahead", "back"},
         NEW soon, NEW far, NEW step, TouchMove(i, to, soon, far, step)
  PROVE  TouchInv'
  <1> DEFINE known == Detected(gest, tracked)
             two == Len(tracked) = 2
             both == two /\ tracked[3 - i].moved # "no"
             after == Moved(gest, tracked', 3 - i)
  <1>1. /\ tracked' = IF known THEN tracked ELSE [tracked EXCEPT ![i].moved = to]
        /\ UNCHANGED <<touching, ignored, waiting, ptrFault>>
    BY DEF TouchMove
  <1>2. /\ known \/ to = "no" => UNCHANGED <<gest, longpress, twoTouch>>
        /\ ~known /\ to # "no" =>
             /\ gest' = after /\ longpress' = FALSE
             /\ twoTouch' = IF both THEN "null"
                            ELSE IF two /\ twoTouch = "null" THEN "pending" ELSE twoTouch
    BY DEF TouchMove
  <1>3. tracked \in Seq(Touch) /\ tracked # <<>> /\ Len(tracked) \in Nat \ {0}
    BY NobodyTracked DEF TouchInv, TouchTypes
  <1>4. /\ tracked' \in Seq(Touch) /\ Len(tracked') = Len(tracked)
        /\ ActiveIn(tracked') = ActiveIn(tracked)
        /\ (\A j \in DOMAIN tracked : tracked[j].active) => \A j \in DOMAIN tracked' : tracked'[j].active
        /\ \A j \in DOMAIN tracked : j # i => tracked'[j] = tracked[j]
    <2>1. CASE known
      BY <1>1, <1>3, <2>1
    <2>2. CASE ~known
      <3> DEFINE v == [tracked[i] EXCEPT !.moved = to]
      <3>1. tracked' = [tracked EXCEPT ![i] = v]
        BY <1>1, <2>2
      <3>2. tracked[i] \in Touch /\ DOMAIN tracked = 1..Len(tracked)
        BY <1>3
      <3>3. v \in Touch /\ v.id = tracked[i].id /\ v.active = tracked[i].active
        BY <3>2 DEF Touch
      <3> HIDE DEF v
      <3>4. tracked' \in Seq(Touch) /\ Len(tracked') = Len(tracked)
        BY <1>3, <3>1, <3>2, <3>3
      <3>5. \A j \in DOMAIN tracked :
              tracked'[j].id = tracked[j].id /\ tracked'[j].active = tracked[j].active
              /\ (j # i => tracked'[j] = tracked[j])
        BY <3>1, <3>2, <3>3
      <3> QED
        BY <1>3, <3>4, <3>5, ActiveMoved
    <2> QED
      BY <2>1, <2>2
  <1>5. Known(tracked, ignored, touching)'
    BY <1>1, <1>4 DEF TouchInv, Known
  <1>6. tracked' # <<>>
    BY <1>3, <1>4
  <1>7. CASE known \/ to = "no"
    <2>1. FitsGesture(tracked, gest, ignored, waiting)'
      BY <1>1, <1>2, <1>3, <1>4, <1>6, <1>7 DEF TouchInv, FitsGesture
    <2>2. TouchTypes' /\ TimersKnow' /\ ~ptrFault'
      BY <1>1, <1>2, <1>4, <1>7 DEF TouchInv, TouchTypes, TimersKnow
    <2> QED
      BY <1>5, <2>1, <2>2 DEF TouchInv
  <1>8. CASE ~known /\ to # "no"
    <2>1. /\ gest \notin {{"drag"}, {"longpress"}, {"twodrag"}, {"pinch"}}
          /\ Shaped(gest, Len(tracked))
      BY <1>3, <1>8, NotDetected
    <2>2. /\ Shaped(after, Len(tracked)) /\ after # {"twotap"}
          /\ after \in {{"drag"}, {"twodrag"}, {"pinch"}, {"twodrag", "pinch"}, {}}
          /\ Len(tracked) > 2 => after = {}
          /\ Len(tracked) = 2 /\ tracked'[3 - i].moved = "no" => after \in {{"twodrag", "pinch"}, {}}
          /\ gest \in {{"twotap"}, {"threetap"}, {}} => after = {}
      <3> HIDE DEF after
      <3> QED
        BY ONLY <1>3, <1>4, <2>1, MovedFits DEF after
    <2>3. gest' = after /\ longpress' = FALSE
      BY <1>2, <1>8
    <2> HIDE DEF after
    <2>4. FitsGesture(tracked, gest, ignored, waiting)'
      <3>1. waiting => gest' = {}
        BY <2>1, <2>2, <2>3 DEF TouchInv, FitsGesture
      <3> QED
        BY <1>1, <1>3, <1>4, <1>6, <2>2, <2>3, <3>1 DEF TouchInv, FitsGesture
    <2>5. twoTouch' = "pending" => Len(tracked') >= 2 /\ gest' \in {{"twodrag", "pinch"}, {}}
      <3> SUFFICES ASSUME twoTouch' = "pending"
                   PROVE  Len(tracked') >= 2 /\ gest' \in {{"twodrag", "pinch"}, {}}
        OBVIOUS
      <3>1. ~both /\ (two \/ twoTouch = "pending")
        BY <1>2, <1>8
      <3>2. CASE two
        <4>1. 3 - i \in DOMAIN tracked /\ 3 - i # i
          BY <1>3, <3>2
        <4>2. tracked'[3 - i].moved = "no"
          BY <1>4, <3>1, <3>2, <4>1
        <4> QED
          BY <1>4, <2>2, <2>3, <3>2, <4>2
      <3>3. CASE ~two
        <4>1. Len(tracked) > 2
          <5>1. Len(tracked) >= 2
            BY <3>1, <3>3 DEF TouchInv, TimersKnow
          <5>2. Len(tracked) \in Nat /\ Len(tracked) # 2
            BY <1>3, <3>3
          <5> HIDE DEF two, both
          <5> QED
            BY <5>1, <5>2
        <4> QED
          BY <1>3, <1>4, <2>2, <2>3, <4>1
      <3> QED
        BY <3>2, <3>3
    <2>6. twoTouch' \in {"null", "pending", "ran"}
      BY <1>2, <1>8 DEF TouchInv, TouchTypes
    <2>7. TouchTypes' /\ TimersKnow' /\ ~ptrFault'
      BY <1>1, <1>4, <2>3, <2>5, <2>6 DEF TouchInv, TouchTypes, TimersKnow
    <2> QED
      BY <1>5, <2>4, <2>7 DEF TouchInv
  <1> QED
    BY <1>7, <1>8

LEMMA IgnoredEndInv ==
  ASSUME TouchInv, NEW f \in touching, f \in ignored, touching' = touching \ {f}, IgnoredEnd(f)
  PROVE  TouchInv'
  <1>1. ignored' = ignored \ {f} /\ UNCHANGED <<tracked, longpress, twoTouch, ptrFault>>
    BY DEF IgnoredEnd
  <1>2. Known(tracked, ignored, touching)'
    BY <1>1 DEF TouchInv, Known
  <1>3. CASE ignored' = {} /\ tracked = <<>>
    <2>1. gest' = Gestures /\ waiting' = FALSE
      BY <1>1, <1>3 DEF IgnoredEnd
    <2>2. Gestures # {"twotap"} /\ Len(tracked) = 0
      BY <1>3, Several, NobodyTracked
    <2>3. FitsGesture(tracked, gest, ignored, waiting)'
      BY <1>1, <1>3, <2>1, <2>2 DEF FitsGesture
    <2>4. ~longpress /\ twoTouch # "pending"
      BY <2>2 DEF TouchInv, TimersKnow
    <2>5. TouchTypes' /\ TimersKnow' /\ ~ptrFault'
      BY <1>1, <2>1, <2>4 DEF TouchInv, TouchTypes, TimersKnow
    <2> QED
      BY <1>2, <2>3, <2>5 DEF TouchInv
  <1>4. CASE ~(ignored' = {} /\ tracked = <<>>)
    <2>1. UNCHANGED <<gest, waiting>>
      BY <1>1, <1>4 DEF IgnoredEnd
    <2>2. FitsGesture(tracked, gest, ignored, waiting)'
      BY <1>1, <1>4, <2>1 DEF TouchInv, FitsGesture
    <2>3. TouchTypes' /\ TimersKnow' /\ ~ptrFault'
      BY <1>1, <2>1 DEF TouchInv, TouchTypes, TimersKnow
    <2> QED
      BY <1>2, <2>2, <2>3 DEF TouchInv
  <1> QED
    BY <1>3, <1>4

LEMMA TrackedEndInv ==
  ASSUME TouchInv, NEW f \in touching, f \notin ignored, touching' = touching \ {f},
         NEW soon, TrackedEnd(f, soon)
  PROVE  TouchInv'
  <1> DEFINE early == ReleasedEarly
             g1    == IF early THEN {} ELSE gest
             open  == ~Detected(g1, tracked)
             g2    == IF open THEN Lifted(g1, Len(tracked)) ELSE g1
             wait  == waiting \/ open
             slow  == (waiting /\ releaseLate) \/ age = 2
             g3    == IF wait /\ slow THEN {} ELSE g2
             u     == [i \in DOMAIN tracked |-> [tracked[i] EXCEPT !.active = @ /\ tracked[i].id # f]]
             tr    == IF wait THEN u ELSE tracked
             found == Detected(g3, tr)
             rest  == {tr[i].id : i \in {j \in DOMAIN tr : tr[j].active}}
  <1>1. /\ ptrFault' = (ptrFault \/ (wait /\ \A i \in DOMAIN tracked : tracked[i].id # f))
        /\ twoTouch' = IF early THEN "null" ELSE twoTouch
        /\ longpress' = (longpress /\ ~open)
    BY DEF TrackedEnd
  <1>2. /\ wait /\ ~found /\ g3 # {} =>
             gest' = g3 /\ tracked' = tr /\ waiting' = TRUE /\ ignored' = ignored
        /\ ~(wait /\ ~found /\ g3 # {}) =>
             /\ ignored' = (ignored \cup rest) \ {f} /\ tracked' = <<>>
             /\ gest' = IF ignored' = {} THEN Gestures ELSE {}
             /\ waiting' = (wait /\ ignored' # {})
    BY DEF TrackedEnd
  <1>3. f \in ActiveIn(tracked)
    BY DEF TouchInv, Known
  <1>4. tracked \in Seq(Touch) /\ tracked # <<>> /\ Len(tracked) \in Nat \ {0}
    BY <1>3, NobodyTracked DEF TouchInv, TouchTypes
  <1>5. ptrFault' = FALSE
    BY <1>1, <1>3 DEF ActiveIn, TouchInv, TouchTypes
  <1>6. twoTouch' # "pending" /\ twoTouch' \in {"null", "pending", "ran"}
    BY <1>1, TimersEarly DEF ReleasedEarly, TouchInv, TouchTypes
  <1>7. longpress' = FALSE
    <2>1. CASE longpress
      <3>1. ~Detected(gest, tracked) /\ ~Detected({}, tracked)
        BY <2>1, TimersEarly, SeveralNotDetected
      <3> QED
        BY <1>1, <3>1
    <2>2. CASE ~longpress
      BY <1>1, <2>2 DEF TouchInv, TouchTypes
    <2> QED
      BY <2>1, <2>2
  <1>8. /\ u \in Seq(Touch) /\ Len(u) = Len(tracked) /\ ActiveIn(u) = ActiveIn(tracked) \ {f}
        /\ ActiveIn(u) = {} => \A i \in DOMAIN u : ~u[i].active
    <2>1. \A t \in Touch : LET v == [t EXCEPT !.active = @ /\ t.id # f]
                           IN  v \in Touch /\ v.id = t.id /\ (v.active <=> t.active /\ t.id # f)
      BY DEF Touch
    <2>2. /\ DOMAIN tracked = 1..Len(tracked) /\ Len(tracked) \in Nat
          /\ \A i \in DOMAIN tracked : tracked[i] \in Touch
      BY <1>4
    <2>3. \A i \in DOMAIN tracked : /\ u[i] \in Touch /\ u[i].id = tracked[i].id
                                    /\ u[i].active <=> tracked[i].active /\ tracked[i].id # f
      BY ONLY <2>1, <2>2 DEF u
    <2>4. DOMAIN u = 1..Len(tracked) /\ u \in [1..Len(tracked) -> Touch]
      BY ONLY <2>2, <2>3 DEF u
    <2> HIDE DEF u
    <2>5. u \in Seq(Touch) /\ Len(u) = Len(tracked)
      BY ONLY <2>2, <2>4
    <2>6. \A i \in DOMAIN tracked : u[i].id = tracked[i].id /\ (u[i].active <=> tracked[i].active /\ tracked[i].id # f)
      BY ONLY <2>3
    <2>7. /\ ActiveIn(u) = ActiveIn(tracked) \ {f}
          /\ ActiveIn(u) = {} => \A i \in DOMAIN u : ~u[i].active
      <3>1. tracked \in Seq(Touch) /\ u \in Seq(Touch) /\ Len(u) = Len(tracked)
        BY <1>4, <2>5
      <3>2. DOMAIN tracked = DOMAIN u /\ \A i \in DOMAIN u : u[i] \in Touch
        BY ONLY <3>1
      <3>3. ActiveIn(u) = ActiveIn(tracked) \ {f}
        BY ONLY <2>6, <3>2 DEF ActiveIn
      <3>4. \A i \in DOMAIN u : u[i].active => u[i].id \in ActiveIn(u)
        BY ONLY <3>2 DEF ActiveIn, Touch
      <3> QED
        BY ONLY <3>3, <3>4
    <2> QED
      BY ONLY <2>5, <2>7
  <1> HIDE DEF u
  <1>9. CASE wait /\ ~found /\ g3 # {}
    <2>1. gest' = g2 /\ g2 # {} /\ tracked' = u /\ waiting' = TRUE /\ ignored' = ignored /\ ~Detected(g2, u)
      BY <1>2, <1>9
    <2>2. Shaped(gest, Len(tracked)) /\ gest \in SUBSET Gestures
      BY <1>4, ShapedIs DEF TouchInv, FitsGesture
    <2>3. ~early /\ open
      <3>1. CASE early
        <4>1. g1 = {} /\ open
          BY <3>1, SeveralNotDetected
        <4>2. Lifted({}, Len(tracked)) = {}
          BY <1>4 DEF Lifted
        <4> QED
          BY <2>1, <4>1, <4>2
      <3>2. CASE ~early /\ ~open
        <4>1. Detected(gest, tracked) /\ ~Detected(gest, u)
          BY <2>1, <3>2
        <4>2. \E x : gest = {x}
          BY <2>2, <4>1, DetectedIs
        <4>3. gest \in {{"onetap"}, {"twotap"}, {"threetap"}}
          BY <2>2, <4>1, <4>2, DetectedIs DEF Gestures, Taps
        <4>4. \A i \in DOMAIN tracked : ~tracked[i].active
          BY <2>2, <4>1, <4>3, DetectedIs
        <4> QED
          BY <1>3, <4>4 DEF ActiveIn
      <3> QED
        BY <3>1, <3>2
    <2>4. g2 = Lifted(gest, Len(tracked))
      BY <2>3
    <2>5. \/ Len(tracked) = 1 /\ gest' = {"onetap"}
          \/ Len(tracked) = 2 /\ gest' = {"twotap"}
          \/ Len(tracked) = 3 /\ gest' = {"threetap"}
      <3>1. waiting \in BOOLEAN /\ (waiting => Len(tracked) # 1 /\ gest \in {{"twotap"}, {"threetap"}, {"twodrag"}, {"pinch"}, {}})
        BY DEF TouchInv, TouchTypes, FitsGesture
      <3> QED
        BY <1>4, <2>1, <2>2, <2>4, <3>1, LiftedFits
    <2>6. ActiveIn(u) # {}
      <3> SUFFICES ASSUME ActiveIn(u) = {} PROVE FALSE
        OBVIOUS
      <3>1. \A i \in DOMAIN u : ~u[i].active
        BY <1>8
      <3>2. gest' \in {{"onetap"}, {"twotap"}, {"threetap"}} /\ gest' \in SUBSET Gestures
        BY <2>5 DEF Gestures, Taps
      <3>3. Detected(gest', u)
        BY <3>1, <3>2, DetectedIs
      <3> QED
        BY <2>1, <3>3
    <2>7. Len(tracked) # 1
      <3> SUFFICES ASSUME Len(tracked) = 1 PROVE FALSE
        OBVIOUS
      <3>1. DOMAIN tracked = {1} /\ tracked[1].id = f
        BY <1>3, <1>4 DEF ActiveIn
      <3>2. ActiveIn(tracked) \subseteq {f}
        BY <3>1 DEF ActiveIn
      <3> QED
        BY <1>8, <2>6, <3>2
    <2>8. FitsGesture(tracked, gest, ignored, waiting)'
      <3>1. Shaped(gest', Len(tracked')) /\ gest' \in {{"twotap"}, {"threetap"}}
        BY <1>8, <2>1, <2>5, <2>7 DEF Shaped, OfTwo, OfThree
      <3>2. tracked' # <<>> /\ Len(tracked') # 1 /\ ActiveIn(tracked') # {}
        BY <1>8, <2>1, <2>6, <2>7, NobodyTracked
      <3> QED
        BY <2>1, <3>1, <3>2 DEF FitsGesture
    <2>9. Known(tracked, ignored, touching)'
      BY <1>8, <2>1 DEF TouchInv, Known
    <2>10. TouchTypes' /\ TimersKnow' /\ ~ptrFault'
      BY <1>5, <1>6, <1>7, <1>8, <2>1 DEF TouchInv, TouchTypes, TimersKnow
    <2> QED
      BY <2>8, <2>9, <2>10 DEF TouchInv
  <1>10. CASE ~(wait /\ ~found /\ g3 # {})
    <2>1. /\ ignored' = (ignored \cup rest) \ {f} /\ tracked' = <<>>
          /\ gest' = IF ignored' = {} THEN Gestures ELSE {}
          /\ waiting' = (wait /\ ignored' # {})
      BY <1>2, <1>10
    <2>2. tr \in Seq(Touch) /\ ActiveIn(tr) \ {f} = ActiveIn(tracked) \ {f}
      BY <1>4, <1>8
    <2> HIDE DEF tr, wait
    <2>3. rest = ActiveIn(tr)
      <3>1. \A i \in DOMAIN tr : tr[i] \in Touch
        BY ONLY <2>2
      <3>2. \A i \in DOMAIN tr : tr[i].id \in Fingers
        BY ONLY <3>1 DEF Touch
      <3> QED
        BY <3>2 DEF ActiveIn
    <2> HIDE DEF rest
    <2>4. Known(tracked, ignored, touching)'
      BY <2>1, <2>2, <2>3, NobodyTracked DEF TouchInv, Known
    <2>5. waiting' \in BOOLEAN /\ Gestures # {"twotap"} /\ {} # {"twotap"}
      BY <2>1, Several
    <2>6. FitsGesture(tracked, gest, ignored, waiting)'
      <3>1. tracked' = <<>> /\ Len(tracked') = 0 /\ ActiveIn(tracked') = {}
        BY <2>1, NobodyTracked
      <3>2. CASE ignored' = {}
        <4>1. gest' = Gestures /\ waiting' = FALSE /\ gest' # {"twotap"}
          BY <2>1, <2>5, <3>2
        <4> QED
          BY ONLY <3>1, <3>2, <4>1 DEF FitsGesture
      <3>3. CASE ignored' # {}
        <4>1. gest' = {} /\ gest' # {"twotap"} /\ {} \in {{"twotap"}, {"threetap"}, {"twodrag"}, {"pinch"}, {}}
          BY <2>1, <2>5, <3>3
        <4> QED
          BY ONLY <3>1, <3>3, <4>1, <2>5 DEF FitsGesture
      <3> QED
        BY <3>2, <3>3
    <2>7. touching' \subseteq Fingers /\ ignored' \subseteq Fingers
      BY <2>1, <2>3 DEF TouchInv, TouchTypes, ActiveIn
    <2>8. TouchTypes' /\ TimersKnow' /\ ~ptrFault'
      BY <1>5, <1>6, <1>7, <2>1, <2>5, <2>7, NobodyTracked DEF TouchTypes, TimersKnow
    <2> QED
      BY <2>4, <2>6, <2>8 DEF TouchInv
  <1> QED
    BY <1>9, <1>10

LEMMA TimeoutsInv ==
  ASSUME TouchInv,
         \/ \E soon \in BOOLEAN : LongpressTimeout(soon)
         \/ \E g \in {"pinch", "twodrag"}, soon \in BOOLEAN, step \in {"up", NoWheel} :
              TwoTouchTimeout(g, soon, step)
  PROVE  TouchInv'
  <1>1. ASSUME NEW soon \in BOOLEAN, LongpressTimeout(soon) PROVE TouchInv'
    <2>1. longpress /\ ~Detected(gest, tracked)
      BY <1>1, TimersEarly DEF LongpressTimeout
    <2>2. /\ longpress' = FALSE /\ gest' = {"longpress"}
          /\ UNCHANGED <<touching, tracked, ignored, waiting, twoTouch, ptrFault>>
      BY <1>1, <2>1 DEF LongpressTimeout
    <2>3. Len(tracked) = 1 /\ twoTouch # "pending" /\ tracked # <<>>
      BY <2>1, NobodyTracked DEF TouchInv, TimersKnow
    <2>4. Shaped(gest', Len(tracked)) /\ gest' # {"twotap"}
      BY <2>2, <2>3 DEF Shaped, OfOne
    <2>5. FitsGesture(tracked, gest, ignored, waiting)'
      BY <2>2, <2>3, <2>4 DEF TouchInv, FitsGesture
    <2>6. TouchTypes' /\ Known(tracked, ignored, touching)' /\ TimersKnow' /\ ~ptrFault'
      BY <2>2, <2>3 DEF TouchInv, TouchTypes, Known, TimersKnow
    <2> QED
      BY <2>5, <2>6 DEF TouchInv
  <1>2. ASSUME NEW g \in {"pinch", "twodrag"}, NEW soon \in BOOLEAN, NEW step \in {"up", NoWheel},
               TwoTouchTimeout(g, soon, step)
        PROVE  TouchInv'
    <2>1. twoTouch = "pending" /\ Len(tracked) >= 2 /\ ~longpress
      BY <1>2 DEF TwoTouchTimeout, TouchInv, TimersKnow
    <2>2. tracked # <<>> /\ Len(tracked) \in Nat \ {0}
      BY <2>1, NobodyTracked DEF TouchInv, TouchTypes
    <2>3. /\ twoTouch' = "ran" /\ gest' = {g}
          /\ UNCHANGED <<touching, tracked, ignored, waiting, longpress, ptrFault>>
      BY <1>2, <2>2 DEF TwoTouchTimeout
    <2>4. Shaped(gest', Len(tracked))
      <3>1. \A k \in Nat : k >= 2 => k = 2 \/ k = 3 \/ k > 3
        OBVIOUS
      <3>2. {g} \in OfTwo /\ {g} \in OfThree /\ {g} \in OfMore
        BY DEF OfTwo, OfThree, OfMore
      <3> QED
        BY <2>1, <2>2, <2>3, <3>1, <3>2 DEF Shaped
    <2>5. gest' # {"twotap"} /\ gest' \in {{"twodrag"}, {"pinch"}}
      BY <2>3
    <2>6. FitsGesture(tracked, gest, ignored, waiting)'
      BY <2>2, <2>3, <2>4, <2>5 DEF TouchInv, FitsGesture
    <2>7. TouchTypes' /\ Known(tracked, ignored, touching)' /\ TimersKnow' /\ ~ptrFault'
      BY <2>1, <2>3 DEF TouchInv, TouchTypes, Known, TimersKnow
    <2> QED
      BY <2>6, <2>7 DEF TouchInv
  <1> QED
    BY <1>1, <1>2

LEMMA TouchNextInv ==
  ASSUME TouchInv, [PtrNext]_ptrVars
  PROVE  TouchInv'
  <1>1. CASE UNCHANGED ptrVars
    BY <1>1, TouchStays DEF ptrVars, fingerVars
  <1>2. ASSUME NEW b \in Buttons, MouseDown(b) \/ MouseUp(b) PROVE TouchInv'
    BY <1>2, TouchStays DEF MouseDown, MouseUp, fingerVars
  <1>3. ASSUME NEW soon \in BOOLEAN, NEW far \in {FALSE, ptr.dragging}, MouseMove(soon, far) PROVE TouchInv'
    BY <1>3, TouchStays DEF MouseMove, fingerVars
  <1>4. CASE HandleDelayedMouseMove
    BY <1>4, TouchStays DEF HandleDelayedMouseMove, fingerVars
  <1>5. ASSUME NEW step \in {"up", NoWheel}, HandleWheel(step) PROVE TouchInv'
    BY <1>5, TouchStays DEF HandleWheel, fingerVars
  <1>6. ASSUME NEW f \in Fingers, TouchStart(f) PROVE TouchInv'
    BY <1>6, TouchStartInv
  <1>7. ASSUME NEW f \in Fingers, NEW soon \in BOOLEAN, TouchEnd(f, soon) PROVE TouchInv'
    BY <1>7, IgnoredEndInv, TrackedEndInv DEF TouchEnd
  <1>8. ASSUME NEW i \in DOMAIN tracked, NEW to \in {"no", "ahead", "back"}, NEW soon \in BOOLEAN,
               NEW far \in {FALSE, dragView}, NEW step \in {NoWheel, StepOf(gest)},
               TouchMove(i, to, soon, far, step)
        PROVE  TouchInv'
    BY <1>8, TouchMoveInv
  <1>9. CASE \/ \E soon \in BOOLEAN : LongpressTimeout(soon)
             \/ \E g \in {"pinch", "twodrag"}, soon \in BOOLEAN, step \in {"up", NoWheel} :
                  TwoTouchTimeout(g, soon, step)
    BY <1>9, TimeoutsInv
  <1>10. CASE GestureAges \/ ReleaseLate
    BY <1>10, TouchStays DEF GestureAges, ReleaseLate
  <1>11. ASSUME NEW only \in BOOLEAN, NEW drag \in BOOLEAN, ApplyView(only, drag) PROVE TouchInv'
    BY <1>11, TouchStays DEF ApplyView, fingerVars
  <1> QED
    BY <1>1, <1>2, <1>3, <1>4, <1>5, <1>6, <1>7, <1>8, <1>9, <1>10, <1>11 DEF PtrNext

\* However many fingers there are, and in whatever order they are pressed, moved and
\* lifted and the timers run: no handler of the gesture code throws, and once the
\* last finger is off the screen it is as new. [_touchStart, _touchMove, _touchEnd,
\* _longpressTimeout, _twoTouchTimeout]
THEOREM TouchTheorem == PtrSpec => []FingersForgotten
  <1>1. PtrInit => TouchInv
    BY TouchInitInv
  <1>2. TouchInv /\ [PtrNext]_ptrVars => TouchInv'
    BY TouchNextInv
  <1>3. TouchInv => FingersForgotten
    <2> SUFFICES ASSUME TouchInv, touching = {}
                 PROVE  gest = Gestures /\ tracked = <<>> /\ ignored = {} /\ ~waiting /\ ~longpress
      BY DEF TouchInv, FingersForgotten
    <2>1. ActiveIn(tracked) = {} /\ ignored = {}
      BY DEF TouchInv, Known
    <2>2. tracked = <<>> /\ gest = Gestures /\ ~waiting
      BY <2>1 DEF TouchInv, FitsGesture
    <2>3. ~longpress
      BY <2>2, NobodyTracked DEF TouchInv, TimersKnow
    <2> QED
      BY <2>1, <2>2, <2>3
  <1> QED
    BY <1>1, <1>2, <1>3, PTL DEF PtrSpec

-----------------------------------------------------------------------------
(***************************************************************************)
(* The invariant of the pointer's buttons in VncPointer.                   *)
(***************************************************************************)

Masks == Buttons \cup {"left", "middle", "right", "up"}
Pointers == [mask : SUBSET Masks, timer : BOOLEAN, dragging : BOOLEAN, moved : BOOLEAN,
             remote : SUBSET Masks]

\* A button down, here or at the server, has something to hold it (h) that ends
\* with its release; a view-only console has none down at the server.
Backed(p, h) ==
  /\ p.mask # {} \/ p.remote # {} => h
  /\ viewOnly => p.remote = {}

\* A finger holds a button during a drag or a long press that moves no viewport.
FingerHolds(g) == ~dragView /\ g \in {{"drag"}, {"longpress"}}

PressTypes ==
  /\ ptr \in Pointers /\ held \subseteq Buttons /\ kept \in {"no", "view", "moved"}
  /\ viewOnly \in BOOLEAN /\ dragView \in BOOLEAN

PressInv ==
  /\ PressTypes
  /\ kept = "no" => Backed(ptr, held # {} \/ (tracked # <<>> /\ FingerHolds(gest)))

\* What one pointer message, and what a press or release, leaves down.
LEMMA SendBacked ==
  ASSUME NEW p \in Pointers, NEW m \in SUBSET Masks
  PROVE  /\ SendMouse(p, m) \in Pointers
         /\ SendMouse(p, m).mask = p.mask /\ SendMouse(p, m).moved = p.moved
         /\ SendMouse(p, m).remote = IF viewOnly THEN p.remote ELSE m
  BY DEF SendMouse, Pointers

LEMMA FlushBacked ==
  ASSUME NEW p \in Pointers
  PROVE  LET q == FlushMouseMoveTimer(p)
         IN  /\ q \in Pointers /\ q.mask = p.mask /\ q.moved = p.moved
             /\ viewOnly => q.remote = p.remote
             /\ q.remote \in {p.remote, p.mask}
  <1> DEFINE t == [p EXCEPT !.timer = FALSE]
  <1>1. /\ t \in Pointers /\ t.mask = p.mask /\ t.moved = p.moved /\ t.remote = p.remote
        /\ p.mask \in SUBSET Masks
    BY DEF Pointers
  <1>2. FlushMouseMoveTimer(p) = IF p.timer THEN SendMouse(t, p.mask) ELSE p
    BY DEF FlushMouseMoveTimer
  <1> HIDE DEF t
  <1>3. /\ SendMouse(t, p.mask) \in Pointers
        /\ SendMouse(t, p.mask).mask = t.mask /\ SendMouse(t, p.mask).moved = t.moved
        /\ SendMouse(t, p.mask).remote = IF viewOnly THEN t.remote ELSE p.mask
    BY <1>1, SendBacked
  <1> QED
    BY <1>1, <1>2, <1>3

LEMMA ButtonBacked ==
  ASSUME NEW p \in Pointers, NEW m \in SUBSET Masks
  PROVE  LET q == HandleMouseButton(p, m)
         IN  /\ q \in Pointers /\ q.mask = m /\ q.moved = p.moved
             /\ q.remote = IF viewOnly THEN p.remote ELSE m
  <1> DEFINE f == FlushMouseMoveTimer(p)
             t == [f EXCEPT !.mask = m]
  <1>1. f \in Pointers /\ f.moved = p.moved /\ (viewOnly => f.remote = p.remote)
    BY FlushBacked
  <1> HIDE DEF f
  <1>2. t \in Pointers /\ t.mask = m /\ t.moved = f.moved /\ t.remote = f.remote
    BY <1>1 DEF Pointers
  <1>3. HandleMouseButton(p, m) = SendMouse(t, m)
    BY DEF HandleMouseButton, f
  <1> HIDE DEF t
  <1> QED
    BY <1>1, <1>2, <1>3, SendBacked

LEMMA MoveBacked ==
  ASSUME NEW p \in Pointers, NEW soon \in BOOLEAN
  PROVE  LET q == HandleMouseMove(p, soon)
         IN  /\ q \in Pointers /\ q.mask = p.mask /\ q.moved = p.moved
             /\ viewOnly => q.remote = p.remote
             /\ q.remote \in {p.remote, p.mask}
  <1> DEFINE t == [p EXCEPT !.timer = TRUE]
  <1>1. /\ t \in Pointers /\ t.mask = p.mask /\ t.moved = p.moved /\ t.remote = p.remote
        /\ p.mask \in SUBSET Masks
    BY DEF Pointers
  <1>2. HandleMouseMove(p, soon) = IF p.timer THEN p ELSE IF soon THEN t ELSE SendMouse(p, p.mask)
    BY DEF HandleMouseMove
  <1> HIDE DEF t
  <1> QED
    BY <1>1, <1>2, SendBacked

\* A click leaves nothing down, a step of the wheel the buttons held.
LEMMA ClickBacked ==
  ASSUME NEW p \in Pointers, NEW m \in SUBSET Masks, NEW h
  PROVE  Click(p, m) \in Pointers /\ (Backed(p, h) => Backed(Click(p, m), FALSE))
  <1> DEFINE b == HandleMouseButton(p, m)
  <1>1. {} \in SUBSET Masks
    OBVIOUS
  <1>2. b \in Pointers /\ b.moved = p.moved /\ (viewOnly => b.remote = p.remote)
    BY ButtonBacked
  <1> HIDE DEF b
  <1>3. /\ HandleMouseButton(b, {}) \in Pointers /\ HandleMouseButton(b, {}).mask = {}
        /\ HandleMouseButton(b, {}).moved = b.moved
        /\ HandleMouseButton(b, {}).remote = IF viewOnly THEN b.remote ELSE {}
    BY <1>1, <1>2, ButtonBacked
  <1>4. Click(p, m) = HandleMouseButton(b, {})
    BY DEF Click, b
  <1> QED
    BY <1>2, <1>3, <1>4 DEF Backed

LEMMA WheelIs ==
  ASSUME NEW p \in Pointers, NEW m \in SUBSET Masks, NEW step \in {"up", NoWheel}
  PROVE  /\ WheelStep(p, step, m) \in Pointers
         /\ WheelStep(p, step, m) = p \/ /\ WheelStep(p, step, m).mask = m
                                         /\ WheelStep(p, step, m).remote = IF viewOnly THEN p.remote ELSE m
  <1>1. CASE step = NoWheel
    BY <1>1 DEF WheelStep
  <1>2. CASE step # NoWheel
    <2> DEFINE k == m \cup {step}
               b == HandleMouseButton(p, k)
    <2>1. k \in SUBSET Masks
      BY <1>2 DEF Masks
    <2> HIDE DEF k
    <2>2. b \in Pointers /\ (viewOnly => b.remote = p.remote)
      BY <2>1, ButtonBacked
    <2> HIDE DEF b
    <2>3. /\ HandleMouseButton(b, m) \in Pointers /\ HandleMouseButton(b, m).mask = m
          /\ HandleMouseButton(b, m).remote = IF viewOnly THEN b.remote ELSE m
      BY <2>2, ButtonBacked
    <2>4. WheelStep(p, step, m) = HandleMouseButton(b, m)
      BY <1>2 DEF WheelStep, b, k
    <2> QED
      BY <2>2, <2>3, <2>4
  <1> QED
    BY <1>1, <1>2

LEMMA WheelBacked ==
  ASSUME NEW p \in Pointers, NEW m \in SUBSET Masks, NEW step \in {"up", NoWheel}, NEW h,
         Backed(p, h), m # {} => h
  PROVE  Backed(WheelStep(p, step, m), h)
  BY WheelIs DEF Backed

\* A move sends what is down, a drag of the viewport nothing.
LEMMA MoveKeepsBacked ==
  ASSUME NEW p \in Pointers, NEW h, NEW soon \in BOOLEAN, NEW far \in BOOLEAN
  PROVE  /\ HandleMouseMove(p, soon) \in Pointers /\ DragMoves(p, far) \in Pointers
         /\ Backed(p, h) => Backed(HandleMouseMove(p, soon), h) /\ Backed(DragMoves(p, far), h)
  <1>1. HandleMouseMove(p, soon) \in Pointers /\ (Backed(p, h) => Backed(HandleMouseMove(p, soon), h))
    BY MoveBacked DEF Backed
  <1>2. /\ DragMoves(p, far) \in Pointers
        /\ DragMoves(p, far).mask = p.mask /\ DragMoves(p, far).remote = p.remote
    BY DEF DragMoves, Pointers
  <1> QED
    BY <1>1, <1>2 DEF Backed

\* A gesture that starts presses a button only for a finger that holds it.
LEMMA StartBacked ==
  ASSUME NEW p \in Pointers, NEW h, NEW g \in Gestures, NEW soon \in BOOLEAN
  PROVE  /\ GestureStart(p, g, soon) \in Pointers
         /\ Backed(p, h) => Backed(GestureStart(p, g, soon), h \/ FingerHolds({g}))
  <1> DEFINE q == GestureStart(p, g, soon)
             mv == HandleMouseMove(p, soon)
             mo == [p EXCEPT !.moved = FALSE]
             md == [p EXCEPT !.moved = FALSE, !.dragging = TRUE]
  <1>1. {"left"} \in SUBSET Masks /\ {"right"} \in SUBSET Masks /\ {"middle"} \in SUBSET Masks
    BY DEF Masks
  <1>2. mv \in Pointers /\ (Backed(p, h) => Backed(mv, h))
    BY MoveBacked DEF Backed
  <1>3. mo \in Pointers /\ md \in Pointers /\ (Backed(p, h) => Backed(mo, h) /\ Backed(md, h))
    BY DEF Pointers, Backed
  <1> HIDE DEF mv, mo, md
  <1>4. CASE g \in Taps
    <2>1. \E m \in {{"left"}, {"right"}, {"middle"}} : q = Click(mv, m)
      BY <1>4, Zenon DEF GestureStart, HandleTapEvent, mv, Taps
    <2> HIDE DEF q
    <2> QED
      BY <1>1, <1>2, <2>1, ClickBacked DEF Backed, q
  <1>5. CASE g \in {"drag", "longpress"} /\ dragView
    <2>1. q = md \/ q = mo
      BY <1>5 DEF GestureStart, mo, md
    <2> HIDE DEF q
    <2> QED
      BY <1>3, <2>1 DEF Backed, q
  <1>6. CASE g \in {"drag", "longpress"} /\ ~dragView
    <2>1. \E m \in {{"left"}, {"right"}} : q = HandleMouseButton(mv, m)
      BY <1>6 DEF GestureStart, mv
    <2>2. FingerHolds({g})
      BY <1>6 DEF FingerHolds
    <2> HIDE DEF q
    <2> QED
      BY <1>1, <1>2, <2>1, <2>2, ButtonBacked DEF Backed, q
  <1>7. CASE g \in {"twodrag", "pinch"}
    <2>1. q = mv
      BY <1>7 DEF GestureStart, mv
    <2> HIDE DEF q
    <2> QED
      BY <1>2, <2>1 DEF Backed, q
  <1> QED
    BY <1>4, <1>5, <1>6, <1>7 DEF Gestures

\* A gesture that goes on presses nothing, but for the steps of the wheel.
LEMMA GoesOnBacked ==
  ASSUME NEW p \in Pointers, NEW h, NEW g \in Gestures, NEW soon \in BOOLEAN,
         NEW far \in BOOLEAN, NEW step \in {"up", NoWheel}
  PROVE  /\ GestureMove(p, g, soon, far, step) \in Pointers
         /\ Backed(p, h) => Backed(GestureMove(p, g, soon, far, step), h)
  <1> DEFINE q == GestureMove(p, g, soon, far, step)
             mv == HandleMouseMove(p, soon)
             dm == DragMoves(p, far)
  <1>1. mv \in Pointers /\ dm \in Pointers /\ (Backed(p, h) => Backed(mv, h) /\ Backed(dm, h))
    BY MoveKeepsBacked
  <1>2. {} \in SUBSET Masks
    OBVIOUS
  <1> HIDE DEF mv, dm
  <1>3. q \in {p, mv, dm, WheelStep(mv, step, {})}
    <2>1. CASE g \in Taps
      BY <2>1 DEF GestureMove, Taps
    <2>2. CASE g \in {"drag", "longpress"}
      BY <2>2 DEF GestureMove, Taps, mv, dm
    <2>3. CASE g \in {"twodrag", "pinch"}
      BY <2>3 DEF GestureMove, Taps, mv
    <2> QED
      BY <2>1, <2>2, <2>3 DEF Gestures
  <1>4. /\ WheelStep(mv, step, {}) \in Pointers
        /\ Backed(p, h) => Backed(WheelStep(mv, step, {}), h)
    BY <1>1, <1>2, WheelIs, WheelBacked
  <1> HIDE DEF q
  <1> QED
    BY <1>1, <1>3, <1>4 DEF q

\* The end of a gesture lets go of what a finger held, but for the end of a long
\* press whose viewport moved.
LEMMA EndBacked ==
  ASSUME NEW p \in Pointers, NEW g \in Gestures, NEW soon \in BOOLEAN, NEW h
  PROVE  /\ GestureEnd(p, g, soon) \in Pointers
         /\ Backed(p, h \/ FingerHolds({g})) /\ ~(FingerHolds({g}) /\ g = "longpress" /\ p.moved) =>
              Backed(GestureEnd(p, g, soon), h)
  <1> DEFINE q  == GestureEnd(p, g, soon)
             mv == HandleMouseMove(p, soon)
             c  == Click(mv, {"right"})
             dr(r) == [r EXCEPT !.dragging = FALSE]
             was == Backed(p, h \/ FingerHolds({g}))
  <1>1. mv \in Pointers /\ (was => Backed(mv, h \/ FingerHolds({g})))
    BY MoveKeepsBacked
  <1>2. {} \in SUBSET Masks /\ {"right"} \in SUBSET Masks
    BY DEF Masks
  <1> HIDE DEF mv
  <1>3. c \in Pointers /\ (was => Backed(c, FALSE))
    BY <1>1, <1>2, ClickBacked
  <1> HIDE DEF c
  <1>4. \A r \in Pointers : dr(r) \in Pointers /\ dr(r).mask = r.mask /\ dr(r).remote = r.remote
    BY DEF Pointers
  <1> HIDE DEF dr
  <1>5. CASE g = "longpress" /\ p.moved
    <2>1. q = p
      BY <1>5 DEF GestureEnd
    <2> HIDE DEF q
    <2> QED
      BY <1>5, <2>1 DEF Backed, q
  <1>6. CASE g \in {"drag", "longpress"} /\ ~dragView /\ ~(g = "longpress" /\ p.moved)
    <2>1. q = HandleMouseButton(mv, {})
      BY <1>6 DEF GestureEnd, mv
    <2>2. /\ HandleMouseButton(mv, {}) \in Pointers /\ HandleMouseButton(mv, {}).mask = {}
          /\ HandleMouseButton(mv, {}).remote = IF viewOnly THEN mv.remote ELSE {}
      BY <1>1, <1>2, ButtonBacked
    <2> HIDE DEF q
    <2> QED
      BY <1>1, <2>1, <2>2 DEF Backed, q
  <1>7. CASE ~(g \in {"drag", "longpress"} /\ ~dragView) /\ ~(g = "longpress" /\ p.moved)
    <2>1. was => Backed(p, h)
      <3>1. ~FingerHolds({g})
        BY <1>7 DEF FingerHolds
      <3> QED
        BY <3>1 DEF Backed
    <2>2. q \in {p, dr(p), dr(c)}
      <3>1. CASE g = "drag"
        BY <1>7, <3>1 DEF GestureEnd, dr
      <3>2. CASE g = "longpress"
        BY <1>7, <3>2 DEF GestureEnd, dr, c, mv
      <3>3. CASE g \notin {"drag", "longpress"}
        BY <3>3 DEF GestureEnd
      <3> QED
        BY <3>1, <3>2, <3>3
    <2> HIDE DEF q
    <2> QED
      BY <1>3, <1>4, <2>1, <2>2 DEF Backed, q
  <1> QED
    BY <1>5, <1>6, <1>7

-----------------------------------------------------------------------------
(***************************************************************************)
(* Each step keeps the invariant of the buttons.                           *)
(***************************************************************************)

\* Track leaves the pointer as the step has made it, and forgets why a release
\* may not come only when there is none to come.
LEMMA TrackKeeps ==
  ASSUME PressTypes, NEW p \in Pointers, NEW why \in {"no", "moved"}, Track(p, why),
         held' \subseteq Buttons, UNCHANGED viewVars,
         kept = "no" /\ why = "no" => Backed(p, held' # {} \/ (tracked' # <<>> /\ FingerHolds(gest')))
  PROVE  PressInv'
  <1>1. ptr' = p /\ kept' = IF ~Pressing(p) THEN "no" ELSE IF kept # "no" THEN kept ELSE why
    BY DEF Track
  <1>2. PressTypes'
    BY <1>1 DEF PressTypes, viewVars
  <1>3. ~Pressing(p) => p.mask = {} /\ p.remote = {}
    BY DEF Pressing
  <1>4. kept' = "no" => Backed(p, held' # {} \/ (tracked' # <<>> /\ FingerHolds(gest')))
    BY <1>1, <1>3 DEF Backed, PressTypes
  <1> QED
    BY <1>1, <1>2, <1>4 DEF PressInv, Backed, FingerHolds, viewVars

\* A step that sends nothing and leaves the gesture that holds a button.
LEMMA HolderStays ==
  ASSUME PressInv, UNCHANGED <<ptr, kept, held, viewVars>>,
         tracked # <<>> /\ FingerHolds(gest) => tracked' # <<>> /\ gest' = gest
  PROVE  PressInv'
  <1>1. PressTypes' /\ ptr' = ptr /\ kept' = kept /\ held' = held
    BY DEF PressInv, PressTypes, viewVars
  <1>2. viewOnly' = viewOnly /\ dragView' = dragView
    BY DEF viewVars
  <1> QED
    BY <1>1, <1>2 DEF PressInv, Backed, FingerHolds

\* One gesture is detected when a finger holds a button, and no tap waits.
LEMMA HolderDetected ==
  ASSUME TouchInv, FingerHolds(gest)
  PROVE  Detected(gest, tracked) /\ ~waiting
  <1>1. gest \in SUBSET Gestures /\ gest \in {{"drag"}, {"longpress"}}
    BY DEF FingerHolds, Gestures, Taps
  <1>2. gest \notin {{"twotap"}, {"threetap"}, {"twodrag"}, {"pinch"}, {}}
    BY <1>1
  <1> QED
    BY <1>1, <1>2, DetectedIs DEF TouchInv, FitsGesture

LEMMA OnlyIs ==
  ASSUME NEW g \in SUBSET Gestures, NEW tr, Detected(g, tr)
  PROVE  g = {Only(g)} /\ Only(g) \in Gestures
  <1>1. PICK x : g = {x}
    BY DetectedIs
  <1> QED
    BY <1>1 DEF Only

LEMMA MouseSteps ==
  ASSUME PressInv, NEW m \in SUBSET Buttons, NEW down \in BOOLEAN, down => m # {}
  PROVE  /\ MouseButtonEvent(m, down) \in Pointers
         /\ kept = "no" /\ KeptBack(down) = "no" =>
              Backed(MouseButtonEvent(m, down), m # {} \/ (tracked # <<>> /\ FingerHolds(gest)))
  <1> DEFINE q  == MouseButtonEvent(m, down)
             d  == [ptr EXCEPT !.dragging = TRUE, !.moved = FALSE]
             e  == [ptr EXCEPT !.dragging = FALSE]
             e2 == [ptr EXCEPT !.dragging = FALSE, !.mask = m]
  <1>1. m \in SUBSET Masks /\ ptr \in Pointers /\ ptr.mask \in SUBSET Masks
    BY DEF Masks, PressInv, PressTypes, Pointers
  <1>2. /\ d \in Pointers /\ d.remote = ptr.remote
        /\ e \in Pointers /\ e.remote = ptr.remote /\ e2 \in Pointers
    BY <1>1 DEF Pointers
  <1>3. kept = "no" => (viewOnly => ptr.remote = {})
    BY DEF PressInv, Backed
  <1> HIDE DEF d, e, e2
  <1>4. CASE ~dragView
    <2>1. q = HandleMouseButton(ptr, m)
      BY <1>4 DEF MouseButtonEvent
    <2> HIDE DEF q
    <2> QED
      BY <1>1, <1>3, <2>1, ButtonBacked DEF Backed, q
  <1>5. CASE dragView /\ down /\ ~ptr.dragging
    <2> DEFINE f == FlushMouseMoveTimer(d)
    <2>1. q = [f EXCEPT !.mask = m]
      BY <1>5 DEF MouseButtonEvent, d
    <2>2. f \in Pointers /\ (viewOnly => f.remote = ptr.remote)
      BY <1>2, FlushBacked
    <2> HIDE DEF f, q
    <2>3. q \in Pointers /\ q.mask = m /\ q.remote = f.remote
      BY <1>1, <2>1, <2>2 DEF Pointers
    <2> QED
      BY <1>3, <1>5, <2>2, <2>3 DEF Backed, q
  <1>6. CASE dragView /\ ~(down /\ ~ptr.dragging) /\ ptr.moved
    <2>1. q = e2 /\ KeptBack(down) = "moved"
      BY <1>6 DEF MouseButtonEvent, KeptBack, e2
    <2> QED
      BY <1>2, <2>1
  <1>7. CASE dragView /\ ~(down /\ ~ptr.dragging) /\ ~ptr.moved
    <2> DEFINE sent == SendMouse(e, ptr.mask)
    <2>1. q = HandleMouseButton(sent, m)
      BY <1>7 DEF MouseButtonEvent, e
    <2>2. sent \in Pointers /\ (viewOnly => sent.remote = ptr.remote)
      BY <1>1, <1>2, SendBacked
    <2> HIDE DEF sent, q
    <2> QED
      BY <1>1, <1>3, <2>1, <2>2, ButtonBacked DEF Backed, q
  <1> QED
    BY <1>4, <1>5, <1>6, <1>7

LEMMA MousePress ==
  ASSUME PressInv,
         \/ \E b \in Buttons : MouseDown(b) \/ MouseUp(b)
         \/ \E soon \in BOOLEAN, far \in {FALSE, ptr.dragging} : MouseMove(soon, far)
         \/ HandleDelayedMouseMove
         \/ \E step \in {"up", NoWheel} : HandleWheel(step)
  PROVE  PressInv'
  <1> DEFINE h == held # {} \/ (tracked # <<>> /\ FingerHolds(gest))
  <1>1. ptr \in Pointers /\ held \in SUBSET Masks /\ (kept = "no" => Backed(ptr, h))
    BY DEF PressInv, PressTypes, Masks
  <1>2. "no" \in {"no", "moved"}
    OBVIOUS
  <1>3. ASSUME NEW b \in Buttons, NEW down \in BOOLEAN, held' \in SUBSET Buttons, down => held' # {},
               Track(MouseButtonEvent(held', down), KeptBack(down)), UNCHANGED <<fingerVars, viewVars>>
        PROVE  PressInv'
    <2>1. /\ MouseButtonEvent(held', down) \in Pointers
          /\ kept = "no" /\ KeptBack(down) = "no" =>
               Backed(MouseButtonEvent(held', down), held' # {} \/ (tracked # <<>> /\ FingerHolds(gest)))
      BY <1>3, MouseSteps
    <2>2. KeptBack(down) \in {"no", "moved"} /\ tracked' = tracked /\ gest' = gest
      BY <1>3 DEF KeptBack, fingerVars
    <2> QED
      BY <1>3, <2>1, <2>2, TrackKeeps DEF PressInv
  <1>4. ASSUME NEW b \in Buttons, MouseDown(b) \/ MouseUp(b) PROVE PressInv'
    <2>1. held \in SUBSET Buttons
      BY DEF PressInv, PressTypes
    <2> QED
      BY <1>3, <1>4, <2>1 DEF MouseDown, MouseUp
  <1>5. ASSUME NEW p \in Pointers, Track(p, "no"), kept = "no" => Backed(p, h),
               UNCHANGED <<fingerVars, held, viewVars>>
        PROVE  PressInv'
    <2>1. tracked' = tracked /\ gest' = gest /\ held' = held /\ UNCHANGED viewVars
      BY <1>5 DEF fingerVars
    <2> QED
      BY <1>2, <1>5, <2>1, TrackKeeps DEF PressInv, PressTypes
  <1>6. ASSUME NEW soon \in BOOLEAN, NEW far \in {FALSE, ptr.dragging}, MouseMove(soon, far) PROVE PressInv'
    <2> DEFINE p == IF ptr.dragging THEN DragMoves(ptr, far) ELSE HandleMouseMove(ptr, soon)
    <2>1. far \in BOOLEAN
      BY <1>1 DEF Pointers
    <2>2. DragMoves(ptr, far) \in Pointers /\ HandleMouseMove(ptr, soon) \in Pointers
      BY <1>1, <2>1, MoveBacked DEF DragMoves, Pointers
    <2>3. kept = "no" => Backed(DragMoves(ptr, far), h) /\ Backed(HandleMouseMove(ptr, soon), h)
      BY <1>1, <2>1, MoveKeepsBacked
    <2>4. p \in Pointers /\ (kept = "no" => Backed(p, h))
      BY <2>2, <2>3
    <2>5. Track(p, "no") /\ UNCHANGED <<fingerVars, held, viewVars>>
      BY <1>6 DEF MouseMove
    <2> HIDE DEF p
    <2> QED
      BY <1>5, <2>4, <2>5
  <1>7. CASE HandleDelayedMouseMove
    <2> DEFINE t == [ptr EXCEPT !.timer = FALSE]
               p == SendMouse(t, ptr.mask)
    <2>1. t \in Pointers /\ t.mask = ptr.mask /\ t.remote = ptr.remote /\ ptr.mask \in SUBSET Masks
      BY <1>1 DEF Pointers
    <2> HIDE DEF t
    <2>2. p \in Pointers /\ (kept = "no" => Backed(p, h))
      BY <1>1, <2>1, SendBacked DEF Backed
    <2>3. Track(p, "no") /\ UNCHANGED <<fingerVars, held, viewVars>>
      BY <1>7 DEF HandleDelayedMouseMove, t
    <2> HIDE DEF p
    <2> QED
      BY <1>5, <2>2, <2>3
  <1>8. ASSUME NEW step \in {"up", NoWheel}, HandleWheel(step) PROVE PressInv'
    <2> DEFINE p == WheelStep(ptr, step, held)
    <2>1. kept = "no" => Backed(p, h)
      BY <1>1, WheelBacked
    <2>2. p \in Pointers
      BY <1>1, WheelIs
    <2>3. Track(p, "no") /\ UNCHANGED <<fingerVars, held, viewVars>>
      BY <1>8 DEF HandleWheel
    <2> HIDE DEF p
    <2> QED
      BY <1>5, <2>1, <2>2, <2>3
  <1> QED
    BY <1>4, <1>6, <1>7, <1>8

LEMMA TouchStartPress ==
  ASSUME TouchInv, PressInv, NEW f \in Fingers, TouchStart(f)
  PROVE  PressInv'
  <1>1. UNCHANGED <<ptr, kept, held, viewVars>>
    BY DEF TouchStart
  <1>2. Detected(gest, tracked) => UNCHANGED <<gest, tracked>>
    BY DEF TouchStart
  <1> QED
    BY <1>1, <1>2, HolderDetected, HolderStays

LEMMA TouchMovePress ==
  ASSUME TouchInv, PressInv, NEW i \in DOMAIN tracked, NEW to \in {"no", "ahead", "back"},
         NEW soon \in BOOLEAN, NEW far \in {FALSE, dragView}, NEW step \in {NoWheel, StepOf(gest)},
         TouchMove(i, to, soon, far, step)
  PROVE  PressInv'
  <1> DEFINE after == Moved(gest, tracked', 3 - i)
             known == Detected(gest, tracked)
             found == Detected(after, tracked')
             none  == held # {}
             h     == held # {} \/ (tracked # <<>> /\ FingerHolds(gest))
  <1>1. /\ far \in BOOLEAN /\ step \in {"up", NoWheel} /\ ptr \in Pointers
        /\ held' = held /\ UNCHANGED viewVars /\ held \subseteq Buttons /\ PressTypes
    BY DEF PressInv, PressTypes, TouchMove, StepOf
  <1>2. tracked # <<>> /\ tracked' # <<>>
    BY DEF TouchMove
  <1>3. gest \in SUBSET Gestures
    BY <1>2, NobodyTracked, ShapedIs DEF TouchInv, TouchTypes, FitsGesture
  <1>4. kept = "no" => Backed(ptr, h)
    BY DEF PressInv
  <1>5. CASE ~known /\ to = "no"
    <2>1. UNCHANGED <<gest, ptr, kept>>
      BY <1>5 DEF TouchMove
    <2> QED
      BY <1>1, <1>2, <2>1, HolderStays
  <1>6. CASE known
    <2> DEFINE p == GestureMove(ptr, Only(gest), soon, far, step)
    <2>1. Track(p, "no") /\ gest' = gest /\ tracked' = tracked
      BY <1>6 DEF TouchMove
    <2>2. Only(gest) \in Gestures
      BY <1>3, <1>6, OnlyIs
    <2>3. p \in Pointers /\ (kept = "no" => Backed(p, h))
      BY <1>1, <1>4, <2>2, GoesOnBacked
    <2> HIDE DEF p
    <2> QED
      BY <1>1, <2>1, <2>3, TrackKeeps
  <1>7. CASE ~known /\ to # "no"
    <2>1. /\ gest' = after
          /\ Track(IF found THEN GestureMove(GestureStart(ptr, Only(after), soon),
                                             Only(after), soon, far, step)
                   ELSE ptr, "no")
      BY <1>7 DEF TouchMove
    <2>2. kept = "no" => Backed(ptr, held # {})
      BY <1>4, <1>7, HolderDetected DEF Backed
    <2>3. after \in SUBSET Gestures
      BY <1>3 DEF Moved
    <2> HIDE DEF after
    <2>4. CASE ~found
      <3>1. Track(ptr, "no")
        BY <2>1, <2>4
      <3>2. kept = "no" => Backed(ptr, held' # {} \/ (tracked' # <<>> /\ FingerHolds(gest')))
        BY <1>1, <2>2 DEF Backed
      <3> QED
        BY <1>1, <3>1, <3>2, TrackKeeps
    <2>5. CASE found
      <3> DEFINE x == Only(after)
                 b == GestureStart(ptr, x, soon)
                 p == GestureMove(b, x, soon, far, step)
      <3>1. after = {x} /\ x \in Gestures
        BY <2>3, <2>5, OnlyIs
      <3> HIDE DEF x
      <3>2. b \in Pointers /\ (kept = "no" => Backed(b, held # {} \/ FingerHolds({x})))
        BY <1>1, <2>2, <3>1, StartBacked
      <3> HIDE DEF b
      <3>3. p \in Pointers /\ (kept = "no" => Backed(p, held # {} \/ FingerHolds({x})))
        BY <1>1, <3>1, <3>2, GoesOnBacked
      <3>4. Track(p, "no")
        BY <2>1, <2>5 DEF b, x
      <3> HIDE DEF p
      <3>5. kept = "no" => Backed(p, held' # {} \/ (tracked' # <<>> /\ FingerHolds(gest')))
        BY <1>1, <1>2, <2>1, <3>1, <3>3
      <3> QED
        BY <1>1, <3>3, <3>4, <3>5, TrackKeeps
    <2> QED
      BY <2>4, <2>5
  <1> QED
    BY <1>5, <1>6, <1>7

LEMMA TimeoutPress ==
  ASSUME TouchInv, PressInv,
         \/ \E soon \in BOOLEAN : LongpressTimeout(soon)
         \/ \E g \in {"pinch", "twodrag"}, soon \in BOOLEAN, step \in {"up", NoWheel} :
              TwoTouchTimeout(g, soon, step)
  PROVE  PressInv'
  <1>1. /\ ptr \in Pointers /\ held \subseteq Buttons /\ PressTypes
        /\ kept = "no" => Backed(ptr, held # {} \/ (tracked # <<>> /\ FingerHolds(gest)))
    BY DEF PressInv, PressTypes
  <1>2. ASSUME NEW soon \in BOOLEAN, LongpressTimeout(soon) PROVE PressInv'
    <2> DEFINE p == GestureStart(ptr, "longpress", soon)
    <2>1. longpress /\ ~Detected(gest, tracked)
      BY <1>2, TimersEarly DEF LongpressTimeout
    <2>2. tracked # <<>>
      BY <2>1, NobodyTracked DEF TouchInv, TimersKnow
    <2>3. /\ gest' = {"longpress"} /\ Track(p, "no") /\ held' = held /\ tracked' = tracked
          /\ UNCHANGED viewVars
      BY <1>2, <2>1 DEF LongpressTimeout
    <2>4. kept = "no" => Backed(ptr, held # {})
      BY <1>1, <2>1, HolderDetected DEF Backed
    <2>5. "longpress" \in Gestures
      BY DEF Gestures
    <2>6. p \in Pointers /\ (kept = "no" => Backed(p, held # {} \/ FingerHolds({"longpress"})))
      BY <1>1, <2>4, <2>5, StartBacked
    <2> HIDE DEF p
    <2>7. kept = "no" => Backed(p, held' # {} \/ (tracked' # <<>> /\ FingerHolds(gest')))
      BY <2>2, <2>3, <2>6
    <2> QED
      BY <1>1, <2>3, <2>6, <2>7, TrackKeeps
  <1>3. ASSUME NEW g \in {"pinch", "twodrag"}, NEW soon \in BOOLEAN, NEW step \in {"up", NoWheel},
               TwoTouchTimeout(g, soon, step)
        PROVE  PressInv'
    <2> DEFINE b == GestureStart(ptr, g, soon)
               p == GestureMove(b, g, soon, FALSE, step)
    <2>1. twoTouch = "pending"
      BY <1>3 DEF TwoTouchTimeout
    <2>2. tracked # <<>>
      BY <2>1, NobodyTracked DEF TouchInv, TimersKnow
    <2>3. gest \in {{"twodrag", "pinch"}, {}}
      BY <2>1 DEF TouchInv, TimersKnow
    <2>4. gest' = {g} /\ Track(p, "no") /\ held' = held /\ tracked' = tracked /\ UNCHANGED viewVars
      BY <1>3, <2>2 DEF TwoTouchTimeout
    <2>5. ~FingerHolds(gest) /\ ~FingerHolds({g}) /\ g \in Gestures /\ FALSE \in BOOLEAN
      BY <2>3 DEF FingerHolds, Gestures
    <2>6. b \in Pointers /\ (kept = "no" => Backed(b, held # {}))
      <3>1. kept = "no" => Backed(ptr, held # {})
        BY <1>1, <2>5 DEF Backed
      <3>2. b \in Pointers /\ (kept = "no" => Backed(b, held # {} \/ FingerHolds({g})))
        BY <1>1, <2>5, <3>1, StartBacked
      <3> QED
        BY <2>5, <3>2
    <2> HIDE DEF b
    <2>7. p \in Pointers /\ (kept = "no" => Backed(p, held # {}))
      BY <2>5, <2>6, GoesOnBacked
    <2> HIDE DEF p
    <2>8. kept = "no" => Backed(p, held' # {} \/ (tracked' # <<>> /\ FingerHolds(gest')))
      BY <2>4, <2>7 DEF Backed
    <2> QED
      BY <1>1, <2>4, <2>7, <2>8, TrackKeeps
  <1> QED
    BY <1>2, <1>3

LEMMA TrackedEndPress ==
  ASSUME TouchInv, PressInv, NEW f \in touching, f \notin ignored, NEW soon \in BOOLEAN,
         TrackedEnd(f, soon), UNCHANGED <<held, viewVars>>
  PROVE  PressInv'
  <1> DEFINE early == ReleasedEarly
             g1    == IF early THEN {} ELSE gest
             open  == ~Detected(g1, tracked)
             g2    == IF open THEN Lifted(g1, Len(tracked)) ELSE g1
             wait  == waiting \/ open
             slow  == (waiting /\ releaseLate) \/ age = 2
             g3    == IF wait /\ slow THEN {} ELSE g2
             u     == [i \in DOMAIN tracked |-> [tracked[i] EXCEPT !.active = @ /\ tracked[i].id # f]]
             tr    == IF wait THEN u ELSE tracked
             found == Detected(g3, tr)
             begun == IF wait /\ found THEN GestureStart(ptr, Only(g3), soon) ELSE ptr
             p     == IF found THEN GestureEnd(begun, Only(g3), soon) ELSE begun
             why   == IF g3 = {"longpress"} /\ ptr.moved THEN "moved" ELSE "no"
  <1>1. /\ wait /\ ~found /\ g3 # {} => UNCHANGED <<ptr, kept>>
        /\ ~(wait /\ ~found /\ g3 # {}) => tracked' = <<>> /\ Track(p, why)
    BY DEF TrackedEnd
  <1>2. ptr \in Pointers /\ held' = held /\ held \subseteq Buttons /\ UNCHANGED viewVars /\ PressTypes
    BY DEF PressInv, PressTypes
  <1>3. kept = "no" => Backed(ptr, held # {} \/ (tracked # <<>> /\ FingerHolds(gest)))
    BY DEF PressInv
  <1>4. FingerHolds(gest) => ~wait
    <2>1. FingerHolds(gest) => Detected(gest, tracked) /\ ~waiting
      BY HolderDetected
    <2> QED
      BY <2>1 DEF ReleasedEarly
  <1>5. gest \in SUBSET Gestures
    <2>1. f \in ActiveIn(tracked)
      BY DEF TouchInv, Known
    <2>2. tracked # <<>>
      BY <2>1, NobodyTracked
    <2> QED
      BY <2>2, NobodyTracked, ShapedIs DEF TouchInv, TouchTypes, FitsGesture
  <1>6. why \in {"no", "moved"} /\ (why = "no" => ~(g3 = {"longpress"} /\ ptr.moved))
    OBVIOUS
  <1>7. g3 \in SUBSET Gestures /\ (wait => ~FingerHolds(g3))
    <2>1. \A g : Lifted(g, Len(tracked)) \subseteq g \ {"drag", "longpress"}
      BY DEF Lifted
    <2>2. ~FingerHolds({}) /\ \A g : g \cap {"drag", "longpress"} = {} => ~FingerHolds(g)
      BY DEF FingerHolds
    <2>3. open => ~FingerHolds(g2)
      BY <2>1, <2>2
    <2>4. wait /\ ~open => ~FingerHolds(g2)
      BY <1>4, <2>2
    <2>5. g2 \in SUBSET Gestures
      BY <1>5, <2>1
    <2> QED
      BY <2>2, <2>3, <2>4, <2>5
  <1>8. CASE wait /\ ~found /\ g3 # {}
    BY <1>1, <1>2, <1>4, <1>8, HolderStays
  <1>9. CASE wait /\ ~(~found /\ g3 # {})
    <2>1. kept = "no" => Backed(ptr, held # {})
      BY <1>3, <1>4, <1>9 DEF Backed
    <2>2. ~FingerHolds(g3) /\ g3 \in SUBSET Gestures /\ Track(p, why) /\ tracked' = <<>>
      BY <1>1, <1>7, <1>9
    <2> HIDE DEF why, tr, g3
    <2>3. CASE ~found
      <3>1. p = ptr
        BY <2>3
      <3>2. kept = "no" => Backed(ptr, held' # {} \/ (tracked' # <<>> /\ FingerHolds(gest')))
        BY <1>2, <2>1 DEF Backed
      <3> QED
        BY <1>2, <1>6, <2>2, <3>1, <3>2, TrackKeeps
    <2>4. CASE found
      <3> DEFINE x == Only(g3)
                 b == GestureStart(ptr, x, soon)
                 e == GestureEnd(b, x, soon)
      <3>1. g3 = {x} /\ x \in Gestures
        BY <2>2, <2>4, OnlyIs
      <3>2. p = e
        BY <1>9, <2>4
      <3> HIDE DEF x, p
      <3>3. b \in Pointers /\ (kept = "no" => Backed(b, held # {} \/ FingerHolds({x})))
        BY <1>2, <2>1, <3>1, StartBacked
      <3> HIDE DEF b
      <3>4. ~FingerHolds({x})
        BY <2>2, <3>1
      <3>5. e \in Pointers /\ (kept = "no" => Backed(e, held # {}))
        BY <3>1, <3>3, <3>4, EndBacked
      <3> QED
        BY <1>2, <1>6, <2>2, <3>2, <3>5, TrackKeeps DEF Backed
    <2> QED
      BY <2>3, <2>4
  <1>10. CASE ~wait
    <2>1. ~early
      BY <1>10, SeveralNotDetected
    <2>2. g3 = gest /\ tr = tracked /\ found /\ begun = ptr
      BY <1>10, <2>1
    <2> DEFINE x == Only(gest)
               e == GestureEnd(ptr, x, soon)
    <2>3. gest = {x} /\ x \in Gestures
      BY <1>5, <2>2, OnlyIs
    <2>4. p = e /\ Track(p, why) /\ tracked' = <<>>
      BY <1>1, <1>10, <2>2
    <2>5. why = "no" => ~(x = "longpress" /\ ptr.moved)
      BY <1>6, <2>2, <2>3
    <2> HIDE DEF x, why, p
    <2>6. kept = "no" => Backed(ptr, held # {} \/ FingerHolds({x}))
      BY <1>3, <2>3 DEF Backed
    <2>7. e \in Pointers /\ (kept = "no" /\ why = "no" => Backed(e, held # {}))
      BY <1>2, <2>3, <2>5, <2>6, EndBacked
    <2> HIDE DEF e
    <2>8. kept = "no" /\ why = "no" => Backed(e, held' # {} \/ (tracked' # <<>> /\ FingerHolds(gest')))
      BY <1>2, <2>7 DEF Backed
    <2> QED
      BY <1>2, <1>6, <2>4, <2>7, <2>8, TrackKeeps
  <1> QED
    BY <1>8, <1>9, <1>10

LEMMA PressNextInv ==
  ASSUME TouchInv, PressInv, [PtrNext]_ptrVars
  PROVE  PressInv'
  <1>1. CASE UNCHANGED ptrVars
    BY <1>1, HolderStays DEF ptrVars, fingerVars
  <1>2. CASE \/ \E b \in Buttons : MouseDown(b) \/ MouseUp(b)
             \/ \E soon \in BOOLEAN, far \in {FALSE, ptr.dragging} : MouseMove(soon, far)
             \/ HandleDelayedMouseMove
             \/ \E step \in {"up", NoWheel} : HandleWheel(step)
    BY <1>2, MousePress
  <1>3. ASSUME NEW f \in Fingers, TouchStart(f) PROVE PressInv'
    BY <1>3, TouchStartPress
  <1>4. ASSUME NEW f \in Fingers, NEW soon \in BOOLEAN, TouchEnd(f, soon) PROVE PressInv'
    <2>1. CASE f \in ignored
      <3>1. IgnoredEnd(f) /\ UNCHANGED <<held, viewVars>>
        BY <1>4, <2>1 DEF TouchEnd
      <3>2. UNCHANGED <<ptr, kept, held, viewVars>> /\ tracked' = tracked /\ (tracked # <<>> => gest' = gest)
        BY <3>1 DEF IgnoredEnd
      <3> QED
        BY <3>2, HolderStays
    <2>2. CASE f \notin ignored
      BY <1>4, <2>2, TrackedEndPress DEF TouchEnd
    <2> QED
      BY <2>1, <2>2
  <1>5. ASSUME NEW i \in DOMAIN tracked, NEW to \in {"no", "ahead", "back"}, NEW soon \in BOOLEAN,
               NEW far \in {FALSE, dragView}, NEW step \in {NoWheel, StepOf(gest)},
               TouchMove(i, to, soon, far, step)
        PROVE  PressInv'
    BY <1>5, TouchMovePress
  <1>6. CASE \/ \E soon \in BOOLEAN : LongpressTimeout(soon)
             \/ \E g \in {"pinch", "twodrag"}, soon \in BOOLEAN, step \in {"up", NoWheel} :
                  TwoTouchTimeout(g, soon, step)
    BY <1>6, TimeoutPress
  <1>7. CASE GestureAges \/ ReleaseLate
    BY <1>7, HolderStays DEF GestureAges, ReleaseLate
  <1>8. ASSUME NEW only \in BOOLEAN, NEW drag \in BOOLEAN, ApplyView(only, drag) PROVE PressInv'
    <2>1. /\ viewOnly' = only /\ dragView' = drag /\ ptr' = ptr /\ held' = held
          /\ kept' = IF Pressing(ptr) THEN "view" ELSE kept
      BY <1>8 DEF ApplyView
    <2>2. PressTypes'
      BY <2>1 DEF PressInv, PressTypes
    <2>3. kept' = "no" => ptr.mask = {} /\ ptr.remote = {}
      BY <2>1 DEF Pressing
    <2> QED
      BY <2>1, <2>2, <2>3 DEF PressInv, Backed
  <1> QED
    BY <1>1, <1>2, <1>3, <1>4, <1>5, <1>6, <1>7, <1>8 DEF PtrNext

\* Whatever buttons and fingers there are, and however presses, moves, gestures, the
\* timer of delayed moves and the View settings interleave: with nothing pressed the
\* VM has no button down, but for the two cases where the code keeps a release back.
\* [_handleMouse, _handleMouseButton, _gestureHandler, _fakeMouseMove]
THEOREM ButtonsTheorem == PtrSpec => []ButtonsReleased
  <1>1. PtrInit => TouchInv /\ PressInv
    <2> SUFFICES ASSUME PtrInit PROVE PressInv
      BY TouchInitInv
    <2> QED
      BY DEF PtrInit, PressInv, PressTypes, Pointers, Backed
  <1>2. TouchInv /\ PressInv /\ [PtrNext]_ptrVars => TouchInv' /\ PressInv'
    BY TouchNextInv, PressNextInv
  <1>3. TouchInv /\ PressInv => ButtonsReleased
    <2> SUFFICES ASSUME TouchInv, PressInv, touching = {}, held = {}, kept = "no"
                 PROVE  ptr.remote = {}
      BY DEF ButtonsReleased
    <2>1. tracked = <<>>
      BY DEF TouchInv, Known, FitsGesture
    <2> QED
      BY <2>1 DEF PressInv, Backed
  <1> QED
    BY <1>1, <1>2, <1>3, PTL DEF PtrSpec

-----------------------------------------------------------------------------
(***************************************************************************)
(* The invariant of VncKeys: every key that is down at the VM has          *)
(* something that will lift it, and what lifts a listed key is its release *)
(* on the keyboard, if the OS reports it.                                  *)
(***************************************************************************)

\* What one handler of the keyboard changes.
IsBoard(k) ==
  /\ k \in [list : {k.list}, armed : {k.armed}, server : {k.server}, lost : {k.lost}]
  /\ k.armed \in BOOLEAN

\* A listed code has one symbol; those of the sequence that makes AltGr and of
\* CapsLock are never shifted.
OneEach(k) ==
  /\ \A a, b \in k.list : a[1] = b[1] => a = b
  /\ \A a \in k.list : a[1] \in {"ControlLeft", "CapsLock"} => a = Pair(a[1])

\* Every key down at the VM is listed, its release was swallowed, or it is one of those.
Covered(k, others) == \A key \in k.server : key \in k.list \/ key \in k.lost \/ key \in others


\* All of it.
Sound(k, others) == IsBoard(k) /\ OneEach(k) /\ Covered(k, others)

\* A code whose release is to come: it is down and the OS reports it, alone or by
\* the other Shift, or nobody saw its last event.
Awaited(code) ==
  \/ code \in astray
  \/ code \in finger /\ code \notin unseen
  \/ platform = "windows" /\ code \in Shifts /\ \E c \in Shifts : c \in finger

\* The keys the menu holds, and those of its combinations that a timer will release.
MenuKeys == {Pair(c) : c \in menuHeld}
TimerKeys == UNION {{Pair(c) : c \in pending[i]} : i \in 1..Len(pending)}

\* What the OS does not report is not what the handler waits for.
Reporting ==
  /\ platform \in Platforms /\ focus \in BOOLEAN /\ keysOff \in BOOLEAN
  /\ pending \in Seq(SUBSET UNION Combos)
  /\ platform = "windows" => \A c \in unseen : c \notin Shifts /\ c # "ControlLeft"

\* Each listed key, and the Control that may become AltGr, is awaited.
Listening ==
  /\ \A a \in keyDownList : Awaited(a[1])
  /\ altGrArmed => platform = "windows" /\ Awaited("ControlLeft")
  /\ keysOff => keyDownList = {} /\ ~altGrArmed

KeyInv == Reporting /\ Listening /\ Sound(Now, MenuKeys \cup TimerKeys)

-----------------------------------------------------------------------------
(***************************************************************************)
(* What sending keys does to the list and to the VM.                       *)
(***************************************************************************)

\* A sound board, its list and whether it is armed.
Board(s, others, armed, list) == Sound(s, others) /\ s.armed = armed /\ s.list = list

\* Keys go down: they are what is to lift, beside what was.
LEMMA SendDown ==
  ASSUME NEW k, NEW keys, NEW others, NEW off, Sound(k, others)
  PROVE  Board(SendEvery(k, keys, TRUE, off), others \cup keys, k.armed, k.list)
  <1> DEFINE s == SendEvery(k, keys, TRUE, off)
  <1>1. /\ IsBoard(s) /\ s.list = k.list /\ s.armed = k.armed
        /\ off => s.server = k.server
        /\ off => s.lost = k.lost
        /\ ~off => s.server = k.server \cup keys /\ s.lost = k.lost
    BY DEF SendEvery, IsBoard, Sound
  <1> HIDE DEF s
  <1>2. OneEach(s)
    BY <1>1 DEF Sound, OneEach
  <1>3. Covered(s, others \cup keys)
    BY <1>1 DEF Sound, Covered
  <1> QED
    BY <1>1, <1>2, <1>3 DEF Sound, Board, s

\* Keys go up: they need nothing to lift them any more, also when the release is lost.
LEMMA SendUp ==
  ASSUME NEW k, NEW keys, NEW others, NEW off, Sound(k, others \cup keys)
  PROVE  Board(SendEvery(k, keys, FALSE, off), others, k.armed, k.list)
  <1> DEFINE s == SendEvery(k, keys, FALSE, off)
  <1>1. /\ IsBoard(s) /\ s.list = k.list /\ s.armed = k.armed
        /\ off => s.server = k.server
        /\ off => s.lost = k.lost \cup (keys \cap k.server)
        /\ ~off => s.server = k.server \ keys /\ s.lost = k.lost \ keys
    BY DEF SendEvery, IsBoard, Sound
  <1> HIDE DEF s
  <1>2. OneEach(s)
    BY <1>1 DEF Sound, OneEach
  <1>3. Covered(s, others)
    BY <1>1 DEF Sound, Covered
  <1> QED
    BY <1>1, <1>2, <1>3 DEF Sound, Board, s

\* A sound board with more to lift its keys is sound.
LEMMA MoreLifts ==
  ASSUME NEW k, NEW others, NEW more, Sound(k, others), \A x \in others : x \in more
  PROVE  Sound(k, more)
  BY DEF Sound, Covered

\* The key of the list that has the code.
LEMMA ListedIs ==
  ASSUME NEW k, NEW code, InList(k, code)
  PROVE  Listed(k, code) \in k.list /\ Listed(k, code)[1] = code
  BY DEF InList, Listed

\* A key that the handler may send: as the list has it.
Fits(k, key) ==
  /\ \A a \in k.list : a[1] = key[1] => a = key
  /\ key[1] \in {"ControlLeft", "CapsLock"} => key = Pair(key[1])

\* A press is listed.
LEMMA EventDown ==
  ASSUME NEW k, NEW key, NEW others, NEW off, Sound(k, others), Fits(k, key)
  PROVE  Board(SendKeyEvent(k, key, TRUE, off), others, k.armed, k.list \cup {key})
  <1> DEFINE l == {a \in k.list : a[1] # key[1]} \cup {key}
             j == [k EXCEPT !.list = l]
  <1>1. l = k.list \cup {key}
    BY DEF Fits
  <1> HIDE DEF l
  <1>2. IsBoard(j) /\ j.list = l /\ j.armed = k.armed /\ j.server = k.server /\ j.lost = k.lost
    BY DEF Sound, IsBoard
  <1>3. SendKeyEvent(k, key, TRUE, off) = SendEvery(j, {key}, TRUE, off)
    BY DEF SendKeyEvent, SendKey, l
  <1> HIDE DEF j
  <1>4. OneEach(j)
    BY <1>1, <1>2 DEF Sound, OneEach, Fits
  <1>5. Covered(j, others)
    BY <1>1, <1>2 DEF Sound, Covered
  <1> DEFINE s == SendEvery(j, {key}, TRUE, off)
  <1>s. Sound(j, others)
    BY <1>2, <1>4, <1>5 DEF Sound
  <1>b. Board(s, others \cup {key}, j.armed, j.list)
    BY <1>s, SendDown
  <1>6. Sound(s, others \cup {key}) /\ s.list = j.list /\ s.armed = j.armed
    BY <1>b DEF Board
  <1> HIDE DEF s
  <1>7. Covered(s, others)
    BY <1>1, <1>2, <1>6 DEF Sound, Covered
  <1> QED
    BY <1>1, <1>2, <1>3, <1>6, <1>7 DEF Sound, Board, s

\* A release is listed no more.
LEMMA EventUp ==
  ASSUME NEW k, NEW key, NEW others, NEW off, Sound(k, others), Fits(k, key)
  PROVE  Board(SendKeyEvent(k, key, FALSE, off), others, k.armed, k.list \ {key})
  <1>1. CASE InList(k, key[1])
    <2> DEFINE l == {a \in k.list : a[1] # key[1]}
               j == [k EXCEPT !.list = l]
    <2>1. l = k.list \ {key}
      BY DEF Fits
    <2> HIDE DEF l
    <2>2. IsBoard(j) /\ j.list = l /\ j.armed = k.armed /\ j.server = k.server /\ j.lost = k.lost
      BY DEF Sound, IsBoard
    <2>3. SendKeyEvent(k, key, FALSE, off) = SendEvery(j, {key}, FALSE, off)
      BY <1>1 DEF SendKeyEvent, SendKey, l
    <2> HIDE DEF j
    <2>4. OneEach(j)
      BY <2>1, <2>2 DEF Sound, OneEach
    <2>5. Covered(j, others \cup {key})
      BY <2>1, <2>2 DEF Sound, Covered
    <2>6. Sound(j, others \cup {key})
      BY <2>2, <2>4, <2>5 DEF Sound
    <2>7. Board(SendEvery(j, {key}, FALSE, off), others, j.armed, j.list)
      BY <2>6, SendUp
    <2> QED
      BY <2>1, <2>2, <2>3, <2>7
  <1>2. CASE ~InList(k, key[1])
    <2>1. SendKeyEvent(k, key, FALSE, off) = k
      BY <1>2 DEF SendKeyEvent
    <2>2. k.list \ {key} = k.list
      BY <1>2 DEF InList
    <2> QED
      BY <2>1, <2>2 DEF Board
  <1> QED
    BY <1>1, <1>2

\* A press and a release at once leave the list without the key.
LEMMA TapFacts ==
  ASSUME NEW k, NEW key, NEW others, NEW off, Sound(k, others), Fits(k, key)
  PROVE  Board(PressAndRelease(k, key, off), others, k.armed, k.list \ {key})
  <1> DEFINE j == SendKeyEvent(k, key, TRUE, off)
  <1>1. Board(j, others, k.armed, k.list \cup {key})
    BY EventDown
  <1>2. PressAndRelease(k, key, off) = SendKeyEvent(j, key, FALSE, off)
    BY DEF PressAndRelease
  <1> HIDE DEF j
  <1>3. Sound(j, others) /\ j.armed = k.armed /\ j.list = k.list \cup {key}
    BY <1>1 DEF Board
  <1>4. Fits(j, key)
    BY <1>3 DEF Fits
  <1>5. Board(SendKeyEvent(j, key, FALSE, off), others, j.armed, j.list \ {key})
    BY <1>3, <1>4, EventUp
  <1>6. j.list \ {key} = k.list \ {key}
    BY <1>3
  <1> QED
    BY <1>2, <1>3, <1>5, <1>6

\* Control that was held back for AltGr is a key of its own.
LEMMA InterruptFacts ==
  ASSUME NEW k, NEW others, NEW off, Sound(k, others)
  PROVE  Board(InterruptAltGrSequence(k, off), others, FALSE,
               IF k.armed THEN k.list \cup {Pair("ControlLeft")} ELSE k.list)
  <1>1. CASE k.armed
    <2> DEFINE j == [k EXCEPT !.armed = FALSE]
    <2>1. IsBoard(j) /\ j.list = k.list /\ j.armed = FALSE /\ j.server = k.server /\ j.lost = k.lost
      BY DEF Sound, IsBoard
    <2>2. InterruptAltGrSequence(k, off) = SendKeyEvent(j, Pair("ControlLeft"), TRUE, off)
      BY <1>1 DEF InterruptAltGrSequence
    <2> HIDE DEF j
    <2>3. OneEach(j) /\ Covered(j, others)
      BY <2>1 DEF Sound, OneEach, Covered
    <2>4. Pair("ControlLeft")[1] = "ControlLeft"
      BY DEF Pair
    <2>5. Fits(j, Pair("ControlLeft"))
      BY <2>3, <2>4 DEF OneEach, Fits
    <2>6. Sound(j, others)
      BY <2>1, <2>3 DEF Sound
    <2>7. Board(SendKeyEvent(j, Pair("ControlLeft"), TRUE, off), others, j.armed,
                j.list \cup {Pair("ControlLeft")})
      BY <2>5, <2>6, EventDown
    <2> QED
      BY <1>1, <2>1, <2>2, <2>7
  <1>2. CASE ~k.armed
    <2>1. k.armed = FALSE
      BY <1>2 DEF Sound, IsBoard
    <2> QED
      BY <1>2, <2>1 DEF InterruptAltGrSequence, Board
  <1> QED
    BY <1>1, <1>2

\* The listed keys of some codes go up.
LEMMA ReleaseFacts ==
  ASSUME NEW k, NEW codes, NEW others, NEW off, Sound(k, others)
  PROVE  Board(Release(k, codes, off), others, k.armed, {a \in k.list : a[1] \notin codes})
  <1> DEFINE up == {key \in k.list : key[1] \in codes}
             j == [k EXCEPT !.list = k.list \ up]
  <1>1. /\ IsBoard(j) /\ j.list = k.list \ up /\ j.armed = k.armed /\ j.server = k.server
        /\ j.lost = k.lost
    BY DEF Sound, IsBoard
  <1>2. Release(k, codes, off) = SendEvery(j, up, FALSE, off)
    BY DEF Release
  <1> HIDE DEF j
  <1>3. OneEach(j)
    BY <1>1 DEF Sound, OneEach
  <1>4. Covered(j, others \cup up)
    BY <1>1 DEF Sound, Covered
  <1>5. j.list = {a \in k.list : a[1] \notin codes}
    BY <1>1
  <1>6. Sound(j, others \cup up)
    BY <1>1, <1>3, <1>4 DEF Sound
  <1> HIDE DEF up
  <1>7. Board(SendEvery(j, up, FALSE, off), others, j.armed, j.list)
    BY <1>6, SendUp
  <1> QED
    BY <1>1, <1>2, <1>5, <1>7

\* Keyboard._allKeysUp empties the list.
LEMMA AllKeysUpFacts ==
  ASSUME NEW k, NEW others, NEW off, Sound(k, others)
  PROVE  Board(AllKeysUp(k, off), others, FALSE, {})
  <1> DEFINE j == InterruptAltGrSequence(k, off)
             codes == {key[1] : key \in j.list}
             s == Release(j, codes, off)
  <1>1. Board(j, others, FALSE, IF k.armed THEN k.list \cup {Pair("ControlLeft")} ELSE k.list)
    BY InterruptFacts
  <1>2. AllKeysUp(k, off) = s
    BY DEF AllKeysUp
  <1> HIDE DEF j
  <1>3. Sound(j, others) /\ j.armed = FALSE
    BY <1>1 DEF Board
  <1>4. {a \in j.list : a[1] \notin codes} = {}
    OBVIOUS
  <1> HIDE DEF codes
  <1>5. Board(s, others, j.armed, {a \in j.list : a[1] \notin codes})
    BY <1>3, ReleaseFacts
  <1> QED
    BY <1>2, <1>3, <1>4, <1>5

-----------------------------------------------------------------------------
(***************************************************************************)
(* The handlers of the keyboard.                                           *)
(***************************************************************************)

\* Keys that the handler presses and releases at once.
Tapped(code) ==
  \/ code = "Unidentified"
  \/ platform = "mac" /\ "MetaLeft" \in finger /\ code # "MetaLeft"
  \/ platform = "mac" /\ code = "CapsLock"
  \/ platform = "windows" /\ code = "Zenkaku"

\* What a press leaves in the list beside what was there: the key, unless it was
\* released at once, and the Control that is not part of AltGr.
PressedList(list, k, code) ==
  /\ \A a \in list : a \in k.list \/ (k.armed /\ a = Pair("ControlLeft")) \/ a[1] = code
  /\ Tapped(code) => \A a \in list : a[1] # code

\* Keyboard._handleKeyDown
LEMMA HandleKeyDownFacts ==
  ASSUME NEW k, NEW code, NEW symbol, NEW quick, NEW others, Sound(k, others),
         code \in {"ControlLeft", "CapsLock"} => symbol = "plain"
  PROVE  LET s == HandleKeyDown(k, code, symbol, quick)
         IN  /\ Sound(s, others) /\ PressedList(s.list, k, code)
             /\ s.armed => platform = "windows" /\ code = "ControlLeft"
  <1> DEFINE altGr == k.armed /\ code = "AltRight" /\ quick
             j     == IF altGr THEN [k EXCEPT !.armed = FALSE] ELSE InterruptAltGrSequence(k, FALSE)
             new   == <<code, IF altGr THEN "shifted" ELSE symbol>>
             key   == IF InList(j, code) THEN Listed(j, code) ELSE new
             s     == HandleKeyDown(k, code, symbol, quick)
             arms  == platform = "windows" /\ code = "ControlLeft" /\ ~InList(j, code)
  <1>1. s = IF Tapped(code) THEN PressAndRelease(j, key, FALSE)
            ELSE IF arms THEN [j EXCEPT !.armed = TRUE]
            ELSE SendKeyEvent(j, key, TRUE, FALSE)
    BY DEF HandleKeyDown, Tapped
  <1>2. Sound(j, others) /\ j.armed = FALSE
        /\ \A a \in j.list : a \in k.list \/ (k.armed /\ a = Pair("ControlLeft"))
    <2>1. CASE altGr
      <3>1. j = [k EXCEPT !.armed = FALSE]
        BY <2>1
      <3> HIDE DEF j
      <3>2. IsBoard(j) /\ j.list = k.list /\ j.armed = FALSE /\ j.server = k.server /\ j.lost = k.lost
        BY <3>1 DEF Sound, IsBoard
      <3> QED
        BY <3>2 DEF Sound, OneEach, Covered
    <2>2. CASE ~altGr
      <3>1. j = InterruptAltGrSequence(k, FALSE)
        BY <2>2
      <3>2. Board(InterruptAltGrSequence(k, FALSE), others, FALSE,
                  IF k.armed THEN k.list \cup {Pair("ControlLeft")} ELSE k.list)
        BY InterruptFacts
      <3> HIDE DEF j
      <3>3. /\ Sound(j, others) /\ j.armed = FALSE
            /\ j.list = IF k.armed THEN k.list \cup {Pair("ControlLeft")} ELSE k.list
        BY <3>1, <3>2 DEF Board
      <3> QED
        BY <3>3
    <2> QED
      BY <2>1, <2>2
  <1>3. new[1] = code /\ (code \in {"ControlLeft", "CapsLock"} => new = Pair(code))
    <2>1. code \in {"ControlLeft", "CapsLock"} => ~altGr
      OBVIOUS
    <2> QED
      BY <2>1 DEF Pair
  <1> HIDE DEF j, new, altGr
  <1>4. key[1] = code /\ Fits(j, key)
    <2>1. CASE InList(j, code)
      <3>1. key = Listed(j, code)
        BY <2>1
      <3>2. Listed(j, code) \in j.list /\ Listed(j, code)[1] = code
        BY <2>1, ListedIs
      <3> HIDE DEF key
      <3> QED
        BY <1>2, <3>1, <3>2 DEF Sound, OneEach, Fits
    <2>2. CASE ~InList(j, code)
      <3>1. key = new
        BY <2>2
      <3> HIDE DEF key
      <3> QED
        BY <1>3, <2>2, <3>1 DEF InList, Fits
    <2> QED
      BY <2>1, <2>2
  <1> HIDE DEF key, s
  <1>5. CASE Tapped(code)
    <2>1. s = PressAndRelease(j, key, FALSE)
      BY <1>1, <1>5
    <2>2. Board(PressAndRelease(j, key, FALSE), others, j.armed, j.list \ {key})
      BY <1>2, <1>4, TapFacts
    <2>3. Sound(s, others) /\ s.armed = FALSE /\ s.list = j.list \ {key}
      BY <1>2, <2>1, <2>2 DEF Board
    <2>4. PressedList(s.list, k, code)
      BY <1>2, <1>4, <2>3 DEF PressedList, Fits
    <2> QED
      BY <2>3, <2>4 DEF s
  <1>6. CASE ~Tapped(code) /\ arms
    <2>1. s = [j EXCEPT !.armed = TRUE]
      BY <1>1, <1>6
    <2>2. IsBoard(s) /\ s.list = j.list /\ s.server = j.server /\ s.lost = j.lost
      BY <1>2, <2>1 DEF Sound, IsBoard
    <2>3. Sound(s, others)
      BY <1>2, <2>2 DEF Sound, OneEach, Covered
    <2>4. PressedList(s.list, k, code)
      BY <1>2, <1>6, <2>2 DEF PressedList
    <2> QED
      BY <1>6, <2>3, <2>4 DEF s
  <1>7. CASE ~Tapped(code) /\ ~arms
    <2>1. s = SendKeyEvent(j, key, TRUE, FALSE)
      BY <1>1, <1>7
    <2>2. Board(SendKeyEvent(j, key, TRUE, FALSE), others, j.armed, j.list \cup {key})
      BY <1>2, <1>4, EventDown
    <2>3. Sound(s, others) /\ s.armed = FALSE /\ s.list = j.list \cup {key}
      BY <1>2, <2>1, <2>2 DEF Board
    <2>4. PressedList(s.list, k, code)
      BY <1>2, <1>4, <1>7, <2>3 DEF PressedList
    <2> QED
      BY <2>3, <2>4 DEF s
  <1> QED
    BY <1>5, <1>6, <1>7

\* What a release leaves in the list.
ReleasedList(list, k, code) ==
  /\ \A a \in list : a \in k.list \/ (k.armed /\ a = Pair("ControlLeft"))
  /\ \A a \in list : a[1] # code
  /\ ~(platform = "mac" /\ code = "CapsLock") => \A a \in list : a[1] \notin ReleasedBy(code)

\* Keyboard._handleKeyUp
LEMMA HandleKeyUpFacts ==
  ASSUME NEW k, NEW code, NEW others, Sound(k, others)
  PROVE  LET s == HandleKeyUp(k, code)
         IN  Sound(s, others) /\ s.armed = FALSE /\ ReleasedList(s.list, k, code)
  <1> DEFINE j == InterruptAltGrSequence(k, FALSE)
             s == HandleKeyUp(k, code)
             caps == platform = "mac" /\ code = "CapsLock"
  <1>1. Board(j, others, FALSE, IF k.armed THEN k.list \cup {Pair("ControlLeft")} ELSE k.list)
    BY InterruptFacts
  <1>2. s = IF caps THEN PressAndRelease(j, Pair(code), FALSE) ELSE Release(j, ReleasedBy(code), FALSE)
    BY DEF HandleKeyUp
  <1> HIDE DEF j, s
  <1>3. /\ Sound(j, others) /\ j.armed = FALSE
        /\ \A a \in j.list : a \in k.list \/ (k.armed /\ a = Pair("ControlLeft"))
    BY <1>1 DEF Board
  <1>4. CASE caps
    <2>1. Pair(code)[1] = code
      BY DEF Pair
    <2>2. Fits(j, Pair(code))
      BY <1>3, <1>4, <2>1 DEF Sound, OneEach, Fits
    <2>3. Board(PressAndRelease(j, Pair(code), FALSE), others, j.armed, j.list \ {Pair(code)})
      BY <1>3, <2>2, TapFacts
    <2>4. Sound(s, others) /\ s.armed = FALSE /\ s.list = j.list \ {Pair(code)}
      BY <1>2, <1>3, <1>4, <2>3 DEF Board
    <2>5. ReleasedList(s.list, k, code)
      BY <1>3, <1>4, <2>1, <2>2, <2>4 DEF ReleasedList, Fits
    <2> QED
      BY <2>4, <2>5 DEF s
  <1>5. CASE ~caps
    <2>1. Board(Release(j, ReleasedBy(code), FALSE), others, j.armed, {a \in j.list : a[1] \notin ReleasedBy(code)})
      BY <1>3, ReleaseFacts
    <2>2. Sound(s, others) /\ s.armed = FALSE /\ s.list = {a \in j.list : a[1] \notin ReleasedBy(code)}
      BY <1>2, <1>3, <1>5, <2>1 DEF Board
    <2>3. code \in ReleasedBy(code)
      BY DEF ReleasedBy
    <2>4. ReleasedList(s.list, k, code)
      BY <1>3, <1>5, <2>2, <2>3 DEF ReleasedList
    <2> QED
      BY <2>2, <2>4 DEF s
  <1> QED
    BY <1>4, <1>5

-----------------------------------------------------------------------------
(***************************************************************************)
(* Each action keeps the invariant.                                        *)
(***************************************************************************)

\* The board as it is, and as a handler leaves it.
LEMMA NowFields ==
  /\ Now.list = keyDownList /\ Now.armed = altGrArmed
  /\ Now.server = server /\ Now.lost = swallowed
  BY DEF Now

\* What a handler leaves is what is there after it.
LEMMA Became ==
  ASSUME NEW s, NEW others, Sound(s, others), Becomes(s)
  PROVE  Sound(Now', others) /\ keyDownList' = s.list /\ altGrArmed' = s.armed
  <1>1. /\ Now' = [list |-> keyDownList', armed |-> altGrArmed', server |-> server', lost |-> swallowed']
        /\ keyDownList' = s.list /\ altGrArmed' = s.armed /\ server' = s.server /\ swallowed' = s.lost
    BY DEF Now, Becomes
  <1>2. s = [list |-> s.list, armed |-> s.armed, server |-> s.server, lost |-> s.lost]
    BY DEF Sound, IsBoard
  <1>3. Now' = s
    BY <1>1, <1>2
  <1> QED
    BY <1>1, <1>3

\* What the timers hold does not change with the rest.
LEMMA SameMenu ==
  /\ UNCHANGED menuHeld => MenuKeys' = MenuKeys
  /\ UNCHANGED pending => TimerKeys' = TimerKeys
  BY DEF MenuKeys, TimerKeys

\* A key goes down.
LEMMA KeyDownStep ==
  ASSUME KeyInv, NEW code \in Codes, NEW symbol \in SymbolsOf(code), NEW quick \in BOOLEAN,
         KeyDown(code, symbol, quick)
  PROVE  KeyInv'
  <1> DEFINE others == MenuKeys \cup TimerKeys
  <1>1. /\ Reporting /\ Listening /\ Sound(Now, others)
    BY DEF KeyInv
  <1>2. /\ finger' = finger \cup {code}
        /\ unseen' = IF NotReported(code) THEN unseen \cup {code} ELSE unseen \ {code}
        /\ astray' = IF Heard THEN astray \ {code} ELSE IF focus THEN astray ELSE astray \cup {code}
        /\ UNCHANGED <<platform, focus, menuHeld, pending, keysOff>>
    BY DEF KeyDown
  <1>3. others' = others
    BY <1>2, SameMenu
  <1>4. Reporting'
    BY <1>1, <1>2 DEF Reporting, NotReported, Shifts
  <1>5. ASSUME NEW c, c # code, Awaited(c) PROVE Awaited(c)'
    BY <1>2, <1>5 DEF Awaited
  <1>6. ~NotReported(code) /\ Heard => Awaited(code)'
    BY <1>2 DEF Awaited
  <1>7. NotReported(code) => Tapped(code)
    BY DEF NotReported, Tapped
  <1>8. CASE Heard
    <2> DEFINE s == HandleKeyDown(Now, code, symbol, quick)
    <2>1. Becomes(s)
      BY <1>8 DEF KeyDown
    <2>2. code \in {"ControlLeft", "CapsLock"} => symbol = "plain"
      BY DEF SymbolsOf
    <2>3. /\ Sound(s, others) /\ PressedList(s.list, Now, code)
          /\ s.armed => platform = "windows" /\ code = "ControlLeft"
      BY <1>1, <2>2, HandleKeyDownFacts
    <2> HIDE DEF s, others
    <2>4. Sound(Now', others) /\ keyDownList' = s.list /\ altGrArmed' = s.armed
      BY <2>1, <2>3, Became
    <2>5. ~keysOff'
      BY <1>2, <1>8 DEF Heard
    <2>6. ASSUME NEW a \in keyDownList' PROVE Awaited(a[1])'
      <3>1. CASE a[1] = code
        BY <1>6, <1>7, <1>8, <2>3, <2>4, <3>1 DEF PressedList
      <3>2. CASE a[1] # code
        <4>1. a \in keyDownList \/ (altGrArmed /\ a = Pair("ControlLeft"))
          BY <2>3, <2>4, <3>2, NowFields DEF PressedList
        <4>2. Awaited(a[1])
          BY <1>1, <4>1 DEF Listening, Pair
        <4> QED
          BY <1>5, <3>2, <4>2
      <3> QED
        BY <3>1, <3>2
    <2>7. altGrArmed' => platform' = "windows" /\ Awaited("ControlLeft")'
      <3>1. ASSUME altGrArmed' PROVE platform = "windows" /\ code = "ControlLeft"
        BY <2>3, <2>4, <3>1
      <3>2. platform = "windows" /\ code = "ControlLeft" => ~NotReported(code)
        BY DEF NotReported
      <3> QED
        BY <1>2, <1>6, <1>8, <3>1, <3>2
    <2>8. Listening'
      BY <2>5, <2>6, <2>7 DEF Listening
    <2> QED
      BY <1>3, <1>4, <2>4, <2>8 DEF KeyInv, others
  <1>9. CASE ~Heard
    <2>1. UNCHANGED <<keyDownList, altGrArmed, server, swallowed>>
      BY <1>9 DEF KeyDown, boardVars
    <2>2. Now' = Now
      BY <2>1 DEF Now
    <2>3. CASE focus
      <3>1. keyDownList' = {} /\ ~altGrArmed'
        BY <1>1, <1>9, <2>1, <2>3 DEF Heard, Listening
      <3>2. Listening'
        BY <3>1 DEF Listening
      <3> QED
        BY <1>1, <1>3, <1>4, <2>2, <3>2 DEF KeyInv
    <2>4. CASE ~focus
      <3>1. Awaited(code)'
        BY <1>2, <1>9, <2>4 DEF Awaited
      <3>2. \A a \in keyDownList' : Awaited(a[1])'
        BY <1>1, <1>5, <2>1, <3>1 DEF Listening
      <3>3. altGrArmed' => platform' = "windows" /\ Awaited("ControlLeft")'
        BY <1>1, <1>2, <1>5, <2>1, <3>1 DEF Listening
      <3>4. Listening'
        BY <1>1, <1>2, <2>1, <3>2, <3>3 DEF Listening
      <3> QED
        BY <1>1, <1>3, <1>4, <2>2, <3>4 DEF KeyInv
    <2> QED
      BY <2>3, <2>4
  <1> QED
    BY <1>8, <1>9

\* A key is lifted, seen or not.
LEMMA KeyUpStep ==
  ASSUME KeyInv, NEW code \in Codes, KeyUp(code)
  PROVE  KeyInv'
  <1> DEFINE let == focus /\ OsReports(code) /\ code \in menuHeld
             k1  == IF let THEN SendKey(Now, Pair(code), FALSE, keysOff) ELSE Now
             others == MenuKeys \cup TimerKeys
             rest == MenuKeys' \cup TimerKeys
  <1>1. /\ Reporting /\ Listening /\ Sound(Now, others)
    BY DEF KeyInv
  <1>2. /\ code \in finger /\ finger' = finger \ {code} /\ unseen' = unseen \ {code}
        /\ menuHeld' = IF let THEN menuHeld \ {code} ELSE menuHeld
        /\ Becomes(IF Heard /\ OsReports(code) THEN HandleKeyUp(k1, code) ELSE k1)
        /\ astray' = IF focus THEN astray ELSE astray \cup ReleasedBy(code)
        /\ UNCHANGED <<platform, focus, pending, keysOff>>
    BY DEF KeyUp
  <1>3. others' = rest
    BY <1>2, SameMenu
  <1>4. Reporting'
    BY <1>1, <1>2 DEF Reporting
  <1>5. Sound(k1, rest) /\ k1.list = keyDownList /\ k1.armed = altGrArmed
    <2>1. CASE let
      <3>1. k1 = SendEvery(Now, {Pair(code)}, FALSE, keysOff)
        BY <2>1 DEF SendKey
      <3>2. \A x \in others : x \in rest \cup {Pair(code)}
        BY <1>2, <2>1 DEF MenuKeys
      <3> HIDE DEF k1, rest, others
      <3>3. Sound(Now, rest \cup {Pair(code)})
        BY <1>1, <3>2, MoreLifts
      <3>4. Board(SendEvery(Now, {Pair(code)}, FALSE, keysOff), rest, Now.armed, Now.list)
        BY <3>3, SendUp
      <3> QED
        BY <3>1, <3>4, NowFields DEF Board
    <2>2. CASE ~let
      <3>1. k1 = Now /\ rest = others
        BY <1>2, <2>2, SameMenu
      <3> HIDE DEF k1, rest, others
      <3> QED
        BY <1>1, <3>1, NowFields
    <2> QED
      BY <2>1, <2>2
  <1> HIDE DEF k1, rest, let, others
  <1>6. ASSUME NEW c, Awaited(c), c # code, c \notin ReleasedBy(code) \/ ~OsReports(code) \/ ~focus
        PROVE  Awaited(c)'
    <2>1. CASE c \in astray \/ (c \in finger /\ c \notin unseen)
      BY <1>2, <1>6, <2>1 DEF Awaited
    <2>2. CASE platform = "windows" /\ c \in Shifts /\ \E d \in Shifts : d \in finger
      <3>1. CASE code \notin Shifts
        BY <1>2, <2>2, <3>1 DEF Awaited
      <3>2. CASE code \in Shifts
        <4>1. c \in ReleasedBy(code)
          BY <2>2, <3>2 DEF ReleasedBy
        <4>2. CASE ~focus
          BY <1>2, <4>1, <4>2 DEF Awaited
        <4>3. CASE ~OsReports(code)
          <5>1. code \notin unseen
            BY <1>1, <2>2, <3>2 DEF Reporting
          <5>2. (Shifts \ {code}) \cap finger # {}
            BY <4>3, <5>1 DEF OsReports
          <5> QED
            BY <1>2, <2>2, <5>2 DEF Awaited
        <4> QED
          BY <1>6, <4>1, <4>2, <4>3
      <3> QED
        BY <3>1, <3>2
    <2> QED
      BY <1>6, <2>1, <2>2 DEF Awaited
  <1>7. ASSUME Awaited(code), ~focus \/ ~OsReports(code) PROVE Awaited(code)'
    <2>1. CASE ~focus
      BY <1>2, <2>1 DEF Awaited, ReleasedBy
    <2>2. CASE focus /\ ~OsReports(code)
      <3>1. CASE code \in unseen
        BY <1>1, <1>2, <1>7, <2>2, <3>1 DEF Awaited, Reporting
      <3>2. CASE code \notin unseen
        <4>1. platform = "windows" /\ code \in Shifts /\ (Shifts \ {code}) \cap finger # {}
          BY <2>2, <3>2 DEF OsReports
        <4> QED
          BY <1>2, <4>1 DEF Awaited
      <3> QED
        BY <3>1, <3>2
    <2> QED
      BY <1>7, <2>1, <2>2
  <1>8. CASE Heard /\ OsReports(code)
    <2> DEFINE s == HandleKeyUp(k1, code)
    <2>1. Becomes(s)
      BY <1>2, <1>8
    <2>2. Sound(s, rest) /\ s.armed = FALSE /\ ReleasedList(s.list, k1, code)
      BY <1>5, HandleKeyUpFacts
    <2> HIDE DEF s
    <2>3. Sound(Now', rest) /\ keyDownList' = s.list /\ altGrArmed' = s.armed
      BY <2>1, <2>2, Became
    <2>4. ASSUME NEW a \in keyDownList' PROVE Awaited(a[1])'
      <3>1. a \in keyDownList \/ (altGrArmed /\ a = Pair("ControlLeft"))
        BY <1>5, <2>2, <2>3 DEF ReleasedList
      <3>2. Awaited(a[1])
        BY <1>1, <3>1 DEF Listening, Pair
      <3>3. a[1] # code
        BY <2>2, <2>3 DEF ReleasedList
      <3>4. a[1] \notin ReleasedBy(code)
        BY <2>2, <2>3, <3>3 DEF ReleasedList, ReleasedBy
      <3> QED
        BY <1>6, <3>2, <3>3, <3>4
    <2>5. ~keysOff'
      BY <1>2, <1>8 DEF Heard
    <2>6. Listening'
      BY <2>2, <2>3, <2>4, <2>5 DEF Listening
    <2> QED
      BY <1>3, <1>4, <2>3, <2>6 DEF KeyInv, others
  <1>9. CASE ~(Heard /\ OsReports(code))
    <2>1. Becomes(k1)
      BY <1>2, <1>9
    <2>2. Sound(Now', rest) /\ keyDownList' = keyDownList /\ altGrArmed' = altGrArmed
      BY <1>5, <2>1, Became
    <2>3. CASE keysOff
      <3>1. keyDownList' = {} /\ ~altGrArmed'
        BY <1>1, <2>2, <2>3 DEF Listening
      <3>2. Listening'
        BY <3>1 DEF Listening
      <3> QED
        BY <1>3, <1>4, <2>2, <3>2 DEF KeyInv, others
    <2>4. CASE ~keysOff
      <3>1. ~focus \/ ~OsReports(code)
        BY <1>9, <2>4 DEF Heard
      <3>2. \A c : Awaited(c) => Awaited(c)'
        BY <1>6, <1>7, <3>1
      <3>3. Listening'
        BY <1>1, <1>2, <2>2, <2>4, <3>2 DEF Listening
      <3> QED
        BY <1>3, <1>4, <2>2, <3>3 DEF KeyInv, others
    <2> QED
      BY <2>3, <2>4
  <1> QED
    BY <1>8, <1>9

\* A step that leaves the user alone, and what is listed among what was awaited.
LEMMA SameUser ==
  ASSUME KeyInv, UNCHANGED <<platform, finger, unseen, astray>>, focus' \in BOOLEAN, keysOff' \in BOOLEAN,
         pending' \in Seq(SUBSET UNION Combos),
         \A a \in keyDownList' : a \in keyDownList \/ (altGrArmed /\ a = Pair("ControlLeft")),
         altGrArmed' => altGrArmed,
         keysOff' => keyDownList' = {} /\ ~altGrArmed'
  PROVE  Reporting' /\ Listening'
  <1>1. Reporting /\ Listening
    BY DEF KeyInv
  <1>2. Reporting'
    BY <1>1 DEF Reporting
  <1>3. \A c : Awaited(c) => Awaited(c)'
    BY DEF Awaited
  <1>4. ASSUME NEW a \in keyDownList' PROVE Awaited(a[1])'
    <2>1. a \in keyDownList \/ (altGrArmed /\ a = Pair("ControlLeft"))
      OBVIOUS
    <2>2. Awaited(a[1])
      BY <1>1, <2>1 DEF Listening, Pair
    <2> QED
      BY <1>3, <2>2
  <1>5. altGrArmed' => platform' = "windows" /\ Awaited("ControlLeft")'
    BY <1>1, <1>3 DEF Listening
  <1> QED
    BY <1>2, <1>4, <1>5 DEF Listening

\* CapsLock of macOS, either of its events.
LEMMA MacCapsLockStep ==
  ASSUME KeyInv, NEW down \in BOOLEAN, MacCapsLock(down)
  PROVE  KeyInv'
  <1> DEFINE others == MenuKeys \cup TimerKeys
  <1>1. Reporting /\ Sound(Now, others)
    BY DEF KeyInv
  <1>2. /\ platform = "mac" /\ ~keysOff
        /\ UNCHANGED <<platform, finger, unseen, focus, menuHeld, pending, keysOff, astray>>
        /\ Becomes(IF down THEN HandleKeyDown(Now, "CapsLock", "plain", FALSE) ELSE HandleKeyUp(Now, "CapsLock"))
    BY DEF MacCapsLock, Heard, userVars
  <1>3. others' = others
    BY <1>2, SameMenu
  <1>4. PICK s : /\ Becomes(s) /\ Sound(s, others) /\ ~s.armed
                 /\ \A a \in s.list : a \in keyDownList \/ (altGrArmed /\ a = Pair("ControlLeft"))
    <2>1. CASE down
      <3> DEFINE s == HandleKeyDown(Now, "CapsLock", "plain", FALSE)
      <3>1. Becomes(s)
        BY <1>2, <2>1
      <3>2. Sound(s, others) /\ PressedList(s.list, Now, "CapsLock") /\ (s.armed => platform = "windows")
        BY <1>1, HandleKeyDownFacts
      <3> HIDE DEF s
      <3>3. Tapped("CapsLock")
        BY <1>2 DEF Tapped
      <3>4. \A a \in s.list : a \in keyDownList \/ (altGrArmed /\ a = Pair("ControlLeft"))
        BY <3>2, <3>3, NowFields DEF PressedList
      <3> QED
        BY <1>2, <3>1, <3>2, <3>4
    <2>2. CASE ~down
      <3> DEFINE s == HandleKeyUp(Now, "CapsLock")
      <3>1. Becomes(s)
        BY <1>2, <2>2
      <3>2. Sound(s, others) /\ s.armed = FALSE /\ ReleasedList(s.list, Now, "CapsLock")
        BY <1>1, HandleKeyUpFacts
      <3> HIDE DEF s
      <3>3. \A a \in s.list : a \in keyDownList \/ (altGrArmed /\ a = Pair("ControlLeft"))
        BY <3>2, NowFields DEF ReleasedList
      <3> QED
        BY <3>1, <3>2, <3>3
    <2> QED
      BY <2>1, <2>2
  <1> HIDE DEF others
  <1>5. Sound(Now', others) /\ keyDownList' = s.list /\ altGrArmed' = s.armed
    BY <1>4, Became
  <1>6. Reporting' /\ Listening'
    BY <1>1, <1>2, <1>4, <1>5, SameUser DEF Reporting
  <1> QED
    BY <1>3, <1>5, <1>6 DEF KeyInv, others

\* The wait for the second key of AltGr ends.
LEMMA AltGrTimeoutStep ==
  ASSUME KeyInv, AltGrTimeout
  PROVE  KeyInv'
  <1> DEFINE others == MenuKeys \cup TimerKeys
             s == InterruptAltGrSequence(Now, keysOff)
  <1>1. Reporting /\ Listening /\ Sound(Now, others)
    BY DEF KeyInv
  <1>2. /\ altGrArmed /\ Becomes(s)
        /\ UNCHANGED <<platform, finger, unseen, focus, menuHeld, pending, keysOff, astray>>
    BY DEF AltGrTimeout, userVars
  <1>3. others' = others
    BY <1>2, SameMenu
  <1>4. Board(s, others, FALSE, IF Now.armed THEN Now.list \cup {Pair("ControlLeft")} ELSE Now.list)
    BY <1>1, InterruptFacts
  <1> HIDE DEF s, others
  <1>5. Sound(s, others) /\ s.armed = FALSE /\ s.list = keyDownList \cup {Pair("ControlLeft")}
    BY <1>2, <1>4, NowFields DEF Board
  <1>6. Sound(Now', others) /\ keyDownList' = s.list /\ altGrArmed' = s.armed
    BY <1>2, <1>5, Became
  <1>7. ~keysOff
    BY <1>1, <1>2 DEF Listening
  <1>8. \A a \in keyDownList' : a \in keyDownList \/ (altGrArmed /\ a = Pair("ControlLeft"))
    BY <1>2, <1>5, <1>6
  <1>9. Reporting' /\ Listening'
    BY <1>1, <1>2, <1>5, <1>6, <1>7, <1>8, SameUser DEF Reporting
  <1> QED
    BY <1>3, <1>6, <1>9 DEF KeyInv, others

\* The window loses the focus.
LEMMA BlurStep ==
  ASSUME KeyInv, Blur
  PROVE  KeyInv'
  <1> DEFINE others == MenuKeys \cup TimerKeys
  <1>1. Reporting /\ Listening /\ Sound(Now, others)
    BY DEF KeyInv
  <1>2. /\ Becomes(IF keysOff THEN Now ELSE AllKeysUp(Now, FALSE)) /\ finger' = {} /\ unseen' = {}
        /\ UNCHANGED <<platform, focus, menuHeld, pending, keysOff, astray>>
    BY DEF Blur
  <1>3. others' = others
    BY <1>2, SameMenu
  <1>4. Sound(Now', others) /\ keyDownList' = {} /\ ~altGrArmed'
    <2>1. CASE keysOff
      <3>1. Becomes(Now)
        BY <1>2, <2>1
      <3>2. Sound(Now', others) /\ keyDownList' = Now.list /\ altGrArmed' = Now.armed
        BY <1>1, <3>1, Became
      <3> QED
        BY <1>1, <2>1, <3>2, NowFields DEF Listening
    <2>2. CASE ~keysOff
      <3> DEFINE s == AllKeysUp(Now, FALSE)
      <3>1. Becomes(s)
        BY <1>2, <2>2
      <3>2. Board(s, others, FALSE, {})
        BY <1>1, AllKeysUpFacts
      <3> HIDE DEF s, others
      <3>3. Sound(s, others) /\ s.armed = FALSE /\ s.list = {}
        BY <3>2 DEF Board
      <3>4. Sound(Now', others) /\ keyDownList' = s.list /\ altGrArmed' = s.armed
        BY <3>1, <3>3, Became
      <3> QED
        BY <3>3, <3>4
    <2> QED
      BY <2>1, <2>2
  <1>5. Reporting'
    BY <1>1, <1>2 DEF Reporting
  <1>6. Listening'
    BY <1>4 DEF Listening
  <1> QED
    BY <1>3, <1>4, <1>5, <1>6 DEF KeyInv

\* The focus moves within the page.
LEMMA FocusMovesStep ==
  ASSUME KeyInv, FocusMoves
  PROVE  KeyInv'
  <1>1. Reporting /\ Listening /\ Sound(Now, MenuKeys \cup TimerKeys)
    BY DEF KeyInv
  <1>2. /\ UNCHANGED <<platform, finger, unseen, keyDownList, altGrArmed, server, menuHeld, pending,
                       keysOff, swallowed, astray>>
        /\ focus' = ~focus
    BY DEF FocusMoves, boardVars
  <1>3. Now' = Now /\ (MenuKeys \cup TimerKeys)' = MenuKeys \cup TimerKeys
    BY <1>2, SameMenu DEF Now
  <1>4. Reporting' /\ Listening'
    BY <1>1, <1>2, SameUser DEF Reporting, Listening
  <1> QED
    BY <1>1, <1>3, <1>4 DEF KeyInv

\* What the menu does leaves the keyboard alone: only what lifts the keys changes.
LEMMA MenuStep ==
  ASSUME KeyInv, NEW s, Becomes(s), s.list = keyDownList, s.armed = altGrArmed,
         Sound(s, (MenuKeys \cup TimerKeys)'), UNCHANGED <<userVars, keysOff, astray>>,
         pending' \in Seq(SUBSET UNION Combos)
  PROVE  KeyInv'
  <1>1. Reporting /\ Listening
    BY DEF KeyInv
  <1>2. UNCHANGED <<platform, finger, unseen, focus, keysOff, astray>>
    BY DEF userVars
  <1> DEFINE rest == (MenuKeys \cup TimerKeys)'
  <1>3. Sound(s, rest)
    OBVIOUS
  <1> HIDE DEF rest
  <1>4. Sound(Now', rest) /\ keyDownList' = s.list /\ altGrArmed' = s.armed
    BY <1>3, Became
  <1>5. Reporting' /\ Listening'
    BY <1>1, <1>2, <1>4, SameUser DEF Reporting, Listening
  <1> QED
    BY <1>4, <1>5 DEF KeyInv, rest

\* The menu holds a modifier, or lets it go.
LEMMA HoldStep ==
  ASSUME KeyInv, NEW code \in Holds, Hold(code)
  PROVE  KeyInv'
  <1> DEFINE others == MenuKeys \cup TimerKeys
             rest == (MenuKeys \cup TimerKeys)'
             s == SendKey(Now, Pair(code), code \notin menuHeld, FALSE)
  <1>1. Reporting /\ Sound(Now, others)
    BY DEF KeyInv
  <1>2. /\ Becomes(s) /\ UNCHANGED <<userVars, pending, keysOff, astray>>
        /\ menuHeld' = IF code \in menuHeld THEN menuHeld \ {code} ELSE menuHeld \cup {code}
    BY DEF Hold
  <1>3. TimerKeys' = TimerKeys
    BY <1>2, SameMenu
  <1>4. Sound(s, rest) /\ s.list = keyDownList /\ s.armed = altGrArmed
    <2>1. CASE code \in menuHeld
      <3>1. s = SendEvery(Now, {Pair(code)}, FALSE, FALSE)
        BY <2>1 DEF SendKey
      <3>2. \A x \in others : x \in rest \cup {Pair(code)}
        BY <1>2, <1>3, <2>1 DEF MenuKeys
      <3> HIDE DEF s, rest, others
      <3>3. Sound(Now, rest \cup {Pair(code)})
        BY <1>1, <3>2, MoreLifts
      <3>4. Board(SendEvery(Now, {Pair(code)}, FALSE, FALSE), rest, Now.armed, Now.list)
        BY <3>3, SendUp
      <3> QED
        BY <3>1, <3>4, NowFields DEF Board
    <2>2. CASE code \notin menuHeld
      <3>1. s = SendEvery(Now, {Pair(code)}, TRUE, FALSE)
        BY <2>2 DEF SendKey
      <3>2. \A x \in others \cup {Pair(code)} : x \in rest
        BY <1>2, <1>3, <2>2 DEF MenuKeys
      <3> HIDE DEF s, rest, others
      <3>3. Board(SendEvery(Now, {Pair(code)}, TRUE, FALSE), others \cup {Pair(code)}, Now.armed, Now.list)
        BY <1>1, SendDown
      <3>4. Sound(s, others \cup {Pair(code)}) /\ s.list = keyDownList /\ s.armed = altGrArmed
        BY <3>1, <3>3, NowFields DEF Board
      <3> QED
        BY <3>2, <3>4, MoreLifts
    <2> QED
      BY <2>1, <2>2
  <1> HIDE DEF s
  <1> QED
    BY <1>1, <1>2, <1>4, MenuStep DEF Reporting

\* The held modifiers go up.
LEMMA ReleaseHeldFacts ==
  ASSUME KeyInv
  PROVE  Board(ReleaseHeld(Now), TimerKeys, altGrArmed, keyDownList)
  <1>1. ReleaseHeld(Now) = SendEvery(Now, MenuKeys, FALSE, keysOff)
    BY DEF ReleaseHeld, SendAll, MenuKeys
  <1>2. Sound(Now, TimerKeys \cup MenuKeys)
    BY MoreLifts DEF KeyInv
  <1>3. Board(SendEvery(Now, MenuKeys, FALSE, keysOff), TimerKeys, Now.armed, Now.list)
    BY <1>2, SendUp
  <1> QED
    BY <1>1, <1>3, NowFields

\* A combination goes down, and its timer will release it.
LEMMA SendKeysStep ==
  ASSUME KeyInv, NEW codes \in Combos, SendKeys(codes)
  PROVE  KeyInv'
  <1> DEFINE rest == (MenuKeys \cup TimerKeys)'
             keys == {Pair(c) : c \in codes}
             j == ReleaseHeld(Now)
             s == SendAll(j, codes, TRUE)
  <1>1. pending \in Seq(SUBSET UNION Combos)
    BY DEF KeyInv, Reporting
  <1>2. /\ Becomes(s) /\ menuHeld' = {} /\ pending' = Append(pending, codes)
        /\ UNCHANGED <<userVars, keysOff, astray>>
    BY DEF SendKeys
  <1>3. codes \in SUBSET UNION Combos
    OBVIOUS
  <1>4. /\ pending' \in Seq(SUBSET UNION Combos) /\ Len(pending) \in Nat /\ Len(pending') = Len(pending) + 1
        /\ pending'[Len(pending) + 1] = codes /\ \A i \in 1..Len(pending) : pending'[i] = pending[i]
    BY <1>1, <1>2, <1>3
  <1>5. \A x \in TimerKeys \cup keys : x \in rest
    <2>1. ASSUME NEW x \in TimerKeys PROVE x \in TimerKeys'
      <3>1. PICK i \in 1..Len(pending) : x \in {Pair(c) : c \in pending[i]}
        BY <2>1 DEF TimerKeys
      <3>2. i \in 1..Len(pending') /\ pending'[i] = pending[i]
        BY <1>4
      <3> QED
        BY <3>1, <3>2 DEF TimerKeys
    <2>2. ASSUME NEW x \in keys PROVE x \in TimerKeys'
      <3>1. Len(pending) + 1 \in 1..Len(pending')
        BY <1>4
      <3> QED
        BY <1>4, <2>2, <3>1 DEF TimerKeys
    <2> QED
      BY <2>1, <2>2
  <1>6. Sound(j, TimerKeys) /\ j.armed = altGrArmed /\ j.list = keyDownList
    BY ReleaseHeldFacts DEF Board
  <1>7. s = SendEvery(j, keys, TRUE, keysOff)
    BY DEF SendAll
  <1> HIDE DEF s, j, keys, rest
  <1>8. Board(SendEvery(j, keys, TRUE, keysOff), TimerKeys \cup keys, j.armed, j.list)
    BY <1>6, SendDown
  <1>9. Sound(s, TimerKeys \cup keys) /\ s.list = keyDownList /\ s.armed = altGrArmed
    BY <1>6, <1>7, <1>8 DEF Board
  <1>10. Sound(s, rest)
    BY <1>5, <1>9, MoreLifts
  <1> QED
    BY <1>2, <1>4, <1>9, <1>10, MenuStep DEF rest

\* The oldest combination goes up.
LEMMA ReleaseKeysStep ==
  ASSUME KeyInv, ReleaseKeys
  PROVE  KeyInv'
  <1> DEFINE others == MenuKeys \cup TimerKeys
             rest == (MenuKeys \cup TimerKeys)'
             keys == {Pair(c) : c \in Head(pending)}
             s == SendAll(Now, Head(pending), FALSE)
  <1>1. pending \in Seq(SUBSET UNION Combos) /\ Sound(Now, others)
    BY DEF KeyInv, Reporting
  <1>2. /\ pending # <<>> /\ Becomes(s) /\ pending' = Tail(pending)
        /\ UNCHANGED <<userVars, menuHeld, keysOff, astray>>
    BY DEF ReleaseKeys
  <1>3. MenuKeys' = MenuKeys
    BY <1>2, SameMenu
  <1>4. /\ pending' \in Seq(SUBSET UNION Combos) /\ Len(pending) \in Nat \ {0} /\ Len(pending') = Len(pending) - 1
        /\ Head(pending) = pending[1] /\ \A i \in 1..Len(pending') : pending'[i] = pending[i + 1]
    BY <1>1, <1>2
  <1>5. ASSUME NEW x \in TimerKeys PROVE x \in TimerKeys' \/ x \in keys
    <2>1. PICK i \in 1..Len(pending) : x \in {Pair(c) : c \in pending[i]}
      BY <1>5 DEF TimerKeys
    <2>2. CASE i = 1
      BY <1>4, <2>1, <2>2
    <2>3. CASE i # 1
      <3>1. i - 1 \in 1..Len(pending') /\ pending'[i - 1] = pending[i]
        BY <1>4, <2>3
      <3> QED
        BY <2>1, <3>1 DEF TimerKeys
    <2> QED
      BY <2>2, <2>3
  <1>6. \A x \in others : x \in rest \cup keys
    BY <1>3, <1>5
  <1>7. s = SendEvery(Now, keys, FALSE, keysOff)
    BY DEF SendAll
  <1> HIDE DEF s, keys, rest, others
  <1>8. Sound(Now, rest \cup keys)
    BY <1>1, <1>6, MoreLifts
  <1>9. Board(SendEvery(Now, keys, FALSE, keysOff), rest, Now.armed, Now.list)
    BY <1>8, SendUp
  <1>10. Sound(s, rest) /\ s.list = keyDownList /\ s.armed = altGrArmed
    BY <1>7, <1>9, NowFields DEF Board
  <1> QED
    BY <1>2, <1>4, <1>10, MenuStep DEF rest

\* Ctrl-Alt-Del, down and up at once.
LEMMA SendCtrlAltDelStep ==
  ASSUME KeyInv, SendCtrlAltDel
  PROVE  KeyInv'
  <1> DEFINE rest == (MenuKeys \cup TimerKeys)'
             del == {"ControlLeft", "AltLeft", "Delete"}
             keys == {Pair(c) : c \in del}
             j == ReleaseHeld(Now)
             d == SendAll(j, del, TRUE)
             s == IF keysOff THEN j ELSE SendAll(d, del, FALSE)
  <1>1. /\ Becomes(s) /\ menuHeld' = {} /\ UNCHANGED <<userVars, pending, keysOff, astray>>
    BY DEF SendCtrlAltDel
  <1>2. pending' \in Seq(SUBSET UNION Combos)
    BY <1>1 DEF KeyInv, Reporting
  <1>3. \A x \in TimerKeys : x \in rest
    BY <1>1, SameMenu
  <1>4. Sound(j, TimerKeys) /\ j.armed = altGrArmed /\ j.list = keyDownList
    BY ReleaseHeldFacts DEF Board
  <1>5. d = SendEvery(j, keys, TRUE, keysOff) /\ SendAll(d, del, FALSE) = SendEvery(d, keys, FALSE, keysOff)
    BY DEF SendAll
  <1>6. s = IF keysOff THEN j ELSE SendEvery(d, keys, FALSE, keysOff)
    BY <1>5
  <1> HIDE DEF s, d, j, keys, rest
  <1>7. Board(SendEvery(j, keys, TRUE, keysOff), TimerKeys \cup keys, j.armed, j.list)
    BY <1>4, SendDown
  <1>8. Sound(d, TimerKeys \cup keys) /\ d.list = keyDownList /\ d.armed = altGrArmed
    BY <1>4, <1>5, <1>7 DEF Board
  <1>9. Board(SendEvery(d, keys, FALSE, keysOff), TimerKeys, d.armed, d.list)
    BY <1>8, SendUp
  <1>10. Sound(s, TimerKeys) /\ s.list = keyDownList /\ s.armed = altGrArmed
    BY <1>4, <1>6, <1>8, <1>9 DEF Board
  <1>11. Sound(s, rest)
    BY <1>3, <1>10, MoreLifts
  <1> QED
    BY <1>1, <1>2, <1>10, <1>11, MenuStep DEF rest

\* View-only: every key goes up, those of the keyboard for nobody.
LEMMA ViewOnlyOnStep ==
  ASSUME KeyInv, ViewOnlyOn
  PROVE  KeyInv'
  <1> DEFINE rest == (MenuKeys \cup TimerKeys)'
             j == ReleaseHeld(Now)
             s == AllKeysUp(j, TRUE)
  <1>1. Reporting
    BY DEF KeyInv
  <1>2. /\ keysOff' = TRUE /\ menuHeld' = {} /\ Becomes(s)
        /\ UNCHANGED <<platform, finger, unseen, focus, pending, astray>>
    BY DEF ViewOnlyOn, userVars
  <1>3. \A x \in TimerKeys : x \in rest
    BY <1>2, SameMenu
  <1>4. Sound(j, TimerKeys)
    BY ReleaseHeldFacts DEF Board
  <1> HIDE DEF j, rest
  <1>5. Board(s, TimerKeys, FALSE, {})
    BY <1>4, AllKeysUpFacts
  <1> HIDE DEF s
  <1>6. Sound(s, TimerKeys) /\ s.armed = FALSE /\ s.list = {}
    BY <1>5 DEF Board
  <1>7. Sound(s, rest)
    BY <1>3, <1>6, MoreLifts
  <1>8. Sound(Now', rest) /\ keyDownList' = s.list /\ altGrArmed' = s.armed
    BY <1>2, <1>7, Became
  <1>9. Reporting'
    BY <1>1, <1>2 DEF Reporting
  <1>10. Listening'
    BY <1>6, <1>8 DEF Listening
  <1> QED
    BY <1>8, <1>9, <1>10 DEF KeyInv, rest

\* The console takes input again.
LEMMA ViewOnlyOffStep ==
  ASSUME KeyInv, ViewOnlyOff
  PROVE  KeyInv'
  <1>1. Reporting /\ Listening /\ Sound(Now, MenuKeys \cup TimerKeys)
    BY DEF KeyInv
  <1>2. /\ UNCHANGED <<platform, finger, unseen, focus, keyDownList, altGrArmed, server, menuHeld, pending,
                       swallowed, astray>>
        /\ keysOff' = FALSE
    BY DEF ViewOnlyOff, boardVars, userVars
  <1>3. Now' = Now /\ (MenuKeys \cup TimerKeys)' = MenuKeys \cup TimerKeys
    BY <1>2, SameMenu DEF Now
  <1>4. Reporting' /\ Listening'
    BY <1>1, <1>2, SameUser DEF Reporting, Listening
  <1> QED
    BY <1>1, <1>3, <1>4 DEF KeyInv

\* A keyboard nobody has touched.
LEMMA KeyInvInit ==
  ASSUME KeyInit
  PROVE  KeyInv
  <1>1. /\ keyDownList = {} /\ altGrArmed = FALSE /\ server = {} /\ keysOff = FALSE /\ focus = TRUE
        /\ pending = <<>> /\ unseen = {} /\ platform \in Platforms
    BY DEF KeyInit
  <1>2. Reporting
    <2>1. \A S : <<>> \in Seq(S)
      OBVIOUS
    <2>2. pending \in Seq(SUBSET UNION Combos)
      BY <1>1, <2>1
    <2>3. platform = "windows" => \A c \in unseen : c \notin Shifts /\ c # "ControlLeft"
      BY <1>1
    <2> QED
      BY <1>1, <2>2, <2>3 DEF Reporting
  <1>3. Listening
    BY <1>1 DEF Listening
  <1>4. IsBoard(Now)
    BY <1>1 DEF Now, IsBoard
  <1>5. OneEach(Now) /\ Covered(Now, MenuKeys \cup TimerKeys)
    BY <1>1, NowFields DEF OneEach, Covered
  <1> QED
    BY <1>2, <1>3, <1>4, <1>5 DEF KeyInv, Sound

\* Every step of the keyboard, the menu and the switch keeps the invariant.
LEMMA KeyInvStep ==
  ASSUME KeyInv, [KeyNext]_keyVars
  PROVE  KeyInv'
  <1>1. CASE UNCHANGED keyVars
    <2>1. UNCHANGED <<platform, finger, unseen, focus, keyDownList, altGrArmed, server, menuHeld, pending,
                      keysOff, swallowed, astray>>
      BY <1>1 DEF keyVars, userVars, boardVars
    <2>2. Reporting /\ Listening /\ Sound(Now, MenuKeys \cup TimerKeys)
      BY DEF KeyInv
    <2>3. Now' = Now /\ (MenuKeys \cup TimerKeys)' = MenuKeys \cup TimerKeys
      BY <2>1, SameMenu DEF Now
    <2>4. Reporting' /\ Listening'
      BY <2>1, <2>2, SameUser DEF Reporting, Listening
    <2> QED
      BY <2>2, <2>3, <2>4 DEF KeyInv
  <1>2. CASE KeyNext
    <2>1. CASE \E code \in Codes, quick \in BOOLEAN :
                 \E symbol \in SymbolsOf(code) : KeyDown(code, symbol, quick)
      BY <2>1, KeyDownStep
    <2>2. CASE \E code \in Codes : KeyUp(code)
      BY <2>2, KeyUpStep
    <2>3. CASE \E down \in BOOLEAN : MacCapsLock(down)
      BY <2>3, MacCapsLockStep
    <2>4. CASE AltGrTimeout \/ Blur \/ FocusMoves
      BY <2>4, AltGrTimeoutStep, BlurStep, FocusMovesStep
    <2>5. CASE (\E code \in Holds : Hold(code)) \/ (\E codes \in Combos : SendKeys(codes))
      BY <2>5, HoldStep, SendKeysStep
    <2>6. CASE ReleaseKeys \/ SendCtrlAltDel \/ ViewOnlyOn \/ ViewOnlyOff
      BY <2>6, ReleaseKeysStep, SendCtrlAltDelStep, ViewOnlyOnStep, ViewOnlyOffStep
    <2> QED
      BY <1>2, <2>1, <2>2, <2>3, <2>4, <2>5, <2>6 DEF KeyNext
  <1> QED
    BY <1>1, <1>2

\* Whatever releases the operating system leaves out (Windows' Shifts and AltGr,
\* macOS's Meta and CapsLock), and whenever the menu, its timers, the focus and the
\* view-only switch come between a press and its release: with nothing pressed, held
\* or due the VM has no key down, but for a key whose last event the page did not
\* see and a release that view-only mode swallowed (keyboard.js, console_keys.js).
THEOREM KeysTheorem == KeySpec => []NoKeyStuck
  <1>1. KeyInit => KeyInv
    BY KeyInvInit
  <1>2. KeyInv /\ [KeyNext]_keyVars => KeyInv'
    BY KeyInvStep
  <1>3. KeyInv => NoKeyStuck
    <2> SUFFICES ASSUME KeyInv, finger = {}, menuHeld = {}, pending = <<>>, ~altGrArmed, NEW key \in server
                 PROVE  key[1] \in astray \/ key \in swallowed
      BY DEF NoKeyStuck
    <2>1. MenuKeys = {} /\ TimerKeys = {}
      BY DEF MenuKeys, TimerKeys
    <2>2. key \in keyDownList \/ key \in swallowed
      BY <2>1, NowFields DEF KeyInv, Sound, Covered
    <2> QED
      BY <2>2 DEF KeyInv, Listening, Awaited
  <1> QED
    BY <1>1, <1>2, <1>3, PTL DEF KeySpec

-----------------------------------------------------------------------------
(***************************************************************************)
(* The invariant of VncTyping: once what is queued is typed, the VM's line *)
(* ends in what the field shows.  The lines in between are a function of   *)
(* the keys typed so far, which an edit extends and a typed key shortens.  *)
(***************************************************************************)

Chars == Letters \cup Keyless \cup {Filler, Backspace}

\* Up to f the field is filled, and behind it is what was typed.
FilledTo(text, f) ==
  /\ f \in 0..Len(text)
  /\ \A i \in 1..f : text[i] = Filler
  /\ \A i \in (f + 1)..Len(text) : text[i] # Filler

\* The line ends in the text behind f.
EndsWith(line, text, f) ==
  /\ Len(text) - f <= Len(line)
  /\ \A i \in (f + 1)..Len(text) : line[Len(line) - Len(text) + i] = text[i]

\* t[n] is the line after the first n keys.
Trace(t, line, keys) ==
  /\ t = [n \in 0..Len(keys) |-> IF n = 0 THEN line ELSE Typed(t[n - 1], keys[n])]
  /\ \A n \in 0..Len(keys) : t[n] \in Seq(Chars)

\* The line that comes of the keys ends in the text behind f.
Mirrors(t, line, keys, text, f) ==
  Trace(t, line, keys) /\ FilledTo(text, f) /\ EndsWith(t[Len(keys)], text, f)

TypInv ==
  /\ lastText \in Seq(Chars) /\ typing \in Seq(Chars) /\ vmText \in Seq(Chars)
  /\ ~apart => \E t : \E f \in 0..Len(lastText) : Mirrors(t, vmText, typing, lastText, f)

-----------------------------------------------------------------------------
(***************************************************************************)
(* Texts and lines.                                                        *)
(***************************************************************************)

\* A set of numbers has a least one.
LEMMA LeastNumber ==
  ASSUME NEW S \in SUBSET Nat, S # {}
  PROVE  \E n \in S : \A k \in S : n <= k
  <1>1. PICK n \in S : \A k \in S : ~(<<k, n>> \in OpToRel(<, Nat))
    BY NatLessThanWellFounded, WFMin
  <1>2. \A k \in S : ~(k < n)
    BY <1>1 DEF OpToRel
  <1>3. \A k \in S : n <= k
    BY <1>2
  <1> QED
    BY <1>3

\* The common beginning of two texts exists, and is as long as it can be.
LEMMA SameFacts ==
  ASSUME NEW a \in Seq(Chars), NEW b \in Seq(Chars)
  PROVE  LET m == Same(a, b)
         IN  /\ m \in 0..Len(a) /\ m <= Len(b) /\ \A i \in 1..m : a[i] = b[i]
             /\ m = Len(a) \/ m = Len(b) \/ a[m + 1] # b[m + 1]
  <1> DEFINE S == {n \in Nat : n = Len(a) \/ n = Len(b) \/ a[n + 1] # b[n + 1]}
             P(n) == /\ n <= Len(b) /\ SubSeq(a, 1, n) = SubSeq(b, 1, n)
                     /\ n = Len(a) \/ n = Len(b) \/ a[n + 1] # b[n + 1]
  <1>1. Len(a) \in Nat /\ Len(b) \in Nat
    OBVIOUS
  <1>2. S \in SUBSET Nat /\ Len(a) \in S /\ Len(b) \in S
    BY <1>1
  <1>3. PICK n \in S : \A k \in S : n <= k
    BY <1>2, LeastNumber
  <1>4. n \in Nat /\ n <= Len(a) /\ n <= Len(b)
    BY <1>2, <1>3
  <1>5. ASSUME NEW i \in 1..n PROVE a[i] = b[i]
    <2>1. i - 1 \in Nat /\ i - 1 < n /\ (i - 1) + 1 = i
      BY ONLY <1>4, i \in 1..n
    <2>2. i - 1 \notin S
      BY <1>3, <1>4, <2>1
    <2> QED
      BY <2>1, <2>2
  <1>6. SubSeq(a, 1, n) = SubSeq(b, 1, n)
    <2>1. SubSeq(a, 1, n) = [i \in 1..n |-> a[i]] /\ SubSeq(b, 1, n) = [i \in 1..n |-> b[i]]
      BY <1>1, <1>4
    <2> QED
      BY <1>5, <2>1
  <1>7. n \in 0..Len(a) /\ P(n)
    BY <1>3, <1>4, <1>6
  <1>8. Same(a, b) = CHOOSE k \in 0..Len(a) : P(k)
    BY DEF Same
  <1> DEFINE m == Same(a, b)
  <1>9. m \in 0..Len(a) /\ P(m)
    <2> HIDE DEF P
    <2> QED
      BY <1>7, <1>8
  <1> HIDE DEF m
  <1>10. ASSUME NEW i \in 1..m PROVE a[i] = b[i]
    <2>1. SubSeq(a, 1, m)[i] = a[i] /\ SubSeq(b, 1, m)[i] = b[i]
      BY <1>1, <1>9
    <2> QED
      BY <1>9, <2>1
  <1> QED
    BY <1>9, <1>10 DEF m

\* What the field shows starts behind what it is filled with.
LEMMA ShownFacts ==
  ASSUME NEW f \in 0..Len(lastText), lastText \in Seq(Chars), FilledTo(lastText, f)
  PROVE  Shown = SubSeq(lastText, f + 1, Len(lastText))
  <1> DEFINE P(n) == /\ n > 0 => lastText[n] = Filler
                     /\ \A i \in (n + 1)..Len(lastText) : lastText[i] # Filler
             g == CHOOSE n \in 0..Len(lastText) : P(n)
  <1>1. Len(lastText) \in Nat
    OBVIOUS
  <1>2. P(f)
    BY <1>1 DEF FilledTo
  <1>3. g \in 0..Len(lastText) /\ P(g)
    <2> HIDE DEF P
    <2> QED
      BY <1>2
  <1>4. Shown = SubSeq(lastText, g + 1, Len(lastText))
    BY DEF Shown
  <1> HIDE DEF g
  <1>5. ~(g < f)
    <2> SUFFICES ASSUME g < f PROVE FALSE
      OBVIOUS
    <2>1. f \in (g + 1)..Len(lastText) /\ f \in 1..f
      BY <1>1, <1>3
    <2> QED
      BY <1>3, <2>1 DEF FilledTo
  <1>6. ~(f < g)
    <2> SUFFICES ASSUME f < g PROVE FALSE
      OBVIOUS
    <2>1. g \in (f + 1)..Len(lastText) /\ g > 0
      BY <1>1, <1>3
    <2> QED
      BY <1>3, <2>1 DEF FilledTo
  <1>7. g = f
    BY <1>1, <1>3, <1>5, <1>6
  <1> QED
    BY <1>4, <1>7

\* The lines are those of LineAfter: two functions that satisfy its equation agree.
LEMMA TraceIs ==
  ASSUME NEW t, NEW line, NEW keys \in Seq(Chars), Trace(t, line, keys)
  PROVE  LineAfter(line, keys) = t[Len(keys)]
  <1> DEFINE Q(f) == f = [n \in 0..Len(keys) |-> IF n = 0 THEN line ELSE Typed(f[n - 1], keys[n])]
             after == CHOOSE f : Q(f)
  <1>1. LineAfter(line, keys) = after[Len(keys)]
    BY DEF LineAfter
  <1>2. Q(t)
    BY DEF Trace
  <1>3. Q(after)
    <2> HIDE DEF Q
    <2> QED
      BY <1>2
  <1> HIDE DEF after
  <1>4. Len(keys) \in Nat
    OBVIOUS
  <1> DEFINE S == {n \in 0..Len(keys) : after[n] # t[n]}
  <1>5. CASE S # {}
    <2>1. S \in SUBSET Nat
      BY <1>4
    <2>2. PICK n \in S : \A k \in S : n <= k
      BY <1>5, <2>1, LeastNumber
    <2>3. n \in 0..Len(keys) /\ after[n] # t[n]
      BY <2>2
    <2>4. n # 0
      BY <1>2, <1>3, <2>3
    <2>5. n - 1 \in 0..Len(keys) /\ ~(n <= n - 1)
      BY <1>4, <2>3, <2>4
    <2>6. n - 1 \notin S
      BY <2>2, <2>5
    <2>7. after[n - 1] = t[n - 1]
      BY <2>5, <2>6
    <2>8. after[n] = Typed(after[n - 1], keys[n]) /\ t[n] = Typed(t[n - 1], keys[n])
      BY <1>2, <1>3, <2>3, <2>4
    <2> QED
      BY <2>3, <2>7, <2>8
  <1>6. CASE S = {}
    <2>1. Len(keys) \in 0..Len(keys)
      BY <1>4
    <2> QED
      BY <1>1, <1>6, <2>1
  <1> QED
    BY <1>5, <1>6

\* Two texts in a row.
LEMMA Joins ==
  ASSUME NEW a \in Seq(Chars), NEW b \in Seq(Chars)
  PROVE  /\ a \o b \in Seq(Chars) /\ Len(a \o b) = Len(a) + Len(b)
         /\ \A i \in 1..Len(a) : (a \o b)[i] = a[i]
         /\ \A i \in 1..Len(b) : (a \o b)[Len(a) + i] = b[i]
  OBVIOUS

\* The rest of a text, and where its characters are once it stands elsewhere.
LEMMA RestOf ==
  ASSUME NEW text \in Seq(Chars), NEW m \in 0..Len(text)
  PROVE  LET s == SubSeq(text, m + 1, Len(text))
         IN  s \in Seq(Chars) /\ Len(s) = Len(text) - m /\ \A i \in 1..Len(s) : s[i] = text[m + i]
  <1>1. Len(text) \in Nat
    OBVIOUS
  <1> QED
    BY <1>1

LEMMA Behind ==
  ASSUME NEW lt \in Nat, NEW m \in 0..lt, NEW i \in (m + 1)..lt, NEW lc \in Nat
  PROVE  /\ i - m \in 1..(lt - m) /\ m + (i - m) = i
         /\ (lc + (lt - m)) - lt + i = lc + (i - m)
  OBVIOUS

\* A line without its last j characters.
Cut(line, j) == SubSeq(line, 1, Len(line) - j)

\* Backspaces cut a line, one character each, until it is empty.
LEMMA CutFacts ==
  ASSUME NEW line \in Seq(Chars), NEW j \in Nat
  PROVE  /\ Cut(line, j) \in Seq(Chars) /\ Cut(line, 0) = line
         /\ Len(Cut(line, j)) = IF j <= Len(line) THEN Len(line) - j ELSE 0
         /\ \A i \in 1..Len(Cut(line, j)) : Cut(line, j)[i] = line[i]
         /\ Typed(Cut(line, j), Backspace) = Cut(line, j + 1)
  <1> DEFINE c == Cut(line, j)
             d == Cut(line, j + 1)
  <1>1. Len(line) \in Nat
    OBVIOUS
  <1>2. /\ c \in Seq(Chars) /\ Len(c) = IF j <= Len(line) THEN Len(line) - j ELSE 0
        /\ \A i \in 1..Len(c) : c[i] = line[i]
    BY <1>1 DEF Cut
  <1>3. /\ d \in Seq(Chars) /\ Len(d) = IF j + 1 <= Len(line) THEN Len(line) - (j + 1) ELSE 0
        /\ \A i \in 1..Len(d) : d[i] = line[i]
    BY <1>1 DEF Cut
  <1>4. Cut(line, 0) = line
    BY <1>1 DEF Cut
  <1> HIDE DEF c, d
  <1> DEFINE e == SubSeq(c, 1, Len(c) - 1)
  <1>5. Typed(c, Backspace) = e
    BY DEF Typed
  <1>6. /\ e \in Seq(Chars) /\ Len(e) = IF Len(c) = 0 THEN 0 ELSE Len(c) - 1
        /\ \A i \in 1..Len(e) : e[i] = c[i]
    BY <1>2
  <1> HIDE DEF e
  <1>7. Len(e) = Len(d)
    BY <1>1, <1>2, <1>3, <1>6
  <1>8. \A i \in 1..Len(e) : e[i] = d[i]
    BY <1>1, <1>2, <1>3, <1>6, <1>7
  <1>9. e = d
    <2>1. e = [i \in 1..Len(e) |-> e[i]] /\ d = [i \in 1..Len(d) |-> d[i]]
      BY <1>3, <1>6
    <2>2. [i \in 1..Len(e) |-> e[i]] = [i \in 1..Len(e) |-> d[i]]
      BY <1>8
    <2> QED
      BY <1>7, <2>1, <2>2
  <1> QED
    BY <1>2, <1>4, <1>5, <1>9 DEF c, d

\* All of the keys: k Backspaces and s behind those that are queued.
AllKeys(keys, k, s) == keys \o ([i \in 1..k |-> Backspace] \o s)

\* Some lines lead over all of the keys to the last line but k characters, and s.
Lead(t, line, keys, k, s) ==
  \E u : /\ Trace(u, line, AllKeys(keys, k, s))
        /\ u[Len(AllKeys(keys, k, s))] = Cut(t[Len(keys)], k) \o s

\* More keys: the lines go on from the last one, Backspaces first.
LEMMA TraceGoesOn ==
  ASSUME NEW t, NEW line, NEW keys \in Seq(Chars), Trace(t, line, keys),
         NEW k \in Nat, NEW s \in Seq(Chars), \A i \in 1..Len(s) : s[i] # Backspace
  PROVE  AllKeys(keys, k, s) \in Seq(Chars) /\ Lead(t, line, keys, k, s)
  <1> DEFINE back == [i \in 1..k |-> Backspace]
             more == back \o s
             all  == keys \o more
             l    == Len(keys)
             last == t[l]
             Beyond(n) == IF n <= l + k THEN Cut(last, n - l) ELSE Cut(last, k) \o SubSeq(s, 1, n - (l + k))
             u    == [n \in 0..Len(all) |-> IF n <= l THEN t[n] ELSE Beyond(n)]
  <1>1. l \in Nat /\ Len(s) \in Nat /\ Backspace \in Chars
    BY DEF Chars
  <1>2. back \in Seq(Chars) /\ Len(back) = k /\ \A i \in 1..k : back[i] = Backspace
    BY <1>1
  <1> HIDE DEF back
  <1>3. /\ more \in Seq(Chars) /\ Len(more) = k + Len(s)
        /\ \A i \in 1..k : more[i] = Backspace
        /\ \A i \in 1..Len(s) : more[k + i] = s[i]
    <2>1. /\ back \o s \in Seq(Chars) /\ Len(back \o s) = Len(back) + Len(s)
          /\ \A i \in 1..Len(back) : (back \o s)[i] = back[i]
          /\ \A i \in 1..Len(s) : (back \o s)[Len(back) + i] = s[i]
      BY <1>2, Joins
    <2>2. more = back \o s
      OBVIOUS
    <2> HIDE DEF more
    <2> QED
      BY <1>2, <2>1, <2>2
  <1> HIDE DEF more
  <1>4. /\ all \in Seq(Chars) /\ Len(all) = l + k + Len(s)
        /\ \A i \in 1..l : all[i] = keys[i]
        /\ \A i \in 1..(k + Len(s)) : all[l + i] = more[i]
    BY <1>1, <1>3
  <1> HIDE DEF all
  <1>5. /\ \A n \in 0..l : t[n] \in Seq(Chars)
        /\ t[0] = line /\ \A n \in 1..l : t[n] = Typed(t[n - 1], keys[n])
    <2>1. t = [n \in 0..l |-> IF n = 0 THEN line ELSE Typed(t[n - 1], keys[n])]
      BY DEF Trace
    <2>2. 0 \in 0..l
      BY <1>1
    <2>3. \A n \in 1..l : n \in 0..l /\ n # 0
      BY <1>1
    <2> QED
      BY <2>1, <2>2, <2>3 DEF Trace
  <1>6. last \in Seq(Chars)
    BY <1>1, <1>5
  <1> HIDE DEF last
  <1>7. /\ u = [n \in 0..Len(all) |-> u[n]]
        /\ \A n \in 0..Len(all) : u[n] = IF n <= l THEN t[n] ELSE Beyond(n)
    OBVIOUS
  <1> HIDE DEF u, l
  <1>c. \A j \in Nat : /\ Cut(last, j) \in Seq(Chars) /\ Typed(Cut(last, j), Backspace) = Cut(last, j + 1)
                       /\ Cut(last, 0) = last
    BY <1>6, CutFacts
  <1>8. ASSUME NEW n \in 0..Len(all)
        PROVE  u[n] \in Seq(Chars) /\ u[n] = IF n = 0 THEN line ELSE Typed(u[n - 1], all[n])
    <2>1. CASE n <= l
      <3>1. u[n] = t[n] /\ n \in 0..l
        BY <1>1, <1>4, <1>7, <2>1
      <3>2. CASE n = 0
        BY <1>5, <3>1, <3>2
      <3>3. CASE n # 0
        <4>1. n - 1 \in 0..Len(all) /\ n - 1 <= l /\ n \in 1..l
          BY <1>1, <1>4, <2>1, <3>3
        <4> QED
          BY <1>4, <1>5, <1>7, <3>1, <3>3, <4>1
      <3> QED
        BY <3>2, <3>3
    <2>2. CASE l < n /\ n <= l + k
      <3>1. /\ n \in Nat /\ n # 0 /\ n - l \in 1..k /\ ~(n <= l) /\ n - 1 \in 0..Len(all)
            /\ l + (n - l) = n /\ n - l \in Nat /\ (n - 1) - l \in Nat /\ ((n - 1) - l) + 1 = n - l
            /\ n - l \in 1..(k + Len(s)) /\ n - 1 <= l + k
        <4>1. Len(all) = l + k + Len(s) /\ l \in Nat /\ Len(s) \in Nat /\ k \in Nat /\ n \in 0..Len(all)
          BY <1>1, <1>4
        <4>2. n \in Nat /\ n # 0 /\ n - l \in 1..k /\ ~(n <= l) /\ n - 1 <= l + k
          BY ONLY <2>2, <4>1
        <4>3. n - 1 \in 0..Len(all) /\ n - l \in 1..(k + Len(s))
          BY ONLY <4>1, <4>2
        <4>4. l + (n - l) = n /\ n - l \in Nat /\ (n - 1) - l \in Nat /\ ((n - 1) - l) + 1 = n - l
          BY ONLY <4>1, <4>2
        <4> QED
          BY <4>2, <4>3, <4>4
      <3>2. u[n] = Cut(last, n - l)
        BY <1>7, <2>2, <3>1
      <3>3. all[n] = Backspace
        BY <1>3, <1>4, <3>1
      <3>4. u[n - 1] = Cut(last, (n - 1) - l)
        <4>1. CASE n - 1 <= l
          <5>1. n - 1 = l /\ (n - 1) - l = 0
            BY <1>1, <2>2, <3>1, <4>1
          <5> QED
            BY <1>c, <1>7, <3>1, <5>1 DEF last
        <4>2. CASE ~(n - 1 <= l)
          BY <1>7, <3>1, <4>2
        <4> QED
          BY <4>1, <4>2
      <3>5. u[n] = Typed(u[n - 1], all[n])
        BY <1>c, <3>1, <3>2, <3>3, <3>4
      <3> QED
        BY <1>c, <3>1, <3>2, <3>5
    <2>3. CASE l + k < n
      <3> DEFINE j == n - (l + k)
                 c == Cut(last, k)
      <3>1. /\ n \in Nat /\ n # 0 /\ ~(n <= l) /\ ~(n <= l + k) /\ n - 1 \in 0..Len(all)
            /\ j \in 1..Len(s) /\ k + j \in 1..(k + Len(s)) /\ l + (k + j) = n /\ (n - 1) - (l + k) = j - 1
        BY <1>1, <1>4, <2>3
      <3>2. u[n] = c \o SubSeq(s, 1, j)
        BY <1>7, <3>1
      <3>3. all[n] = s[j]
        BY <1>3, <1>4, <3>1
      <3>4. u[n - 1] = c \o SubSeq(s, 1, j - 1)
        <4>1. CASE j = 1
          <5>1. n - 1 = l + k /\ SubSeq(s, 1, j - 1) = <<>>
            BY <1>1, <3>1, <4>1
          <5>2. u[n - 1] = c
            <6>1. CASE k = 0
              <7>1. n - 1 = l
                BY <1>1, <5>1, <6>1
              <7>2. l \in 0..Len(all) /\ l <= l
                BY <1>1, <3>1, <7>1
              <7>5. u[l] = t[l]
                BY <1>7, <7>2
              <7>3. u[n - 1] = last
                BY <7>1, <7>5 DEF last
              <7>4. c = last
                BY <1>c, <6>1
              <7> HIDE DEF c
              <7> QED
                BY <7>3, <7>4
            <6>2. CASE k # 0
              <7>1. ~(n - 1 <= l) /\ n - 1 <= l + k /\ (n - 1) - l = k
                BY <1>1, <5>1, <6>2
              <7> QED
                BY <1>7, <3>1, <7>1
            <6> QED
              BY <6>1, <6>2
          <5>3. c \in Seq(Chars)
            BY <1>c
          <5> HIDE DEF c
          <5> QED
            BY <5>1, <5>2, <5>3
        <4>2. CASE j # 1
          <5>1. ~(n - 1 <= l) /\ ~(n - 1 <= l + k)
            BY <1>1, <3>1, <4>2
          <5> QED
            BY <1>7, <3>1, <5>1
        <4> QED
          BY <4>1, <4>2
      <3>5. c \in Seq(Chars)
        BY <1>c
      <3> HIDE DEF c, j
      <3>6. /\ SubSeq(s, 1, j) \in Seq(Chars) /\ s[j] \in Chars /\ s[j] # Backspace
            /\ SubSeq(s, 1, j - 1) \in Seq(Chars) /\ SubSeq(s, 1, j) = Append(SubSeq(s, 1, j - 1), s[j])
        BY <1>1, <3>1
      <3>7. c \o SubSeq(s, 1, j) = Append(c \o SubSeq(s, 1, j - 1), s[j])
        <4>1. \A v \in Seq(Chars), x \in Chars : c \o Append(v, x) = Append(c \o v, x)
          BY <3>5
        <4> QED
          BY <3>6, <4>1
      <3>8. u[n] = Typed(u[n - 1], all[n])
        BY <3>2, <3>3, <3>4, <3>6, <3>7 DEF Typed
      <3>9. u[n] \in Seq(Chars)
        BY <3>2, <3>5, <3>6
      <3> QED
        BY <3>1, <3>8, <3>9
    <2> QED
      BY <1>1, <1>4, <2>1, <2>2, <2>3
  <1>9. Trace(u, line, all)
    <2>1. u = [n \in 0..Len(all) |-> IF n = 0 THEN line ELSE Typed(u[n - 1], all[n])]
      <3>1. \A n \in 0..Len(all) : u[n] = IF n = 0 THEN line ELSE Typed(u[n - 1], all[n])
        BY <1>8
      <3> QED
        BY <1>7, <3>1
    <2> QED
      BY <1>8, <2>1 DEF Trace
  <1>10. u[Len(all)] = Cut(last, k) \o s
    <2> DEFINE n == Len(all)
    <2>1. n \in 0..Len(all) /\ n = l + k + Len(s)
      BY <1>1, <1>4
    <2>2. CASE Len(s) # 0
      <3>1. ~(n <= l) /\ ~(n <= l + k) /\ n - (l + k) = Len(s) /\ SubSeq(s, 1, Len(s)) = s
        BY <1>1, <2>1, <2>2
      <3> QED
        BY <1>7, <2>1, <3>1
    <2>3. CASE Len(s) = 0
      <3>1. s = <<>> /\ Cut(last, k) \in Seq(Chars)
        BY <1>c, <2>3
      <3>2. Cut(last, k) \o s = Cut(last, k)
        BY <3>1
      <3>3. CASE k = 0
        <4>1. n = l /\ n <= l
          BY <1>1, <2>1, <2>3, <3>3
        <4> QED
          BY <1>c, <1>7, <2>1, <3>2, <3>3, <4>1 DEF last
      <3>4. CASE k # 0
        <4>1. ~(n <= l) /\ n <= l + k /\ n - l = k
          BY <1>1, <2>1, <2>3, <3>4
        <4> QED
          BY <1>7, <2>1, <3>2, <4>1
      <3> QED
        BY <3>3, <3>4
    <2> QED
      BY <2>2, <2>3
  <1> QED
    <2>1. AllKeys(keys, k, s) = all
      BY DEF AllKeys, all, more, back
    <2> QED
      BY <1>4, <1>9, <1>10, <2>1 DEF last, l, Lead

-----------------------------------------------------------------------------
(***************************************************************************)
(* The actions.                                                            *)
(***************************************************************************)

\* An edit keeps what was filled up to the first change, and no further.
LEMMA EditKeeps ==
  ASSUME NEW last \in Seq(Chars), NEW text \in Seq(Chars), NEW n \in 0..Len(last), n <= Len(text),
         \A i \in 1..n : text[i] = last[i],
         \A i \in (n + 1)..Len(text) : text[i] \in Letters \cup Keyless
  PROVE  LET m == Same(text, last)
         IN  /\ m \in 0..Len(text) /\ m <= Len(last) /\ n <= m
             /\ \A i \in 1..m : text[i] = last[i]
             /\ \A i \in (m + 1)..Len(text) :
                  text[i] \in Letters \cup Keyless /\ text[i] # Filler /\ text[i] # Backspace
  <1> DEFINE m == Same(text, last)
  <1>1. Len(text) \in Nat /\ Len(last) \in Nat
    OBVIOUS
  <1>2. /\ m \in 0..Len(text) /\ m <= Len(last) /\ \A i \in 1..m : text[i] = last[i]
        /\ m = Len(text) \/ m = Len(last) \/ text[m + 1] # last[m + 1]
    BY SameFacts
  <1> HIDE DEF m
  <1>3. n <= m
    <2> SUFFICES ASSUME m < n PROVE FALSE
      BY <1>1, <1>2
    <2>1. m # Len(text) /\ m # Len(last) /\ m + 1 \in 1..n
      BY <1>1, <1>2
    <2> QED
      BY <1>2, <2>1
  <1>4. ASSUME NEW i \in (m + 1)..Len(text)
        PROVE  text[i] \in Letters \cup Keyless /\ text[i] # Filler /\ text[i] # Backspace
    <2>1. i \in (n + 1)..Len(text)
      BY <1>1, <1>2, <1>3
    <2> QED
      BY <2>1, TypingAssumption
  <1> QED
    BY <1>2, <1>3, <1>4 DEF m

\* The Backspaces and the characters of an edit bring the line back in step
\* with the field.
LEMMA EditMirrors ==
  ASSUME NEW last \in Seq(Chars), NEW text \in Seq(Chars), NEW line \in Seq(Chars),
         NEW f \in 0..Len(last), FilledTo(last, f), EndsWith(line, last, f),
         NEW m \in 0..Len(text), m <= Len(last), \A i \in 1..m : text[i] = last[i],
         \A i \in (m + 1)..Len(text) : text[i] # Filler
  PROVE  \E g \in 0..Len(text) :
           /\ FilledTo(text, g)
           /\ EndsWith(Cut(line, Len(last) - m) \o SubSeq(text, m + 1, Len(text)), text, g)
  <1> DEFINE k == Len(last) - m
             c == Cut(line, k)
             s == SubSeq(text, m + 1, Len(text))
             new == c \o s
             g == IF f <= m THEN f ELSE m
  <1>1. Len(text) \in Nat /\ Len(last) \in Nat /\ Len(line) \in Nat /\ k \in Nat
    OBVIOUS
  <1>2. /\ c \in Seq(Chars) /\ Len(c) = IF k <= Len(line) THEN Len(line) - k ELSE 0
        /\ \A i \in 1..Len(c) : c[i] = line[i]
    BY <1>1, CutFacts
  <1>3. s \in Seq(Chars) /\ Len(s) = Len(text) - m /\ \A i \in 1..Len(s) : s[i] = text[m + i]
    BY RestOf
  <1> HIDE DEF c, s
  <1>4. /\ new \in Seq(Chars) /\ Len(new) = Len(c) + Len(s)
        /\ \A i \in 1..Len(c) : new[i] = c[i]
        /\ \A i \in 1..Len(s) : new[Len(c) + i] = s[i]
    BY <1>2, <1>3, Joins
  <1> HIDE DEF new
  <1>5. Len(c) \in Nat /\ Len(s) \in Nat /\ Len(new) \in Nat
    BY <1>2, <1>3, <1>4
  <1>6. /\ g \in 0..Len(text) /\ g <= f /\ g <= m
        /\ f <= m => g = f
        /\ ~(f <= m) => g = m
    BY <1>1
  <1>k. k = Len(last) - m
    OBVIOUS
  <1>a. Len(text) \in Nat /\ m \in 0..Len(text) /\ Len(s) = Len(text) - m
    BY <1>1, <1>3
  <1>b. ASSUME NEW i \in (m + 1)..Len(text) PROVE new[Len(new) - Len(text) + i] = text[i]
    <2>1. /\ i - m \in 1..(Len(text) - m) /\ m + (i - m) = i
          /\ (Len(c) + (Len(text) - m)) - Len(text) + i = Len(c) + (i - m)
      BY ONLY <1>5, <1>a, i \in (m + 1)..Len(text), Behind
    <2>2. Len(new) = Len(c) + (Len(text) - m) /\ i - m \in 1..Len(s)
      BY <1>4, <1>a, <2>1
    <2>3. new[Len(c) + (i - m)] = s[i - m] /\ s[i - m] = text[m + (i - m)]
      BY <1>3, <1>4, <2>2
    <2> QED
      BY <2>1, <2>2, <2>3
  <1> HIDE DEF g, k
  <1>7. FilledTo(text, g)
    <2>1. ASSUME NEW i \in 1..g PROVE text[i] = Filler
      <3>1. i \in 1..m /\ i \in 1..f
        BY <1>1, <1>6
      <3> QED
        BY <3>1 DEF FilledTo
    <2>2. ASSUME NEW i \in (g + 1)..Len(text) PROVE text[i] # Filler
      <3>1. CASE i <= m
        <4>1. i \in 1..m /\ i \in (f + 1)..Len(last)
          BY <1>1, <1>6, <3>1
        <4> QED
          BY <4>1 DEF FilledTo
      <3>2. CASE ~(i <= m)
        <4>1. i \in (m + 1)..Len(text)
          BY <1>1, <1>6, <3>2
        <4> QED
          BY <4>1
      <3> QED
        BY <3>1, <3>2
    <2> QED
      BY <1>6, <2>1, <2>2 DEF FilledTo
  <1>8. EndsWith(new, text, g)
    <2>1. Len(last) - f <= Len(line)
      BY DEF EndsWith
    <2>2. CASE f <= m
      <3>1. /\ g = f /\ k <= Len(line) /\ Len(c) = Len(line) - k /\ m - f <= Len(c)
            /\ Len(new) - Len(text) = Len(line) - Len(last)
            /\ Len(text) - g <= Len(new)
        BY <1>1, <1>2, <1>3, <1>4, <1>5, <1>6, <1>k, <2>1, <2>2
      <3>2. ASSUME NEW i \in (g + 1)..Len(text) PROVE new[Len(new) - Len(text) + i] = text[i]
        <4>1. CASE i <= m
          <5>1. i \in (f + 1)..Len(last) /\ i \in 1..m
            BY ONLY <1>1, <1>6, <1>a, <3>1, <4>1, i \in (g + 1)..Len(text), f \in 0..Len(last), m <= Len(last)
          <5>2. Len(line) - Len(last) + i \in 1..Len(c)
            BY ONLY <1>1, <1>k, <1>a, <2>1, <3>1, <5>1, f \in 0..Len(last), m <= Len(last)
          <5>3. Len(new) - Len(text) + i = Len(line) - Len(last) + i
            BY <3>1
          <5>4. line[Len(line) - Len(last) + i] = last[i]
            BY <5>1 DEF EndsWith
          <5> QED
            BY <1>2, <1>4, <5>1, <5>2, <5>3, <5>4
        <4>2. CASE ~(i <= m)
          <5>1. i \in (m + 1)..Len(text)
            BY ONLY <1>6, <1>a, <4>2, i \in (g + 1)..Len(text)
          <5> QED
            BY <1>b, <5>1
        <4> QED
          BY <4>1, <4>2
      <3> QED
        BY <3>1, <3>2 DEF EndsWith
    <2>3. CASE ~(f <= m)
      <3>1. g = m /\ Len(new) - Len(text) = Len(c) - m /\ Len(text) - g <= Len(new)
        BY <1>1, <1>3, <1>4, <1>5, <1>6, <2>3
      <3>2. ASSUME NEW i \in (g + 1)..Len(text) PROVE new[Len(new) - Len(text) + i] = text[i]
        <4>1. i \in (m + 1)..Len(text)
          BY <3>1
        <4> QED
          BY <1>b, <4>1
      <3> QED
        BY <3>1, <3>2 DEF EndsWith
    <2> QED
      BY <2>2, <2>3
  <1> QED
    BY <1>6, <1>7, <1>8 DEF new, c, s, k

\* A field of fillers only shows nothing, so any line ends in it.
LEMMA FilledEnds ==
  ASSUME NEW line \in Seq(Chars)
  PROVE  /\ Filled \in Seq(Chars) /\ Len(Filled) = FillLength
         /\ FillLength \in 0..Len(Filled)
         /\ FilledTo(Filled, FillLength) /\ EndsWith(line, Filled, FillLength)
  <1>1. FillLength \in Nat /\ Filler \in Chars
    BY TypingAssumption DEF Chars
  <1>2. /\ Filled \in Seq(Chars) /\ Len(Filled) = FillLength
        /\ \A i \in 1..FillLength : Filled[i] = Filler
    BY <1>1 DEF Filled
  <1>3. Len(line) \in Nat
    OBVIOUS
  <1>4. FilledTo(Filled, FillLength)
    BY <1>1, <1>2 DEF FilledTo
  <1>5. EndsWith(line, Filled, FillLength)
    BY <1>1, <1>2, <1>3 DEF EndsWith
  <1> QED
    BY <1>1, <1>2, <1>4, <1>5

\* An edit is a text of characters the layout knows behind a kept beginning.
LEMMA EditFacts ==
  ASSUME lastText \in Seq(Chars), NEW text \in Edits
  PROVE  /\ text \in Seq(Chars)
         /\ \E n \in 0..Len(lastText) :
              /\ n <= Len(text) /\ \A i \in 1..n : text[i] = lastText[i]
              /\ \A i \in (n + 1)..Len(text) : text[i] \in Letters \cup Keyless
  <1>a. PICK k \in 0..MaxNew : \E s \in [1..k -> Letters \cup Keyless] : \E n \in 0..Len(lastText) :
          text = SubSeq(lastText, 1, n) \o s
    BY DEF Edits
  <1>1. PICK s \in [1..k -> Letters \cup Keyless], n \in 0..Len(lastText) :
          text = SubSeq(lastText, 1, n) \o s
    BY <1>a
  <1> DEFINE b == SubSeq(lastText, 1, n)
  <1>2. k \in Nat /\ Len(lastText) \in Nat
    BY TypingAssumption
  <1>3. s \in Seq(Chars) /\ Len(s) = k /\ \A i \in 1..k : s[i] \in Letters \cup Keyless
    BY <1>2 DEF Chars
  <1>4. b \in Seq(Chars) /\ Len(b) = n /\ \A i \in 1..n : b[i] = lastText[i]
    BY <1>2
  <1>b. text = b \o s
    BY <1>1
  <1> HIDE DEF b
  <1>5. /\ text \in Seq(Chars) /\ Len(text) = n + k
        /\ \A i \in 1..n : text[i] = b[i]
        /\ \A i \in 1..k : text[n + i] = s[i]
    <2>1. /\ b \o s \in Seq(Chars) /\ Len(b \o s) = Len(b) + Len(s)
          /\ \A i \in 1..Len(b) : (b \o s)[i] = b[i]
          /\ \A i \in 1..Len(s) : (b \o s)[Len(b) + i] = s[i]
      BY <1>3, <1>4, Joins
    <2> QED
      BY <1>b, <1>3, <1>4, <2>1
  <1>6. ASSUME NEW i \in (n + 1)..Len(text) PROVE text[i] \in Letters \cup Keyless
    <2>1. i - n \in 1..k /\ n + (i - n) = i
      BY <1>2, <1>5
    <2> QED
      BY <1>3, <1>5, <2>1
  <1>7. n <= Len(text) /\ \A i \in 1..n : text[i] = lastText[i]
    BY <1>2, <1>4, <1>5
  <1> QED
    BY <1>5, <1>6, <1>7

\* A key leaves a text on the line.
LEMMA TypedIs ==
  ASSUME NEW line \in Seq(Chars), NEW x \in Chars
  PROVE  Typed(line, x) \in Seq(Chars)
  <1>1. Len(line) \in Nat
    OBVIOUS
  <1>2. SubSeq(line, 1, Len(line) - 1) \in Seq(Chars)
    BY <1>1
  <1>3. Append(line, x) \in Seq(Chars)
    OBVIOUS
  <1> QED
    BY <1>2, <1>3 DEF Typed

\* Every line and all keys have their lines in between: there is no least number
\* of keys that has not.
LEMMA TraceExists ==
  ASSUME NEW line \in Seq(Chars), NEW keys \in Seq(Chars)
  PROVE  \E t : Trace(t, line, keys)
  <1> DEFINE Upto(t, m) == /\ t = [n \in 0..m |-> IF n = 0 THEN line ELSE Typed(t[n - 1], keys[n])]
                           /\ \A n \in 0..m : t[n] \in Seq(Chars)
             S == {m \in 0..Len(keys) : ~(\E t : Upto(t, m))}
  <1>1. Len(keys) \in Nat /\ \A n \in 1..Len(keys) : keys[n] \in Chars
    OBVIOUS
  <1>2. CASE S # {}
    <2>1. S \in SUBSET Nat
      BY <1>1
    <2>2. PICK m \in S : \A k \in S : m <= k
      BY <1>2, <2>1, LeastNumber
    <2>3. m \in 0..Len(keys) /\ ~(\E t : Upto(t, m)) /\ m \in Nat
      BY <1>1, <2>2
    <2>4. CASE m = 0
      <3> DEFINE t == [n \in 0..m |-> line]
      <3>1. \A n \in 0..m : n = 0 /\ t[n] = line
        BY <2>4
      <3>2. t = [n \in 0..m |-> IF n = 0 THEN line ELSE Typed(t[n - 1], keys[n])]
        BY <3>1
      <3>3. \A n \in 0..m : t[n] \in Seq(Chars)
        BY <3>1
      <3> HIDE DEF t
      <3>4. Upto(t, m)
        BY <3>2, <3>3
      <3> QED
        BY <2>3, <3>4
    <2>5. CASE m # 0
      <3>1. m - 1 \in 0..Len(keys) /\ ~(m <= m - 1) /\ m \in 1..Len(keys)
        BY <1>1, <2>3, <2>5
      <3>2. PICK t : Upto(t, m - 1)
        BY <2>2, <3>1
      <3> DEFINE v == Typed(t[m - 1], keys[m])
                 u == [n \in 0..m |-> IF n = m THEN v ELSE t[n]]
      <3>3. t[m - 1] \in Seq(Chars) /\ v \in Seq(Chars)
        <4>1. m - 1 \in 0..(m - 1)
          BY <3>1
        <4>2. t[m - 1] \in Seq(Chars)
          BY <3>2, <4>1
        <4> QED
          BY <1>1, <3>1, <4>2, TypedIs
      <3>4. /\ u = [n \in 0..m |-> u[n]]
            /\ \A n \in 0..m : u[n] = IF n = m THEN v ELSE t[n]
        OBVIOUS
      <3>5. v = Typed(t[m - 1], keys[m])
        OBVIOUS
      <3> HIDE DEF u, v
      <3>6. ASSUME NEW n \in 0..m
            PROVE  u[n] \in Seq(Chars) /\ u[n] = IF n = 0 THEN line ELSE Typed(u[n - 1], keys[n])
        <4>1. CASE n = m
          <5>1. m - 1 \in 0..m /\ m - 1 # m /\ n # 0
            BY <2>3, <2>5, <4>1
          <5>2. u[m - 1] = t[m - 1]
            BY <3>4, <5>1
          <5> QED
            BY <3>3, <3>4, <3>5, <4>1, <5>1, <5>2
        <4>2. CASE n # m
          <5>1. n \in 0..(m - 1) /\ u[n] = t[n]
            BY <2>3, <3>4, <4>2
          <5>2. t[n] \in Seq(Chars) /\ t[n] = IF n = 0 THEN line ELSE Typed(t[n - 1], keys[n])
            BY <3>2, <5>1
          <5>3. n # 0 => n - 1 \in 0..m /\ n - 1 # m
            BY <2>3, <5>1
          <5>4. n # 0 => u[n - 1] = t[n - 1]
            BY <3>4, <5>3
          <5> QED
            BY <5>1, <5>2, <5>4
        <4> QED
          BY <4>1, <4>2
      <3>7. u = [n \in 0..m |-> IF n = 0 THEN line ELSE Typed(u[n - 1], keys[n])]
        <4>1. \A n \in 0..m : u[n] = IF n = 0 THEN line ELSE Typed(u[n - 1], keys[n])
          BY <3>6
        <4> QED
          BY <3>4, <4>1
      <3>8. Upto(u, m)
        BY <3>6, <3>7
      <3> QED
        BY <2>3, <3>8
    <2> QED
      BY <2>4, <2>5
  <1>3. CASE S = {}
    <2>1. Len(keys) \in 0..Len(keys)
      BY <1>1
    <2>2. PICK t : Upto(t, Len(keys))
      BY <1>3, <2>1
    <2>3. Trace(t, line, keys)
      BY <2>2 DEF Trace
    <2> QED
      BY <2>3
  <1> QED
    BY <1>2, <1>3

LEMMA InputStep ==
  ASSUME TypInv, NEW text \in Edits, Input(text)
  PROVE  TypInv'
  <1> DEFINE m == Same(text, lastText)
             k == Len(lastText) - m
             s == SubSeq(text, m + 1, Len(text))
             back == [i \in 1..k |-> Backspace]
             more == back \o s
             refused == \E i \in DOMAIN more : more[i] \in Keyless
  <1>1. lastText \in Seq(Chars) /\ typing \in Seq(Chars) /\ vmText \in Seq(Chars)
    BY DEF TypInv
  <1>2. text \in Seq(Chars)
    BY <1>1, EditFacts
  <1>3. PICK n \in 0..Len(lastText) :
          /\ n <= Len(text) /\ \A i \in 1..n : text[i] = lastText[i]
          /\ \A i \in (n + 1)..Len(text) : text[i] \in Letters \cup Keyless
    BY <1>1, EditFacts
  <1>4. /\ m \in 0..Len(text) /\ m <= Len(lastText)
        /\ \A i \in 1..m : text[i] = lastText[i]
        /\ \A i \in (m + 1)..Len(text) :
             text[i] \in Letters \cup Keyless /\ text[i] # Filler /\ text[i] # Backspace
    BY <1>1, <1>2, <1>3, EditKeeps
  <1>5. /\ Change(text) = more
        /\ typing' = IF refused THEN typing ELSE typing \o more
        /\ lastText' = IF refused THEN lastText
                       ELSE IF text = <<>> \/ Len(text) > MaxLength THEN Filled ELSE text
        /\ vmText' = vmText
        /\ apart' = (apart /\ (refused \/ ~(text = <<>> \/ Len(text) > MaxLength)))
    BY DEF Input, Change, TypeText, Refused, Refills
  <1> HIDE DEF m, refused
  <1>6. k \in Nat /\ s \in Seq(Chars) /\ \A i \in 1..Len(s) : s[i] # Backspace
    <2>1. Len(text) \in Nat /\ Len(lastText) \in Nat
      BY <1>1, <1>2
    <2>2. s \in Seq(Chars) /\ Len(s) = Len(text) - m /\ \A i \in 1..Len(s) : s[i] = text[m + i]
      BY <1>2, <1>4, RestOf
    <2>3. \A i \in 1..Len(s) : m + i \in (m + 1)..Len(text)
      BY <1>4, <2>1, <2>2
    <2> QED
      BY <1>4, <2>1, <2>2, <2>3
  <1> HIDE DEF k, s
  <1>7. back \in Seq(Chars)
    <2>1. Backspace \in Chars
      BY DEF Chars
    <2> QED
      BY <1>6, <2>1
  <1>8. typing \o more \in Seq(Chars)
    <2> HIDE DEF back
    <2>1. more \in Seq(Chars)
      BY <1>6, <1>7, Joins
    <2> QED
      BY <1>1, <2>1, Joins
  <1>9. CASE refused
    <2>1. typing' = typing /\ lastText' = lastText /\ (~apart' => ~apart)
      BY <1>5, <1>9
    <2> QED
      BY <1>5, <2>1 DEF TypInv
  <1>10. CASE ~refused
    <2>1. typing' = typing \o more
      BY <1>5, <1>10
    <2>2. lastText' = Filled \/ lastText' = text
      BY <1>5, <1>10
    <2>3. lastText' \in Seq(Chars) /\ typing' \in Seq(Chars) /\ vmText' \in Seq(Chars)
      BY <1>1, <1>2, <1>5, <1>8, <2>1, <2>2, FilledEnds
    <2>4. ASSUME ~apart
          PROVE  \E t : \E f \in 0..Len(lastText') : Mirrors(t, vmText', typing', lastText', f)
      <3>1. PICK t : \E f \in 0..Len(lastText) : Mirrors(t, vmText, typing, lastText, f)
        BY <2>4 DEF TypInv
      <3>2. PICK f \in 0..Len(lastText) : Mirrors(t, vmText, typing, lastText, f)
        BY <3>1
      <3> DEFINE last == t[Len(typing)]
                 all == AllKeys(typing, k, s)
      <3>3. /\ Trace(t, vmText, typing) /\ FilledTo(lastText, f) /\ EndsWith(last, lastText, f)
        BY <3>2 DEF Mirrors
      <3>4. last \in Seq(Chars)
        <4>1. Len(typing) \in 0..Len(typing)
          BY <1>1
        <4> QED
          BY <3>3, <4>1 DEF Trace
      <3>a. all \in Seq(Chars)
        BY <1>1, <1>6, <3>3, TraceGoesOn
      <3>b. Lead(t, vmText, typing, k, s)
        BY <1>1, <1>6, <3>3, TraceGoesOn
      <3>5. PICK u : Trace(u, vmText, all) /\ u[Len(all)] = Cut(last, k) \o s
        BY <3>b, Zenon DEF Lead
      <3>6. \E g \in 0..Len(text) : FilledTo(text, g) /\ EndsWith(Cut(last, k) \o s, text, g)
        <4> HIDE DEF last
        <4> QED
          BY <1>1, <1>2, <1>4, <3>3, <3>4, EditMirrors DEF k, s
      <3>7. u[Len(all)] \in Seq(Chars)
        <4> HIDE DEF all
        <4>1. Len(all) \in 0..Len(all)
          BY <3>a
        <4> QED
          BY <3>5, <4>1 DEF Trace
      <3> HIDE DEF last, all
      <3>8. \E g \in 0..Len(lastText') : FilledTo(lastText', g) /\ EndsWith(u[Len(all)], lastText', g)
        <4>1. CASE lastText' = Filled
          BY <3>7, <4>1, FilledEnds
        <4>2. CASE lastText' = text
          BY <3>5, <3>6, <4>2
        <4> QED
          BY <2>2, <4>1, <4>2
      <3>9. typing' = all
        BY <2>1 DEF all, AllKeys
      <3>10. \E g \in 0..Len(lastText') : Mirrors(u, vmText', typing', lastText', g)
        BY <1>5, <3>5, <3>8, <3>9 DEF Mirrors
      <3> QED
        BY <3>10
    <2>5. ASSUME apart, ~apart'
          PROVE  \E t : \E f \in 0..Len(lastText') : Mirrors(t, vmText', typing', lastText', f)
      <3>1. lastText' = Filled
        BY <1>5, <1>10, <2>5
      <3>2. PICK t : Trace(t, vmText', typing')
        BY <2>3, TraceExists
      <3>3. t[Len(typing')] \in Seq(Chars)
        <4>1. Len(typing') \in 0..Len(typing')
          BY <2>3
        <4> QED
          BY <3>2, <4>1 DEF Trace
      <3>4. FillLength \in 0..Len(lastText') /\ Mirrors(t, vmText', typing', lastText', FillLength)
        BY <3>1, <3>2, <3>3, FilledEnds DEF Mirrors
      <3> QED
        BY <3>4
    <2> QED
      BY <2>3, <2>4, <2>5 DEF TypInv
  <1> QED
    BY <1>9, <1>10

LEMMA TypeClipboardStep ==
  ASSUME TypInv, NEW text \in [1..MaxNew -> Letters \cup Keyless], TypeClipboard(text)
  PROVE  TypInv'
  <1>1. text \in Seq(Chars)
    BY TypingAssumption DEF Chars
  <1>2. typing \in Seq(Chars) /\ typing' \in Seq(Chars)
    <2>1. typing' = typing \/ typing' = typing \o text
      BY DEF TypeClipboard, TypeText
    <2> QED
      BY <1>1, <2>1, Joins DEF TypInv
  <1>3. lastText' = lastText /\ vmText' = vmText /\ (~apart' => ~apart /\ typing' = typing)
    BY DEF TypeClipboard
  <1> QED
    BY <1>2, <1>3 DEF TypInv

\* A typed key: the lines to come are those to come but the first.
LEMMA TypeKeysStep ==
  ASSUME TypInv, TypeKeys
  PROVE  TypInv'
  <1>1. /\ lastText \in Seq(Chars) /\ typing \in Seq(Chars) /\ vmText \in Seq(Chars)
        /\ typing # <<>>
    BY DEF TypInv, TypeKeys
  <1>2. /\ typing' = Tail(typing) /\ lastText' = lastText
        /\ vmText' = IF deaf THEN vmText ELSE Typed(vmText, Head(typing))
        /\ ~apart' => ~apart /\ ~deaf
    BY DEF TypeKeys
  <1>3. /\ Tail(typing) \in Seq(Chars) /\ Len(Tail(typing)) = Len(typing) - 1
        /\ Len(typing) \in Nat /\ Len(typing) # 0 /\ Head(typing) = typing[1] /\ Head(typing) \in Chars
        /\ \A i \in 1..(Len(typing) - 1) : Tail(typing)[i] = typing[i + 1]
    BY <1>1
  <1>4. vmText' \in Seq(Chars)
    BY <1>1, <1>2, <1>3, TypedIs
  <1>5. ASSUME ~apart, ~deaf
        PROVE  \E t : \E f \in 0..Len(lastText') : Mirrors(t, vmText', typing', lastText', f)
    <2>1. PICK t : \E f \in 0..Len(lastText) : Mirrors(t, vmText, typing, lastText, f)
      BY <1>5 DEF TypInv
    <2>2. PICK f \in 0..Len(lastText) : Mirrors(t, vmText, typing, lastText, f)
      BY <2>1
    <2> DEFINE l == Len(typing)
               keys == Tail(typing)
               line == Typed(vmText, Head(typing))
               u == [n \in 0..(l - 1) |-> t[n + 1]]
    <2>3. /\ t = [n \in 0..l |-> IF n = 0 THEN vmText ELSE Typed(t[n - 1], typing[n])]
          /\ \A n \in 0..l : t[n] \in Seq(Chars)
          /\ FilledTo(lastText, f) /\ EndsWith(t[l], lastText, f)
      BY <2>2 DEF Mirrors, Trace
    <2>4. /\ u = [n \in 0..(l - 1) |-> u[n]]
          /\ \A n \in 0..(l - 1) : u[n] = t[n + 1]
      OBVIOUS
    <2>5. /\ keys \in Seq(Chars) /\ Len(keys) = l - 1 /\ l \in Nat /\ l # 0
          /\ \A i \in 1..(l - 1) : keys[i] = typing[i + 1]
      BY <1>3
    <2>6. 0 \in 0..l /\ 1 \in 0..l /\ 1 - 1 = 0
      BY <2>5
    <2>7. t[0] = vmText /\ t[1] = Typed(vmText, typing[1])
      <3>1. t[0] = vmText
        BY <2>3, <2>6
      <3>2. t[1] = Typed(t[1 - 1], typing[1])
        BY <2>3, <2>6
      <3> QED
        BY <2>6, <3>1, <3>2
    <2> HIDE DEF u, keys
    <2>8. ASSUME NEW n \in 0..(l - 1)
          PROVE  u[n] \in Seq(Chars) /\ u[n] = IF n = 0 THEN line ELSE Typed(u[n - 1], keys[n])
      <3>1. n + 1 \in 0..l /\ n + 1 # 0 /\ (n + 1) - 1 = n
        BY <2>5
      <3>2. u[n] = t[n + 1] /\ t[n + 1] \in Seq(Chars)
        BY <2>3, <2>4, <3>1
      <3>3. CASE n = 0
        BY <1>3, <2>7, <3>2, <3>3
      <3>4. CASE n # 0
        <4>1. n - 1 \in 0..(l - 1) /\ (n - 1) + 1 = n /\ n \in 1..(l - 1)
          BY <2>5, <3>4
        <4>2. t[n + 1] = Typed(t[(n + 1) - 1], typing[n + 1])
          BY <2>3, <3>1
        <4>3. u[n - 1] = t[n] /\ keys[n] = typing[n + 1]
          BY <2>4, <2>5, <4>1
        <4> QED
          BY <3>1, <3>2, <3>4, <4>2, <4>3
      <3> QED
        BY <3>3, <3>4
    <2>9. Trace(u, line, keys)
      <3>1. \A n \in 0..(l - 1) : u[n] = IF n = 0 THEN line ELSE Typed(u[n - 1], keys[n])
        BY <2>8
      <3>2. u = [n \in 0..(l - 1) |-> IF n = 0 THEN line ELSE Typed(u[n - 1], keys[n])]
        BY <2>4, <3>1
      <3> QED
        BY <2>5, <2>8, <3>2 DEF Trace
    <2>10. u[Len(keys)] = t[l]
      <3>1. l - 1 \in 0..(l - 1) /\ (l - 1) + 1 = l
        BY <2>5
      <3> QED
        BY <2>4, <2>5, <3>1
    <2>11. vmText' = line /\ typing' = keys
      BY <1>2, <1>5 DEF keys
    <2>12. Mirrors(u, vmText', typing', lastText', f)
      BY <1>2, <2>3, <2>9, <2>10, <2>11 DEF Mirrors
    <2> QED
      BY <1>2, <2>12
  <1> QED
    BY <1>1, <1>2, <1>3, <1>4, <1>5 DEF TypInv

\* A key event sets the line apart, unless view-only drops it.
LEMMA KeyEventStep ==
  ASSUME TypInv, NEW character \in Letters \cup {Backspace}, KeyEvent(character)
  PROVE  TypInv'
  <1>1. lastText' = lastText /\ typing' = typing
    BY DEF KeyEvent
  <1>2. CASE deaf
    <2>1. vmText' = vmText /\ (~apart' => ~apart)
      BY <1>2 DEF KeyEvent
    <2> QED
      BY <1>1, <2>1 DEF TypInv
  <1>3. CASE ~deaf
    <2>1. vmText' = Typed(vmText, character) /\ apart'
      BY <1>3 DEF KeyEvent
    <2>2. character \in Chars /\ vmText \in Seq(Chars)
      BY DEF Chars, TypInv
    <2> QED
      BY <1>1, <2>1, <2>2, TypedIs DEF TypInv
  <1> QED
    BY <1>2, <1>3

LEMMA TypInitInv ==
  TypInit => TypInv
  <1> SUFFICES ASSUME TypInit PROVE TypInv
    OBVIOUS
  <1>1. MaxEdits * MaxLength \in Nat /\ Filler \in Chars
    BY TypingAssumption DEF Chars
  <1>2. \A S : <<>> \in Seq(S)
    OBVIOUS
  <1>3. lastText = Filled /\ typing = <<>> /\ vmText = [i \in 1..(MaxEdits * MaxLength) |-> Filler]
    BY DEF TypInit
  <1>4. vmText \in Seq(Chars)
    BY <1>1, <1>3
  <1>5. lastText \in Seq(Chars) /\ typing \in Seq(Chars)
    BY <1>2, <1>3, <1>4, FilledEnds
  <1> DEFINE t == [n \in 0..Len(typing) |-> vmText]
  <1>6. Len(typing) = 0
    BY <1>3
  <1>7. 0 \in 0..Len(typing) /\ \A n \in 0..Len(typing) : n = 0
    BY <1>6
  <1>8. t = [n \in 0..Len(typing) |-> IF n = 0 THEN vmText ELSE Typed(t[n - 1], typing[n])]
    BY <1>7
  <1>9. t[0] = vmText /\ \A n \in 0..Len(typing) : t[n] \in Seq(Chars)
    BY <1>4, <1>7
  <1> HIDE DEF t
  <1>10. Trace(t, vmText, typing)
    BY <1>8, <1>9 DEF Trace
  <1>11. /\ FillLength \in 0..Len(lastText)
         /\ Mirrors(t, vmText, typing, lastText, FillLength)
    BY <1>3, <1>4, <1>6, <1>9, <1>10, FilledEnds DEF Mirrors
  <1> QED
    BY <1>4, <1>5, <1>11 DEF TypInv

LEMMA TypStep ==
  TypInv /\ [TypNext]_typVars => TypInv'
  <1> SUFFICES ASSUME TypInv, [TypNext]_typVars PROVE TypInv'
    OBVIOUS
  <1>1. ASSUME NEW text \in Edits, Input(text) PROVE TypInv'
    BY <1>1, InputStep
  <1>2. ASSUME NEW text \in [1..MaxNew -> Letters \cup Keyless], TypeClipboard(text) PROVE TypInv'
    BY <1>2, TypeClipboardStep
  <1>3. CASE TypeKeys
    BY <1>3, TypeKeysStep
  <1>4. CASE SwitchViewOnly \/ UNCHANGED typVars
    <2>1. lastText' = lastText /\ typing' = typing /\ vmText' = vmText /\ apart' = apart
      BY <1>4 DEF SwitchViewOnly, typVars
    <2> QED
      BY <2>1 DEF TypInv
  <1>5. ASSUME NEW character \in Letters \cup {Backspace}, KeyEvent(character) PROVE TypInv'
    BY <1>5, KeyEventStep
  <1> QED
    BY <1>1, <1>2, <1>3, <1>4, <1>5 DEF TypNext

\* A line that ends in the text behind f has the text behind f as its suffix.
LEMMA EndsInSuffix ==
  ASSUME NEW line \in Seq(Chars), NEW text \in Seq(Chars), NEW f \in 0..Len(text),
         EndsWith(line, text, f)
  PROVE  IsSuffix(SubSeq(text, f + 1, Len(text)), line)
  <1> DEFINE s == SubSeq(text, f + 1, Len(text))
             rs == Reverse(s)
             rl == Reverse(line)
  <1>1. Len(text) \in Nat /\ Len(line) \in Nat
    OBVIOUS
  <1>2. s \in Seq(Chars) /\ Len(s) = Len(text) - f /\ \A i \in 1..Len(s) : s[i] = text[f + i]
    BY <1>1
  <1> HIDE DEF s
  <1>3. rs = [i \in 1..Len(s) |-> s[(Len(s) - i) + 1]] /\ rl = [i \in 1..Len(line) |-> line[(Len(line) - i) + 1]]
    BY DEF Reverse
  <1>4. Len(s) \in Nat /\ Len(s) <= Len(line)
    BY <1>1, <1>2 DEF EndsWith
  <1>5. rs \in Seq(Chars) /\ Len(rs) = Len(s) /\ \A i \in 1..Len(s) : rs[i] = s[(Len(s) - i) + 1]
    BY <1>2, <1>3, <1>4
  <1>6. rl \in Seq(Chars) /\ Len(rl) = Len(line) /\ \A i \in 1..Len(line) : rl[i] = line[(Len(line) - i) + 1]
    BY <1>1, <1>3
  <1> HIDE DEF rs, rl
  <1>7. ASSUME NEW i \in 1..Len(s) PROVE rs[i] = rl[i]
    <2> DEFINE j == Len(text) - i + 1
    <2>1. /\ (Len(s) - i) + 1 \in 1..Len(s) /\ f + ((Len(s) - i) + 1) = j
          /\ j \in (f + 1)..Len(text) /\ Len(line) - Len(text) + j = (Len(line) - i) + 1
          /\ i \in 1..Len(line)
      BY <1>1, <1>2, <1>4
    <2> HIDE DEF j
    <2>2. rs[i] = text[j]
      BY <1>2, <1>5, <2>1
    <2>3. rl[i] = line[Len(line) - Len(text) + j]
      BY <1>6, <2>1
    <2> QED
      BY <2>1, <2>2, <2>3 DEF EndsWith
  <1>8. IsPrefix(rs, rl)
    BY <1>4, <1>5, <1>6, <1>7 DEF IsPrefix
  <1> QED
    BY <1>8 DEF IsSuffix, rs, rl, s

LEMMA TypMirrors ==
  TypInv => FieldMirrorsVm
  <1> SUFFICES ASSUME TypInv, ~apart PROVE IsSuffix(Shown, LineAfter(vmText, typing))
    BY DEF FieldMirrorsVm
  <1>1. lastText \in Seq(Chars) /\ typing \in Seq(Chars)
    BY DEF TypInv
  <1>2. PICK t : \E f \in 0..Len(lastText) : Mirrors(t, vmText, typing, lastText, f)
    BY DEF TypInv
  <1>3. PICK f \in 0..Len(lastText) : Mirrors(t, vmText, typing, lastText, f)
    BY <1>2
  <1> DEFINE line == t[Len(typing)]
  <1>4. Trace(t, vmText, typing) /\ FilledTo(lastText, f) /\ EndsWith(line, lastText, f)
    BY <1>3 DEF Mirrors
  <1>5. line \in Seq(Chars)
    <2>1. Len(typing) \in 0..Len(typing)
      BY <1>1
    <2> QED
      BY <1>4, <2>1 DEF Trace
  <1>6. LineAfter(vmText, typing) = line
    BY <1>1, <1>4, TraceIs
  <1>7. Shown = SubSeq(lastText, f + 1, Len(lastText))
    BY <1>1, <1>4, ShownFacts
  <1> QED
    BY <1>1, <1>4, <1>5, <1>6, <1>7, EndsInSuffix

\* Once what is queued is typed, the VM's line ends in the text the field
\* shows, for every layout, every fill and every length of the field: the input
\* event types what changed since the last one, refuses an edit no key can type,
\* and fills the field anew only when the VM has what it showed.
THEOREM TypingTheorem ==
  TypSpec => []FieldMirrorsVm
  <1>1. TypInit => TypInv
    BY TypInitInv
  <1>2. TypInv /\ [TypNext]_typVars => TypInv'
    BY TypStep
  <1>3. TypInv => FieldMirrorsVm
    BY TypMirrors
  <1> QED
    BY <1>1, <1>2, <1>3, PTL DEF TypSpec

-----------------------------------------------------------------------------
(***************************************************************************)
(* The invariant of VncSend: while the socket is open the queue is empty   *)
(* between two messages, and what is on the wire are whole messages.       *)
(***************************************************************************)

MessageKinds ==
  {"keyEvent", "QEMUExtendedKeyEvent", "pointerEvent", "extendedPointerEvent", "setDesktopSize",
   "clientFence", "enableContinuousUpdates", "pixelFormat", "clientEncodings", "fbUpdateRequest",
   "xvpOp"} \cup CutTexts

AnyText == Texts \cup {NoText, Blurred}
Messages == [kind : MessageKinds, n : Nat, text : AnyText]
StreamBytes == [msg : Messages, i : Nat]

Queues == [buf : Seq(StreamBytes), len : Nat, wire : Seq(StreamBytes), open : BOOLEAN, hung : BOOLEAN]

\* Every byte of the stream lies in a whole message.
InWhole(w, j) ==
  LET m == w[j].msg
      start == j - w[j].i
  IN  /\ w[j].i \in 1..ProtocolSize(m) /\ start \in Nat /\ start + ProtocolSize(m) <= Len(w)
      /\ \A k \in 1..ProtocolSize(m) : w[start + k] = [msg |-> m, i |-> k]

WholeMessages(w) == \A j \in 1..Len(w) : InWhole(w, j)

\* Between two messages.
Rests(q) == q \in Queues /\ (q.open => q.buf = <<>> /\ q.len = 0 /\ ~q.hung)

InStep(q) == Rests(q) /\ WholeMessages(q.wire)

SndInv ==
  /\ InStep(sock) /\ ownText \in AnyText
  /\ vmServer \in [extended : BOOLEAN, known : BOOLEAN, garbled : {FALSE}]

\* The queue q, at bytes into message m that started at queue q0.
Under(q0, q, m, at) ==
  /\ q \in Queues /\ q.open = q0.open
  /\ ~q0.open => q.wire = q0.wire
  /\ q0.open => /\ ~q.hung /\ q.len = Len(q.buf) /\ q.len <= SQSize
                /\ q.wire \o q.buf = q0.wire \o Bytes(m, 0, at)

-----------------------------------------------------------------------------
(***************************************************************************)
(* The send queue.                                                         *)
(***************************************************************************)

LEMMA EmptyIsSeq ==
  \A S : <<>> \in Seq(S)
  OBVIOUS

\* Byte k of message m.
ByteAt(m, k) == [msg |-> m, i |-> k]

LEMMA BytesAre ==
  ASSUME NEW m \in Messages, NEW at \in Nat, NEW n \in Nat
  PROVE  /\ Bytes(m, at, n) \in Seq(StreamBytes) /\ Len(Bytes(m, at, n)) = n
         /\ \A i \in 1..n : Bytes(m, at, n)[i] = ByteAt(m, at + i)
  <1>1. Bytes(m, at, n) = [i \in 1..n |-> ByteAt(m, at + i)]
    BY DEF Bytes, ByteAt
  <1>2. \A i \in 1..n : ByteAt(m, at + i) \in StreamBytes
    BY DEF ByteAt, StreamBytes
  <1> QED
    BY <1>1, <1>2

LEMMA BytesFollow ==
  ASSUME NEW m \in Messages, NEW at \in Nat, NEW n \in Nat
  PROVE  Bytes(m, 0, at) \o Bytes(m, at, n) = Bytes(m, 0, at + n)
  <1> DEFINE x == Bytes(m, 0, at)
             y == Bytes(m, at, n)
             z == Bytes(m, 0, at + n)
  <1>1. 0 \in Nat /\ at + n \in Nat
    OBVIOUS
  <1>2. x \in Seq(StreamBytes) /\ Len(x) = at /\ \A i \in 1..at : x[i] = ByteAt(m, 0 + i)
    BY <1>1, BytesAre
  <1>3. y \in Seq(StreamBytes) /\ Len(y) = n /\ \A i \in 1..n : y[i] = ByteAt(m, at + i)
    BY BytesAre
  <1>4. z \in Seq(StreamBytes) /\ Len(z) = at + n /\ \A i \in 1..(at + n) : z[i] = ByteAt(m, 0 + i)
    BY <1>1, BytesAre
  <1> HIDE DEF x, y, z
  <1>5. /\ x \o y \in Seq(StreamBytes) /\ Len(x \o y) = at + n
        /\ \A i \in 1..(at + n) : (x \o y)[i] = IF i <= at THEN x[i] ELSE y[i - at]
    BY <1>2, <1>3, ConcatProperties
  <1>6. ASSUME NEW i \in 1..(at + n) PROVE (x \o y)[i] = z[i]
    <2>1. CASE i <= at
      <3>1. i \in 1..at
        BY <2>1
      <3> QED
        BY <1>2, <1>4, <1>5, <2>1, <3>1
    <2>2. CASE ~(i <= at)
      <3>1. i - at \in 1..n /\ at + (i - at) = i /\ 0 + i = i
        BY <2>2
      <3>2. (x \o y)[i] = y[i - at]
        BY <1>5, <2>2
      <3>3. y[i - at] = ByteAt(m, at + (i - at))
        BY <1>3, <3>1
      <3> QED
        BY <1>4, <3>1, <3>2, <3>3
    <2> QED
      BY <2>1, <2>2
  <1>7. x \o y = z
    BY <1>4, <1>5, <1>6, SeqEqual
  <1> QED
    BY <1>7 DEF x, y, z

\* A flush moves the queue to the wire.
LEMMA FlushFacts ==
  ASSUME NEW q \in Queues
  PROVE  /\ Flush(q) \in Queues /\ Flush(q).open = q.open /\ Flush(q).hung = q.hung
         /\ ~q.open => Flush(q).wire = q.wire /\ Flush(q).buf = q.buf /\ Flush(q).len = q.len
         /\ q.open /\ q.len > 0 => /\ Flush(q).wire = q.wire \o q.buf
                                   /\ Flush(q).buf = <<>> /\ Flush(q).len = 0
         /\ q.len = 0 => Flush(q) = q
  <1> DEFINE f == [q EXCEPT !.wire = @ \o q.buf, !.buf = <<>>, !.len = 0]
  <1>1. /\ q.buf \in Seq(StreamBytes) /\ q.len \in Nat /\ q.wire \in Seq(StreamBytes)
        /\ q.open \in BOOLEAN /\ q.hung \in BOOLEAN
    BY DEF Queues
  <1>2. q.wire \o q.buf \in Seq(StreamBytes) /\ <<>> \in Seq(StreamBytes)
    BY <1>1, EmptyIsSeq
  <1>3. /\ f.open = q.open /\ f.hung = q.hung /\ f.wire = q.wire \o q.buf /\ f.buf = <<>> /\ f.len = 0
    BY DEF Queues
  <1>4. f \in Queues
    BY <1>1, <1>2 DEF Queues
  <1>5. Flush(q) = IF q.len > 0 /\ q.open THEN f ELSE q
    BY DEF Flush
  <1> HIDE DEF f
  <1>6. CASE q.len > 0 /\ q.open
    <2>1. Flush(q) = f /\ q.len # 0
      BY <1>1, <1>5, <1>6
    <2> QED
      BY <1>3, <1>4, <1>6, <2>1
  <1>7. CASE ~(q.len > 0 /\ q.open)
    <2>1. Flush(q) = q
      BY <1>5, <1>7
    <2> QED
      BY <1>7, <2>1
  <1> QED
    BY <1>6, <1>7

\* _sQensureSpace makes room for a field of up to four bytes, whatever the
\* size of the queue, and puts nothing out of order.
LEMMA EnsureSpaceFacts ==
  ASSUME NEW q0 \in Queues, NEW q \in Queues, NEW m, NEW at, NEW n \in 1..4, Under(q0, q, m, at)
  PROVE  /\ Under(q0, EnsureSpace(q, n), m, at)
         /\ q0.open => EnsureSpace(q, n).len + n <= SQSize
  <1>1. /\ q.buf \in Seq(StreamBytes) /\ q.len \in Nat /\ q.wire \in Seq(StreamBytes)
        /\ q.open \in BOOLEAN /\ q.hung \in BOOLEAN /\ q0.open \in BOOLEAN
    BY DEF Queues
  <1>2. SQSize \in Nat /\ SQSize >= 4
    BY SendAssumption
  <1>3. q.open = q0.open
    BY DEF Under
  <1>4. CASE SQSize - q.len < n
    <2>1. EnsureSpace(q, n) = Flush(q)
      BY <1>4 DEF EnsureSpace
    <2>2. CASE ~q0.open
      <3>1. Flush(q) \in Queues /\ Flush(q).open = q.open /\ Flush(q).wire = q.wire
        BY <1>3, <2>2, FlushFacts
      <3> QED
        BY <1>3, <2>1, <2>2, <3>1 DEF Under
    <2>3. CASE q0.open
      <3>1. q.len > 0
        BY <1>1, <1>2, <1>4
      <3>2. /\ Flush(q) \in Queues /\ Flush(q).open = q.open /\ Flush(q).hung = q.hung
            /\ Flush(q).wire = q.wire \o q.buf /\ Flush(q).buf = <<>> /\ Flush(q).len = 0
        BY <1>3, <2>3, <3>1, FlushFacts
      <3>3. q.wire \o q.buf = q0.wire \o Bytes(m, 0, at) /\ ~q.hung
        BY <2>3 DEF Under
      <3>4. Flush(q).wire \o Flush(q).buf = q.wire \o q.buf
        <4>1. q.wire \o q.buf \in Seq(StreamBytes)
          BY <1>1
        <4>2. \A s \in Seq(StreamBytes) : s \o <<>> = s
          OBVIOUS
        <4> QED
          BY <3>2, <4>1, <4>2
      <3>5. Len(<<>>) = 0
        OBVIOUS
      <3>6. Flush(q).len = Len(Flush(q).buf) /\ Flush(q).len <= SQSize /\ Flush(q).len + n <= SQSize
        BY <1>2, <3>2, <3>5
      <3>7. Under(q0, Flush(q), m, at)
        BY <1>3, <2>3, <3>2, <3>3, <3>4, <3>6 DEF Under
      <3> QED
        BY <2>1, <3>6, <3>7
    <2> QED
      BY <2>2, <2>3
  <1>5. CASE ~(SQSize - q.len < n)
    <2>1. EnsureSpace(q, n) = q /\ q.len + n <= SQSize
      BY <1>1, <1>2, <1>5 DEF EnsureSpace
    <2> QED
      BY <2>1
  <1> QED
    BY <1>4, <1>5

\* Streams in a row.
LEMMA Chained ==
  ASSUME NEW a \in Seq(StreamBytes), NEW b \in Seq(StreamBytes), NEW c \in Seq(StreamBytes)
  PROVE  (a \o b) \o c = a \o (b \o c)
  BY ConcatAssociative

LEMMA InARow ==
  ASSUME NEW a \in Seq(StreamBytes), NEW b \in Seq(StreamBytes)
  PROVE  a \o b \in Seq(StreamBytes) /\ Len(a \o b) = Len(a) + Len(b)
  BY ConcatProperties

\* A queue with other bytes in it.
With(e, s, l) == [e EXCEPT !.buf = s, !.len = l]

Refilled(f, e, s, l) ==
  /\ f \in Queues /\ f.wire = e.wire /\ f.open = e.open /\ f.hung = e.hung
  /\ f.len = l /\ f.buf = s

LEMMA QueueWith ==
  ASSUME NEW e \in Queues, NEW s \in Seq(StreamBytes), NEW l \in Nat
  PROVE  Refilled(With(e, s, l), e, s, l)
  BY DEF Queues, With, Refilled

\* Bytes that fit go behind what is queued.
LEMMA Queued ==
  ASSUME NEW q0 \in Queues, NEW e \in Queues, NEW f \in Queues, NEW m \in Messages,
         NEW at \in Nat, NEW n \in Nat, Under(q0, e, m, at),
         f.open = e.open, f.hung = e.hung, f.wire = e.wire,
         q0.open => /\ e.len + n <= SQSize /\ f.len = e.len + n
                    /\ f.buf = e.buf \o Bytes(m, at, n)
  PROVE  Under(q0, f, m, at + n)
  <1> DEFINE b == Bytes(m, at, n)
             a == Bytes(m, 0, at)
             c == Bytes(m, 0, at + n)
  <1>1. /\ e.buf \in Seq(StreamBytes) /\ e.wire \in Seq(StreamBytes) /\ q0.wire \in Seq(StreamBytes)
        /\ e.len \in Nat /\ q0.open \in BOOLEAN
    BY DEF Queues
  <1>2. b \in Seq(StreamBytes) /\ Len(b) = n /\ a \in Seq(StreamBytes) /\ a \o b = c
    BY BytesAre, BytesFollow
  <1>3. f.open = q0.open /\ (~q0.open => f.wire = q0.wire)
    BY DEF Under
  <1>4. ASSUME q0.open
        PROVE  /\ ~f.hung /\ f.len = Len(f.buf) /\ f.len <= SQSize
               /\ f.wire \o f.buf = q0.wire \o c
    <2>1. /\ ~e.hung /\ e.len = Len(e.buf) /\ e.wire \o e.buf = q0.wire \o a
      BY <1>4 DEF Under
    <2>2. f.buf = e.buf \o b /\ f.len = e.len + n /\ f.len <= SQSize
      BY <1>4
    <2> HIDE DEF a, b, c
    <2> DEFINE x == e.buf
               w == e.wire
               v == q0.wire
    <2>a. x \in Seq(StreamBytes) /\ w \in Seq(StreamBytes) /\ v \in Seq(StreamBytes) /\ f.wire = w
          /\ e.len = Len(x) /\ w \o x = v \o a /\ f.buf = x \o b
      BY <1>1, <2>1, <2>2
    <2> HIDE DEF x, w, v
    <2>s. /\ a \in Seq(StreamBytes) /\ b \in Seq(StreamBytes) /\ x \in Seq(StreamBytes)
          /\ v \in Seq(StreamBytes) /\ w \in Seq(StreamBytes)
      BY <1>2, <2>a
    <2>3. Len(f.buf) = e.len + n
      <3>1. Len(x \o b) = Len(x) + Len(b)
        BY <1>2, <2>a, InARow
      <3> QED
        BY <1>2, <2>a, <3>1
    <2>4. f.wire \o f.buf = (w \o x) \o b
      <3>1. (w \o x) \o b = w \o (x \o b)
        BY ONLY <2>s, Chained
      <3> QED
        BY <2>a, <3>1
    <2>5. (v \o a) \o b = v \o (a \o b)
      BY ONLY <2>s, Chained
    <2>6. f.wire \o f.buf = q0.wire \o c
      BY <1>2, <2>a, <2>4, <2>5 DEF v
    <2> QED
      BY <2>1, <2>2, <2>3, <2>6
  <1> QED
    BY <1>3, <1>4 DEF Under

\* sQpush8, sQpush16 and sQpush32 lose nothing.
LEMMA PushFacts ==
  ASSUME NEW q0 \in Queues, NEW q \in Queues, NEW m \in Messages, NEW at \in Nat, NEW n \in 1..4,
         Under(q0, q, m, at)
  PROVE  Under(q0, Push(q, Bytes(m, at, n)), m, at + n)
  <1> DEFINE b == Bytes(m, at, n)
             e == EnsureSpace(q, n)
             all == e.buf \o b
             s == SubSeq(all, 1, IF Len(all) < SQSize THEN Len(all) ELSE SQSize)
             f == With(e, s, e.len + n)
  <1>1. n \in Nat /\ SQSize \in Nat
    BY SendAssumption
  <1>2. b \in Seq(StreamBytes) /\ Len(b) = n
    BY <1>1, BytesAre
  <1>3. Under(q0, e, m, at) /\ (q0.open => e.len + n <= SQSize)
    BY EnsureSpaceFacts
  <1>4. Push(q, b) = f
    BY <1>2 DEF Push, With
  <1> HIDE DEF b, e
  <1>5. /\ e \in Queues /\ e.buf \in Seq(StreamBytes) /\ e.wire \in Seq(StreamBytes) /\ e.len \in Nat
        /\ e.open \in BOOLEAN /\ e.hung \in BOOLEAN
    BY <1>3 DEF Under, Queues
  <1>6. all \in Seq(StreamBytes) /\ Len(all) = Len(e.buf) + n /\ Len(all) \in Nat
    BY <1>2, <1>5, ConcatProperties
  <1> HIDE DEF all
  <1>7. s \in Seq(StreamBytes)
    BY <1>1, <1>6
  <1>8. q0.open => s = all
    <2> SUFFICES ASSUME q0.open PROVE s = all
      OBVIOUS
    <2>1. e.len = Len(e.buf) /\ e.len + n <= SQSize
      BY <1>3 DEF Under
    <2>2. s = SubSeq(all, 1, Len(all))
      BY <1>1, <1>5, <1>6, <2>1
    <2> QED
      BY <1>6, <2>2, SubSeqFull
  <1> HIDE DEF s
  <1>l. e.len + n \in Nat
    BY <1>1, <1>5
  <1>r. Refilled(f, e, s, e.len + n)
    BY <1>5, <1>7, <1>l, QueueWith
  <1> HIDE DEF f
  <1>9. /\ f.open = e.open /\ f.hung = e.hung /\ f.wire = e.wire /\ f.len = e.len + n /\ f.buf = s
    BY <1>r DEF Refilled
  <1>10. f \in Queues
    BY <1>r DEF Refilled
  <1>11. q0.open => e.len + n <= SQSize /\ f.len = e.len + n /\ f.buf = e.buf \o Bytes(m, at, n)
    BY <1>3, <1>8, <1>9 DEF all, b
  <1>12. Under(q0, f, m, at + n)
    BY <1>1, <1>3, <1>5, <1>9, <1>10, <1>11, Queued
  <1> QED
    BY <1>4, <1>12 DEF b

\* A byte of sQpushBytes finds its place while the socket is open.
LEMMA PushByteFacts ==
  ASSUME NEW q0 \in Queues, NEW q \in Queues, NEW m \in Messages, NEW at \in Nat,
         Under(q0, q, m, at)
  PROVE  Under(q0, PushByte(q, ByteAt(m, at + 1)), m, at + 1)
  <1> DEFINE b == ByteAt(m, at + 1)
             e == EnsureSpace(q, 1)
             f == With(e, Append(e.buf, b), e.len + 1)
             h == [e EXCEPT !.hung = TRUE]
             r == PushByte(q, b)
  <1>1. 1 \in 1..4 /\ 1 \in Nat /\ SQSize \in Nat
    BY SendAssumption
  <1>2. b \in StreamBytes /\ Bytes(m, at, 1) = <<b>>
    <2>1. b \in StreamBytes
      BY DEF ByteAt, StreamBytes
    <2>2. /\ Bytes(m, at, 1) \in Seq(StreamBytes) /\ Len(Bytes(m, at, 1)) = 1
          /\ Bytes(m, at, 1)[1] = b
      <3>1. 1 \in 1..1
        OBVIOUS
      <3> HIDE DEF b
      <3> QED
        BY <1>1, <3>1, BytesAre DEF b
    <2> HIDE DEF b
    <2>3. <<b>> \in Seq(StreamBytes) /\ Len(<<b>>) = 1 /\ <<b>>[1] = b
      BY <2>1
    <2> DEFINE x == Bytes(m, at, 1)
               y == <<b>>
    <2>4. x \in Seq(StreamBytes) /\ y \in Seq(StreamBytes) /\ Len(x) = 1 /\ Len(y) = 1 /\ x[1] = y[1]
      BY <2>2, <2>3
    <2> HIDE DEF x, y
    <2>5. x = y
      <3>1. \A i \in 1..Len(x) : x[i] = y[i]
        BY <2>4
      <3> QED
        BY <2>4, <3>1, SeqEqual
    <2> QED
      BY <2>1, <2>5 DEF x, y
  <1>3. Under(q0, e, m, at) /\ (q0.open => e.len + 1 <= SQSize)
    BY <1>1, EnsureSpaceFacts
  <1>4. r = IF e.hung \/ e.len >= SQSize THEN h ELSE f
    BY DEF PushByte, With
  <1> HIDE DEF b, e, r
  <1>5. /\ e \in Queues /\ e.buf \in Seq(StreamBytes) /\ e.wire \in Seq(StreamBytes) /\ e.len \in Nat
        /\ e.open \in BOOLEAN /\ e.hung \in BOOLEAN
    BY <1>3 DEF Under, Queues
  <1>6. Append(e.buf, b) \in Seq(StreamBytes) /\ Append(e.buf, b) = e.buf \o <<b>>
    BY <1>2, <1>5, AppendProperties, AppendIsConcat
  <1>7. CASE ~(e.hung \/ e.len >= SQSize)
    <2>l. e.len + 1 \in Nat
      BY <1>5
    <2>r. Refilled(f, e, Append(e.buf, b), e.len + 1)
      BY <1>5, <1>6, <2>l, QueueWith
    <2>1. /\ f.open = e.open /\ f.hung = e.hung /\ f.wire = e.wire /\ f.len = e.len + 1
          /\ f.buf = Append(e.buf, b)
      BY <2>r DEF Refilled
    <2>2. f \in Queues
      BY <2>r DEF Refilled
    <2>3. r = f
      BY <1>4, <1>7
    <2> HIDE DEF f
    <2>4. q0.open => e.len + 1 <= SQSize /\ f.len = e.len + 1 /\ f.buf = e.buf \o Bytes(m, at, 1)
      BY <1>2, <1>3, <1>6, <2>1
    <2>5. Under(q0, f, m, at + 1)
      BY <1>1, <1>3, <1>5, <2>1, <2>2, <2>4, Queued
    <2> QED
      BY <2>3, <2>5 DEF r, b
  <1>8. CASE e.hung \/ e.len >= SQSize
    <2>1. ~q0.open
      <3> SUFFICES ASSUME q0.open PROVE FALSE
        OBVIOUS
      <3>1. ~e.hung /\ e.len + 1 <= SQSize
        BY <1>3 DEF Under
      <3>2. ~(e.len >= SQSize)
        BY <1>1, <1>5, <3>1
      <3> QED
        BY <1>8, <3>1, <3>2
    <2>2. h \in Queues /\ h.open = e.open /\ h.wire = e.wire
      BY <1>5 DEF Queues
    <2>3. r = h
      BY <1>4, <1>8
    <2> HIDE DEF h
    <2>4. Under(q0, h, m, at + 1)
      BY <1>3, <2>1, <2>2 DEF Under
    <2> QED
      BY <2>3, <2>4 DEF r, b
  <1> QED
    BY <1>7, <1>8

\* sQpushBytes puts all of its bytes behind what is queued.
LEMMA PushBytesFacts ==
  ASSUME NEW q0 \in Queues, NEW q \in Queues, NEW m \in Messages, NEW at \in Nat, NEW n \in Nat,
         Under(q0, q, m, at)
  PROVE  Under(q0, PushBytes(q, Bytes(m, at, n)), m, at + n)
  <1> DEFINE b == Bytes(m, at, n)
             Q(f, k) == f = [i \in 0..k |-> IF i = 0 THEN q ELSE PushByte(f[i - 1], b[i])]
             pushed == CHOOSE f : Q(f, n)
  <1>1. Len(b) = n /\ \A i \in 1..n : b[i] = ByteAt(m, at + i)
    BY BytesAre
  <1> HIDE DEF b
  <1>2. PushBytes(q, b) = pushed[n]
    BY <1>1 DEF PushBytes
  <1>3. \E f : Q(f, n)
    <2> DEFINE S == {k \in Nat : ~\E f : Q(f, k)}
    <2>1. CASE S # {}
      <3>1. PICK k \in S : \A i \in S : k <= i
        BY <2>1, LeastNumber
      <3>2. k \in Nat /\ ~\E f : Q(f, k)
        BY <3>1
      <3>3. k # 0
        <4> SUFFICES ASSUME k = 0 PROVE \E f : Q(f, k)
          BY <3>2
        <4> DEFINE g == [i \in 0..k |-> q]
        <4>1. \A i \in 0..k : i = 0
          OBVIOUS
        <4>2. Q(g, k)
          BY <4>1
        <4> QED
          BY <4>2
      <3>4. k - 1 \in Nat /\ ~(k <= k - 1)
        BY <3>2, <3>3
      <3>5. k - 1 \notin S
        BY <3>1, <3>4
      <3>6. PICK f : Q(f, k - 1)
        BY <3>4, <3>5
      <3> DEFINE g == [i \in 0..k |-> IF i <= k - 1 THEN f[i] ELSE PushByte(f[k - 1], b[k])]
      <3>7. \A i \in 0..(k - 1) : f[i] = IF i = 0 THEN q ELSE PushByte(f[i - 1], b[i])
        BY <3>6
      <3>8. ASSUME NEW i \in 0..k PROVE g[i] = IF i = 0 THEN q ELSE PushByte(g[i - 1], b[i])
        <4>1. CASE i <= k - 1
          <5>1. g[i] = f[i] /\ i \in 0..(k - 1)
            BY <3>4, <4>1
          <5>2. CASE i = 0
            BY <3>7, <5>1, <5>2
          <5>3. CASE i # 0
            <6>1. i - 1 \in 0..k /\ i - 1 <= k - 1
              BY <3>4, <4>1, <5>3
            <6>2. g[i - 1] = f[i - 1]
              BY <6>1
            <6> HIDE DEF g
            <6> QED
              BY <3>7, <5>1, <5>3, <6>2
          <5> QED
            BY <5>2, <5>3
        <4>2. CASE ~(i <= k - 1)
          <5>1. i = k /\ i # 0 /\ k - 1 \in 0..k /\ k - 1 <= k - 1
            BY <3>2, <3>4, <4>2
          <5>2. g[i] = PushByte(f[k - 1], b[k]) /\ g[k - 1] = f[k - 1]
            BY <4>2, <5>1
          <5> HIDE DEF g
          <5> QED
            BY <5>1, <5>2
        <4> QED
          BY <4>1, <4>2
      <3>9. g = [i \in 0..k |-> g[i]]
        OBVIOUS
      <3> HIDE DEF g
      <3>10. g = [i \in 0..k |-> IF i = 0 THEN q ELSE PushByte(g[i - 1], b[i])]
        BY <3>8, <3>9
      <3> QED
        BY <3>2, <3>10
    <2>2. CASE S = {}
      BY <2>2
    <2> QED
      BY <2>1, <2>2
  <1>4. Q(pushed, n)
    <2> HIDE DEF Q
    <2> QED
      BY <1>3
  <1> HIDE DEF pushed
  <1>5. \A i \in 0..n : pushed[i] = IF i = 0 THEN q ELSE PushByte(pushed[i - 1], b[i])
    BY <1>4
  <1> DEFINE Good(i) == Under(q0, pushed[i], m, at + i)
             S == {i \in 0..n : ~Good(i)}
  <1>6. CASE S # {}
    <2>1. S \in SUBSET Nat
      OBVIOUS
    <2>2. PICK i \in S : \A k \in S : i <= k
      BY <1>6, <2>1, LeastNumber
    <2>3. i \in 0..n /\ ~Good(i)
      BY <2>2
    <2>4. i # 0
      <3> SUFFICES ASSUME i = 0 PROVE Good(i)
        BY <2>3
      <3>1. pushed[i] = q /\ at + i = at
        BY <1>5, <2>3
      <3> QED
        BY <3>1
    <2>5. /\ i - 1 \in 0..n /\ ~(i <= i - 1) /\ at + (i - 1) \in Nat /\ (at + (i - 1)) + 1 = at + i
          /\ i \in 1..n
      BY <2>3, <2>4
    <2>6. Good(i - 1)
      BY <2>2, <2>5
    <2>7. pushed[i - 1] \in Queues
      BY <2>6 DEF Under
    <2>8. Under(q0, PushByte(pushed[i - 1], ByteAt(m, (at + (i - 1)) + 1)), m, (at + (i - 1)) + 1)
      BY <2>5, <2>6, <2>7, PushByteFacts
    <2>9. pushed[i] = PushByte(pushed[i - 1], ByteAt(m, at + i))
      BY <1>1, <1>5, <2>3, <2>4, <2>5
    <2> QED
      BY <2>3, <2>5, <2>8, <2>9
  <1>7. CASE S = {}
    <2>1. n \in 0..n
      OBVIOUS
    <2>2. Good(n)
      BY <1>7, <2>1
    <2> QED
      BY <1>2, <2>2 DEF b
  <1> QED
    BY <1>6, <1>7

\* off[k] bytes are in the first k fields.
Offsets(off, fields) ==
  /\ Len(fields) \in Nat /\ off[0] = 0
  /\ \A k \in 1..Len(fields) : /\ fields[k] \in 1..4 /\ off[k - 1] \in Nat
                               /\ off[k] = off[k - 1] + fields[k]

\* The fields of a message go behind each other.
LEMMA PushFieldsFacts ==
  ASSUME NEW q \in Queues, NEW m \in Messages, NEW fields, NEW off,
         Offsets(off, fields), Under(q, q, m, 0)
  PROVE  LET done == PushFields(q, m, fields)
         IN  done.at = off[Len(fields)] /\ Under(q, done.queue, m, done.at)
  <1> DEFINE n == Len(fields)
             first == [queue |-> q, at |-> 0]
             Q(f, k) == f = [i \in 0..k |-> IF i = 0 THEN first ELSE PushField(m, f[i - 1], fields[i])]
             head == CHOOSE f : Q(f, n)
  <1>1. /\ n \in Nat /\ off[0] = 0
        /\ \A k \in 1..n : /\ fields[k] \in 1..4 /\ off[k - 1] \in Nat
                           /\ off[k] = off[k - 1] + fields[k]
    BY DEF Offsets
  <1>2. PushFields(q, m, fields) = head[n]
    BY DEF PushFields
  <1>f. first.queue = q /\ first.at = 0
    OBVIOUS
  <1> HIDE DEF n, first
  <1>3. \E f : Q(f, n)
    <2> DEFINE S == {k \in Nat : ~\E f : Q(f, k)}
    <2>1. CASE S # {}
      <3>1. PICK k \in S : \A i \in S : k <= i
        BY <2>1, LeastNumber
      <3>2. k \in Nat /\ ~\E f : Q(f, k)
        BY <3>1
      <3>3. k # 0
        <4> SUFFICES ASSUME k = 0 PROVE \E f : Q(f, k)
          BY <3>2
        <4> DEFINE g == [i \in 0..k |-> first]
        <4>1. \A i \in 0..k : i = 0
          OBVIOUS
        <4>2. Q(g, k)
          BY <4>1
        <4> QED
          BY <4>2
      <3>4. k - 1 \in Nat /\ ~(k <= k - 1)
        BY <3>2, <3>3
      <3>5. k - 1 \notin S
        BY <3>1, <3>4
      <3>6. PICK f : Q(f, k - 1)
        BY <3>4, <3>5
      <3> DEFINE g == [i \in 0..k |-> IF i <= k - 1 THEN f[i] ELSE PushField(m, f[k - 1], fields[k])]
      <3>7. \A i \in 0..(k - 1) : f[i] = IF i = 0 THEN first ELSE PushField(m, f[i - 1], fields[i])
        BY <3>6
      <3>8. ASSUME NEW i \in 0..k PROVE g[i] = IF i = 0 THEN first ELSE PushField(m, g[i - 1], fields[i])
        <4>1. CASE i <= k - 1
          <5>1. g[i] = f[i] /\ i \in 0..(k - 1)
            BY <3>4, <4>1
          <5>2. CASE i = 0
            BY <3>7, <5>1, <5>2
          <5>3. CASE i # 0
            <6>1. i - 1 \in 0..k /\ i - 1 <= k - 1
              BY <3>4, <4>1, <5>3
            <6>2. g[i - 1] = f[i - 1]
              BY <6>1
            <6> HIDE DEF g
            <6> QED
              BY <3>7, <5>1, <5>3, <6>2
          <5> QED
            BY <5>2, <5>3
        <4>2. CASE ~(i <= k - 1)
          <5>1. i = k /\ i # 0 /\ k - 1 \in 0..k /\ k - 1 <= k - 1
            BY <3>2, <3>4, <4>2
          <5>2. g[i] = PushField(m, f[k - 1], fields[k]) /\ g[k - 1] = f[k - 1]
            BY <4>2, <5>1
          <5> HIDE DEF g
          <5> QED
            BY <5>1, <5>2
        <4> QED
          BY <4>1, <4>2
      <3>9. g = [i \in 0..k |-> g[i]]
        OBVIOUS
      <3> HIDE DEF g
      <3>10. g = [i \in 0..k |-> IF i = 0 THEN first ELSE PushField(m, g[i - 1], fields[i])]
        BY <3>8, <3>9
      <3> QED
        BY <3>2, <3>10
    <2>2. CASE S = {}
      BY <1>1, <2>2
    <2> QED
      BY <2>1, <2>2
  <1>4. Q(head, n)
    <2> HIDE DEF Q
    <2> QED
      BY <1>3
  <1> HIDE DEF head
  <1>5. \A i \in 0..n : head[i] = IF i = 0 THEN first ELSE PushField(m, head[i - 1], fields[i])
    BY <1>4
  <1> DEFINE Good(i) == head[i].at = off[i] /\ Under(q, head[i].queue, m, off[i])
             S == {i \in 0..n : ~Good(i)}
  <1>6. CASE S # {}
    <2>1. S \in SUBSET Nat
      BY <1>1
    <2>2. PICK i \in S : \A k \in S : i <= k
      BY <1>6, <2>1, LeastNumber
    <2>3. i \in 0..n /\ ~Good(i)
      BY <2>2
    <2>4. i # 0
      <3> SUFFICES ASSUME i = 0 PROVE Good(i)
        BY <2>3
      <3>1. head[i] = first
        BY <1>5, <2>3
      <3> QED
        BY <1>1, <1>f, <3>1
    <2>5. i - 1 \in 0..n /\ ~(i <= i - 1) /\ i \in 1..n
      BY <1>1, <2>3, <2>4
    <2>6. Good(i - 1)
      BY <2>2, <2>5
    <2>7. head[i - 1].queue \in Queues
      BY <2>6 DEF Under
    <2> DEFINE h == head[i - 1]
               r == Push(h.queue, Bytes(m, h.at, fields[i]))
    <2>8. Under(q, Push(h.queue, Bytes(m, off[i - 1], fields[i])), m, off[i - 1] + fields[i])
      BY <1>1, <2>5, <2>6, <2>7, PushFacts
    <2>9. head[i] = [queue |-> r, at |-> h.at + fields[i]]
      BY <1>5, <2>3, <2>4 DEF PushField
    <2>10. head[i].queue = r /\ head[i].at = h.at + fields[i]
      BY <2>9
    <2> QED
      BY <1>1, <2>3, <2>5, <2>6, <2>8, <2>10
  <1>7. CASE S = {}
    <2>1. n \in 0..n
      BY <1>1
    <2>2. Good(n)
      BY <1>7, <2>1
    <2> QED
      BY <1>2, <2>2 DEF n
  <1> QED
    BY <1>6, <1>7

-----------------------------------------------------------------------------
(***************************************************************************)
(* The messages: fields and payload are as long as the protocol says.      *)
(***************************************************************************)

AsLong(m) ==
  /\ ProtocolSize(m) \in Nat \ {0} /\ Payload(m) \in Nat
  /\ \E off : /\ Offsets(off, Fields(m)) /\ off[Len(Fields(m))] \in Nat
              /\ off[Len(Fields(m))] + Payload(m) = ProtocolSize(m)

LEMMA AsLongBy ==
  ASSUME NEW m, NEW off, NEW fields, NEW size, NEW load \in Nat,
         Fields(m) = fields, ProtocolSize(m) = size, Payload(m) = load,
         Offsets(off, fields), off[Len(fields)] \in Nat \ {0}, off[Len(fields)] + load = size
  PROVE  AsLong(m)
  <1>1. size \in Nat \ {0}
    OBVIOUS
  <1> QED
    BY <1>1 DEF AsLong

LEMMA EveryMessageAsLong ==
  ASSUME NEW m \in Messages
  PROVE  AsLong(m)
  <1>1. m.kind \in MessageKinds /\ m.n \in Nat
    BY DEF Messages
  <1>2. CASE m.kind = "keyEvent"
    <2> DEFINE fields == <<1, 1, 2, 4>>
               off == [k \in 0..4 |-> IF k <= 2 THEN k ELSE IF k = 3 THEN 4 ELSE 8]
    <2>1. Fields(m) = fields /\ ProtocolSize(m) = 8 /\ Payload(m) = 0
      BY <1>2 DEF Fields, ProtocolSize, Payload, CutTexts
    <2>2. Offsets(off, fields) /\ off[Len(fields)] = 8
      BY DEF Offsets
    <2> HIDE DEF fields, off
    <2> QED
      BY <2>1, <2>2, AsLongBy
  <1>3. CASE m.kind = "QEMUExtendedKeyEvent"
    <2> DEFINE fields == <<1, 1, 2, 4, 4>>
               off == [k \in 0..5 |-> IF k <= 2 THEN k ELSE IF k = 3 THEN 4 ELSE IF k = 4 THEN 8 ELSE 12]
    <2>1. Fields(m) = fields /\ ProtocolSize(m) = 12 /\ Payload(m) = 0
      BY <1>3 DEF Fields, ProtocolSize, Payload, CutTexts
    <2>2. Offsets(off, fields) /\ off[Len(fields)] = 12
      BY DEF Offsets
    <2> HIDE DEF fields, off
    <2> QED
      BY <2>1, <2>2, AsLongBy
  <1>4. CASE m.kind = "pointerEvent"
    <2> DEFINE fields == <<1, 1, 2, 2>>
               off == [k \in 0..4 |-> IF k <= 2 THEN k ELSE IF k = 3 THEN 4 ELSE 6]
    <2>1. Fields(m) = fields /\ ProtocolSize(m) = 6 /\ Payload(m) = 0
      BY <1>4 DEF Fields, ProtocolSize, Payload, CutTexts
    <2>2. Offsets(off, fields) /\ off[Len(fields)] = 6
      BY DEF Offsets
    <2> HIDE DEF fields, off
    <2> QED
      BY <2>1, <2>2, AsLongBy
  <1>5. CASE m.kind = "extendedPointerEvent"
    <2> DEFINE fields == <<1, 1, 2, 2, 1>>
               off == [k \in 0..5 |-> IF k <= 2 THEN k ELSE IF k = 3 THEN 4 ELSE IF k = 4 THEN 6 ELSE 7]
    <2>1. Fields(m) = fields /\ ProtocolSize(m) = 7 /\ Payload(m) = 0
      BY <1>5 DEF Fields, ProtocolSize, Payload, CutTexts
    <2>2. Offsets(off, fields) /\ off[Len(fields)] = 7
      BY DEF Offsets
    <2> HIDE DEF fields, off
    <2> QED
      BY <2>1, <2>2, AsLongBy
  <1>6. CASE m.kind \in CutTexts
    <2> DEFINE fields == <<1, 1, 1, 1, 4>>
               off == [k \in 0..5 |-> IF k <= 4 THEN k ELSE 8]
    <2>1. Fields(m) = fields /\ ProtocolSize(m) = 8 + m.n /\ Payload(m) = m.n
      BY <1>6 DEF Fields, ProtocolSize, Payload, CutTexts
    <2>2. Offsets(off, fields) /\ off[Len(fields)] = 8
      BY DEF Offsets
    <2> HIDE DEF fields, off
    <2> QED
      BY <1>1, <2>1, <2>2, AsLongBy
  <1>7. CASE m.kind = "setDesktopSize"
    <2> DEFINE fields == <<1, 1, 2, 2, 1, 1, 4, 2, 2, 2, 2, 4>>
               off == [k \in 0..12 |-> IF k <= 2 THEN k ELSE IF k = 3 THEN 4 ELSE IF k <= 6 THEN k + 2
                                       ELSE IF k <= 11 THEN 2 * k - 2 ELSE 24]
    <2>1. Fields(m) = fields /\ ProtocolSize(m) = 24 /\ Payload(m) = 0
      BY <1>7 DEF Fields, ProtocolSize, Payload, CutTexts
    <2>2. Offsets(off, fields) /\ off[Len(fields)] = 24
      BY DEF Offsets
    <2> HIDE DEF fields, off
    <2> QED
      BY <2>1, <2>2, AsLongBy
  <1>8. CASE m.kind = "clientFence"
    <2> DEFINE fields == <<1, 1, 1, 1, 4, 1>>
               off == [k \in 0..6 |-> IF k <= 4 THEN k ELSE IF k = 5 THEN 8 ELSE 9]
    <2>1. Fields(m) = fields /\ ProtocolSize(m) = 9 + m.n /\ Payload(m) = m.n
      BY <1>8 DEF Fields, ProtocolSize, Payload, CutTexts
    <2>2. Offsets(off, fields) /\ off[Len(fields)] = 9
      BY DEF Offsets
    <2> HIDE DEF fields, off
    <2> QED
      BY <1>1, <2>1, <2>2, AsLongBy
  <1>9. CASE m.kind \in {"enableContinuousUpdates", "fbUpdateRequest"}
    <2> DEFINE fields == <<1, 1, 2, 2, 2, 2>>
               off == [k \in 0..6 |-> IF k <= 2 THEN k ELSE 2 * k - 2]
    <2>1. Fields(m) = fields /\ ProtocolSize(m) = 10 /\ Payload(m) = 0
      BY <1>9 DEF Fields, ProtocolSize, Payload, CutTexts
    <2>2. Offsets(off, fields) /\ off[Len(fields)] = 10
      BY DEF Offsets
    <2> HIDE DEF fields, off
    <2> QED
      BY <2>1, <2>2, AsLongBy
  <1>10. CASE m.kind = "pixelFormat"
    <2> DEFINE fields == <<1, 1, 1, 1, 1, 1, 1, 1, 2, 2, 2, 1, 1, 1, 1, 1, 1>>
               off == [k \in 0..17 |-> IF k <= 8 THEN k ELSE IF k <= 11 THEN 2 * k - 8 ELSE k + 3]
    <2>1. Fields(m) = fields /\ ProtocolSize(m) = 20 /\ Payload(m) = 0
      BY <1>10 DEF Fields, ProtocolSize, Payload, CutTexts
    <2>2. Offsets(off, fields) /\ off[Len(fields)] = 20
      BY DEF Offsets
    <2> HIDE DEF fields, off
    <2> QED
      BY <2>1, <2>2, AsLongBy
  <1>11. CASE m.kind = "xvpOp"
    <2> DEFINE fields == <<1, 1, 1, 1>>
               off == [k \in 0..4 |-> k]
    <2>1. Fields(m) = fields /\ ProtocolSize(m) = 4 /\ Payload(m) = 0
      BY <1>11 DEF Fields, ProtocolSize, Payload, CutTexts
    <2>2. Offsets(off, fields) /\ off[Len(fields)] = 4
      BY DEF Offsets
    <2> HIDE DEF fields, off
    <2> QED
      BY <2>1, <2>2, AsLongBy
  <1>12. CASE m.kind = "clientEncodings"
    <2> DEFINE n == m.n
               rest == [i \in 1..n |-> 4]
               fields == <<1, 1, 2>> \o rest
               off == [k \in 0..(3 + n) |-> IF k <= 2 THEN k ELSE 4 * k - 8]
    <2>1. Fields(m) = fields /\ ProtocolSize(m) = 4 + 4 * n /\ Payload(m) = 0
      BY <1>12 DEF Fields, ProtocolSize, Payload, CutTexts
    <2>2. n \in Nat
      BY <1>1
    <2> HIDE DEF n
    <2>3. rest \in Seq(1..4) /\ Len(rest) = n /\ \A i \in 1..n : rest[i] = 4
      BY <2>2
    <2> HIDE DEF rest
    <2>4. Len(fields) = 3 + n /\ \A i \in 1..(3 + n) : fields[i] = IF i <= 2 THEN 1 ELSE IF i = 3 THEN 2 ELSE 4
      <3> DEFINE s == <<1, 1, 2>>
      <3>1. s \in Seq(1..4) /\ Len(s) = 3 /\ s[1] = 1 /\ s[2] = 1 /\ s[3] = 2
        OBVIOUS
      <3>2. fields = s \o rest
        OBVIOUS
      <3> HIDE DEF s, fields
      <3>3. /\ Len(s \o rest) = Len(s) + Len(rest)
            /\ \A i \in 1..(Len(s) + Len(rest)) : (s \o rest)[i] = IF i <= Len(s) THEN s[i] ELSE rest[i - Len(s)]
        BY <2>3, <3>1, ConcatProperties
      <3>4. ASSUME NEW i \in 1..(3 + n) PROVE fields[i] = IF i <= 2 THEN 1 ELSE IF i = 3 THEN 2 ELSE 4
        <4>1. CASE i <= 3
          <5>1. i = 1 \/ i = 2 \/ i = 3
            BY <2>2, <4>1
          <5>2. fields[i] = s[i]
            BY <2>3, <3>1, <3>2, <3>3, <4>1
          <5> QED
            BY <3>1, <5>1, <5>2
        <4>2. CASE ~(i <= 3)
          <5>1. i - 3 \in 1..n /\ ~(i <= 2) /\ i # 3
            BY <2>2, <4>2
          <5>2. fields[i] = rest[i - 3]
            BY <2>3, <3>1, <3>2, <3>3, <4>2
          <5> QED
            BY <2>3, <5>1, <5>2
        <4> QED
          BY <4>1, <4>2
      <3> QED
        BY <2>3, <3>1, <3>2, <3>3, <3>4
    <2> HIDE DEF fields
    <2>5. \A k \in 0..(3 + n) : off[k] = IF k <= 2 THEN k ELSE 4 * k - 8
      OBVIOUS
    <2> HIDE DEF off
    <2>6. off[0] = 0 /\ off[3 + n] = 4 + 4 * n
      BY <2>2, <2>5
    <2>7. ASSUME NEW k \in 1..(3 + n)
          PROVE  fields[k] \in 1..4 /\ off[k - 1] \in Nat /\ off[k] = off[k - 1] + fields[k]
      <3>1. k \in 0..(3 + n) /\ k - 1 \in 0..(3 + n)
        BY <2>2
      <3> QED
        BY <2>2, <2>4, <2>5, <3>1
    <2>8. Offsets(off, fields)
      BY <2>2, <2>4, <2>6, <2>7 DEF Offsets
    <2>9. off[Len(fields)] = 4 + 4 * n /\ 4 + 4 * n \in Nat \ {0}
      BY <2>2, <2>4, <2>6
    <2> QED
      BY <2>1, <2>8, <2>9, AsLongBy
  <1> QED
    BY <1>1, <1>2, <1>3, <1>4, <1>5, <1>6, <1>7, <1>8, <1>9, <1>10, <1>11, <1>12 DEF MessageKinds

\* What a message leaves behind: all of it on the wire, or, once the socket is
\* closed, nothing.
Sent(q, r, m) ==
  /\ r \in Queues /\ r.open = q.open
  /\ ~q.open => r.wire = q.wire
  /\ q.open => /\ r.buf = <<>> /\ r.len = 0 /\ ~r.hung
               /\ r.wire = q.wire \o Bytes(m, 0, ProtocolSize(m))

LEMMA SendFacts ==
  ASSUME NEW q, Rests(q), NEW m \in Messages
  PROVE  Sent(q, Send(q, m), m)
  <1> DEFINE fields == Fields(m)
             done == PushFields(q, m, fields)
             size == ProtocolSize(m)
             r == PushBytes(done.queue, Bytes(m, done.at, Payload(m)))
  <1>1. /\ q \in Queues /\ q.wire \in Seq(StreamBytes) /\ q.open \in BOOLEAN
        /\ q.open => q.buf = <<>> /\ q.len = 0 /\ ~q.hung
    BY DEF Rests, Queues
  <1>2. SQSize \in Nat /\ SQSize >= 4
    BY SendAssumption
  <1>3. Under(q, q, m, 0)
    <2>1. Bytes(m, 0, 0) = <<>>
      <3>1. Bytes(m, 0, 0) \in Seq(StreamBytes) /\ Len(Bytes(m, 0, 0)) = 0
        BY BytesAre
      <3> QED
        BY <3>1
    <2>2. Len(<<>>) = 0
      OBVIOUS
    <2>3. q.open => q.len = Len(q.buf) /\ q.len <= SQSize /\ q.wire \o q.buf = q.wire \o Bytes(m, 0, 0)
      <3> SUFFICES ASSUME q.open
                   PROVE  q.len = Len(q.buf) /\ q.len <= SQSize /\ q.wire \o q.buf = q.wire \o Bytes(m, 0, 0)
        OBVIOUS
      <3>1. q.buf = <<>> /\ q.len = 0
        BY <1>1
      <3>2. q.len = Len(q.buf) /\ q.len <= SQSize
        BY <1>2, <2>2, <3>1
      <3>3. q.wire \o q.buf = q.wire \o Bytes(m, 0, 0)
        BY <2>1, <3>1
      <3> QED
        BY <3>2, <3>3
    <2> QED
      BY <1>1, <2>3 DEF Under
  <1>4. size \in Nat \ {0} /\ Payload(m) \in Nat
    BY EveryMessageAsLong DEF AsLong
  <1>5. PICK off : Offsets(off, fields) /\ off[Len(fields)] \in Nat /\ off[Len(fields)] + Payload(m) = size
    BY EveryMessageAsLong DEF AsLong
  <1>6. done.at = off[Len(fields)] /\ Under(q, done.queue, m, done.at)
    BY <1>1, <1>3, <1>5, PushFieldsFacts
  <1>7. Send(q, m) = Flush(r)
    BY DEF Send
  <1> HIDE DEF fields, done, size
  <1>8. done.queue \in Queues /\ done.at \in Nat /\ done.at + Payload(m) = size
    BY <1>5, <1>6 DEF Under
  <1>9. Under(q, r, m, size)
    <2>1. Under(q, r, m, done.at + Payload(m))
      BY <1>1, <1>4, <1>6, <1>8, PushBytesFacts
    <2> QED
      BY <1>8, <2>1
  <1> HIDE DEF r
  <1>10. r \in Queues /\ r.open = q.open /\ (~q.open => r.wire = q.wire)
    BY <1>9 DEF Under
  <1>11. CASE ~q.open
    BY <1>7, <1>10, <1>11, FlushFacts DEF Sent
  <1>12. CASE q.open
    <2>1. ~r.hung /\ r.len = Len(r.buf) /\ r.wire \o r.buf = q.wire \o Bytes(m, 0, size)
      BY <1>9, <1>12 DEF Under
    <2>2. r.len \in Nat /\ r.buf \in Seq(StreamBytes) /\ r.wire \in Seq(StreamBytes)
      BY <1>10 DEF Queues
    <2>3. Flush(r) \in Queues /\ Flush(r).open = q.open /\ ~Flush(r).hung
      BY <1>10, <2>1, FlushFacts
    <2>4. Flush(r).buf = <<>> /\ Flush(r).len = 0 /\ Flush(r).wire = q.wire \o Bytes(m, 0, size)
      <3>1. CASE r.len > 0
        <4>1. Flush(r).wire = r.wire \o r.buf /\ Flush(r).buf = <<>> /\ Flush(r).len = 0
          BY <1>10, <1>12, <3>1, FlushFacts
        <4> QED
          BY <2>1, <4>1
      <3>2. CASE ~(r.len > 0)
        <4>1. r.len = 0
          BY <2>2, <3>2
        <4>2. Flush(r) = r
          BY <1>10, <4>1, FlushFacts
        <4>0. \A s \in Seq(StreamBytes) : Len(s) = 0 => s = <<>>
          OBVIOUS
        <4>3. r.buf = <<>>
          BY <2>1, <2>2, <4>0, <4>1
        <4>4. r.wire \o <<>> = r.wire
          BY <2>2, ConcatEmptySeq
        <4> QED
          BY <2>1, <4>1, <4>2, <4>3, <4>4
      <3> QED
        BY <3>1, <3>2
    <2> QED
      BY <1>7, <1>12, <2>3, <2>4 DEF Sent, size
  <1> QED
    BY <1>1, <1>11, <1>12

-----------------------------------------------------------------------------
(***************************************************************************)
(* The stream.                                                             *)
(***************************************************************************)

\* A whole message behind whole messages.
LEMMA WholeGrows ==
  ASSUME NEW w \in Seq(StreamBytes), WholeMessages(w), NEW m \in Messages
  PROVE  /\ w \o Bytes(m, 0, ProtocolSize(m)) \in Seq(StreamBytes)
         /\ WholeMessages(w \o Bytes(m, 0, ProtocolSize(m)))
  <1> DEFINE size == ProtocolSize(m)
             b == Bytes(m, 0, size)
             v == w \o b
  <1>1. size \in Nat \ {0}
    BY EveryMessageAsLong DEF AsLong
  <1>2. b \in Seq(StreamBytes) /\ Len(b) = size /\ \A i \in 1..size : b[i] = ByteAt(m, 0 + i)
    BY <1>1, BytesAre
  <1> HIDE DEF size, b
  <1>3. /\ v \in Seq(StreamBytes) /\ Len(v) = Len(w) + size
        /\ \A i \in 1..(Len(w) + size) : v[i] = IF i <= Len(w) THEN w[i] ELSE b[i - Len(w)]
    BY <1>2, ConcatProperties
  <1>4. Len(w) \in Nat
    OBVIOUS
  <1> HIDE DEF v
  <1>5. \A k \in 1..size : v[Len(w) + k] = [msg |-> m, i |-> k]
    <2> SUFFICES ASSUME NEW k \in 1..size PROVE v[Len(w) + k] = [msg |-> m, i |-> k]
      OBVIOUS
    <2>1. Len(w) + k \in 1..(Len(w) + size) /\ ~(Len(w) + k <= Len(w)) /\ (Len(w) + k) - Len(w) = k /\ 0 + k = k
      BY <1>1, <1>4
    <2>2. v[Len(w) + k] = b[k]
      BY <1>3, <2>1
    <2>3. b[k] = ByteAt(m, k)
      BY <1>2, <2>1
    <2> QED
      BY <2>2, <2>3 DEF ByteAt
  <1>6. ASSUME NEW j \in 1..Len(v) PROVE InWhole(v, j)
    <2>1. CASE j <= Len(w)
      <3> DEFINE p == w[j].msg
                 start == j - w[j].i
                 n == ProtocolSize(p)
      <3>1. j \in 1..Len(w) /\ v[j] = w[j]
        BY <1>3, <1>4, <2>1
      <3>2. w[j].msg \in Messages
        <4>1. w[j] \in StreamBytes
          BY <3>1
        <4> QED
          BY <4>1 DEF StreamBytes
      <3>3. n \in Nat \ {0}
        BY <3>2, EveryMessageAsLong DEF AsLong
      <3>4. /\ w[j].i \in 1..n /\ start \in Nat /\ start + n <= Len(w)
            /\ \A k \in 1..n : w[start + k] = [msg |-> p, i |-> k]
        BY <3>1 DEF WholeMessages, InWhole
      <3>5. v[j].msg = p /\ v[j].i = w[j].i
        BY <3>1
      <3> HIDE DEF p, start, n
      <3>6. ASSUME NEW k \in 1..n PROVE v[start + k] = w[start + k]
        <4>1. start + k \in 1..(Len(w) + size) /\ start + k <= Len(w)
          BY <1>1, <1>4, <3>3, <3>4
        <4> QED
          BY <1>3, <4>1
      <3>7. \A k \in 1..n : v[start + k] = [msg |-> p, i |-> k]
        BY <3>4, <3>6
      <3>8. start + n <= Len(v)
        BY <1>1, <1>3, <1>4, <3>3, <3>4
      <3> QED
        BY <3>4, <3>5, <3>7, <3>8 DEF InWhole, p, start, n
    <2>2. CASE ~(j <= Len(w))
      <3> DEFINE k == j - Len(w)
      <3>1. k \in 1..size /\ Len(w) + k = j /\ j - k = Len(w)
        BY <1>1, <1>3, <1>4, <2>2
      <3>2. v[j] = [msg |-> m, i |-> k]
        BY <1>5, <3>1
      <3> HIDE DEF k
      <3>3. v[j].msg = m /\ v[j].i = k
        BY <3>2
      <3>4. Len(w) + size <= Len(v)
        BY <1>1, <1>3, <1>4
      <3> QED
        BY <1>4, <1>5, <3>1, <3>3, <3>4 DEF InWhole, size
    <2> QED
      BY <2>1, <2>2
  <1> QED
    BY <1>3, <1>6 DEF WholeMessages, v, b, size

\* The server finds the first message whole.
LEMMA WholeFirst ==
  ASSUME NEW w \in Seq(StreamBytes), WholeMessages(w), w # <<>>
  PROVE  LET m == w[1].msg
             n == ProtocolSize(m)
         IN  /\ m \in Messages /\ n \in Nat \ {0} /\ Len(w) >= n
             /\ \A k \in 1..n : w[k] = [msg |-> m, i |-> k]
             /\ SubSeq(w, 1, n) = Bytes(m, 0, n)
  <1> DEFINE m == w[1].msg
             n == ProtocolSize(m)
  <1>1. Len(w) \in Nat /\ 1 \in 1..Len(w)
    OBVIOUS
  <1>2. w[1].msg \in Messages /\ w[1].i \in Nat
    <2>1. w[1] \in StreamBytes
      BY <1>1
    <2> QED
      BY <2>1 DEF StreamBytes
  <1>3. n \in Nat \ {0}
    BY <1>2, EveryMessageAsLong DEF AsLong
  <1>4. /\ w[1].i \in 1..n /\ 1 - w[1].i \in Nat /\ (1 - w[1].i) + n <= Len(w)
        /\ \A k \in 1..n : w[(1 - w[1].i) + k] = [msg |-> m, i |-> k]
    BY <1>1 DEF WholeMessages, InWhole
  <1>5. 1 - w[1].i = 0
    BY <1>2, <1>3, <1>4
  <1> HIDE DEF n, m
  <1>6. Len(w) >= n
    BY <1>1, <1>3, <1>4, <1>5
  <1>7. ASSUME NEW k \in 1..n PROVE w[k] = [msg |-> m, i |-> k]
    <2>1. 0 + k = k
      BY <1>3
    <2> QED
      BY <1>4, <1>5, <2>1
  <1> DEFINE a == SubSeq(w, 1, n)
             b == Bytes(m, 0, n)
  <1>8. a \in Seq(StreamBytes) /\ Len(a) = n /\ \A k \in 1..n : a[k] = w[k]
    BY <1>1, <1>3, <1>6
  <1>9. b \in Seq(StreamBytes) /\ Len(b) = n /\ \A k \in 1..n : b[k] = ByteAt(m, 0 + k)
    BY <1>2, <1>3, BytesAre DEF m
  <1> HIDE DEF a, b
  <1>10. ASSUME NEW k \in 1..n PROVE a[k] = b[k]
    <2>1. 0 + k = k
      BY <1>3
    <2> QED
      BY <1>7, <1>8, <1>9, <2>1 DEF ByteAt
  <1>11. a = b
    BY <1>8, <1>9, <1>10, SeqEqual
  <1> QED
    BY <1>2, <1>3, <1>6, <1>7, <1>11 DEF a, b, m, n

\* Behind the first message are whole messages.
LEMMA WholeRest ==
  ASSUME NEW w \in Seq(StreamBytes), WholeMessages(w), w # <<>>
  PROVE  LET n == ProtocolSize(w[1].msg)
         IN  /\ SubSeq(w, n + 1, Len(w)) \in Seq(StreamBytes)
             /\ WholeMessages(SubSeq(w, n + 1, Len(w)))
  <1> DEFINE m == w[1].msg
             n == ProtocolSize(m)
             v == SubSeq(w, n + 1, Len(w))
  <1>1. Len(w) \in Nat
    OBVIOUS
  <1>2. /\ m \in Messages /\ n \in Nat \ {0} /\ Len(w) >= n
        /\ \A k \in 1..n : w[k] = [msg |-> m, i |-> k]
    BY WholeFirst
  <1>n. n = ProtocolSize(m)
    OBVIOUS
  <1> HIDE DEF m, n
  <1>3. v \in Seq(StreamBytes) /\ Len(v) = Len(w) - n /\ \A k \in 1..Len(v) : v[k] = w[n + k]
    BY <1>1, <1>2
  <1> HIDE DEF v
  <1>4. ASSUME NEW j \in 1..Len(v) PROVE InWhole(v, j)
    <2> DEFINE l == n + j
               p == w[l].msg
               i == w[l].i
               size == ProtocolSize(p)
               start == l - i
    <2>1. l \in 1..Len(w) /\ v[j] = w[l]
      BY <1>1, <1>2, <1>3
    <2>2. p \in Messages /\ i \in Nat
      <3>1. w[l] \in StreamBytes
        BY <2>1
      <3> QED
        BY <3>1 DEF StreamBytes
    <2>3. size \in Nat \ {0}
      BY <2>2, EveryMessageAsLong DEF AsLong
    <2>4. /\ i \in 1..size /\ start \in Nat /\ start + size <= Len(w)
          /\ \A k \in 1..size : w[start + k] = [msg |-> p, i |-> k]
      BY <2>1 DEF WholeMessages, InWhole
    <2>5. v[j].msg = p /\ v[j].i = i
      BY <2>1
    <2>6. l = n + j /\ start = l - i /\ size = ProtocolSize(p)
      OBVIOUS
    <2> HIDE DEF l, p, i, size, start
    <2>7. start >= n
      <3> SUFFICES ASSUME start < n PROVE FALSE
        BY <1>2, <2>4
      <3>1. start + 1 \in 1..n /\ 1 \in 1..size
        BY <1>2, <2>3, <2>4
      <3>2. w[start + 1] = [msg |-> m, i |-> start + 1] /\ w[start + 1] = [msg |-> p, i |-> 1]
        BY <1>2, <2>4, <3>1
      <3>3. m = p /\ start + 1 = 1
        <4>1. w[start + 1].msg = m /\ w[start + 1].i = start + 1
          BY ONLY <3>2
        <4>2. w[start + 1].msg = p /\ w[start + 1].i = 1
          BY ONLY <3>2
        <4> QED
          BY <4>1, <4>2
      <3>4. size = n
        BY <1>n, <2>6, <3>3
      <3> QED
        BY <1>2, <2>2, <2>4, <2>6, <3>3, <3>4
    <2>8. j - i = start - n /\ start - n \in Nat /\ (start - n) + size <= Len(v)
      BY <1>1, <1>2, <1>3, <2>2, <2>3, <2>4, <2>6, <2>7
    <2>9. ASSUME NEW k \in 1..size PROVE v[(start - n) + k] = [msg |-> p, i |-> k]
      <3>1. (start - n) + k \in 1..Len(v) /\ n + ((start - n) + k) = start + k
        BY <1>1, <1>2, <1>3, <2>3, <2>4, <2>8
      <3> QED
        BY <1>3, <2>4, <3>1
    <2> QED
      BY <2>4, <2>5, <2>6, <2>8, <2>9 DEF InWhole
  <1> QED
    BY <1>3, <1>4 DEF WholeMessages, v, n, m

\* A message sent: the stream stays one of whole messages.
LEMMA SendKeepsStep ==
  ASSUME NEW q, InStep(q), NEW m \in Messages
  PROVE  InStep(Send(q, m))
  <1> DEFINE r == Send(q, m)
  <1>1. Rests(q) /\ WholeMessages(q.wire)
    BY DEF InStep
  <1>2. Sent(q, r, m)
    BY <1>1, SendFacts
  <1>3. q \in Queues /\ q.wire \in Seq(StreamBytes) /\ q.open \in BOOLEAN
    BY <1>1 DEF Rests, Queues
  <1> HIDE DEF r
  <1>4. r \in Queues /\ r.open = q.open /\ (q.open => r.buf = <<>> /\ r.len = 0 /\ ~r.hung)
    BY <1>2 DEF Sent
  <1>5. Rests(r)
    BY <1>4 DEF Rests
  <1>6. r.wire = q.wire \/ r.wire = q.wire \o Bytes(m, 0, ProtocolSize(m))
    BY <1>2, <1>3 DEF Sent
  <1>7. WholeMessages(r.wire)
    BY <1>1, <1>3, <1>6, WholeGrows
  <1>8. InStep(r)
    BY <1>5, <1>7 DEF InStep
  <1> QED
    BY <1>8 DEF r

-----------------------------------------------------------------------------
(***************************************************************************)
(* The actions.                                                            *)
(***************************************************************************)

LEMMA MessageTypes ==
  /\ \A kind \in MessageKinds : Message0(kind) \in Messages
  /\ \A kind \in MessageKinds, n \in Nat, t \in AnyText : ClientCutText(kind, n, t) \in Messages
  /\ \A depth \in {8, 24}, h264 \in BOOLEAN : Encodings(depth, h264) \in Messages
  /\ Inputs \subseteq Messages
  <1>0. NoText \in AnyText
    BY DEF AnyText
  <1>1. ASSUME NEW kind \in MessageKinds, NEW n \in Nat, NEW t \in AnyText
        PROVE  [kind |-> kind, n |-> n, text |-> t] \in Messages
    BY DEF Messages
  <1>2. \A kind \in MessageKinds : Message0(kind) \in Messages
    BY <1>0, <1>1 DEF Message0
  <1>3. \A depth \in {8, 24}, h264 \in BOOLEAN : Encodings(depth, h264) \in Messages
    <2> SUFFICES ASSUME NEW depth \in {8, 24}, NEW h264 \in BOOLEAN PROVE Encodings(depth, h264) \in Messages
      OBVIOUS
    <2>1. EncodingCount(depth, h264) \in Nat
      BY DEF EncodingCount
    <2>2. "clientEncodings" \in MessageKinds
      BY DEF MessageKinds
    <2> QED
      BY <1>0, <1>1, <2>1, <2>2 DEF Encodings
  <1>4. Inputs \subseteq Messages
    <2>1. /\ {"keyEvent", "QEMUExtendedKeyEvent", "pointerEvent", "extendedPointerEvent", "setDesktopSize",
              "enableContinuousUpdates", "fbUpdateRequest", "xvpOp"} \subseteq MessageKinds
          /\ "clientFence" \in MessageKinds
      BY DEF MessageKinds
    <2>2. [kind |-> "clientFence", n |-> 5, text |-> NoText] \in Messages
      BY <1>0, <1>1, <2>1
    <2> QED
      BY <1>2, <2>1, <2>2 DEF Inputs
  <1>5. \A kind \in MessageKinds, n \in Nat, t \in AnyText : ClientCutText(kind, n, t) \in Messages
    BY <1>1 DEF ClientCutText
  <1> QED
    BY <1>2, <1>3, <1>4, <1>5

LEMMA ReplyTypes ==
  ASSUME ownText \in AnyText, NEW m
  PROVE  Reply(m) = <<>> \/ \E x \in Messages : Reply(m) = <<x>>
  <1>1. CutTexts \subseteq MessageKinds /\ NoText \in AnyText
    BY DEF MessageKinds, AnyText
  <1>2. "caps" \in CutTexts /\ "provide" \in CutTexts /\ "notify" \in CutTexts /\ "notifyNone" \in CutTexts
        /\ "request" \in CutTexts
    BY DEF CutTexts
  <1> DEFINE a == ClientCutText("caps", 8, NoText)
             b == ClientCutText("provide", 4 + DeflatedBytes, ownText)
             c == ClientCutText("notify", 4, NoText)
             d == ClientCutText("notifyNone", 4, NoText)
             e == ClientCutText("request", 4, NoText)
  <1>3. 4 + DeflatedBytes \in Nat
    BY DEF DeflatedBytes
  <1>4. a \in Messages /\ b \in Messages /\ c \in Messages /\ d \in Messages /\ e \in Messages
    BY <1>1, <1>2, <1>3, MessageTypes
  <1>5. Notify = c
    BY DEF Notify
  <1>6. Reply(m) \in {<<a>>, <<b>>, <<c>>, <<d>>, <<e>>, <<>>}
    <2> HIDE DEF a, b, c, d, e
    <2> QED
      BY <1>5 DEF Reply, a, b, d, e
  <1> HIDE DEF a, b, c, d, e
  <1> QED
    BY <1>4, <1>6

LEMMA SendAnyKeepsStep ==
  ASSUME NEW q, InStep(q), ownText \in AnyText, NEW m
  PROVE  InStep(SendAny(q, Reply(m)))
  <1>1. CASE Reply(m) = <<>>
    BY <1>1 DEF SendAny
  <1>2. CASE Reply(m) # <<>>
    <2>1. PICK x \in Messages : Reply(m) = <<x>>
      BY <1>2, ReplyTypes
    <2>2. SendAny(q, Reply(m)) = Send(q, x)
      BY <1>2, <2>1 DEF SendAny
    <2> QED
      BY <2>2, SendKeepsStep
  <1> QED
    BY <1>1, <1>2

\* The server reads: it finds a whole message, and whole ones behind it.
LEMMA ServerReadsStep ==
  ASSUME SndInv, ServerReads
  PROVE  SndInv'
  <1> DEFINE w == sock.wire
             m == w[1].msg
             n == ProtocolSize(m)
             whole == Len(w) >= n /\ SubSeq(w, 1, n) = Bytes(m, 0, n)
             v == SubSeq(w, n + 1, Len(w))
  <1>1. /\ Rests(sock) /\ WholeMessages(w) /\ ownText \in AnyText
        /\ vmServer \in [extended : BOOLEAN, known : BOOLEAN, garbled : {FALSE}]
    BY DEF SndInv, InStep
  <1>2. sock \in Queues /\ w \in Seq(StreamBytes)
    BY <1>1 DEF Rests, Queues
  <1>3. w # <<>>
    BY DEF ServerReads
  <1>4. whole /\ v \in Seq(StreamBytes) /\ WholeMessages(v)
    <2> HIDE DEF w
    <2>1. whole
      BY <1>1, <1>2, <1>3, WholeFirst
    <2>2. v \in Seq(StreamBytes) /\ WholeMessages(v)
      BY <1>1, <1>2, <1>3, WholeRest
    <2> QED
      BY <2>1, <2>2
  <1>5. /\ sock' = [sock EXCEPT !.wire = v]
        /\ vmServer' = [vmServer EXCEPT !.known = @ \/ m.kind = "caps"]
        /\ ownText' = ownText
    BY <1>4 DEF ServerReads
  <1> HIDE DEF v, whole, n
  <1>6. /\ sock' \in Queues /\ sock'.wire = v /\ sock'.open = sock.open /\ sock'.buf = sock.buf
        /\ sock'.len = sock.len /\ sock'.hung = sock.hung
    BY <1>2, <1>4, <1>5 DEF Queues
  <1>7. Rests(sock')
    BY <1>1, <1>6 DEF Rests
  <1>8. InStep(sock')
    BY <1>4, <1>6, <1>7 DEF InStep
  <1>9. vmServer' \in [extended : BOOLEAN, known : BOOLEAN, garbled : {FALSE}]
    <2> DEFINE k == vmServer.known \/ m.kind = "caps"
    <2>1. k \in BOOLEAN /\ vmServer' = [vmServer EXCEPT !.known = k]
      BY <1>5
    <2> HIDE DEF k
    <2> QED
      BY <1>1, <2>1
  <1> QED
    BY <1>1, <1>5, <1>8, <1>9 DEF SndInv

LEMMA SndInitInv ==
  SendInit => SndInv
  <1> SUFFICES ASSUME SendInit PROVE SndInv
    OBVIOUS
  <1>1. <<>> \in Seq(StreamBytes) /\ Len(<<>>) = 0
    BY EmptyIsSeq
  <1>2. sock = [buf |-> <<>>, len |-> 0, wire |-> <<>>, open |-> TRUE, hung |-> FALSE]
    BY DEF SendInit
  <1>3. sock \in Queues
    BY <1>1, <1>2 DEF Queues
  <1>4. sock.buf = <<>> /\ sock.len = 0 /\ sock.wire = <<>> /\ ~sock.hung
    BY <1>2
  <1>5. Rests(sock)
    BY <1>3, <1>4 DEF Rests
  <1>6. WholeMessages(<<>>)
    BY <1>1 DEF WholeMessages
  <1>7. InStep(sock)
    BY <1>4, <1>5, <1>6 DEF InStep
  <1>8. ownText \in AnyText /\ vmServer \in [extended : BOOLEAN, known : BOOLEAN, garbled : {FALSE}]
    BY DEF SendInit, AnyText
  <1> QED
    BY <1>7, <1>8 DEF SndInv

LEMMA SndStep ==
  SndInv /\ [SendNext]_sendVars => SndInv'
  <1> SUFFICES ASSUME SndInv, [SendNext]_sendVars PROVE SndInv'
    OBVIOUS
  <1>1. /\ InStep(sock) /\ ownText \in AnyText
        /\ vmServer \in [extended : BOOLEAN, known : BOOLEAN, garbled : {FALSE}]
    BY DEF SndInv
  <1>2. ASSUME InStep(sock'), ownText' \in AnyText, vmServer' = vmServer PROVE SndInv'
    BY <1>1, <1>2 DEF SndInv
  <1>3. ASSUME NEW depth \in {8, 24}, NEW h264 \in BOOLEAN, ServerInitDone(depth, h264) PROVE SndInv'
    <2> DEFINE q1 == Send(sock, Message0("pixelFormat"))
               q2 == Send(q1, Encodings(depth, h264))
    <2>1. "pixelFormat" \in MessageKinds /\ "fbUpdateRequest" \in MessageKinds
      BY DEF MessageKinds
    <2>2. InStep(q1)
      BY <1>1, <2>1, MessageTypes, SendKeepsStep
    <2>3. InStep(q2)
      <3> HIDE DEF q1
      <3> QED
        BY <2>2, MessageTypes, SendKeepsStep
    <2>4. InStep(Send(q2, Message0("fbUpdateRequest")))
      <3> HIDE DEF q2
      <3> QED
        BY <2>1, <2>3, MessageTypes, SendKeepsStep
    <2>5. sock' = Send(q2, Message0("fbUpdateRequest")) /\ ownText' = ownText /\ vmServer' = vmServer
      BY <1>3 DEF ServerInitDone
    <2> HIDE DEF q2
    <2> QED
      BY <1>1, <1>2, <2>4, <2>5
  <1>4. ASSUME NEW m \in Inputs, SendInput(m) PROVE SndInv'
    <2>1. sock' = Send(sock, m) /\ ownText' = ownText /\ vmServer' = vmServer /\ m \in Messages
      BY <1>4, MessageTypes DEF SendInput
    <2> QED
      BY <1>1, <1>2, <2>1, SendKeepsStep
  <1>5. ASSUME NEW t \in Texts, Paste(t) PROVE SndInv'
    <2> DEFINE b == IF t \in Latin1 THEN t ELSE Blurred
    <2>1. "notify" \in MessageKinds /\ "cutText" \in MessageKinds
      BY DEF MessageKinds, CutTexts
    <2>2. t \in AnyText /\ b \in AnyText /\ NoText \in AnyText /\ PlainBytes \in Nat
      BY DEF AnyText, PlainBytes
    <2>3. vmServer' = vmServer /\ ownText' \in {t, ownText}
          /\ sock' \in {Send(sock, Notify), Send(sock, ClientCutText("cutText", PlainBytes, b))}
      BY <1>5 DEF Paste
    <2> HIDE DEF b
    <2>4. Notify \in Messages /\ ClientCutText("cutText", PlainBytes, b) \in Messages
      BY <2>1, <2>2, MessageTypes DEF Notify
    <2>5. InStep(Send(sock, Notify)) /\ InStep(Send(sock, ClientCutText("cutText", PlainBytes, b)))
      BY <1>1, <2>4, SendKeepsStep
    <2> QED
      BY <1>1, <1>2, <2>2, <2>3, <2>5
  <1>6. CASE HandleServerCutText
    <2> DEFINE m == Head(toClient)
    <2>1. sock' \in {sock, SendAny(sock, Reply(m))} /\ ownText' \in {NoText, ownText} /\ vmServer' = vmServer
      BY <1>6 DEF HandleServerCutText
    <2> HIDE DEF m
    <2>2. InStep(SendAny(sock, Reply(m)))
      BY <1>1, SendAnyKeepsStep
    <2>3. ownText' \in AnyText
      BY <1>1, <2>1 DEF AnyText
    <2> QED
      BY <1>1, <1>2, <2>1, <2>2, <2>3
  <1>7. CASE SocketEnds
    <2>1. sock' = [sock EXCEPT !.open = FALSE] /\ ownText' = ownText /\ vmServer' = vmServer
      BY <1>7 DEF SocketEnds
    <2>2. sock \in Queues /\ WholeMessages(sock.wire)
      BY <1>1 DEF InStep, Rests
    <2>3. sock' \in Queues /\ ~sock'.open /\ sock'.wire = sock.wire
      BY <2>1, <2>2 DEF Queues
    <2>4. InStep(sock')
      BY <2>2, <2>3 DEF InStep, Rests
    <2> QED
      BY <1>1, <1>2, <2>1, <2>4
  <1>8. CASE ServerReads
    BY <1>8, ServerReadsStep
  <1>9. ASSUME UNCHANGED <<sock, ownText, vmServer>> PROVE SndInv'
    BY <1>1, <1>2, <1>9
  <1>10. CASE SwitchReadOnly
    BY <1>9, <1>10 DEF SwitchReadOnly
  <1>11. ASSUME NEW t \in Texts, VmCopies(t) PROVE SndInv'
    BY <1>9, <1>11 DEF VmCopies
  <1>12. CASE Peeks
    BY <1>9, <1>12 DEF Peeks
  <1>13. CASE UNCHANGED sendVars
    BY <1>9, <1>13 DEF sendVars
  <1> QED
    BY <1>3, <1>4, <1>5, <1>6, <1>7, <1>8, <1>10, <1>11, <1>12, <1>13 DEF SendNext

\* The server never loses the stream, for every size of the send queue that
\* holds the largest field, and whatever the clipboard, the keys and the pointer
\* send in which order: each message leaves the queue whole, and the queue is
\* empty before the next one begins, also when the message is longer than it.
THEOREM SendTheorem ==
  SendSpec => []ServerInStep
  <1>1. SendInit => SndInv
    BY SndInitInv
  <1>2. SndInv /\ [SendNext]_sendVars => SndInv'
    BY SndStep
  <1>3. SndInv => ServerInStep
    <2> SUFFICES ASSUME SndInv PROVE ServerInStep
      OBVIOUS
    <2>1. InStep(sock) /\ vmServer \in [extended : BOOLEAN, known : BOOLEAN, garbled : {FALSE}]
      BY DEF SndInv
    <2>2. sock.open => sock.buf = <<>>
      BY <2>1 DEF InStep, Rests
    <2>3. ~vmServer.garbled
      BY <2>1
    <2> QED
      BY <2>2, <2>3 DEF ServerInStep
  <1> QED
    BY <1>1, <1>2, <1>3, PTL DEF SendSpec

-----------------------------------------------------------------------------
(***************************************************************************)
(* The clipboards of VncSend. Each direction is a sequence of messages, of *)
(* which only the kinds, their order and the last text matter.             *)
(***************************************************************************)

\* A message of a kind is in a sequence of messages; one is before any of others;
\* the last of some kinds, or else what is there now, is one of the texts.
Has(s, kind) == \E j \in 1..Len(s) : s[j].kind = kind
Before(s, kind, others) ==
  \E j \in 1..Len(s) : s[j].kind = kind /\ \A i \in 1..(j - 1) : s[i].kind \notin others
EndsIn(s, kinds, now, texts) ==
  \/ \E j \in 1..Len(s) : /\ s[j].kind \in kinds /\ s[j].text \in texts
                          /\ \A i \in (j + 1)..Len(s) : s[i].kind \notin kinds
  \/ (\A j \in 1..Len(s) : s[j].kind \notin kinds) /\ now \in texts

\* A message is added, once or more often; it is taken away.
Grown(s, r, m) ==
  /\ Len(s) \in Nat /\ Len(r) \in Nat /\ Len(s) < Len(r)
  /\ \A i \in 1..Len(s) : r[i] = s[i]
  /\ \A i \in (Len(s) + 1)..Len(r) : r[i] = m

Shrunk(s, r, m) ==
  /\ Len(s) \in Nat /\ Len(r) \in Nat
  /\ \E n \in Nat \ {0} : /\ Len(s) = Len(r) + n /\ \A i \in 1..n : s[i] = m
                          /\ \A i \in 1..Len(r) : r[i] = s[i + n]

LEMMA GrownFacts ==
  ASSUME NEW s, NEW r, NEW m, Grown(s, r, m)
  PROVE  /\ \A kind : Has(r, kind) <=> Has(s, kind) \/ m.kind = kind
         /\ \A kinds, now, texts : EndsIn(s, kinds, now, texts) /\ m.kind \notin kinds
                                     => EndsIn(r, kinds, now, texts)
         /\ \A kinds, now, texts : m.kind \in kinds /\ m.text \in texts => EndsIn(r, kinds, now, texts)
         /\ \A kind, others : Before(s, kind, others) => Before(r, kind, others)
         /\ \A other : m.kind # other /\ ~Has(s, other) => Before(r, m.kind, {other})
  <1>1. /\ Len(s) \in Nat /\ Len(r) \in Nat /\ Len(s) < Len(r)
        /\ \A i \in 1..Len(s) : r[i] = s[i]
        /\ \A i \in (Len(s) + 1)..Len(r) : r[i] = m
    BY DEF Grown
  <1>2. /\ Len(r) \in 1..Len(r) /\ Len(s) + 1 \in 1..Len(r) /\ r[Len(r)] = m /\ r[Len(s) + 1] = m
        /\ \A i \in 1..Len(s) : i \in 1..Len(r)
        /\ \A i \in 1..Len(r) : i \in 1..Len(s) \/ r[i] = m
    BY <1>1
  <1>3. \A kind : Has(r, kind) <=> Has(s, kind) \/ m.kind = kind
    BY <1>1, <1>2 DEF Has
  <1>4. ASSUME NEW kinds, NEW now, NEW texts, EndsIn(s, kinds, now, texts), m.kind \notin kinds
        PROVE  EndsIn(r, kinds, now, texts)
    <2>1. CASE \E j \in 1..Len(s) : /\ s[j].kind \in kinds /\ s[j].text \in texts
                                    /\ \A i \in (j + 1)..Len(s) : s[i].kind \notin kinds
      <3>1. PICK j \in 1..Len(s) : /\ s[j].kind \in kinds /\ s[j].text \in texts
                                   /\ \A i \in (j + 1)..Len(s) : s[i].kind \notin kinds
        BY <2>1
      <3>2. j \in 1..Len(r) /\ r[j] = s[j]
        BY <1>1, <1>2
      <3>3. \A i \in (j + 1)..Len(r) : r[i].kind \notin kinds
        <4> SUFFICES ASSUME NEW i \in (j + 1)..Len(r) PROVE r[i].kind \notin kinds
          OBVIOUS
        <4>1. (i \in (j + 1)..Len(s) /\ r[i] = s[i]) \/ r[i] = m
          BY <1>1
        <4> QED
          BY <1>4, <3>1, <4>1
      <3> QED
        BY <3>1, <3>2, <3>3 DEF EndsIn
    <2>2. CASE (\A j \in 1..Len(s) : s[j].kind \notin kinds) /\ now \in texts
      <3>1. \A j \in 1..Len(r) : r[j].kind \notin kinds
        BY <1>1, <1>2, <1>4, <2>2
      <3> QED
        BY <2>2, <3>1 DEF EndsIn
    <2> QED
      BY <1>4, <2>1, <2>2 DEF EndsIn
  <1>5. ASSUME NEW kinds, NEW now, NEW texts, m.kind \in kinds, m.text \in texts
        PROVE  EndsIn(r, kinds, now, texts)
    <2>1. \A i \in (Len(r) + 1)..Len(r) : r[i].kind \notin kinds
      BY <1>1
    <2> QED
      BY <1>2, <1>5, <2>1 DEF EndsIn
  <1>6. ASSUME NEW kind, NEW others, Before(s, kind, others) PROVE Before(r, kind, others)
    <2>1. PICK j \in 1..Len(s) : s[j].kind = kind /\ \A i \in 1..(j - 1) : s[i].kind \notin others
      BY <1>6 DEF Before
    <2>2. j \in 1..Len(r) /\ r[j] = s[j] /\ \A i \in 1..(j - 1) : i \in 1..Len(s) /\ r[i] = s[i]
      BY <1>1, <1>2
    <2> QED
      BY <2>1, <2>2 DEF Before
  <1>7. ASSUME NEW other, m.kind # other, ~Has(s, other) PROVE Before(r, m.kind, {other})
    <2>1. \A i \in 1..Len(s) : s[i].kind # other
      BY <1>7 DEF Has
    <2>2. \A i \in 1..((Len(s) + 1) - 1) : r[i].kind \notin {other}
      BY <1>1, <2>1
    <2> QED
      BY <1>2, <2>2 DEF Before
  <1> QED
    BY <1>3, <1>4, <1>5, <1>6, <1>7

LEMMA ShrunkFacts ==
  ASSUME NEW s, NEW r, NEW m, Shrunk(s, r, m)
  PROVE  /\ \A kind : Has(s, kind) <=> Has(r, kind) \/ m.kind = kind
         /\ \A kinds, now, texts : EndsIn(s, kinds, now, texts)
                                     => EndsIn(r, kinds, IF m.kind \in kinds THEN m.text ELSE now, texts)
         /\ \A kind, others : Before(s, kind, others) /\ m.kind # kind
                                => Before(r, kind, others) /\ m.kind \notin others
  <1>1. PICK n \in Nat \ {0} : /\ Len(s) = Len(r) + n /\ \A i \in 1..n : s[i] = m
                               /\ \A i \in 1..Len(r) : r[i] = s[i + n]
    BY DEF Shrunk
  <1>2. Len(s) \in Nat /\ Len(r) \in Nat
    BY DEF Shrunk
  <1>3. /\ 1 \in 1..Len(s) /\ s[1] = m
        /\ \A i \in 1..Len(r) : i + n \in 1..Len(s) /\ s[i + n] = r[i]
        /\ \A i \in 1..Len(s) : (i \in 1..n /\ s[i] = m) \/ (i - n \in 1..Len(r) /\ s[i] = r[i - n])
    <2>1. ASSUME NEW i \in 1..Len(s), i \notin 1..n PROVE i - n \in 1..Len(r) /\ s[i] = r[i - n]
      <3>1. i - n \in 1..Len(r) /\ (i - n) + n = i
        BY <1>1, <1>2, <2>1
      <3> QED
        BY <1>1, <3>1
    <2>2. \A i \in 1..Len(r) : i + n \in 1..Len(s)
      BY <1>1, <1>2
    <2>3. 1 \in 1..Len(s) /\ 1 \in 1..n
      BY <1>1, <1>2
    <2>4. \A i \in 1..n : s[i] = m
      BY <1>1
    <2>5. \A i \in 1..Len(s) : (i \in 1..n /\ s[i] = m) \/ (i - n \in 1..Len(r) /\ s[i] = r[i - n])
      BY <2>1, <2>4
    <2>6. \A i \in 1..Len(r) : s[i + n] = r[i]
      BY <1>1
    <2> QED
      BY <2>2, <2>3, <2>4, <2>5, <2>6
  <1>4. \A kind : Has(s, kind) <=> Has(r, kind) \/ m.kind = kind
    <2>1. ASSUME NEW kind, Has(s, kind) PROVE Has(r, kind) \/ m.kind = kind
      <3>1. PICK i \in 1..Len(s) : s[i].kind = kind
        BY <2>1 DEF Has
      <3>2. s[i] = m \/ (i - n \in 1..Len(r) /\ s[i] = r[i - n])
        BY <1>3
      <3> QED
        BY <3>1, <3>2 DEF Has
    <2>2. ASSUME NEW kind, Has(r, kind) PROVE Has(s, kind)
      <3>1. PICK i \in 1..Len(r) : r[i].kind = kind
        BY <2>2 DEF Has
      <3>2. i + n \in 1..Len(s) /\ s[i + n] = r[i]
        BY <1>3
      <3> QED
        BY <3>1, <3>2 DEF Has
    <2>3. Has(s, m.kind)
      BY <1>3 DEF Has
    <2> QED
      BY <2>1, <2>2, <2>3
  <1>5. ASSUME NEW kinds, NEW now, NEW texts, EndsIn(s, kinds, now, texts)
        PROVE  EndsIn(r, kinds, IF m.kind \in kinds THEN m.text ELSE now, texts)
    <2> DEFINE then == IF m.kind \in kinds THEN m.text ELSE now
    <2>1. CASE \E j \in 1..Len(s) : /\ s[j].kind \in kinds /\ s[j].text \in texts
                                    /\ \A i \in (j + 1)..Len(s) : s[i].kind \notin kinds
      <3>1. PICK j \in 1..Len(s) : /\ s[j].kind \in kinds /\ s[j].text \in texts
                                   /\ \A i \in (j + 1)..Len(s) : s[i].kind \notin kinds
        BY <2>1
      <3>2. CASE j \in 1..n
        <4>1. s[j] = m /\ m.kind \in kinds /\ then \in texts
          BY <1>1, <3>1, <3>2
        <4>2. \A i \in 1..Len(r) : i + n \in (j + 1)..Len(s)
          BY <1>1, <1>2, <3>2
        <4>3. \A i \in 1..Len(r) : r[i].kind \notin kinds
          BY <1>3, <3>1, <4>2
        <4> QED
          BY <4>1, <4>3 DEF EndsIn
      <3>3. CASE j \notin 1..n
        <4>1. j - n \in 1..Len(r) /\ s[j] = r[j - n]
          BY <1>3, <3>3
        <4>2. \A i \in ((j - n) + 1)..Len(r) : i \in 1..Len(r) /\ i + n \in (j + 1)..Len(s)
          BY <1>1, <1>2, <4>1
        <4>3. \A i \in ((j - n) + 1)..Len(r) : r[i].kind \notin kinds
          BY <1>3, <3>1, <4>2
        <4> QED
          BY <3>1, <4>1, <4>3 DEF EndsIn
      <3> QED
        BY <3>2, <3>3
    <2>2. CASE (\A j \in 1..Len(s) : s[j].kind \notin kinds) /\ now \in texts
      <3>1. m.kind \notin kinds /\ \A j \in 1..Len(r) : r[j].kind \notin kinds
        BY <1>3, <2>2
      <3> QED
        BY <2>2, <3>1 DEF EndsIn
    <2> QED
      BY <1>5, <2>1, <2>2 DEF EndsIn
  <1>6. ASSUME NEW kind, NEW others, Before(s, kind, others), m.kind # kind
        PROVE  Before(r, kind, others) /\ m.kind \notin others
    <2>1. PICK j \in 1..Len(s) : s[j].kind = kind /\ \A i \in 1..(j - 1) : s[i].kind \notin others
      BY <1>6 DEF Before
    <2>2. j \notin 1..n
      BY <1>1, <1>6, <2>1
    <2>3. j - n \in 1..Len(r) /\ s[j] = r[j - n]
      BY <1>3, <2>2
    <2>4. 1 \in 1..(j - 1) /\ \A i \in 1..((j - n) - 1) : i \in 1..Len(r) /\ i + n \in 1..(j - 1)
      BY <1>1, <1>2, <2>2, <2>3
    <2>5. \A i \in 1..((j - n) - 1) : r[i].kind \notin others
      BY <1>3, <2>1, <2>4
    <2>6. m.kind \notin others
      BY <1>3, <2>1, <2>4
    <2> QED
      BY <2>1, <2>3, <2>5, <2>6 DEF Before
  <1> QED
    BY <1>4, <1>5, <1>6
-----------------------------------------------------------------------------
(***************************************************************************)
(* The invariant.                                                          *)
(***************************************************************************)

\* The messages on the wire, each once per byte.
Msgs(w) == [j \in 1..Len(w) |-> w[j].msg]
Up == Msgs(sock.wire)

FromServer == [kind : {"request", "provide", "peek", "notify", "text"}, text : AnyText] \cup {Caps}

\* What either end knows of the other's extended clipboard.
Knows ==
  /\ serverCaps \in {Nothing, Caps.caps} /\ (ownText # NoText => serverCaps = Caps.caps)
  /\ serverCaps = Caps.caps <=> vmServer.known \/ Has(Up, "caps")
  /\ Has(toClient, "notify") => vmServer.known

\* No exchange of texts is under way.
AtRest ==
  /\ ~Has(Up, "notify") /\ ~Has(Up, "request") /\ ~Has(Up, "provide") /\ ~Has(Up, "cutText")
  /\ ~Has(toClient, "notify") /\ ~Has(toClient, "request") /\ ~Has(toClient, "provide")
  /\ ~Has(toClient, "text")

\* Neither clipboard has changed.
Untouched == ownText = NoText /\ vm = NoText /\ AtRest

\* The page changed last: its text is announced, asked for, under way or there.
PageLast ==
  /\ latest.text \in Texts /\ ownText \in {NoText, latest.text}
  /\ ~Has(toClient, "notify") /\ ~Has(toClient, "provide") /\ ~Has(toClient, "text")
  /\ ~Has(Up, "request")
  /\ Has(Up, "notify") \/ Has(toClient, "request") => ownText = latest.text
  /\ \/ Has(Up, "notify")
     \/ Has(toClient, "request")
     \/ EndsIn(Up, {"provide", "cutText"}, vm, {latest.text, Blurred})

\* What the page pasted before is gone, or the VM's text comes before a request
\* that would send it.
Overtaken ==
  \/ ownText = NoText
  \/ Before(toClient, "notify", {"peek"}) /\ ~Has(toClient, "request") /\ ~Has(Up, "notify")
  \/ Before(Up, "request", {"notify"}) /\ ~Has(toClient, "request")
  \/ Before(toClient, "provide", {"request"})

\* The VM changed last.
VmLast ==
  /\ latest.text \in Texts /\ vm = latest.text /\ ~Has(Up, "provide") /\ ~Has(Up, "cutText")
  /\ \/ Has(toClient, "notify")
     \/ Has(Up, "request")
     \/ EndsIn(toClient, {"provide", "text"}, field, {latest.text})
  /\ Overtaken

Agreeing ==
  /\ Knows
  /\ readOnly /\ latest.by # "both" => AtRest
  /\ latest.by = "nobody" => Untouched
  /\ latest.by = "page" => PageLast
  /\ latest.by = "vm" => VmLast

ClipInv ==
  /\ SndInv /\ toClient \in Seq(FromServer) /\ vm \in AnyText
  /\ sock.open => Agreeing

LEMMA ClipAgrees ==
  ClipInv => ClipboardsAgree
  <1> SUFFICES ASSUME ClipInv, Quiet
               PROVE  /\ latest.by = "page" => vm \in {latest.text, Blurred}
                      /\ latest.by = "vm" => field = latest.text
    BY DEF ClipboardsAgree
  <1>1. sock.open /\ sock.wire = <<>> /\ toClient = <<>>
    BY DEF Quiet
  <1>2. Agreeing
    BY <1>1 DEF ClipInv
  <1>3. Len(Up) = 0 /\ Len(toClient) = 0
    BY <1>1 DEF Up, Msgs
  <1>4. \A kind : ~Has(Up, kind) /\ ~Has(toClient, kind)
    BY <1>3 DEF Has
  <1>5. ASSUME latest.by = "page" PROVE vm \in {latest.text, Blurred}
    <2>1. EndsIn(Up, {"provide", "cutText"}, vm, {latest.text, Blurred})
      BY <1>2, <1>4, <1>5 DEF Agreeing, PageLast
    <2> QED
      BY <1>3, <2>1 DEF EndsIn
  <1>6. ASSUME latest.by = "vm" PROVE field = latest.text
    <2>1. EndsIn(toClient, {"provide", "text"}, field, {latest.text})
      BY <1>2, <1>4, <1>6 DEF Agreeing, VmLast
    <2> QED
      BY <1>3, <2>1 DEF EndsIn
  <1> QED
    BY <1>5, <1>6

LEMMA ClipInitInv ==
  SendInit => ClipInv
  <1> SUFFICES ASSUME SendInit PROVE ClipInv
    OBVIOUS
  <1>1. SndInv
    BY SndInitInv
  <1>2. /\ sock = [buf |-> <<>>, len |-> 0, wire |-> <<>>, open |-> TRUE, hung |-> FALSE]
        /\ toClient = <<>> /\ serverCaps = Nothing /\ ownText = NoText /\ readOnly = FALSE
        /\ vm = NoText /\ latest = [by |-> "nobody", text |-> NoText] /\ vmServer.known = FALSE
    BY DEF SendInit
  <1>3. Len(Up) = 0 /\ Len(toClient) = 0
    BY <1>2 DEF Up, Msgs
  <1>4. \A kind : ~Has(Up, kind) /\ ~Has(toClient, kind)
    BY <1>3 DEF Has
  <1>5. serverCaps # Caps.caps
    BY <1>2 DEF Caps, Nothing
  <1>6. Knows
    BY <1>2, <1>4, <1>5 DEF Knows
  <1>7. Untouched
    BY <1>2, <1>4 DEF Untouched, AtRest
  <1>8. Agreeing
    BY <1>2, <1>6, <1>7 DEF Agreeing
  <1>9. toClient \in Seq(FromServer) /\ vm \in AnyText
    BY <1>2, EmptyIsSeq DEF AnyText
  <1> QED
    BY <1>1, <1>8, <1>9 DEF ClipInv

-----------------------------------------------------------------------------
(***************************************************************************)
(* What the actions do to the two sequences.                               *)
(***************************************************************************)

LEMMA UpGrows ==
  ASSUME NEW q, NEW r, NEW m \in Messages, q \in Queues, q.open, Sent(q, r, m)
  PROVE  Grown(Msgs(q.wire), Msgs(r.wire), m)
  <1> DEFINE w == q.wire
             size == ProtocolSize(m)
             b == Bytes(m, 0, size)
             v == w \o b
  <1>1. w \in Seq(StreamBytes) /\ r.wire = v
    BY DEF Queues, Sent
  <1>2. size \in Nat \ {0}
    BY EveryMessageAsLong DEF AsLong
  <1>3. b \in Seq(StreamBytes) /\ Len(b) = size /\ \A i \in 1..size : b[i] = ByteAt(m, 0 + i)
    BY <1>2, BytesAre
  <1> HIDE DEF w, size, b
  <1>4. /\ Len(v) = Len(w) + size /\ Len(w) \in Nat
        /\ \A i \in 1..(Len(w) + size) : v[i] = IF i <= Len(w) THEN w[i] ELSE b[i - Len(w)]
    <2>1. w \in Seq(StreamBytes) /\ b \in Seq(StreamBytes) /\ Len(b) = size
      BY <1>1, <1>3
    <2>2. /\ Len(v) = Len(w) + size
          /\ \A i \in 1..(Len(w) + size) : v[i] = IF i <= Len(w) THEN w[i] ELSE b[i - Len(w)]
      BY <2>1, ConcatProperties
    <2> QED
      BY <2>1, <2>2
  <1>5. \A i \in 1..Len(w) : v[i] = w[i]
    BY <1>2, <1>4
  <1>6. \A i \in (Len(w) + 1)..Len(v) : v[i].msg = m
    <2> SUFFICES ASSUME NEW i \in (Len(w) + 1)..Len(v) PROVE v[i].msg = m
      OBVIOUS
    <2>1. i \in 1..(Len(w) + size) /\ ~(i <= Len(w)) /\ i - Len(w) \in 1..size
      BY <1>2, <1>4
    <2>2. v[i] = ByteAt(m, 0 + (i - Len(w)))
      BY <1>3, <1>4, <2>1
    <2> QED
      BY <2>2 DEF ByteAt
  <1> HIDE DEF v
  <1>7. /\ Len(Msgs(w)) = Len(w) /\ \A i \in 1..Len(w) : Msgs(w)[i] = w[i].msg
        /\ Len(Msgs(v)) = Len(v) /\ \A i \in 1..Len(v) : Msgs(v)[i] = v[i].msg
    BY <1>2, <1>4 DEF Msgs
  <1>8. /\ Len(w) < Len(v) /\ Len(v) \in Nat /\ \A i \in 1..Len(w) : i \in 1..Len(v)
        /\ \A i \in (Len(w) + 1)..Len(v) : i \in 1..Len(v)
    BY <1>2, <1>4
  <1>9. Grown(Msgs(w), Msgs(v), m)
    BY <1>4, <1>5, <1>6, <1>7, <1>8 DEF Grown
  <1> QED
    BY <1>1, <1>9 DEF w

LEMMA UpShrinks ==
  ASSUME SndInv, ServerReads
  PROVE  LET m == sock.wire[1].msg
         IN  /\ m \in Messages /\ Shrunk(Up, Up', m) /\ sock'.open = sock.open
             /\ toClient' = IF sock.open THEN toClient \o Answer(m) ELSE toClient
             /\ vm' = IF m.kind \in {"provide", "cutText"} THEN m.text ELSE vm
             /\ vmServer'.known = (vmServer.known \/ m.kind = "caps")
  <1> DEFINE w == sock.wire
             m == w[1].msg
             n == ProtocolSize(m)
             whole == Len(w) >= n /\ SubSeq(w, 1, n) = Bytes(m, 0, n)
             v == SubSeq(w, n + 1, Len(w))
  <1>1. /\ Rests(sock) /\ WholeMessages(w)
        /\ vmServer \in [extended : BOOLEAN, known : BOOLEAN, garbled : {FALSE}]
    BY DEF SndInv, InStep
  <1>2. sock \in Queues /\ w \in Seq(StreamBytes) /\ w # <<>>
    BY <1>1 DEF Rests, Queues, ServerReads
  <1>3. /\ m \in Messages /\ n \in Nat \ {0} /\ Len(w) >= n
        /\ \A k \in 1..n : w[k] = [msg |-> m, i |-> k]
        /\ whole
    <2> HIDE DEF w
    <2> QED
      BY <1>1, <1>2, WholeFirst
  <1>4. /\ sock' = [sock EXCEPT !.wire = v]
        /\ toClient' = IF sock.open THEN toClient \o Answer(m) ELSE toClient
        /\ vm' = IF m.kind \in {"provide", "cutText"} THEN m.text ELSE vm
        /\ vmServer' = [vmServer EXCEPT !.known = @ \/ m.kind = "caps"]
    BY <1>3 DEF ServerReads
  <1>5. sock'.wire = v /\ sock'.open = sock.open
    BY <1>2, <1>4 DEF Queues
  <1>6. vmServer'.known = (vmServer.known \/ m.kind = "caps")
    BY <1>1, <1>4
  <1> HIDE DEF w, n, m, whole
  <1>7. /\ Len(w) \in Nat /\ Len(v) = Len(w) - n
        /\ \A i \in 1..Len(v) : v[i] = w[i + n]
    BY <1>2, <1>3
  <1> HIDE DEF v
  <1>8. /\ Len(Msgs(w)) = Len(w) /\ \A i \in 1..Len(w) : Msgs(w)[i] = w[i].msg
        /\ Len(Msgs(v)) = Len(v) /\ \A i \in 1..Len(v) : Msgs(v)[i] = v[i].msg
    BY <1>3, <1>7 DEF Msgs
  <1>9. /\ Len(w) = Len(v) + n /\ Len(v) \in Nat /\ \A i \in 1..n : i \in 1..Len(w)
        /\ \A i \in 1..Len(v) : i + n \in 1..Len(w)
    BY <1>3, <1>7
  <1>10. \A i \in 1..n : Msgs(w)[i] = m
    <2>1. ASSUME NEW k \in 1..n PROVE w[k].msg = m
      <3>1. w[k] = [msg |-> m, i |-> k]
        BY <1>3
      <3> QED
        BY <3>1
    <2> QED
      BY <1>8, <1>9, <2>1
  <1>11. \A i \in 1..Len(v) : Msgs(v)[i] = Msgs(w)[i + n]
    BY <1>7, <1>8, <1>9
  <1>12. Shrunk(Msgs(w), Msgs(v), m)
    BY <1>3, <1>7, <1>8, <1>9, <1>10, <1>11 DEF Shrunk
  <1>13. Up = Msgs(w) /\ Up' = Msgs(v)
    BY <1>5 DEF Up, w
  <1> QED
    BY <1>3, <1>4, <1>5, <1>6, <1>12, <1>13 DEF m, w

LEMMA DownGrows ==
  ASSUME NEW s \in Seq(FromServer), NEW x \in FromServer
  PROVE  /\ Append(s, x) \in Seq(FromServer) /\ Grown(s, Append(s, x), x)
         /\ s \o <<x>> = Append(s, x) /\ s \o <<>> = s
  <1>1. /\ Append(s, x) \in Seq(FromServer) /\ Len(s) \in Nat /\ Len(Append(s, x)) = Len(s) + 1
        /\ \A i \in 1..Len(s) : Append(s, x)[i] = s[i]
        /\ Append(s, x)[Len(s) + 1] = x
    OBVIOUS
  <1>2. \A i \in (Len(s) + 1)..(Len(s) + 1) : i = Len(s) + 1
    BY <1>1
  <1>3. Grown(s, Append(s, x), x)
    BY <1>1, <1>2 DEF Grown
  <1>4. s \o <<x>> = Append(s, x) /\ s \o <<>> = s
    OBVIOUS
  <1> QED
    BY <1>1, <1>3, <1>4

LEMMA DownShrinks ==
  ASSUME NEW s \in Seq(FromServer), s # <<>>
  PROVE  Tail(s) \in Seq(FromServer) /\ Shrunk(s, Tail(s), Head(s)) /\ Head(s) \in FromServer
  <1>1. /\ Tail(s) \in Seq(FromServer) /\ Len(s) \in Nat /\ Len(Tail(s)) = Len(s) - 1 /\ Len(s) > 0
        /\ \A i \in 1..Len(Tail(s)) : Tail(s)[i] = s[i + 1]
        /\ Head(s) = s[1] /\ Head(s) \in FromServer
    OBVIOUS
  <1>2. /\ 1 \in Nat \ {0} /\ Len(Tail(s)) \in Nat /\ Len(s) = Len(Tail(s)) + 1
        /\ \A i \in 1..1 : s[i] = Head(s)
    BY <1>1
  <1> QED
    BY <1>1, <1>2 DEF Shrunk

-----------------------------------------------------------------------------
(***************************************************************************)
(* The actions.                                                            *)
(***************************************************************************)

LEMMA SendGrows ==
  ASSUME SndInv, NEW m \in Messages, sock' = Send(sock, m), sock'.open
  PROVE  sock.open /\ Grown(Up, Up', m)
  <1>1. Rests(sock) /\ sock \in Queues
    BY DEF SndInv, InStep, Rests
  <1>2. Sent(sock, sock', m)
    BY <1>1, SendFacts
  <1>3. sock.open
    BY <1>2 DEF Sent
  <1> QED
    BY <1>1, <1>2, <1>3, UpGrows DEF Up

\* Messages that are not about the clipboard.
AsBefore(s, r) ==
  /\ \A kind \in CutTexts : Has(r, kind) <=> Has(s, kind)
  /\ \A now, texts : EndsIn(s, {"provide", "cutText"}, now, texts) => EndsIn(r, {"provide", "cutText"}, now, texts)
  /\ Before(s, "request", {"notify"}) => Before(r, "request", {"notify"})

LEMMA GrownAside ==
  ASSUME NEW s, NEW r, NEW m, Grown(s, r, m), m.kind \notin CutTexts
  PROVE  AsBefore(s, r)
  <1>1. \A kind \in CutTexts : Has(r, kind) <=> Has(s, kind)
    BY GrownFacts
  <1>2. m.kind \notin {"provide", "cutText"}
    BY DEF CutTexts
  <1>3. ASSUME NEW now, NEW texts, EndsIn(s, {"provide", "cutText"}, now, texts)
        PROVE  EndsIn(r, {"provide", "cutText"}, now, texts)
    BY <1>2, <1>3, GrownFacts
  <1>4. Before(s, "request", {"notify"}) => Before(r, "request", {"notify"})
    BY GrownFacts
  <1> QED
    BY <1>1, <1>3, <1>4 DEF AsBefore

LEMMA AsideStep ==
  ASSUME Agreeing, AsBefore(Up, Up'),
         UNCHANGED <<toClient, serverCaps, ownText, readOnly, field, vm, vmServer, latest>>
  PROVE  Agreeing'
  <1>1. /\ toClient' = toClient /\ serverCaps' = serverCaps /\ ownText' = ownText /\ readOnly' = readOnly
        /\ field' = field /\ vm' = vm /\ vmServer' = vmServer /\ latest' = latest
    OBVIOUS
  <1>2. /\ Has(Up', "caps") <=> Has(Up, "caps")
        /\ Has(Up', "notify") <=> Has(Up, "notify")
        /\ Has(Up', "request") <=> Has(Up, "request")
        /\ Has(Up', "provide") <=> Has(Up, "provide")
        /\ Has(Up', "cutText") <=> Has(Up, "cutText")
    BY DEF AsBefore, CutTexts
  <1>3. Before(Up, "request", {"notify"}) => Before(Up', "request", {"notify"})
    BY DEF AsBefore
  <1>4. EndsIn(Up, {"provide", "cutText"}, vm, {latest.text, Blurred})
          => EndsIn(Up', {"provide", "cutText"}, vm, {latest.text, Blurred})
    BY DEF AsBefore
  <1>5. Knows => Knows'
    BY <1>1, <1>2 DEF Knows
  <1>6. (AtRest => AtRest') /\ (Untouched => Untouched')
    BY <1>1, <1>2 DEF Untouched, AtRest
  <1>7. PageLast => PageLast'
    BY <1>1, <1>2, <1>4 DEF PageLast
  <1>8. Overtaken => Overtaken'
    BY <1>1, <1>2, <1>3 DEF Overtaken
  <1>9. VmLast => VmLast'
    BY <1>1, <1>2, <1>8 DEF VmLast
  <1> QED
    BY <1>1, <1>5, <1>6, <1>7, <1>9 DEF Agreeing

LEMMA ServerInitDoneAgrees ==
  ASSUME ClipInv, NEW depth \in {8, 24}, NEW h264 \in BOOLEAN, ServerInitDone(depth, h264), sock'.open
  PROVE  Agreeing'
  <1> DEFINE a == Message0("pixelFormat")
             b == Encodings(depth, h264)
             c == Message0("fbUpdateRequest")
             q1 == Send(sock, a)
             q2 == Send(q1, b)
             q3 == Send(q2, c)
  <1>1. /\ InStep(sock) /\ Rests(sock) /\ sock \in Queues
    BY DEF ClipInv, SndInv, InStep, Rests
  <1>2. "pixelFormat" \in MessageKinds /\ "fbUpdateRequest" \in MessageKinds
    BY DEF MessageKinds
  <1>3. a \in Messages /\ b \in Messages /\ c \in Messages
    BY <1>2, MessageTypes
  <1>4. a.kind \notin CutTexts /\ b.kind \notin CutTexts /\ c.kind \notin CutTexts
    BY DEF Message0, Encodings, CutTexts
  <1>5. /\ sock' = q3
        /\ UNCHANGED <<toClient, serverCaps, ownText, readOnly, field, vm, vmServer, latest>>
    BY DEF ServerInitDone
  <1> HIDE DEF a, b, c
  <1>6. InStep(q1) /\ Sent(sock, q1, a)
    BY <1>1, <1>3, SendKeepsStep, SendFacts
  <1> HIDE DEF q1
  <1>7. Rests(q1) /\ q1 \in Queues
    BY <1>6 DEF InStep, Rests
  <1>8. InStep(q2) /\ Sent(q1, q2, b)
    BY <1>3, <1>6, <1>7, SendKeepsStep, SendFacts
  <1> HIDE DEF q2
  <1>9. Rests(q2) /\ q2 \in Queues
    BY <1>8 DEF InStep, Rests
  <1>10. Sent(q2, q3, c)
    BY <1>3, <1>9, SendFacts
  <1> HIDE DEF q3
  <1>11. q2.open /\ q1.open /\ sock.open
    BY <1>5, <1>6, <1>8, <1>10 DEF Sent
  <1>12. AsBefore(Msgs(sock.wire), Msgs(q1.wire))
    BY <1>1, <1>3, <1>4, <1>6, <1>11, UpGrows, GrownAside
  <1>13. AsBefore(Msgs(q1.wire), Msgs(q2.wire))
    BY <1>3, <1>4, <1>7, <1>8, <1>11, UpGrows, GrownAside
  <1>14. AsBefore(Msgs(q2.wire), Msgs(q3.wire))
    BY <1>3, <1>4, <1>9, <1>10, <1>11, UpGrows, GrownAside
  <1>15. AsBefore(Msgs(sock.wire), Msgs(q3.wire))
    BY <1>12, <1>13, <1>14 DEF AsBefore
  <1>16. AsBefore(Up, Up')
    BY <1>5, <1>15 DEF Up
  <1> QED
    BY <1>5, <1>11, <1>16, AsideStep DEF ClipInv

LEMMA SendInputAgrees ==
  ASSUME ClipInv, NEW m \in Inputs, SendInput(m), sock'.open
  PROVE  Agreeing'
  <1>1. /\ sock' = Send(sock, m) /\ m \in Messages
        /\ UNCHANGED <<toClient, serverCaps, ownText, readOnly, field, vm, vmServer, latest>>
    BY MessageTypes DEF SendInput
  <1>2. m.kind \notin CutTexts
    BY DEF Inputs, Message0, CutTexts
  <1>3. sock.open /\ Grown(Up, Up', m)
    BY <1>1, SendGrows DEF ClipInv
  <1> QED
    BY <1>1, <1>2, <1>3, GrownAside, AsideStep DEF ClipInv

LEMMA NothingUnderWay ==
  ASSUME Quiet
  PROVE  \A kind : ~Has(Up, kind) /\ ~Has(toClient, kind)
  <1>1. Len(Up) = 0 /\ Len(toClient) = 0
    BY DEF Quiet, Up, Msgs
  <1> QED
    BY <1>1 DEF Has

LEMMA PasteAgrees ==
  ASSUME ClipInv, NEW t \in Texts, Paste(t), sock'.open
  PROVE  Agreeing'
  <1> DEFINE b == IF t \in Latin1 THEN t ELSE Blurred
             caps == {"text", "notify"} \subseteq serverCaps
             x == IF caps THEN Notify ELSE ClientCutText("cutText", PlainBytes, b)
  <1>1. /\ ~readOnly /\ latest' = Changed("page", t) /\ sock' = Send(sock, x)
        /\ ownText' = IF caps THEN t ELSE ownText
        /\ UNCHANGED <<toClient, serverCaps, readOnly, vm, vmServer>>
    BY DEF Paste
  <1>2. t # NoText
    BY SendAssumption
  <1>3. /\ x \in Messages
        /\ caps => x.kind = "notify"
        /\ ~caps => x.kind = "cutText" /\ x.text \in {t, Blurred}
    <2>1. "notify" \in MessageKinds /\ "cutText" \in MessageKinds
      BY DEF MessageKinds, CutTexts
    <2>2. b \in AnyText /\ NoText \in AnyText /\ PlainBytes \in Nat /\ b \in {t, Blurred}
      BY DEF AnyText, PlainBytes
    <2> HIDE DEF b
    <2>3. Notify \in Messages /\ ClientCutText("cutText", PlainBytes, b) \in Messages
      BY <2>1, <2>2, MessageTypes DEF Notify
    <2> QED
      BY <2>2, <2>3 DEF Notify, ClientCutText
  <1> HIDE DEF x
  <1>4. sock.open /\ Grown(Up, Up', x)
    BY <1>1, <1>3, SendGrows DEF ClipInv
  <1>5. Agreeing
    BY <1>4 DEF ClipInv
  <1>6. /\ latest'.text = t /\ latest'.by \in {"page", "both"}
        /\ latest'.by = "page" => latest.by \in {"nobody", "page"} \/ Quiet
    BY <1>1 DEF Changed
  <1>7. serverCaps = IF caps THEN Caps.caps ELSE Nothing
    BY <1>5 DEF Agreeing, Knows, Caps, Nothing
  <1>8. ~caps => ownText = NoText
    BY <1>5, <1>7 DEF Agreeing, Knows, Caps, Nothing
  <1> HIDE DEF caps
  <1>9. \A kind : Has(Up', kind) <=> Has(Up, kind) \/ x.kind = kind
    BY <1>4, GrownFacts
  <1>10. Knows'
    <2>1. Knows /\ (Has(Up', "caps") <=> Has(Up, "caps"))
      BY <1>3, <1>5, <1>9 DEF Agreeing
    <2> QED
      BY <1>1, <1>7, <1>8, <2>1 DEF Knows
  <1>11. ASSUME latest'.by = "page" PROVE PageLast'
    <2>1. /\ ~Has(toClient, "notify") /\ ~Has(toClient, "provide") /\ ~Has(toClient, "text")
          /\ ~Has(Up, "request")
          /\ ownText = NoText => ~Has(Up, "notify") /\ ~Has(toClient, "request")
      <3>1. CASE Quiet
        BY <3>1, NothingUnderWay
      <3>2. CASE latest.by = "nobody"
        BY <1>1, <1>5, <3>2 DEF Agreeing, Untouched, AtRest
      <3>3. CASE latest.by = "page"
        <4>1. PageLast /\ latest.text # NoText
          BY <1>5, <3>3, SendAssumption DEF Agreeing, PageLast
        <4> QED
          BY <4>1 DEF PageLast
      <3> QED
        BY <1>6, <1>11, <3>1, <3>2, <3>3
    <2>2. CASE caps
      <3>1. Has(Up', "notify") /\ ~Has(Up', "request")
        BY <1>3, <1>9, <2>1, <2>2
      <3> QED
        BY <1>1, <1>6, <2>1, <2>2, <3>1 DEF PageLast
    <2>3. CASE ~caps
      <3>1. ownText' = NoText /\ ~Has(Up', "notify") /\ ~Has(toClient', "request") /\ ~Has(Up', "request")
        BY <1>1, <1>3, <1>8, <1>9, <2>1, <2>3
      <3>2. x.kind \in {"provide", "cutText"} /\ x.text \in {t, Blurred}
        BY <1>3, <2>3
      <3>3. EndsIn(Up', {"provide", "cutText"}, vm', {t, Blurred})
        BY <1>4, <3>2, GrownFacts
      <3> QED
        BY <1>1, <1>6, <2>1, <3>1, <3>3 DEF PageLast
    <2> QED
      BY <2>2, <2>3
  <1> QED
    BY <1>1, <1>6, <1>10, <1>11 DEF Agreeing

LEMMA FromServerKinds ==
  /\ \A kind \in {"request", "provide", "peek", "notify", "text"}, t \in AnyText :
       ToClient(kind, t) \in FromServer /\ ToClient(kind, t).kind = kind /\ ToClient(kind, t).text = t
  /\ Caps \in FromServer /\ Caps.kind = "caps"
  /\ \A m \in FromServer : m.kind = "caps" => m = Caps
  /\ \A m \in FromServer : m.kind \in {"request", "provide", "peek", "notify", "text", "caps"}
  <1>1. Caps.kind = "caps" /\ Caps \in FromServer
    BY DEF Caps, FromServer
  <1>2. \A m \in FromServer : m = Caps \/ m.kind \in {"request", "provide", "peek", "notify", "text"}
    BY DEF FromServer
  <1>3. \A kind \in {"request", "provide", "peek", "notify", "text"}, t \in AnyText :
          ToClient(kind, t) \in FromServer /\ ToClient(kind, t).kind = kind /\ ToClient(kind, t).text = t
    BY DEF FromServer, ToClient
  <1> QED
    BY <1>1, <1>2, <1>3

LEMMA VmCopiesAgrees ==
  ASSUME ClipInv, NEW t \in Texts, VmCopies(t), sock'.open
  PROVE  Agreeing' /\ toClient' \in Seq(FromServer)
  <1> DEFINE x == IF vmServer.known THEN ToClient("notify", NoText) ELSE ToClient("text", t)
  <1>1. /\ vm' = t /\ latest' = IF readOnly THEN Stopped ELSE Changed("vm", t)
        /\ toClient' = Append(toClient, x) /\ sock.open
        /\ UNCHANGED <<sock, serverCaps, ownText, readOnly, field, vmServer>>
    BY DEF VmCopies
  <1>2. /\ x \in FromServer
        /\ vmServer.known => x.kind = "notify"
        /\ ~vmServer.known => x.kind = "text" /\ x.text = t
    BY FromServerKinds DEF AnyText
  <1> HIDE DEF x
  <1>3. Agreeing /\ toClient \in Seq(FromServer)
    BY <1>1 DEF ClipInv
  <1>4. toClient' \in Seq(FromServer) /\ Grown(toClient, toClient', x)
    BY <1>1, <1>2, <1>3, DownGrows
  <1>5. Up' = Up
    BY <1>1 DEF Up
  <1>6. \A kind : Has(toClient', kind) <=> Has(toClient, kind) \/ x.kind = kind
    BY <1>4, GrownFacts
  <1>7. Knows'
    <2>1. Has(toClient', "notify") => Has(toClient, "notify") \/ vmServer.known
      BY <1>2, <1>6
    <2> QED
      BY <1>1, <1>3, <1>5, <2>1 DEF Agreeing, Knows
  <1>8. CASE readOnly
    <2>1. latest'.by = "both" /\ readOnly'
      BY <1>1, <1>8 DEF Stopped
    <2> QED
      BY <1>4, <1>7, <2>1 DEF Agreeing
  <1>9. CASE ~readOnly
    <2>1. /\ latest'.text = t /\ latest'.by \in {"vm", "both"} /\ ~readOnly'
          /\ latest'.by = "vm" => latest.by \in {"nobody", "vm"} \/ Quiet
      BY <1>1, <1>9 DEF Changed
    <2>2. ASSUME latest'.by = "vm" PROVE VmLast'
      <3>1. ~Has(Up, "provide") /\ ~Has(Up, "cutText")
        <4>1. CASE Quiet
          BY <4>1, NothingUnderWay
        <4>2. CASE latest.by \in {"nobody", "vm"}
          BY <1>3, <1>9, <4>2 DEF Agreeing, Untouched, AtRest, VmLast
        <4> QED
          BY <2>1, <2>2, <4>1, <4>2
      <3>2. Has(toClient', "notify") \/ EndsIn(toClient', {"provide", "text"}, field', {t})
        <4>1. CASE vmServer.known
          BY <1>2, <1>6, <4>1
        <4>2. CASE ~vmServer.known
          <5>1. x.kind \in {"provide", "text"} /\ x.text \in {t}
            BY <1>2, <4>2
          <5> QED
            BY <1>4, <5>1, GrownFacts
        <4> QED
          BY <4>1, <4>2
      <3>3. x.kind \in {"notify", "text"}
        BY <1>2
      <3>4. Overtaken'
        <4>1. ASSUME Overtaken PROVE Overtaken'
          <5>1. Has(toClient', "request") <=> Has(toClient, "request")
            BY <1>6, <3>3
          <5>2. /\ Before(toClient, "notify", {"peek"}) => Before(toClient', "notify", {"peek"})
                /\ Before(toClient, "provide", {"request"}) => Before(toClient', "provide", {"request"})
            BY <1>4, GrownFacts
          <5> QED
            BY <1>1, <1>5, <4>1, <5>1, <5>2 DEF Overtaken
        <4>2. CASE latest.by = "nobody"
          BY <1>3, <1>9, <4>1, <4>2 DEF Agreeing, Untouched, Overtaken
        <4>3. CASE latest.by = "vm"
          BY <1>3, <4>1, <4>3 DEF Agreeing, VmLast
        <4>4. CASE Quiet /\ ownText = NoText
          BY <4>1, <4>4 DEF Overtaken
        <4>5. CASE Quiet /\ ownText # NoText
          <5>1. \A kind : ~Has(Up, kind) /\ ~Has(toClient, kind)
            BY <4>5, NothingUnderWay
          <5>2. vmServer.known
            BY <1>3, <4>5, <5>1 DEF Agreeing, Knows
          <5>3. x.kind = "notify" /\ x.kind # "peek" /\ ~Has(toClient, "peek")
            BY <1>2, <5>1, <5>2
          <5>4. Before(toClient', "notify", {"peek"})
            <6>1. Before(toClient', x.kind, {"peek"})
              BY <1>4, <5>3, GrownFacts
            <6> QED
              BY <5>3, <6>1
          <5>5. ~Has(toClient', "request") /\ ~Has(Up', "notify")
            BY <1>5, <1>6, <5>1, <5>3
          <5> QED
            BY <5>4, <5>5 DEF Overtaken
        <4> QED
          BY <2>1, <2>2, <4>2, <4>3, <4>4, <4>5
      <3> QED
        BY <1>1, <1>5, <2>1, <3>1, <3>2, <3>4 DEF VmLast
    <2> QED
      BY <1>4, <1>7, <2>1, <2>2 DEF Agreeing
  <1> QED
    BY <1>8, <1>9

LEMMA PeeksAgrees ==
  ASSUME ClipInv, Peeks, sock'.open
  PROVE  Agreeing' /\ toClient' \in Seq(FromServer)
  <1> DEFINE x == ToClient("peek", NoText)
  <1>1. /\ toClient = <<>> /\ toClient' = <<x>> /\ sock.open
        /\ UNCHANGED <<sock, serverCaps, ownText, readOnly, field, vm, vmServer, latest>>
    BY DEF Peeks
  <1>2. x \in FromServer /\ x.kind = "peek"
    BY FromServerKinds DEF AnyText
  <1> HIDE DEF x
  <1>3. Agreeing /\ toClient \in Seq(FromServer)
    BY <1>1 DEF ClipInv
  <1>4. toClient' \in Seq(FromServer) /\ Grown(toClient, toClient', x)
    <2>1. toClient' = Append(toClient, x)
      BY <1>1
    <2> QED
      BY <1>2, <1>3, <2>1, DownGrows
  <1>5. Up' = Up
    BY <1>1 DEF Up
  <1>6. /\ Has(toClient', "notify") <=> Has(toClient, "notify")
        /\ Has(toClient', "request") <=> Has(toClient, "request")
        /\ Has(toClient', "provide") <=> Has(toClient, "provide")
        /\ Has(toClient', "text") <=> Has(toClient, "text")
    BY <1>2, <1>4, GrownFacts
  <1>7. /\ Before(toClient, "notify", {"peek"}) => Before(toClient', "notify", {"peek"})
        /\ Before(toClient, "provide", {"request"}) => Before(toClient', "provide", {"request"})
    BY <1>4, GrownFacts
  <1>8. EndsIn(toClient, {"provide", "text"}, field, {latest.text})
          => EndsIn(toClient', {"provide", "text"}, field, {latest.text})
    <2>1. x.kind \notin {"provide", "text"}
      BY <1>2
    <2> QED
      BY <1>4, <2>1, GrownFacts
  <1>9. Knows => Knows'
    BY <1>1, <1>5, <1>6 DEF Knows
  <1>10. (AtRest => AtRest') /\ (Untouched => Untouched')
    BY <1>1, <1>5, <1>6 DEF Untouched, AtRest
  <1>11. PageLast => PageLast'
    BY <1>1, <1>5, <1>6 DEF PageLast
  <1>12. Overtaken => Overtaken'
    BY <1>1, <1>5, <1>6, <1>7 DEF Overtaken
  <1>13. VmLast => VmLast'
    BY <1>1, <1>5, <1>6, <1>8, <1>12 DEF VmLast
  <1> QED
    BY <1>1, <1>3, <1>4, <1>9, <1>10, <1>11, <1>13 DEF Agreeing

\* The client handles message m, and answers it or not.
LEMMA HandleFacts ==
  ASSUME ClipInv, HandleServerCutText, sock'.open
  PROVE  LET m == Head(toClient)
             refused == readOnly /\ m.kind # "caps"
         IN  /\ Agreeing /\ m \in FromServer /\ toClient' \in Seq(FromServer)
             /\ Shrunk(toClient, toClient', m)
             /\ serverCaps' = IF m.kind = "caps" THEN m.caps ELSE serverCaps
             /\ ownText' = IF m.kind = "provide" /\ ~refused THEN NoText ELSE ownText
             /\ field' = IF m.kind \in {"provide", "text"} /\ ~refused THEN m.text ELSE field
             /\ readOnly' = readOnly /\ vm' = vm /\ vmServer' = vmServer /\ latest' = latest
             /\ refused \/ Reply(m) = <<>> => Up' = Up
             /\ \A x : ~refused /\ Reply(m) = <<x>> => Grown(Up, Up', x)
  <1> DEFINE m == Head(toClient)
             refused == readOnly /\ m.kind # "caps"
  <1>1. /\ sock' = IF refused THEN sock ELSE SendAny(sock, Reply(m))
        /\ serverCaps' = IF m.kind = "caps" THEN m.caps ELSE serverCaps
        /\ ownText' = IF m.kind = "provide" /\ ~refused THEN NoText ELSE ownText
        /\ field' = IF m.kind \in {"provide", "text"} /\ ~refused THEN m.text ELSE field
        /\ readOnly' = readOnly /\ vm' = vm /\ vmServer' = vmServer /\ latest' = latest
        /\ toClient # <<>> /\ toClient' = Tail(toClient) /\ sock.open
    BY DEF HandleServerCutText
  <1>2. Agreeing /\ toClient \in Seq(FromServer) /\ SndInv /\ ownText \in AnyText
    BY <1>1 DEF ClipInv, SndInv
  <1>3. m \in FromServer /\ toClient' \in Seq(FromServer) /\ Shrunk(toClient, toClient', m)
    BY <1>1, <1>2, DownShrinks
  <1> HIDE DEF m, refused
  <1>4. ASSUME refused \/ Reply(m) = <<>> PROVE Up' = Up
    BY <1>1, <1>4 DEF Up, SendAny
  <1>5. ASSUME NEW x, ~refused, Reply(m) = <<x>> PROVE Grown(Up, Up', x)
    <2>0. Reply(m) # <<>>
      BY <1>5
    <2>1. PICK y \in Messages : Reply(m) = <<y>>
      BY <1>2, <2>0, ReplyTypes
    <2>2. x = y /\ <<x>> # <<>> /\ <<x>>[1] = x
      BY <1>5, <2>1
    <2>3. sock' = Send(sock, x)
      BY <1>1, <1>5, <2>2 DEF SendAny
    <2> QED
      BY <1>2, <2>1, <2>2, <2>3, SendGrows
  <1> QED
    BY <1>1, <1>2, <1>3, <1>4, <1>5 DEF m, refused

\* What a message less on the way to the client leaves of the parts of the
\* invariant, if it is not one that they wait for.
LEMMA LessForClient ==
  ASSUME NEW m, Shrunk(toClient, toClient', m)
  PROVE  /\ \A kind : Has(toClient, kind) <=> Has(toClient', kind) \/ m.kind = kind
         /\ Before(toClient, "notify", {"peek"}) /\ m.kind # "notify"
              => Before(toClient', "notify", {"peek"}) /\ m.kind # "peek"
         /\ Before(toClient, "provide", {"request"}) /\ m.kind # "provide"
              => Before(toClient', "provide", {"request"}) /\ m.kind # "request"
         /\ \A t : EndsIn(toClient, {"provide", "text"}, field, {t})
              => EndsIn(toClient', {"provide", "text"},
                        IF m.kind \in {"provide", "text"} THEN m.text ELSE field, {t})
  <1>1. \A kind : Has(toClient, kind) <=> Has(toClient', kind) \/ m.kind = kind
    BY ShrunkFacts
  <1>2. ASSUME Before(toClient, "notify", {"peek"}), m.kind # "notify"
        PROVE  Before(toClient', "notify", {"peek"}) /\ m.kind # "peek"
    BY <1>2, ShrunkFacts
  <1>3. ASSUME Before(toClient, "provide", {"request"}), m.kind # "provide"
        PROVE  Before(toClient', "provide", {"request"}) /\ m.kind # "request"
    BY <1>3, ShrunkFacts
  <1>4. ASSUME NEW t, EndsIn(toClient, {"provide", "text"}, field, {t})
        PROVE  EndsIn(toClient', {"provide", "text"},
                      IF m.kind \in {"provide", "text"} THEN m.text ELSE field, {t})
    BY <1>4, ShrunkFacts
  <1> QED
    BY <1>1, <1>2, <1>3, <1>4

\* The answers, by kind.
LEMMA ReplyIs ==
  ASSUME Knows, NEW m \in FromServer
  PROVE  /\ m.kind = "caps" => \E x : Reply(m) = <<x>> /\ x.kind = "caps"
         /\ m.kind = "request" /\ ownText # NoText =>
              \E x : Reply(m) = <<x>> /\ x.kind = "provide" /\ x.text = ownText
         /\ m.kind = "request" /\ ownText = NoText => Reply(m) = <<>>
         /\ m.kind = "peek" /\ ownText # NoText => \E x : Reply(m) = <<x>> /\ x.kind = "notify"
         /\ m.kind = "peek" /\ ownText = NoText =>
              Reply(m) = <<>> \/ \E x : Reply(m) = <<x>> /\ x.kind = "notifyNone"
         /\ m.kind = "notify" /\ serverCaps = Caps.caps => \E x : Reply(m) = <<x>> /\ x.kind = "request"
         /\ m.kind \in {"provide", "text"} => Reply(m) = <<>>
  <1>1. /\ ownText # NoText => serverCaps = Caps.caps
        /\ "provide" \in Caps.caps /\ "notify" \in Caps.caps /\ "request" \in Caps.caps
    BY DEF Knows, Caps
  <1> DEFINE a == ClientCutText("caps", 8, NoText)
             b == ClientCutText("provide", 4 + DeflatedBytes, ownText)
             c == ClientCutText("notify", 4, NoText)
             d == ClientCutText("notifyNone", 4, NoText)
             e == ClientCutText("request", 4, NoText)
  <1>2. /\ a.kind = "caps" /\ b.kind = "provide" /\ b.text = ownText /\ c.kind = "notify"
        /\ d.kind = "notifyNone" /\ e.kind = "request" /\ Notify = c
    BY DEF ClientCutText, Notify
  <1>3. /\ m.kind = "caps" => Reply(m) = <<a>>
        /\ m.kind = "request" /\ ownText # NoText => Reply(m) = <<b>>
        /\ m.kind = "request" /\ ownText = NoText => Reply(m) = <<>>
        /\ m.kind = "peek" /\ ownText # NoText => Reply(m) = <<c>>
        /\ m.kind = "peek" /\ ownText = NoText => Reply(m) \in {<<>>, <<d>>}
        /\ m.kind = "notify" /\ serverCaps = Caps.caps => Reply(m) = <<e>>
        /\ m.kind \in {"provide", "text"} => Reply(m) = <<>>
    <2> HIDE DEF a, b, c, d, e
    <2> QED
      BY <1>1, <1>2 DEF Reply, a, b, d, e
  <1> HIDE DEF a, b, c, d, e
  <1> QED
    BY <1>2, <1>3

LEMMA HandleAgrees ==
  ASSUME ClipInv, HandleServerCutText, sock'.open
  PROVE  Agreeing' /\ toClient' \in Seq(FromServer) /\ vm' = vm
  <1> DEFINE m == Head(toClient)
             refused == readOnly /\ m.kind # "caps"
  <1>1. /\ Agreeing /\ m \in FromServer /\ toClient' \in Seq(FromServer)
        /\ Shrunk(toClient, toClient', m)
        /\ serverCaps' = IF m.kind = "caps" THEN m.caps ELSE serverCaps
        /\ ownText' = IF m.kind = "provide" /\ ~refused THEN NoText ELSE ownText
        /\ field' = IF m.kind \in {"provide", "text"} /\ ~refused THEN m.text ELSE field
        /\ readOnly' = readOnly /\ vm' = vm /\ vmServer' = vmServer /\ latest' = latest
        /\ refused \/ Reply(m) = <<>> => Up' = Up
        /\ \A x : ~refused /\ Reply(m) = <<x>> => Grown(Up, Up', x)
    BY HandleFacts
  <1> HIDE DEF m
  <1>2. Knows
    BY <1>1 DEF Agreeing
  <1>3. /\ \A kind : Has(toClient, kind) <=> Has(toClient', kind) \/ m.kind = kind
        /\ Before(toClient, "notify", {"peek"}) /\ m.kind # "notify"
             => Before(toClient', "notify", {"peek"}) /\ m.kind # "peek"
        /\ Before(toClient, "provide", {"request"}) /\ m.kind # "provide"
             => Before(toClient', "provide", {"request"}) /\ m.kind # "request"
        /\ \A t : EndsIn(toClient, {"provide", "text"}, field, {t})
             => EndsIn(toClient', {"provide", "text"},
                       IF m.kind \in {"provide", "text"} THEN m.text ELSE field, {t})
    BY <1>1, LessForClient
  <1>4. m.kind \in {"request", "provide", "peek", "notify", "text", "caps"} /\ (m.kind = "caps" => m = Caps)
    BY <1>1, FromServerKinds
  <1>5. ASSUME m.kind # "caps", Up' = Up \/ \E x : Grown(Up, Up', x) /\ x.kind # "caps" PROVE Knows'
    <2>1. Has(Up', "caps") <=> Has(Up, "caps")
      BY <1>5, GrownFacts
    <2>2. Has(toClient', "notify") => Has(toClient, "notify")
      BY <1>3
    <2> QED
      BY <1>1, <1>2, <1>5, <2>1, <2>2 DEF Knows
  <1>6. CASE refused
    <2>1. Up' = Up /\ m.kind # "caps" /\ readOnly /\ ownText' = ownText /\ field' = field
      BY <1>1, <1>6
    <2>2. Knows'
      BY <1>5, <2>1
    <2>3. CASE latest.by = "both"
      BY <1>1, <2>2, <2>3 DEF Agreeing
    <2>4. CASE latest.by # "both"
      <3>1. AtRest /\ m.kind = "peek"
        <4>1. AtRest
          BY <1>1, <2>1, <2>4 DEF Agreeing
        <4>2. m.kind \notin {"notify", "request", "provide", "text"}
          BY <1>3, <4>1 DEF AtRest
        <4> QED
          BY <1>4, <2>1, <4>1, <4>2
      <3>2. /\ Has(toClient', "notify") <=> Has(toClient, "notify")
            /\ Has(toClient', "request") <=> Has(toClient, "request")
            /\ Has(toClient', "provide") <=> Has(toClient, "provide")
            /\ Has(toClient', "text") <=> Has(toClient, "text")
            /\ Before(toClient, "provide", {"request"}) => Before(toClient', "provide", {"request"})
            /\ EndsIn(toClient, {"provide", "text"}, field, {latest.text})
                 => EndsIn(toClient', {"provide", "text"}, field, {latest.text})
        BY <1>3, <3>1
      <3>3. AtRest' /\ (Untouched => Untouched')
        BY <1>1, <2>1, <3>1, <3>2 DEF AtRest, Untouched
      <3>4. PageLast => PageLast'
        BY <1>1, <2>1, <3>2 DEF PageLast
      <3>5. Overtaken => Overtaken'
        <4>1. ~Before(toClient, "notify", {"peek"})
          BY <1>3, <3>1 DEF AtRest
        <4> QED
          BY <1>1, <2>1, <3>2, <4>1 DEF Overtaken
      <3>6. VmLast => VmLast'
        BY <1>1, <2>1, <3>2, <3>5 DEF VmLast
      <3> QED
        BY <1>1, <2>2, <3>3, <3>4, <3>6 DEF Agreeing
    <2> QED
      BY <2>3, <2>4
  <1>7. CASE m.kind = "caps"
    <2>1. PICK x : Reply(m) = <<x>> /\ x.kind = "caps"
      BY <1>1, <1>2, <1>7, ReplyIs
    <2>2. Grown(Up, Up', x)
      BY <1>1, <1>7, <2>1
    <2>3. ownText' = ownText /\ field' = field /\ serverCaps' = Caps.caps
      BY <1>1, <1>4, <1>7
    <2>4. /\ \A kind : Has(Up', kind) <=> Has(Up, kind) \/ kind = "caps"
          /\ Before(Up, "request", {"notify"}) => Before(Up', "request", {"notify"})
      BY <2>1, <2>2, GrownFacts
    <2>5. EndsIn(Up, {"provide", "cutText"}, vm, {latest.text, Blurred})
            => EndsIn(Up', {"provide", "cutText"}, vm, {latest.text, Blurred})
      <3>1. x.kind \notin {"provide", "cutText"}
        BY <2>1
      <3> QED
        BY <2>2, <3>1, GrownFacts
    <2>6. Knows'
      BY <1>1, <1>2, <1>3, <2>3, <2>4 DEF Knows
    <2>7. /\ Has(Up', "notify") <=> Has(Up, "notify")
          /\ Has(Up', "request") <=> Has(Up, "request")
          /\ Has(Up', "provide") <=> Has(Up, "provide")
          /\ Has(Up', "cutText") <=> Has(Up, "cutText")
          /\ Has(toClient', "notify") <=> Has(toClient, "notify")
          /\ Has(toClient', "request") <=> Has(toClient, "request")
          /\ Has(toClient', "provide") <=> Has(toClient, "provide")
          /\ Has(toClient', "text") <=> Has(toClient, "text")
      BY <1>3, <1>7, <2>4
    <2>8. /\ Before(toClient, "notify", {"peek"}) => Before(toClient', "notify", {"peek"})
          /\ Before(toClient, "provide", {"request"}) => Before(toClient', "provide", {"request"})
          /\ EndsIn(toClient, {"provide", "text"}, field, {latest.text})
               => EndsIn(toClient', {"provide", "text"}, field, {latest.text})
      BY <1>3, <1>7
    <2>9. (AtRest => AtRest') /\ (Untouched => Untouched')
      BY <1>1, <2>3, <2>7 DEF Untouched, AtRest
    <2>10. PageLast => PageLast'
      BY <1>1, <2>3, <2>5, <2>7 DEF PageLast
    <2>11. Overtaken => Overtaken'
      BY <1>1, <2>3, <2>4, <2>7, <2>8 DEF Overtaken
    <2>12. VmLast => VmLast'
      BY <1>1, <2>3, <2>7, <2>8, <2>11 DEF VmLast
    <2> QED
      BY <1>1, <2>6, <2>9, <2>10, <2>12 DEF Agreeing
  <1>8. ASSUME ~readOnly, latest.by # "nobody", Knows', latest.by = "page" => PageLast',
               latest.by = "vm" => VmLast'
        PROVE  Agreeing'
    BY <1>1, <1>8 DEF Agreeing
  <1>9. CASE ~readOnly /\ m.kind = "request"
    <2>1. Has(toClient, "request") /\ ownText' = ownText /\ field' = field
      BY <1>1, <1>3, <1>9
    <2>2. latest.by # "nobody"
      BY <1>1, <1>9, <2>1 DEF Agreeing, Untouched, AtRest
    <2>3. Knows'
      <3>1. CASE ownText = NoText
        BY <1>1, <1>2, <1>5, <1>9, <3>1, ReplyIs
      <3>2. CASE ownText # NoText
        <4>1. PICK x : Reply(m) = <<x>> /\ x.kind = "provide"
          BY <1>1, <1>2, <1>9, <3>2, ReplyIs
        <4> QED
          BY <1>1, <1>5, <1>9, <4>1
      <3> QED
        BY <3>1, <3>2
    <2>4. ASSUME latest.by = "page" PROVE PageLast'
      <3>1. PageLast
        BY <1>1, <2>4 DEF Agreeing
      <3>2. ownText = latest.text /\ ownText # NoText
        BY <2>1, <3>1, SendAssumption DEF PageLast
      <3>3. PICK x : Reply(m) = <<x>> /\ x.kind = "provide" /\ x.text = ownText
        BY <1>1, <1>2, <1>9, <3>2, ReplyIs
      <3>4. Grown(Up, Up', x)
        BY <1>1, <1>9, <3>3
      <3>5. x.kind \in {"provide", "cutText"} /\ x.text \in {latest.text, Blurred}
        BY <3>2, <3>3
      <3>6. EndsIn(Up', {"provide", "cutText"}, vm', {latest.text, Blurred})
        BY <3>4, <3>5, GrownFacts
      <3>7. ~Has(Up', "request")
        BY <3>1, <3>3, <3>4, GrownFacts DEF PageLast
      <3> QED
        BY <1>1, <1>3, <2>1, <3>1, <3>2, <3>6, <3>7 DEF PageLast
    <2>5. ASSUME latest.by = "vm" PROVE VmLast'
      <3>1. VmLast
        BY <1>1, <2>5 DEF Agreeing
      <3>2. ownText = NoText
        <4>1. ~Before(toClient, "provide", {"request"})
          BY <1>3, <1>9
        <4> QED
          BY <2>1, <3>1, <4>1 DEF VmLast, Overtaken
      <3>3. Up' = Up
        BY <1>1, <1>2, <1>9, <3>2, ReplyIs
      <3>4. Overtaken'
        BY <2>1, <3>2 DEF Overtaken
      <3>5. /\ Has(toClient', "notify") <=> Has(toClient, "notify")
            /\ EndsIn(toClient, {"provide", "text"}, field, {latest.text})
                 => EndsIn(toClient', {"provide", "text"}, field, {latest.text})
        BY <1>3, <1>9
      <3> QED
        BY <1>1, <2>1, <3>1, <3>3, <3>4, <3>5 DEF VmLast
    <2> QED
      BY <1>1, <1>8, <1>9, <2>2, <2>3, <2>4, <2>5
  <1>10. CASE ~readOnly /\ m.kind = "peek"
    <2>1. ownText' = ownText /\ field' = field /\ serverCaps' = serverCaps
      BY <1>1, <1>10
    <2>2. PICK k \in {"none", "notify", "notifyNone"} :
            /\ k = "none" => Up' = Up
            /\ k # "none" => \E x : Grown(Up, Up', x) /\ x.kind = k
            /\ k = "notify" <=> ownText # NoText
      <3>1. CASE ownText # NoText
        <4>1. PICK x : Reply(m) = <<x>> /\ x.kind = "notify"
          BY <1>1, <1>2, <1>10, <3>1, ReplyIs
        <4>2. Grown(Up, Up', x)
          BY <1>1, <1>10, <4>1
        <4> QED
          BY <3>1, <4>1, <4>2
      <3>2. CASE ownText = NoText /\ Reply(m) = <<>>
        <4>1. Up' = Up
          BY <1>1, <3>2
        <4> QED
          BY <3>2, <4>1
      <3>3. CASE ownText = NoText /\ Reply(m) # <<>>
        <4>1. PICK x : Reply(m) = <<x>> /\ x.kind = "notifyNone"
          BY <1>1, <1>2, <1>10, <3>3, ReplyIs
        <4>2. Grown(Up, Up', x)
          BY <1>1, <1>10, <4>1
        <4> QED
          BY <3>3, <4>1, <4>2
      <3> QED
        BY <3>1, <3>2, <3>3
    <2>3. /\ Has(Up', "caps") <=> Has(Up, "caps")
          /\ Has(Up', "request") <=> Has(Up, "request")
          /\ Has(Up', "provide") <=> Has(Up, "provide")
          /\ Has(Up', "cutText") <=> Has(Up, "cutText")
          /\ Has(Up', "notify") <=> Has(Up, "notify") \/ ownText # NoText
          /\ Before(Up, "request", {"notify"}) => Before(Up', "request", {"notify"})
      <3>1. CASE k = "none"
        BY <2>2, <3>1
      <3>2. CASE k # "none"
        BY <2>2, <3>2, GrownFacts
      <3> QED
        BY <3>1, <3>2
    <2>4. EndsIn(Up, {"provide", "cutText"}, vm, {latest.text, Blurred})
            => EndsIn(Up', {"provide", "cutText"}, vm, {latest.text, Blurred})
      <3>1. CASE k = "none"
        BY <2>2, <3>1
      <3>2. CASE k # "none"
        <4>1. PICK x : Grown(Up, Up', x) /\ x.kind = k
          BY <2>2, <3>2
        <4>2. x.kind \notin {"provide", "cutText"}
          BY <2>2, <4>1
        <4> QED
          BY <4>1, <4>2, GrownFacts
      <3> QED
        BY <3>1, <3>2
    <2>5. /\ Has(toClient', "notify") <=> Has(toClient, "notify")
          /\ Has(toClient', "request") <=> Has(toClient, "request")
          /\ Has(toClient', "provide") <=> Has(toClient, "provide")
          /\ Has(toClient', "text") <=> Has(toClient, "text")
      BY <1>3, <1>10
    <2>6. /\ ~Before(toClient, "notify", {"peek"})
          /\ Before(toClient, "provide", {"request"}) => Before(toClient', "provide", {"request"})
          /\ EndsIn(toClient, {"provide", "text"}, field, {latest.text})
               => EndsIn(toClient', {"provide", "text"}, field, {latest.text})
      BY <1>3, <1>10
    <2>7. Knows'
      BY <1>1, <1>2, <2>1, <2>3, <2>5 DEF Knows
    <2>8. Untouched => Untouched'
      BY <1>1, <2>1, <2>3, <2>5 DEF Untouched, AtRest
    <2>9. PageLast => PageLast'
      BY <1>1, <2>1, <2>3, <2>4, <2>5 DEF PageLast
    <2>10. Overtaken => Overtaken'
      BY <2>1, <2>3, <2>5, <2>6 DEF Overtaken
    <2>11. VmLast => VmLast'
      BY <1>1, <2>1, <2>3, <2>5, <2>6, <2>10 DEF VmLast
    <2> QED
      BY <1>1, <1>10, <2>7, <2>8, <2>9, <2>11 DEF Agreeing
  <1>11. CASE ~readOnly /\ m.kind = "notify"
    <2>1. Has(toClient, "notify") /\ ownText' = ownText /\ field' = field
      BY <1>1, <1>3, <1>11
    <2>2. latest.by # "nobody" /\ latest.by # "page"
      BY <1>1, <1>11, <2>1 DEF Agreeing, Untouched, AtRest, PageLast
    <2>3. serverCaps = Caps.caps
      BY <1>2, <2>1 DEF Knows
    <2>4. PICK x : Reply(m) = <<x>> /\ x.kind = "request"
      BY <1>1, <1>2, <1>11, <2>3, ReplyIs
    <2>5. Grown(Up, Up', x)
      BY <1>1, <1>11, <2>4
    <2>6. Knows'
      BY <1>5, <1>11, <2>4, <2>5
    <2>7. ASSUME latest.by = "vm" PROVE VmLast'
      <3>1. VmLast
        BY <1>1, <2>7 DEF Agreeing
      <3>2. /\ Has(Up', "request")
            /\ Has(Up', "provide") <=> Has(Up, "provide")
            /\ Has(Up', "cutText") <=> Has(Up, "cutText")
            /\ Has(Up', "notify") <=> Has(Up, "notify")
            /\ Before(Up, "request", {"notify"}) => Before(Up', "request", {"notify"})
        BY <2>4, <2>5, GrownFacts
      <3>3. ~Has(Up, "notify") => Before(Up', "request", {"notify"})
        <4>1. x.kind # "notify"
          BY <2>4
        <4>2. ~Has(Up, "notify") => Before(Up', x.kind, {"notify"})
          BY <2>5, <4>1, GrownFacts
        <4> QED
          BY <2>4, <4>2
      <3>4. /\ Has(toClient', "request") <=> Has(toClient, "request")
            /\ Before(toClient, "provide", {"request"}) => Before(toClient', "provide", {"request"})
        BY <1>3, <1>11
      <3>5. Overtaken'
        BY <2>1, <3>1, <3>2, <3>3, <3>4 DEF VmLast, Overtaken
      <3> QED
        BY <1>1, <3>1, <3>2, <3>5 DEF VmLast
    <2> QED
      BY <1>1, <1>8, <1>11, <2>2, <2>6, <2>7
  <1>12. CASE ~readOnly /\ m.kind \in {"provide", "text"}
    <2>1. /\ Has(toClient, "provide") \/ Has(toClient, "text")
          /\ field' = m.text /\ ownText' = IF m.kind = "provide" THEN NoText ELSE ownText
      BY <1>1, <1>3, <1>12
    <2>2. latest.by # "nobody" /\ latest.by # "page"
      BY <1>1, <1>12, <2>1 DEF Agreeing, Untouched, AtRest, PageLast
    <2>3. Up' = Up
      BY <1>1, <1>2, <1>12, ReplyIs
    <2>4. Knows'
      BY <1>5, <1>12, <2>3
    <2>5. ASSUME latest.by = "vm" PROVE VmLast'
      <3>1. VmLast
        BY <1>1, <2>5 DEF Agreeing
      <3>2. /\ Has(toClient', "notify") <=> Has(toClient, "notify")
            /\ Has(toClient', "request") <=> Has(toClient, "request")
            /\ EndsIn(toClient, {"provide", "text"}, field, {latest.text})
                 => EndsIn(toClient', {"provide", "text"}, m.text, {latest.text})
        BY <1>3, <1>12
      <3>3. Overtaken'
        <4>1. CASE m.kind = "provide"
          BY <2>1, <4>1 DEF Overtaken
        <4>2. CASE m.kind = "text"
          <5>1. /\ Before(toClient, "notify", {"peek"}) => Before(toClient', "notify", {"peek"})
                /\ Before(toClient, "provide", {"request"}) => Before(toClient', "provide", {"request"})
            BY <1>3, <4>2
          <5> QED
            BY <2>1, <2>3, <3>1, <3>2, <4>2, <5>1 DEF VmLast, Overtaken
        <4> QED
          BY <1>12, <4>1, <4>2
      <3> QED
        BY <1>1, <2>1, <2>3, <3>1, <3>2, <3>3 DEF VmLast
    <2> QED
      BY <1>1, <1>8, <1>12, <2>2, <2>4, <2>5
  <1> QED
    BY <1>4, <1>6, <1>7, <1>9, <1>10, <1>11, <1>12

\* The server's answers, by kind.
LEMMA AnswerIs ==
  ASSUME NEW m, vm \in AnyText
  PROVE  \/ Answer(m) = <<>> /\ m.kind # "notify" /\ ~(m.kind = "request" /\ vm # NoText)
         \/ \E x \in FromServer :
              /\ Answer(m) = <<x>>
              /\ \/ m.kind = "clientEncodings" /\ x.kind = "caps"
                 \/ m.kind = "notify" /\ x.kind = "request"
                 \/ m.kind = "request" /\ vm # NoText /\ x.kind = "provide" /\ x.text = vm
  <1> DEFINE b == ToClient("request", NoText)
             c == ToClient("provide", vm)
  <1>1. NoText \in AnyText
    BY DEF AnyText
  <1>2. /\ b \in FromServer /\ b.kind = "request" /\ c \in FromServer /\ c.kind = "provide" /\ c.text = vm
        /\ Caps \in FromServer /\ Caps.kind = "caps"
    BY <1>1, FromServerKinds
  <1>3. /\ m.kind = "notify" => Answer(m) = <<b>>
        /\ m.kind = "request" /\ vm # NoText => Answer(m) = <<c>>
        /\ m.kind = "clientEncodings" => Answer(m) \in {<<Caps>>, <<>>}
        /\ m.kind \notin {"notify", "request", "clientEncodings"} => Answer(m) = <<>>
        /\ m.kind = "request" /\ vm = NoText => Answer(m) = <<>>
    <2> HIDE DEF b, c
    <2> QED
      BY DEF Answer, b, c
  <1> HIDE DEF b, c
  <1>4. CASE m.kind = "clientEncodings"
    BY <1>2, <1>3, <1>4
  <1>5. CASE m.kind # "clientEncodings"
    BY <1>2, <1>3, <1>5
  <1> QED
    BY <1>4, <1>5

LEMMA ServerReadsAgrees ==
  ASSUME ClipInv, ServerReads, sock'.open
  PROVE  Agreeing' /\ toClient' \in Seq(FromServer)
  <1> DEFINE m == sock.wire[1].msg
  <1>1. /\ m \in Messages /\ Shrunk(Up, Up', m) /\ sock'.open = sock.open
        /\ toClient' = IF sock.open THEN toClient \o Answer(m) ELSE toClient
        /\ vm' = IF m.kind \in {"provide", "cutText"} THEN m.text ELSE vm
        /\ vmServer'.known = (vmServer.known \/ m.kind = "caps")
    BY UpShrinks DEF ClipInv
  <1>2. /\ serverCaps' = serverCaps /\ ownText' = ownText /\ readOnly' = readOnly /\ field' = field
        /\ latest' = latest
    BY DEF ServerReads
  <1> HIDE DEF m
  <1>3. Agreeing /\ Knows /\ toClient \in Seq(FromServer) /\ vm \in AnyText /\ toClient' = toClient \o Answer(m)
    BY <1>1 DEF ClipInv, Agreeing
  <1>4. /\ \A kind : Has(Up, kind) <=> Has(Up', kind) \/ m.kind = kind
        /\ Before(Up, "request", {"notify"}) /\ m.kind # "request"
             => Before(Up', "request", {"notify"}) /\ m.kind # "notify"
        /\ EndsIn(Up, {"provide", "cutText"}, vm, {latest.text, Blurred})
             => EndsIn(Up', {"provide", "cutText"}, vm', {latest.text, Blurred})
    <2>1. \A kind : Has(Up, kind) <=> Has(Up', kind) \/ m.kind = kind
      BY <1>1, ShrunkFacts
    <2>2. ASSUME Before(Up, "request", {"notify"}), m.kind # "request"
          PROVE  Before(Up', "request", {"notify"}) /\ m.kind # "notify"
      BY <1>1, <2>2, ShrunkFacts
    <2>3. ASSUME EndsIn(Up, {"provide", "cutText"}, vm, {latest.text, Blurred})
          PROVE  EndsIn(Up', {"provide", "cutText"}, vm', {latest.text, Blurred})
      BY <1>1, <2>3, ShrunkFacts
    <2> QED
      BY <2>1, <2>2, <2>3
  \* What is answered, "none" for nothing.
  <1>5. PICK k \in {"none", "caps", "request", "provide"} :
          /\ k = "none" => toClient' = toClient
          /\ k # "none" => \E x \in FromServer : /\ Grown(toClient, toClient', x) /\ x.kind = k
                                                 /\ k = "provide" => x.text = vm
          /\ m.kind = "notify" <=> k = "request"
          /\ k = "provide" <=> m.kind = "request" /\ vm # NoText
          /\ toClient' \in Seq(FromServer)
    <2>1. CASE Answer(m) = <<>> /\ m.kind # "notify" /\ ~(m.kind = "request" /\ vm # NoText)
      <3>1. toClient' = toClient
        BY <1>3, <2>1
      <3> QED
        BY <1>3, <2>1, <3>1
    <2>2. CASE ~(Answer(m) = <<>> /\ m.kind # "notify" /\ ~(m.kind = "request" /\ vm # NoText))
      <3>1. PICK x \in FromServer :
              /\ Answer(m) = <<x>>
              /\ \/ m.kind = "clientEncodings" /\ x.kind = "caps"
                 \/ m.kind = "notify" /\ x.kind = "request"
                 \/ m.kind = "request" /\ vm # NoText /\ x.kind = "provide" /\ x.text = vm
        BY <1>3, <2>2, AnswerIs
      <3>2. toClient' = Append(toClient, x) /\ toClient' \in Seq(FromServer) /\ Grown(toClient, toClient', x)
        BY <1>3, <3>1, DownGrows
      <3> QED
        BY <3>1, <3>2
    <2> QED
      BY <2>1, <2>2
  <1>6. /\ \A kind \in {"notify", "request", "provide", "text", "peek"} :
             Has(toClient', kind) <=> Has(toClient, kind) \/ k = kind
        /\ Before(toClient, "notify", {"peek"}) => Before(toClient', "notify", {"peek"})
        /\ Before(toClient, "provide", {"request"}) => Before(toClient', "provide", {"request"})
    <2>1. CASE k = "none"
      BY <1>5, <2>1
    <2>2. CASE k # "none"
      BY <1>5, <2>2, GrownFacts
    <2> QED
      BY <2>1, <2>2
  <1>7. Knows'
    <2>1. Has(toClient', "notify") => Has(toClient, "notify")
      BY <1>5, <1>6
    <2>2. vmServer'.known \/ Has(Up', "caps") <=> vmServer.known \/ Has(Up, "caps")
      BY <1>1, <1>4
    <2>3. vmServer.known => vmServer'.known
      BY <1>1
    <2> QED
      BY <1>2, <1>3, <2>1, <2>2, <2>3 DEF Knows
  <1>11. ASSUME AtRest PROVE AtRest' /\ m.kind \notin {"provide", "cutText"}
    <2>1. m.kind \notin {"notify", "request", "provide", "cutText"}
      BY <1>4, <1>11 DEF AtRest
    <2>2. k \notin {"notify", "request", "provide", "text"}
      BY <1>5, <2>1
    <2> QED
      BY <1>4, <1>6, <1>11, <2>1, <2>2 DEF AtRest
  <1>8. ASSUME Untouched PROVE Untouched'
    <2>1. AtRest' /\ m.kind \notin {"provide", "cutText"}
      BY <1>8, <1>11 DEF Untouched
    <2> QED
      BY <1>1, <1>2, <1>8, <2>1 DEF Untouched
  <1>9. ASSUME PageLast PROVE PageLast'
    <2>1. m.kind # "request" /\ k # "provide"
      BY <1>4, <1>5, <1>9 DEF PageLast
    <2>2. /\ ~Has(toClient', "notify") /\ ~Has(toClient', "provide") /\ ~Has(toClient', "text")
          /\ ~Has(Up', "request")
      BY <1>4, <1>5, <1>6, <1>9, <2>1 DEF PageLast
    <2>3. /\ Has(Up, "notify") \/ Has(toClient, "request") <=> Has(Up', "notify") \/ Has(toClient', "request")
      BY <1>4, <1>5, <1>6
    <2> QED
      BY <1>2, <1>4, <1>9, <2>2, <2>3 DEF PageLast
  <1>10. ASSUME VmLast PROVE VmLast'
    <2>1. m.kind \notin {"provide", "cutText"} /\ vm # NoText
      BY <1>4, <1>10, SendAssumption DEF VmLast
    <2>2. vm' = vm /\ ~Has(Up', "provide") /\ ~Has(Up', "cutText")
      BY <1>1, <1>4, <1>10, <2>1 DEF VmLast
    <2>3. CASE m.kind = "request"
      <3>1. PICK x \in FromServer : Grown(toClient, toClient', x) /\ x.kind = "provide" /\ x.text = vm
        BY <1>5, <2>1, <2>3
      <3>2. x.kind \in {"provide", "text"} /\ x.text \in {latest.text}
        BY <1>10, <3>1 DEF VmLast
      <3>3. EndsIn(toClient', {"provide", "text"}, field', {latest.text})
        BY <3>1, <3>2, GrownFacts
      <3>4. ~Has(toClient, "request") => Before(toClient', "provide", {"request"})
        <4>1. x.kind # "request"
          BY <3>1
        <4>2. ~Has(toClient, "request") => Before(toClient', x.kind, {"request"})
          BY <3>1, <4>1, GrownFacts
        <4> QED
          BY <3>1, <4>2
      <3>5. Overtaken'
        BY <1>2, <1>6, <1>10, <3>4 DEF VmLast, Overtaken
      <3> QED
        BY <1>2, <1>10, <2>2, <3>3, <3>5 DEF VmLast
    <2>4. CASE m.kind # "request"
      <3>1. k \in {"none", "caps", "request"} /\ (k = "request" => m.kind = "notify")
        BY <1>5, <2>4
      <3>2. EndsIn(toClient, {"provide", "text"}, field, {latest.text})
              => EndsIn(toClient', {"provide", "text"}, field, {latest.text})
        <4>1. CASE k = "none"
          BY <1>5, <4>1
        <4>2. CASE k # "none"
          <5>1. PICK x \in FromServer : Grown(toClient, toClient', x) /\ x.kind = k
            BY <1>5, <4>2
          <5>2. x.kind \notin {"provide", "text"}
            BY <3>1, <5>1
          <5> QED
            BY <5>1, <5>2, GrownFacts
        <4> QED
          BY <4>1, <4>2
      <3>3. /\ Has(Up', "request") <=> Has(Up, "request")
            /\ Has(toClient', "notify") <=> Has(toClient, "notify")
        BY <1>4, <1>6, <2>4, <3>1
      <3>4. Overtaken'
        <4>1. CASE m.kind = "notify"
          <5>1. Has(Up, "notify") /\ ~Before(Up, "request", {"notify"})
            BY <1>4, <4>1
          <5> QED
            BY <1>2, <1>6, <1>10, <5>1 DEF VmLast, Overtaken
        <4>2. CASE m.kind # "notify"
          <5>1. /\ Has(toClient', "request") <=> Has(toClient, "request")
                /\ Has(Up', "notify") <=> Has(Up, "notify")
                /\ Before(Up, "request", {"notify"}) => Before(Up', "request", {"notify"})
            BY <1>4, <1>6, <2>4, <3>1, <4>2
          <5> QED
            BY <1>2, <1>6, <1>10, <5>1 DEF VmLast, Overtaken
        <4> QED
          BY <4>1, <4>2
      <3> QED
        BY <1>2, <1>10, <2>2, <3>2, <3>3, <3>4 DEF VmLast
    <2> QED
      BY <2>3, <2>4
  <1> QED
    BY <1>2, <1>3, <1>5, <1>7, <1>8, <1>9, <1>10, <1>11 DEF Agreeing

LEMMA ClipStep ==
  ClipInv /\ [SendNext]_sendVars => ClipInv'
  <1> SUFFICES ASSUME ClipInv, [SendNext]_sendVars PROVE ClipInv'
    OBVIOUS
  <1>1. SndInv' /\ SndInv /\ toClient \in Seq(FromServer) /\ vm \in AnyText
    BY SndStep DEF ClipInv
  <1>2. ASSUME toClient' \in Seq(FromServer), vm' \in AnyText, sock'.open => Agreeing' PROVE ClipInv'
    BY <1>1, <1>2 DEF ClipInv
  <1>3. ASSUME NEW depth \in {8, 24}, NEW h264 \in BOOLEAN, ServerInitDone(depth, h264) PROVE ClipInv'
    <2>1. toClient' = toClient /\ vm' = vm
      BY <1>3 DEF ServerInitDone
    <2> QED
      BY <1>1, <1>2, <1>3, <2>1, ServerInitDoneAgrees
  <1>4. ASSUME NEW m \in Inputs, SendInput(m) PROVE ClipInv'
    <2>1. toClient' = toClient /\ vm' = vm
      BY <1>4 DEF SendInput
    <2> QED
      BY <1>1, <1>2, <1>4, <2>1, SendInputAgrees
  <1>5. ASSUME NEW t \in Texts, Paste(t) PROVE ClipInv'
    <2>1. toClient' = toClient /\ vm' = vm
      BY <1>5 DEF Paste
    <2> QED
      BY <1>1, <1>2, <1>5, <2>1, PasteAgrees
  <1>6. CASE HandleServerCutText
    <2>1. toClient' \in Seq(FromServer) /\ vm' = vm
      BY <1>1, <1>6, DownShrinks DEF HandleServerCutText
    <2> QED
      BY <1>1, <1>2, <1>6, <2>1, HandleAgrees
  <1>7. CASE SwitchReadOnly
    <2>1. /\ Up' = Up /\ latest' = IF Quiet THEN latest ELSE Stopped
          /\ UNCHANGED <<sock, toClient, serverCaps, ownText, field, vm, vmServer>>
      BY <1>7 DEF SwitchReadOnly, Up
    <2>2. ASSUME sock'.open PROVE Agreeing'
      <3>1. Agreeing
        BY <2>1, <2>2 DEF ClipInv
      <3>2. Knows'
        BY <2>1, <3>1 DEF Agreeing, Knows
      <3>3. CASE Quiet
        <4>1. AtRest'
          BY <2>1, <3>3, NothingUnderWay DEF AtRest
        <4>2. (Untouched => Untouched') /\ (PageLast => PageLast') /\ (VmLast => VmLast')
          BY <2>1, <3>3, <4>1 DEF Untouched, PageLast, VmLast, Overtaken
        <4> QED
          BY <2>1, <3>1, <3>2, <3>3, <4>1, <4>2 DEF Agreeing
      <3>4. CASE ~Quiet
        BY <2>1, <3>2, <3>4 DEF Agreeing, Stopped
      <3> QED
        BY <3>3, <3>4
    <2> QED
      BY <1>1, <1>2, <2>1, <2>2
  <1>8. CASE SocketEnds
    <2>1. toClient' = toClient /\ vm' = vm /\ sock' = [sock EXCEPT !.open = FALSE]
      BY <1>8 DEF SocketEnds
    <2>2. sock \in Queues
      BY <1>1 DEF SndInv, InStep, Rests
    <2>3. ~sock'.open
      BY <2>1, <2>2 DEF Queues
    <2> QED
      BY <1>1, <1>2, <2>1, <2>3
  <1>9. CASE ServerReads
    <2> DEFINE m == sock.wire[1].msg
    <2>1. /\ m \in Messages /\ sock'.open = sock.open
          /\ toClient' = IF sock.open THEN toClient \o Answer(m) ELSE toClient
          /\ vm' = IF m.kind \in {"provide", "cutText"} THEN m.text ELSE vm
      BY <1>1, <1>9, UpShrinks
    <2> HIDE DEF m
    <2>2. vm' \in AnyText
      BY <1>1, <2>1 DEF Messages
    <2>3. CASE sock'.open
      BY <1>2, <1>9, <2>2, <2>3, ServerReadsAgrees
    <2>4. CASE ~sock'.open
      BY <1>1, <1>2, <2>1, <2>2, <2>4
    <2> QED
      BY <2>3, <2>4
  <1>10. ASSUME NEW t \in Texts, VmCopies(t) PROVE ClipInv'
    <2>1. vm' \in AnyText /\ sock' = sock /\ sock.open
      BY <1>10 DEF VmCopies, AnyText
    <2> QED
      BY <1>2, <1>10, <2>1, VmCopiesAgrees
  <1>11. CASE Peeks
    <2>1. vm' = vm /\ sock' = sock /\ sock.open
      BY <1>11 DEF Peeks
    <2> QED
      BY <1>1, <1>2, <1>11, <2>1, PeeksAgrees
  <1>12. CASE UNCHANGED sendVars
    <2>1. /\ sock' = sock /\ toClient' = toClient /\ serverCaps' = serverCaps /\ ownText' = ownText
          /\ readOnly' = readOnly /\ field' = field /\ vm' = vm /\ vmServer' = vmServer /\ latest' = latest
      BY <1>12 DEF sendVars
    <2>2. AsBefore(Up, Up')
      BY <2>1 DEF Up, AsBefore
    <2>3. ASSUME sock'.open PROVE Agreeing'
      <3>1. Agreeing
        BY <2>1, <2>3 DEF ClipInv
      <3> QED
        BY <2>1, <2>2, <3>1, AsideStep
    <2> QED
      BY <1>1, <1>2, <2>1, <2>3
  <1> QED
    BY <1>3, <1>4, <1>5, <1>6, <1>7, <1>8, <1>9, <1>10, <1>11, <1>12 DEF SendNext

\* The clipboards agree whenever nothing is under way, for any texts and any
\* number of pastes, copies, peeks and other messages between them: what one end
\* asks, announces and sends reaches the other in order, so that, where a paste
\* and a copy, or a switch of view-only, do not meet, a text is never followed by
\* an older one.
THEOREM ClipboardTheorem ==
  SendSpec => []ClipboardsAgree
  <1>1. SendInit => ClipInv
    BY ClipInitInv
  <1>2. ClipInv /\ [SendNext]_sendVars => ClipInv'
    BY ClipStep
  <1>3. ClipInv => ClipboardsAgree
    BY ClipAgrees
  <1> QED
    BY <1>1, <1>2, <1>3, PTL DEF SendSpec
=============================================================================
