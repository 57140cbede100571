---------------------------- MODULE VncRfbProofs ----------------------------
(***************************************************************************)
(* Theorems about the receiving side of the VNC console: the screen is     *)
(* drawn in the order the server sent it, for any number of operations,    *)
(* rectangles and contexts; and the session's handshake says what the      *)
(* server expects in every scheme, and ends cleanly wherever it is.        *)
(***************************************************************************)
EXTENDS VncDisplay, VncSession, TLAPS, NaturalsInduction, WellFoundedInduction

-----------------------------------------------------------------------------
(***************************************************************************)
(* The invariant of VncDisplay.                                            *)
(***************************************************************************)

Op == [n : Nat, kind : {"pixels", "image", "frame", "flip"}, state : {"ready", "waiting", "broken"}]

\* A record with the fields of a screen.
IsScreen(d) ==
  d \in [q : {d.q}, drawn : {d.drawn}, damage : {d.damage}, shown : {d.shown},
         promise : {d.promise}, listening : {d.listening}, flushing : {d.flushing}]

\* A screen on which the first m operations have been drawn, in their order, or
\* are in the queue behind what is drawn.
UpTo(d, m) ==
  /\ IsScreen(d)
  /\ d.q \in Seq(Op) /\ d.drawn \in Seq(Nat)
  /\ Len(d.drawn) + Len(d.q) = m
  /\ \A i \in 1..Len(d.drawn) : d.drawn[i] = i
  /\ \A i \in 1..Len(d.q) : d.q[i].n = Len(d.drawn) + i

\* No operation is lost, drawn twice or out of its turn.
DispInv ==
  /\ ops \in Nat
  /\ UpTo(Screen, ops)

-----------------------------------------------------------------------------
(***************************************************************************)
(* What the operators of the queue do to the order.                        *)
(***************************************************************************)

\* Lengths are numbers.
LEMMA Lengths ==
  /\ \A s : s \in Seq(Op) => Len(s) \in Nat
  /\ \A s : s \in Seq(Nat) => Len(s) \in Nat
  OBVIOUS

\* The prefix of the queue that can be drawn exists: it ends before the first
\* operation that is not ready, or with the queue.
LEMMA PrefixExists ==
  ASSUME NEW q \in Seq(Op)
  PROVE  ReadyPrefix(q) \in 0..Len(q)
  <1> DEFINE S == {n \in Nat : n <= Len(q) /\ (n < Len(q) => q[n + 1].state # "ready")}
             P(n) == /\ \A i \in 1..n : q[i].state = "ready"
                     /\ n < Len(q) => q[n + 1].state # "ready"
  <1>1. Len(q) \in Nat
    OBVIOUS
  <1>2. Len(q) \in S /\ S \subseteq Nat
    OBVIOUS
  <1>3. PICK n \in S : \A k \in S : ~(<<k, n>> \in OpToRel(<, Nat))
    BY <1>2, NatLessThanWellFounded, WFMin
  <1>4. \A k \in Nat : k < n => k \notin S
    BY <1>2, <1>3 DEF OpToRel
  <1>5. n \in Nat /\ n <= Len(q) /\ (n < Len(q) => q[n + 1].state # "ready")
    BY <1>2, <1>3
  <1>6. ASSUME NEW i \in 1..n PROVE q[i].state = "ready"
    <2>1. i - 1 \in Nat /\ i - 1 < n /\ (i - 1) + 1 = i /\ n <= Len(q) /\ n \in Nat
      BY ONLY <1>1, <1>5, i \in 1..n
    <2>2. i - 1 \notin S
      BY <1>4, <2>1
    <2> QED
      BY <2>1, <2>2
  <1>7. n \in 0..Len(q) /\ P(n)
    BY ONLY <1>1, <1>5, <1>6
  <1>8. ReadyPrefix(q) = CHOOSE k \in 0..Len(q) : P(k)
    BY DEF ReadyPrefix
  <1> HIDE DEF P
  <1> QED
    BY <1>7, <1>8

\* Drawing the operations that come next keeps the order.
LEMMA DrawInOrder ==
  ASSUME NEW d, NEW these \in Seq(Op), IsScreen(d), d.drawn \in Seq(Nat),
         \A i \in 1..Len(d.drawn) : d.drawn[i] = i,
         \A i \in 1..Len(these) : these[i].n = Len(d.drawn) + i
  PROVE  LET e == Draw(d, these)
         IN  /\ IsScreen(e) /\ e.q = d.q /\ e.drawn \in Seq(Nat)
             /\ Len(e.drawn) = Len(d.drawn) + Len(these)
             /\ \A i \in 1..Len(e.drawn) : e.drawn[i] = i
  <1> DEFINE c == FoldLeft(Paint, [damage |-> d.damage, shown |-> d.shown], these)
             ns == [i \in DOMAIN these |-> these[i].n]
             e == [d EXCEPT !.drawn = @ \o ns, !.damage = c.damage, !.shown = c.shown]
  <1>1. ns \in Seq(Nat) /\ Len(ns) = Len(these) /\ \A i \in 1..Len(these) : ns[i] = these[i].n
    <2>1. Len(these) \in Nat /\ DOMAIN these = 1..Len(these)
      OBVIOUS
    <2>2. \A i \in 1..Len(these) : these[i] \in Op
      OBVIOUS
    <2>3. \A i \in 1..Len(these) : these[i].n \in Nat
      BY <2>2 DEF Op
    <2>4. ns \in [1..Len(these) -> Nat]
      BY <2>1, <2>3
    <2> QED
      BY <2>1, <2>4
  <1> HIDE DEF c, ns
  <1>2. IsScreen(e) /\ e.q = d.q /\ e.drawn = d.drawn \o ns
    BY DEF IsScreen
  <1>3. Draw(d, these) = e
    BY DEF Draw, c, ns
  <1> HIDE DEF e
  <1>4. e.drawn \in Seq(Nat) /\ Len(e.drawn) = Len(d.drawn) + Len(these)
    <2>1. \A a, b \in Seq(Nat) : a \o b \in Seq(Nat) /\ Len(a \o b) = Len(a) + Len(b)
      OBVIOUS
    <2> QED
      BY ZenonT(60), <1>1, <1>2, <2>1
  <1>5. ASSUME NEW i \in 1..Len(e.drawn) PROVE e.drawn[i] = i
    <2>1. CASE i <= Len(d.drawn)
      BY <1>1, <1>2, <1>4, <2>1
    <2>2. CASE i > Len(d.drawn)
      <3>1. i - Len(d.drawn) \in 1..Len(these)
        BY <1>4, <2>2
      <3>2. e.drawn[i] = ns[i - Len(d.drawn)]
        BY <1>1, <1>2, <1>4, <2>2
      <3>3. ns[i - Len(d.drawn)] = Len(d.drawn) + (i - Len(d.drawn))
        BY <1>1, <3>1
      <3>4. Len(d.drawn) \in Nat /\ i \in Int
        BY <1>4
      <3> QED
        BY <3>2, <3>3, <3>4
    <2> QED
      BY <1>4, <2>1, <2>2
  <1> QED
    BY <1>2, <1>3, <1>4, <1>5

\* A scan draws what is ready, and leaves the rest in the queue.
LEMMA ScanInOrder ==
  ASSUME NEW d, NEW m \in Nat, UpTo(d, m)
  PROVE  UpTo(Scan(d), m)
  <1> DEFINE n    == ReadyPrefix(d.q)
             rest == SubSeq(d.q, n + 1, Len(d.q))
             head == SubSeq(d.q, 1, n)
             d0   == [d EXCEPT !.q = rest]
             d1   == Draw(d0, head)
             e    == Scan(d)
  <1>1. /\ IsScreen(d) /\ d.q \in Seq(Op) /\ d.drawn \in Seq(Nat)
        /\ Len(d.drawn) + Len(d.q) = m
        /\ \A i \in 1..Len(d.drawn) : d.drawn[i] = i
        /\ \A i \in 1..Len(d.q) : d.q[i].n = Len(d.drawn) + i
        /\ Len(d.q) \in Nat /\ Len(d.drawn) \in Nat
    BY Lengths DEF UpTo
  <1>2. n \in 0..Len(d.q)
    BY <1>1, PrefixExists
  <1> HIDE DEF n
  <1>3. /\ rest \in Seq(Op) /\ Len(rest) = Len(d.q) - n
        /\ \A i \in 1..Len(rest) : rest[i] = d.q[n + i]
        /\ head \in Seq(Op) /\ Len(head) = n
        /\ \A i \in 1..Len(head) : head[i] = d.q[i]
    BY <1>1, <1>2
  <1>4. e = IF rest = <<>> THEN [d1 EXCEPT !.promise = FALSE, !.flushing = @ /\ ~d.promise]
            ELSE IF rest[1].state = "waiting" THEN [d1 EXCEPT !.listening = @ \cup {rest[1].n}]
            ELSE d1
    BY DEF Scan, n
  <1> HIDE DEF rest, head
  <1>5. IsScreen(d0) /\ d0.q = rest /\ d0.drawn = d.drawn
    BY <1>1 DEF IsScreen
  <1> HIDE DEF d0
  <1>6. /\ IsScreen(d1) /\ d1.q = rest /\ d1.drawn \in Seq(Nat)
        /\ Len(d1.drawn) = Len(d.drawn) + n
        /\ \A i \in 1..Len(d1.drawn) : d1.drawn[i] = i
    <2>1. \A i \in 1..Len(head) : head[i].n = Len(d0.drawn) + i
      <3>1. \A i \in 1..Len(head) : i \in 1..Len(d.q) /\ head[i] = d.q[i]
        BY ONLY <1>1, <1>2, <1>3
      <3> QED
        BY ONLY <1>1, <1>5, <3>1
    <2>2. d0.drawn \in Seq(Nat) /\ \A i \in 1..Len(d0.drawn) : d0.drawn[i] = i
      BY <1>1, <1>5
    <2>3. /\ IsScreen(d1) /\ d1.q = d0.q /\ d1.drawn \in Seq(Nat)
          /\ Len(d1.drawn) = Len(d0.drawn) + Len(head)
          /\ \A i \in 1..Len(d1.drawn) : d1.drawn[i] = i
      <3> HIDE DEF d1
      <3> QED
        BY ONLY <1>3, <1>5, <2>1, <2>2, DrawInOrder DEF d1
    <2> QED
      BY <1>3, <1>5, <2>3
  <1> HIDE DEF d1, e
  <1>7. IsScreen(e) /\ e.q = d1.q /\ e.drawn = d1.drawn
    <2>1. CASE rest = <<>>
      BY <1>4, <1>6, <2>1 DEF IsScreen
    <2>2. CASE rest # <<>> /\ rest[1].state = "waiting"
      BY <1>4, <1>6, <2>2 DEF IsScreen
    <2>3. CASE rest # <<>> /\ rest[1].state # "waiting"
      BY <1>4, <1>6, <2>3 DEF IsScreen
    <2> QED
      BY <2>1, <2>2, <2>3
  <1>8. Len(e.drawn) + Len(e.q) = m
    <2>1. Len(e.drawn) = Len(d.drawn) + n /\ Len(e.q) = Len(d.q) - n
      BY ONLY <1>3, <1>6, <1>7
    <2> QED
      <3>1. Len(d.drawn) \in Nat /\ Len(d.q) \in Nat /\ Len(d.drawn) + Len(d.q) = m
        BY <1>1
      <3>2. \A a, b, k \in Nat : k <= b => (a + k) + (b - k) = a + b
        OBVIOUS
      <3>3. n \in Nat /\ n <= Len(d.q)
        BY ONLY <3>1, <1>2
      <3>4. (Len(d.drawn) + n) + (Len(d.q) - n) = Len(d.drawn) + Len(d.q)
        BY ONLY <3>1, <3>2, <3>3
      <3> QED
        BY ONLY <2>1, <3>1, <3>4, Zenon
  <1>9. ASSUME NEW i \in 1..Len(e.q) PROVE e.q[i].n = Len(e.drawn) + i
    <2>1. e.q[i] = d.q[n + i] /\ n + i \in 1..Len(d.q) /\ Len(e.drawn) = Len(d.drawn) + n
      BY <1>1, <1>2, <1>3, <1>6, <1>7
    <2> QED
      BY <1>1, <1>2, <2>1
  <1>10. UpTo(e, m)
    BY <1>3, <1>6, <1>7, <1>8, <1>9 DEF UpTo
  <1> QED
    BY <1>10 DEF e

\* The next operation goes to the end of the queue.
LEMMA PushInOrder ==
  ASSUME NEW d, NEW m \in Nat, UpTo(d, m), NEW op \in Op, op.n = m + 1
  PROVE  UpTo(RenderQPush(d, op), m + 1)
  <1> DEFINE d1 == [d EXCEPT !.q = Append(@, op)]
  <1>1. /\ IsScreen(d) /\ d.q \in Seq(Op) /\ d.drawn \in Seq(Nat)
        /\ Len(d.drawn) + Len(d.q) = m
        /\ \A i \in 1..Len(d.drawn) : d.drawn[i] = i
        /\ \A i \in 1..Len(d.q) : d.q[i].n = Len(d.drawn) + i
        /\ Len(d.q) \in Nat /\ Len(d.drawn) \in Nat
    BY Lengths DEF UpTo
  <1>2. RenderQPush(d, op) = IF Len(d1.q) = 1 THEN Scan(d1) ELSE d1
    BY DEF RenderQPush
  <1>3. IsScreen(d1) /\ d1.q = Append(d.q, op) /\ d1.drawn = d.drawn
    BY <1>1 DEF IsScreen
  <1> HIDE DEF d1
  <1>4. d1.q \in Seq(Op) /\ Len(d1.q) = Len(d.q) + 1 /\ d1.q[Len(d.q) + 1] = op
        /\ \A i \in 1..Len(d.q) : d1.q[i] = d.q[i]
    BY <1>1, <1>3
  <1>5. ASSUME NEW i \in 1..Len(d1.q) PROVE d1.q[i].n = Len(d1.drawn) + i
    <2>1. CASE i = Len(d.q) + 1
      <3>1. /\ Len(d.drawn) \in Nat /\ Len(d.q) \in Nat /\ Len(d.drawn) + Len(d.q) = m
            /\ Len(d1.drawn) = Len(d.drawn) /\ d1.q[i] = op
        BY <1>1, <1>3, <1>4, <2>1
      <3>2. \A a, b \in Nat : (a + b) + 1 = a + (b + 1)
        OBVIOUS
      <3>3. op.n = Len(d.drawn) + (Len(d.q) + 1)
        BY ONLY op.n = m + 1, <3>1, <3>2
      <3> QED
        BY ONLY <2>1, <3>1, <3>3, Zenon
    <2>2. CASE i # Len(d.q) + 1
      <3>1. i \in 1..Len(d.q)
        BY ONLY <1>1, <1>4, <2>2, i \in 1..Len(d1.q)
      <3>2. d1.q[i] = d.q[i] /\ Len(d1.drawn) = Len(d.drawn)
        BY ONLY <1>3, <1>4, <3>1
      <3>3. d.q[i].n = Len(d.drawn) + i
        BY ONLY <1>1, <3>1
      <3> QED
        BY ONLY <3>2, <3>3
    <2> QED
      BY <2>1, <2>2
  <1>6. UpTo(d1, m + 1)
    <2>1. Len(d1.drawn) + Len(d1.q) = m + 1
      <3>1. /\ Len(d.drawn) \in Nat /\ Len(d.q) \in Nat /\ Len(d.drawn) + Len(d.q) = m
            /\ Len(d1.drawn) = Len(d.drawn) /\ Len(d1.q) = Len(d.q) + 1
        BY <1>1, <1>3, <1>4
      <3>2. \A a, b \in Nat : a + (b + 1) = (a + b) + 1
        OBVIOUS
      <3> QED
        BY ONLY <3>1, <3>2
    <2>2. d1.drawn \in Seq(Nat) /\ \A i \in 1..Len(d1.drawn) : d1.drawn[i] = i
      BY ONLY <1>1, <1>3
    <2> QED
      BY ONLY <1>3, <1>4, <1>5, <2>1, <2>2 DEF UpTo
  <1> QED
    BY <1>2, <1>6, ScanInOrder

\* Or it is drawn at once, where nothing is queued.
LEMMA DrawOrQueueInOrder ==
  ASSUME NEW d, NEW m \in Nat, UpTo(d, m), NEW op \in Op, op.n = m + 1
  PROVE  UpTo(DrawOrQueue(d, op), m + 1)
  <1>1. CASE d.q # <<>>
    BY <1>1, PushInOrder DEF DrawOrQueue
  <1>2. CASE d.q = <<>>
    <2> DEFINE these == <<op>>
               e == Draw(d, these)
    <2>1. these \in Seq(Op) /\ Len(these) = 1 /\ these[1] = op
      OBVIOUS
    <2>2. /\ IsScreen(d) /\ d.drawn \in Seq(Nat) /\ Len(d.drawn) = m /\ Len(d.q) = 0 /\ d.q \in Seq(Op)
          /\ \A i \in 1..Len(d.drawn) : d.drawn[i] = i
      BY <1>2 DEF UpTo
    <2> HIDE DEF these
    <2>3. \A i \in 1..Len(these) : these[i].n = Len(d.drawn) + i
      BY <2>1, <2>2
    <2> HIDE DEF e
    <2>4. /\ IsScreen(e) /\ e.q = d.q /\ e.drawn \in Seq(Nat)
          /\ Len(e.drawn) = Len(d.drawn) + Len(these)
          /\ \A i \in 1..Len(e.drawn) : e.drawn[i] = i
      BY ONLY <2>1, <2>2, <2>3, DrawInOrder DEF e
    <2>5. UpTo(e, m + 1)
      <3>1. Len(e.drawn) + Len(e.q) = m + 1 /\ e.q \in Seq(Op) /\ Len(e.q) = 0
        <4>1. Len(e.drawn) = m + 1 /\ e.q = d.q /\ Len(d.q) = 0 /\ d.q \in Seq(Op)
          BY ONLY <2>1, <2>2, <2>4
        <4>2. m + 1 + 0 = m + 1
          OBVIOUS
        <4> QED
          BY ONLY <4>1, <4>2
      <3> QED
        BY ONLY <2>4, <3>1 DEF UpTo
    <2> QED
      BY <1>2, <2>5 DEF DrawOrQueue, e, these
  <1> QED
    BY <1>1, <1>2

\* What becomes of an operation that is waited for changes no order.
LEMMA SettleInOrder ==
  ASSUME NEW m \in Nat, UpTo(Screen, m), NEW k, NEW state \in {"ready", "broken"}
  PROVE  UpTo(Settle(k, state), m)
  <1> DEFINE d0 == Screen
             q1 == [i \in DOMAIN d0.q |-> IF d0.q[i].n = k THEN [d0.q[i] EXCEPT !.state = state]
                                          ELSE d0.q[i]]
             d == [d0 EXCEPT !.q = q1, !.listening = @ \ {k}]
  <1>1. /\ IsScreen(d0) /\ d0.q \in Seq(Op) /\ d0.drawn \in Seq(Nat)
        /\ Len(d0.drawn) + Len(d0.q) = m
        /\ \A i \in 1..Len(d0.drawn) : d0.drawn[i] = i
        /\ \A i \in 1..Len(d0.q) : d0.q[i].n = Len(d0.drawn) + i
    BY DEF UpTo
  <1>2. Settle(k, state) = IF k \in listening /\ state = "ready" THEN Scan(d) ELSE d
    BY Zenon DEF Settle
  <1> HIDE DEF d0
  <1>3. q1 \in Seq(Op) /\ Len(q1) = Len(d0.q) /\ \A i \in 1..Len(d0.q) : q1[i].n = d0.q[i].n
    <2>1. DOMAIN d0.q = 1..Len(d0.q) /\ Len(d0.q) \in Nat /\ \A i \in 1..Len(d0.q) : d0.q[i] \in Op
      BY <1>1, Lengths
    <2>2. \A o \in Op : [o EXCEPT !.state = state] \in Op /\ [o EXCEPT !.state = state].n = o.n
      BY DEF Op
    <2>3. \A i \in 1..Len(d0.q) : q1[i] \in Op /\ q1[i].n = d0.q[i].n
      BY <2>1, <2>2
    <2>4. q1 \in [1..Len(d0.q) -> Op]
      BY <2>1, <2>3
    <2> HIDE DEF q1
    <2>5. q1 \in Seq(Op) /\ Len(q1) = Len(d0.q)
      BY <2>1, <2>4
    <2> QED
      BY <2>3, <2>5
  <1> HIDE DEF q1
  <1>4. IsScreen(d) /\ d.q = q1 /\ d.drawn = d0.drawn
    BY <1>1 DEF IsScreen
  <1> HIDE DEF d
  <1>5. UpTo(d, m)
    <2>1. \A i \in 1..Len(d.q) : d.q[i].n = Len(d.drawn) + i
      BY <1>1, <1>3, <1>4
    <2> QED
      BY <1>1, <1>3, <1>4, <2>1 DEF UpTo
  <1> QED
    BY <1>2, <1>5, ScanInOrder

-----------------------------------------------------------------------------
(***************************************************************************)
(* The invariant holds at first and is kept by every step.                 *)
(***************************************************************************)

LEMMA DispInitInv ==
  ASSUME DispInit
  PROVE  DispInv
  <1>1. Screen.q = <<>> /\ Screen.drawn = <<>> /\ ops = 0
    BY DEF DispInit, Screen
  <1>2. IsScreen(Screen)
    BY DEF IsScreen, Screen
  <1>3. <<>> \in Seq(Op) /\ <<>> \in Seq(Nat) /\ Len(<<>>) = 0
    OBVIOUS
  <1> HIDE DEF Screen
  <1> QED
    BY <1>1, <1>2, <1>3 DEF DispInv, UpTo

\* What a handler makes of the screen is the screen then.
LEMMA ScreenThen ==
  ASSUME NEW d, NEW m \in Nat, UpTo(d, m), ScreenBecomes(d), ops' = m
  PROVE  DispInv'
  <1>1. Screen' = [q |-> d.q, drawn |-> d.drawn, damage |-> d.damage, shown |-> d.shown,
                   promise |-> d.promise, listening |-> d.listening, flushing |-> d.flushing]
    BY DEF Screen, ScreenBecomes
  <1>2. Screen'.q = d.q /\ Screen'.drawn = d.drawn /\ IsScreen(Screen')
    BY <1>1 DEF IsScreen
  <1>3. UpTo(Screen', m)
    BY <1>2 DEF UpTo
  <1> QED
    BY <1>3 DEF DispInv

\* Steps that leave queue and back buffer alone.
LEMMA QueueStays ==
  ASSUME DispInv, UNCHANGED <<ops, renderQ, drawn>>
  PROVE  DispInv'
  <1>1. Screen.q = renderQ /\ Screen.drawn = drawn /\ Screen'.q = renderQ' /\ Screen'.drawn = drawn'
    BY DEF Screen
  <1>2. IsScreen(Screen')
    BY DEF Screen, IsScreen
  <1> HIDE DEF Screen
  <1> QED
    BY <1>1, <1>2 DEF DispInv, UpTo

LEMMA NextOperation ==
  ASSUME DispInv, NEW kind \in {"pixels", "image", "frame", "flip"}, NEW state \in {"ready", "waiting"}
  PROVE  Operation(kind, state) \in Op /\ Operation(kind, state).n = ops + 1
  BY DEF DispInv, Operation, Op

LEMMA DispNextInv ==
  ASSUME DispInv, [DispNext]_dispVars
  PROVE  DispInv'
  <1>1. CASE UNCHANGED dispVars
    BY <1>1, QueueStays DEF dispVars, rfbVars, queueVars
  <1>2. CASE BeginUpdate
    BY <1>2, QueueStays DEF BeginUpdate
  <1>3. ops \in Nat /\ UpTo(Screen, ops)
    BY DEF DispInv
  <1>4. CASE PixelRect
    <2>1. UpTo(DrawOrQueue(Screen, Operation("pixels", "ready")), ops + 1)
      BY <1>3, NextOperation, DrawOrQueueInOrder
    <2> QED
      BY <1>3, <1>4, <2>1, ScreenThen DEF PixelRect
  <1>5. CASE ImageRect
    <2>1. UpTo(RenderQPush(Screen, Operation("image", "waiting")), ops + 1)
      BY <1>3, NextOperation, PushInOrder
    <2> QED
      BY <1>3, <1>5, <2>1, ScreenThen DEF ImageRect
  <1>6. CASE EndUpdate
    <2>1. UpTo(DrawOrQueue(Screen, Operation("flip", "ready")), ops + 1)
      BY <1>3, NextOperation, DrawOrQueueInOrder
    <2> QED
      BY <1>3, <1>6, <2>1, ScreenThen DEF EndUpdate
  <1>7. ASSUME NEW k \in 1..MaxOps, ImageLoads(k) PROVE DispInv'
    BY <1>3, <1>7, SettleInOrder, ScreenThen DEF ImageLoads
  <1>8. ASSUME NEW k \in 1..MaxOps, ImageBreaks(k) PROVE DispInv'
    BY <1>3, <1>8, SettleInOrder, ScreenThen DEF ImageBreaks
  <1>9. ASSUME NEW rect \in Rects, NEW reset \in {"all", "this", "none"}, NEW frames \in 0..2,
               NEW key \in BOOLEAN, NEW taken \in 0..2, H264Rect(rect, reset, frames, key, taken)
        PROVE  DispInv'
    <2>1. \/ ops' = ops + 1 /\ ScreenBecomes(RenderQPush(Screen, Operation("frame", "waiting")))
          \/ UNCHANGED <<ops, queueVars, rfbFlushing>>
      BY <1>9 DEF H264Rect
    <2>2. UpTo(RenderQPush(Screen, Operation("frame", "waiting")), ops + 1)
      BY <1>3, NextOperation, PushInOrder
    <2> QED
      BY <1>3, <2>1, <2>2, ScreenThen, QueueStays DEF queueVars
  <1>10. ASSUME NEW c \in DOMAIN decoding, HandleFrame(c) PROVE DispInv'
    <2> DEFINE n == Head(decoding[c]).n
    <2>1. /\ ops' = ops
          /\ \/ ScreenBecomes(Settle(n, "ready"))
             \/ UNCHANGED <<queueVars, rfbFlushing>>
      BY <1>10 DEF HandleFrame
    <2> HIDE DEF n
    <2>2. UpTo(Settle(n, "ready"), ops)
      BY <1>3, SettleInOrder
    <2> QED
      BY <1>3, <2>1, <2>2, ScreenThen, QueueStays DEF queueVars
  <1>11. ASSUME NEW c \in DOMAIN decoding, DecoderFails(c) PROVE DispInv'
    BY <1>11, QueueStays DEF DecoderFails, rfbVars, queueVars
  <1> QED
    BY <1>1, <1>2, <1>4, <1>5, <1>6, <1>7, <1>8, <1>9, <1>10, <1>11 DEF DispNext

\* Whatever images, frames and contexts there are, and in whatever order the browser
\* loads and decodes them: the operations are drawn once each, in the order the
\* server sent them, with none left out. [_renderQPush, _scanRenderQ, _resumeRenderQ]
THEOREM OrderTheorem == DispSpec => []DrawnInOrder
  <1>1. DispInit => DispInv
    BY DispInitInv
  <1>2. DispInv /\ [DispNext]_dispVars => DispInv'
    BY DispNextInv
  <1>3. DispInv => DrawnInOrder
    <2>1. Screen.drawn = drawn
      BY DEF Screen
    <2>2. ASSUME drawn \in Seq(Nat) PROVE DOMAIN drawn = 1..Len(drawn)
      BY <2>2
    <2> HIDE DEF Screen
    <2> QED
      BY <2>1, <2>2 DEF DispInv, UpTo, DrawnInOrder
  <1> QED
    BY <1>1, <1>2, <1>3, PTL DEF DispSpec

-----------------------------------------------------------------------------
(***************************************************************************)
(* The invariant of VncSession.  What the client says next depends on how  *)
(* much of the last answer it has read, so the invariant counts: in every  *)
(* state of the handshake it knows how many messages were sent (Place),    *)
(* what is left to read of the last answer (Left), and that this and       *)
(* nothing else is in the receive queue and on the way (Owed).             *)
(***************************************************************************)

\* RFB._rfbInitState and _rfbConnectionState.
Inits == {"", "ProtocolVersion", "Security", "Authentication", "SecurityResult", "SecurityReason",
          "ClientInitialisation", "ServerInitialisation"}
Conns == {"connecting", "connected", "disconnecting", "disconnected"}

\* The fields of an RFB object.
RfbObjects ==
  [conn : Conns, init : Inits, scheme : Schemes \cup {"plain"}, clean : BOOLEAN,
   creds : {"none", "password", "full"}, listening : BOOLEAN, grabbed : BOOLEAN,
   messages : BOOLEAN, onopen : BOOLEAN, onclose : BOOLEAN, timer : BOOLEAN,
   resumes : Nat, ard : {"none", "busy", "ready", "lost"}, ra2 : BOOLEAN, loop : BOOLEAN, once : BOOLEAN]

\* What the page of ui.js keeps of the session.
Pages ==
  [connected : BOOLEAN, refused : BOOLEAN, closed : BOOLEAN,
   dialog : {"hidden", "opening", "shown", "closing"}, asked : {"none", "password", "full"},
   submits : Nat, late : BOOLEAN]

WsStates == {"connecting", "open", "closing", "closed"}

\* The messages of the handshake and the turns they make.
Words == {"version", "types", "reason", "choice", "challenge", "response",
          "subtypes", "subtype", "login", "tunnels", "notunnel", "subauths", "subauth", "key",
          "answer", "ok", "failed", "clientInit", "serverInit", "request", "update"}
TurnSet == [expect : Words, send : Seq(Words)]
ServerSet == [scheme : Schemes, old : BOOLEAN, accepts : BOOLEAN]

\* Every field has its type.
SesTypes ==
  /\ server \in ServerSet
  /\ ws \in WsStates /\ r \in RfbObjects /\ p \in Pages /\ viewOnly \in BOOLEAN
  /\ inbox \in Seq(Words) /\ rq \in Seq(Words) /\ sent \in Seq(Words) /\ served \in Nat

\* The socket and the session end together, and the page hears of it once.
EndsWell(a, q, w) ==
  /\ a.conn \in {"disconnecting", "disconnected"} <=> w \in {"closing", "closed"}
  /\ a.conn \in {"disconnecting", "disconnected"} => ~a.listening /\ ~a.grabbed
  /\ a.conn = "connected" => w = "open"
  /\ ~a.onclose => a.conn = "disconnected"
  /\ a.timer => a.conn = "disconnecting"
  /\ q.closed <=> a.conn = "disconnected"
  /\ q.late => server.scheme = "xvp"
Ending == EndsWell(r, p, ws)

\* Who asks for credentials and what for.
Asking ==
  /\ r.scheme \in {"none", server.scheme} \/ <<server.scheme, r.scheme>> \in
       {<<"vencrypt", "plain">>, <<"tight", "plain">>}
  /\ r.scheme # "none" => r.init \notin {"", "ProtocolVersion", "Security"}
  /\ r.init = "Authentication" =>
       /\ server.scheme \notin {"empty", "unsupported"}
       /\ r.scheme = "none" => server.scheme = "none"
  /\ r.creds = "full" => p.asked = "full"
  /\ p.asked # "none" => r.scheme \in {"vnc", "mslogon", "xvp", "plain", "ard"}
  /\ p.asked = "password" => server.scheme = "vnc"
  /\ p.dialog # "hidden" \/ r.resumes > 0 \/ (r.loop /\ r.once) \/ r.ard # "none" => p.asked # "none"
  /\ r.resumes > 0 \/ (r.loop /\ r.once) \/ r.ard # "none" => r.creds = p.asked
  /\ r.ard # "none" => r.init = "Authentication" /\ r.scheme = "ard"
  /\ r.ra2 => r.init = "Authentication" /\ r.scheme = "ra2"

\* Between two calls of the handshake nothing is left in the queue but what waits
\* for credentials.
Rested ==
  /\ \/ rq = <<>>
     \/ r.init = "Authentication" /\ r.scheme \in {"vnc", "mslogon"} /\ rq = <<"challenge">>
     \/ r.init = "Authentication" /\ r.scheme = "ard" /\ rq = <<"key">>
  /\ r.init # "ClientInitialisation"
  /\ r.init = "Authentication" => r.scheme # "none"
  /\ r.ard # "none" => rq = <<>>

\* When and on what the handshake runs.
Looping ==
  /\ ~r.loop \/ r.once => Rested
  /\ r.loop /\ ~r.once => ws = "open"
  /\ r.loop => r.init # ""
  /\ r.init = "" => ws # "open"
  /\ ws = "connecting" => r.init = "" /\ r.onopen /\ ~r.loop /\ sent = <<>> /\ served = 0 /\ inbox = <<>>
  /\ r.conn = "connected" => r.init = "ServerInitialisation"

\* The messages sent before those of the scheme, and in the handshake.
Base == IF server.old THEN 1 ELSE 2
Parts == Len(Dialogue(server))

\* How many messages the client has sent where it is.
Place(k) ==
  CASE r.init = "ProtocolVersion" -> k = 0
    [] r.init = "Security" -> k = 1
    [] r.init = "Authentication" ->
         (CASE r.scheme \in {"vencrypt", "tight"} -> k \in {Base, Base + 1}
            [] r.scheme = "plain" -> k = Base + 2
            [] OTHER -> k = Base)
    [] r.init = "ServerInitialisation" -> IF r.conn = "connecting" THEN k = Parts + 1 ELSE k > Parts + 1
    [] r.init = "SecurityResult" ->
         /\ k = Parts
         /\ server.scheme \notin {"empty", "unsupported", "ra2", "xvp"}
         /\ server.scheme = "none" => ~server.old
    [] OTHER -> k = Parts

\* What it has still to read of the answer to the last one.
Left(k) ==
  IF r.init = "ProtocolVersion" THEN <<"version">>
  ELSE IF r.init = "ClientInitialisation" \/ r.ard # "none" \/ r.ra2 THEN <<>>
  ELSE IF r.init = "SecurityReason" THEN <<"reason">>
  ELSE IF r.init # "Authentication" \/ k # 1 THEN Talk[k].send
  ELSE IF Authentication(server) = <<>> THEN <<>> ELSE Authentication(server)[1].send

\* The messages all are on the way, the first perhaps in the receive queue.
Line(all, queue, coming) ==
  \/ queue = <<>> /\ coming = all
  \/ all # <<>> /\ queue = <<Head(all)>> /\ coming = Tail(all)

\* Of k messages the server has answered sv, and those it has not are answered by
\* silence but the last: left is what the client has still to read.
Owed(left, talk, k, sv, queue, coming) ==
  /\ sv <= k /\ k <= Len(talk)
  /\ \A j \in (sv + 1)..(k - 1) : talk[j].send = <<>>
  /\ Line(IF sv = k THEN left ELSE <<>>, queue, coming)
  /\ sv < k => left = talk[k].send

\* The client has read what led it where it is, and sent what it had to.
Placed == \E k \in {Len(sent)} : Place(k) /\ Owed(Left(k), Talk, k, served, rq, inbox)

\* The client has said what was expected, in its turn.
Spoken == Len(sent) <= Len(Talk) /\ \A i \in 1..Len(sent) : sent[i] = Talk[i].expect

\* All of them; the place is known only while the socket is open.
SesInv ==
  /\ SesTypes /\ Ending /\ Asking /\ Looping /\ Spoken
  /\ ws = "open" => Placed

\* Short tuples are sequences.
LEMMA Tuples ==
  ASSUME NEW S
  PROVE  /\ <<>> \in Seq(S) /\ Len(<<>>) = 0
         /\ \A a \in S : <<a>> \in Seq(S) /\ Len(<<a>>) = 1 /\ <<a>>[1] = a
         /\ \A a, b \in S : <<a, b>> \in Seq(S) /\ Len(<<a, b>>) = 2 /\ <<a, b>>[1] = a /\ <<a, b>>[2] = b
         /\ \A a, b, c \in S :
              /\ <<a, b, c>> \in Seq(S) /\ Len(<<a, b, c>>) = 3
              /\ <<a, b, c>>[1] = a /\ <<a, b, c>>[2] = b /\ <<a, b, c>>[3] = c
         /\ \A a, b, c, d \in S :
              /\ <<a, b, c, d>> \in Seq(S) /\ Len(<<a, b, c, d>>) = 4
              /\ <<a, b, c, d>>[1] = a /\ <<a, b, c, d>>[2] = b
              /\ <<a, b, c, d>>[3] = c /\ <<a, b, c, d>>[4] = d
  OBVIOUS

\* The messages of a turn, and a turn.
LEMMA Sends ==
  /\ <<>> \in Seq(Words)
  /\ \A w \in Words : <<w>> \in Seq(Words)
  /\ \A v, w \in Words : <<v, w>> \in Seq(Words)
  /\ \A e \in Words, s \in Seq(Words) :
       Turn(e, s) \in TurnSet /\ Turn(e, s).expect = e /\ Turn(e, s).send = s
  <1> HIDE DEF Words
  <1> QED
    BY Tuples DEF Turn, TurnSet

\* The server's verdict is a sequence of messages.
LEMMA VerdictType ==
  ASSUME NEW s \in ServerSet
  PROVE  Verdict(s) \in Seq(Words)
  <1>1. <<"ok">> \in Seq(Words) /\ <<"failed">> \in Seq(Words) /\ <<"failed", "reason">> \in Seq(Words)
    BY Sends DEF Words
  <1> QED
    BY <1>1, Zenon DEF Verdict

\* No authentication: the choice, answered by the result.
LEMMA NoneShape ==
  ASSUME NEW s \in ServerSet, s.scheme = "none", ~s.old
  PROVE  /\ Authentication(s) \in Seq(TurnSet) /\ Len(Authentication(s)) = 1
         /\ Authentication(s)[1] = Turn("choice", Verdict(s))
  <1> DEFINE a == Turn("choice", Verdict(s))
  <1>1. Authentication(s) = <<a>>
    BY DEF Authentication
  <1>2. Verdict(s) \in Seq(Words)
    BY Sends, VerdictType DEF Words
  <1>3. "choice" \in Words
    BY DEF Words
  <1>4. a \in TurnSet
    BY <1>2, <1>3, Sends, Zenon
  <1> HIDE DEF a
  <1>5. /\ Authentication(s) \in Seq(TurnSet) /\ Len(Authentication(s)) = 1
        /\ Authentication(s)[1] = a
    BY <1>1, <1>4, Tuples
  <1> QED
    BY <1>5 DEF a

\* VNC and MSLogonII authentication: the choice, then the response to the challenge.
LEMMA VncShape ==
  ASSUME NEW s \in ServerSet, s.scheme \in {"vnc", "mslogon"}
  PROVE  /\ Authentication(s) \in Seq(TurnSet) /\ Len(Authentication(s)) = 2
         /\ Authentication(s)[1] = Turn("choice", <<"challenge">>)
         /\ Authentication(s)[2] = Turn("response", Verdict(s))
  <1> DEFINE a == Turn("choice", <<"challenge">>)
             b == Turn("response", Verdict(s))
  <1>1. Authentication(s) = <<a, b>>
    BY DEF Authentication
  <1>2. <<"challenge">> \in Seq(Words) /\ Verdict(s) \in Seq(Words)
    BY Sends, VerdictType DEF Words
  <1>3. "choice" \in Words /\ "response" \in Words
    BY DEF Words
  <1>4. a \in TurnSet /\ b \in TurnSet
    BY <1>2, <1>3, Sends, Zenon
  <1> HIDE DEF a, b
  <1>5. /\ Authentication(s) \in Seq(TurnSet) /\ Len(Authentication(s)) = 2
        /\ Authentication(s)[1] = a /\ Authentication(s)[2] = b
    BY <1>1, <1>4, Tuples
  <1> QED
    BY <1>5 DEF a, b

\* XVP: the choice, on which the page gets no further.
LEMMA XvpShape ==
  ASSUME NEW s \in ServerSet, s.scheme = "xvp"
  PROVE  /\ Authentication(s) \in Seq(TurnSet) /\ Len(Authentication(s)) = 1
         /\ Authentication(s)[1] = Turn("choice", <<>>)
  <1> DEFINE a == Turn("choice", <<>>)
  <1>1. Authentication(s) = <<a>>
    BY DEF Authentication
  <1>2. "choice" \in Words
    BY DEF Words
  <1>3. a \in TurnSet
    BY <1>2, Sends, Zenon
  <1> HIDE DEF a
  <1>4. /\ Authentication(s) \in Seq(TurnSet) /\ Len(Authentication(s)) = 1
        /\ Authentication(s)[1] = a
    BY <1>1, <1>3, Tuples
  <1> QED
    BY <1>4 DEF a

\* VeNCrypt: version, subtype, and the plain login.
LEMMA VencryptShape ==
  ASSUME NEW s \in ServerSet, s.scheme = "vencrypt"
  PROVE  /\ Authentication(s) \in Seq(TurnSet) /\ Len(Authentication(s)) = 4
         /\ Authentication(s)[1] = Turn("choice", <<"version">>)
         /\ Authentication(s)[2] = Turn("version", <<"subtypes">>)
         /\ Authentication(s)[3] = Turn("subtype", <<>>)
         /\ Authentication(s)[4] = Turn("login", Verdict(s))
  <1> DEFINE a == Turn("choice", <<"version">>)
             b == Turn("version", <<"subtypes">>)
             c == Turn("subtype", <<>>)
             d == Turn("login", Verdict(s))
  <1>1. Authentication(s) = <<a, b, c, d>>
    BY DEF Authentication
  <1>2. <<"subtypes">> \in Seq(Words) /\ <<"version">> \in Seq(Words) /\ <<>> \in Seq(Words) /\ Verdict(s) \in Seq(Words)
    BY Sends, VerdictType DEF Words
  <1>3. "choice" \in Words /\ "login" \in Words /\ "subtype" \in Words /\ "version" \in Words
    BY DEF Words
  <1>4. a \in TurnSet /\ b \in TurnSet /\ c \in TurnSet /\ d \in TurnSet
    BY <1>2, <1>3, Sends, Zenon
  <1> HIDE DEF a, b, c, d
  <1>5. /\ Authentication(s) \in Seq(TurnSet) /\ Len(Authentication(s)) = 4
        /\ Authentication(s)[1] = a /\ Authentication(s)[2] = b /\ Authentication(s)[3] = c /\ Authentication(s)[4] = d
    BY <1>1, <1>4, Tuples
  <1> QED
    BY <1>5 DEF a, b, c, d

\* TightVNC: tunnels, subtypes, and the login.
LEMMA TightShape ==
  ASSUME NEW s \in ServerSet, s.scheme = "tight"
  PROVE  /\ Authentication(s) \in Seq(TurnSet) /\ Len(Authentication(s)) = 4
         /\ Authentication(s)[1] = Turn("choice", <<"tunnels">>)
         /\ Authentication(s)[2] = Turn("notunnel", <<"subauths">>)
         /\ Authentication(s)[3] = Turn("subauth", <<>>)
         /\ Authentication(s)[4] = Turn("login", Verdict(s))
  <1> DEFINE a == Turn("choice", <<"tunnels">>)
             b == Turn("notunnel", <<"subauths">>)
             c == Turn("subauth", <<>>)
             d == Turn("login", Verdict(s))
  <1>1. Authentication(s) = <<a, b, c, d>>
    BY DEF Authentication
  <1>2. <<"subauths">> \in Seq(Words) /\ <<"tunnels">> \in Seq(Words) /\ <<>> \in Seq(Words) /\ Verdict(s) \in Seq(Words)
    BY Sends, VerdictType DEF Words
  <1>3. "choice" \in Words /\ "login" \in Words /\ "notunnel" \in Words /\ "subauth" \in Words
    BY DEF Words
  <1>4. a \in TurnSet /\ b \in TurnSet /\ c \in TurnSet /\ d \in TurnSet
    BY <1>2, <1>3, Sends, Zenon
  <1> HIDE DEF a, b, c, d
  <1>5. /\ Authentication(s) \in Seq(TurnSet) /\ Len(Authentication(s)) = 4
        /\ Authentication(s)[1] = a /\ Authentication(s)[2] = b /\ Authentication(s)[3] = c /\ Authentication(s)[4] = d
    BY <1>1, <1>4, Tuples
  <1> QED
    BY <1>5 DEF a, b, c, d

\* Apple's authentication: the key, answered by the credentials.
LEMMA ArdShape ==
  ASSUME NEW s \in ServerSet, s.scheme = "ard"
  PROVE  /\ Authentication(s) \in Seq(TurnSet) /\ Len(Authentication(s)) = 2
         /\ Authentication(s)[1] = Turn("choice", <<"key">>)
         /\ Authentication(s)[2] = Turn("answer", Verdict(s))
  <1> DEFINE a == Turn("choice", <<"key">>)
             b == Turn("answer", Verdict(s))
  <1>1. Authentication(s) = <<a, b>>
    BY DEF Authentication
  <1>2. <<"key">> \in Seq(Words) /\ Verdict(s) \in Seq(Words)
    BY Sends, VerdictType DEF Words
  <1>3. "answer" \in Words /\ "choice" \in Words
    BY DEF Words
  <1>4. a \in TurnSet /\ b \in TurnSet
    BY <1>2, <1>3, Sends, Zenon
  <1> HIDE DEF a, b
  <1>5. /\ Authentication(s) \in Seq(TurnSet) /\ Len(Authentication(s)) = 2
        /\ Authentication(s)[1] = a /\ Authentication(s)[2] = b
    BY <1>1, <1>4, Tuples
  <1> QED
    BY <1>5 DEF a, b

\* RA2ne: an exchange that this model keeps as one answer.
LEMMA Ra2Shape ==
  ASSUME NEW s \in ServerSet, s.scheme = "ra2"
  PROVE  /\ Authentication(s) \in Seq(TurnSet) /\ Len(Authentication(s)) = 1
         /\ Authentication(s)[1] = Turn("choice", <<"key">>)
  <1> DEFINE a == Turn("choice", <<"key">>)
  <1>1. Authentication(s) = <<a>>
    BY DEF Authentication
  <1>2. <<"key">> \in Seq(Words)
    BY Sends, VerdictType DEF Words
  <1>3. "choice" \in Words
    BY DEF Words
  <1>4. a \in TurnSet
    BY <1>2, <1>3, Sends, Zenon
  <1> HIDE DEF a
  <1>5. /\ Authentication(s) \in Seq(TurnSet) /\ Len(Authentication(s)) = 1
        /\ Authentication(s)[1] = a
    BY <1>1, <1>4, Tuples
  <1> QED
    BY <1>5 DEF a

\* Schemes after whose offer the server says nothing of its own.
LEMMA EmptyShape ==
  ASSUME NEW s \in ServerSet, s.scheme \in {"empty", "unsupported"} \/ (s.scheme = "none" /\ s.old)
  PROVE  Authentication(s) = <<>>
  BY DEF Authentication

\* Whatever the scheme, its dialogue is a sequence of turns.
LEMMA AuthType ==
  ASSUME NEW s \in ServerSet
  PROVE  Authentication(s) \in Seq(TurnSet)
  <1>1. s.scheme \in Schemes /\ s.old \in BOOLEAN
    BY DEF ServerSet
  <1>2. <<>> \in Seq(TurnSet)
    OBVIOUS
  <1> QED
    BY <1>1, <1>2, NoneShape, VncShape, XvpShape, VencryptShape, TightShape, ArdShape, Ra2Shape, EmptyShape DEF Schemes

\* The first turn of the dialogue and those of the scheme.
LEMMA DialogueShape ==
  ASSUME NEW s \in ServerSet
  PROVE  LET a == Authentication(s)
             d == Dialogue(s)
             b == IF s.old THEN 1 ELSE 2
         IN  /\ d \in Seq(TurnSet) /\ Len(d) >= 1 /\ d[1].expect = "version"
             /\ s.scheme = "empty" => d[1].send = <<"types", "reason">>
             /\ s.scheme # "empty" /\ (~s.old \/ a = <<>>) => d[1].send = <<"types">>
             /\ s.scheme # "empty" /\ s.old /\ a # <<>> => d[1].send = <<"types">> \o a[1].send
             /\ Len(d) = IF a = <<>> THEN 1 ELSE b - 1 + Len(a)
             /\ \A j \in 1..Len(a) : j > 1 \/ ~s.old => d[b - 1 + j] = a[j]
  <1> DEFINE a == Authentication(s)
             d == Dialogue(s)
             offer == IF s.scheme = "empty" THEN <<"types", "reason">> ELSE <<"types">>
             t1 == Turn("version", offer \o a[1].send)
             t2 == Turn("version", offer)
  <1>1. a \in Seq(TurnSet)
    BY AuthType
  <1>2. offer \in Seq(Words)
    BY Sends DEF Words
  <1>3. "version" \in Words
    BY DEF Words
  <1>4. t2 \in TurnSet /\ t2.expect = "version" /\ t2.send = offer
    BY <1>2, <1>3, Sends
  <1>5. s.scheme = "empty" => a = <<>>
    BY EmptyShape
  <1>6. CASE s.old /\ a # <<>>
    <2>1. d = <<t1>> \o Tail(a)
      BY <1>6 DEF Dialogue
    <2>2. a[1].send \in Seq(Words)
      <3>1. a[1] \in TurnSet
        BY <1>1, <1>6
      <3> QED
        BY <3>1 DEF TurnSet
    <2>3. offer \o a[1].send \in Seq(Words)
      BY <1>2, <2>2
    <2>4. t1 \in TurnSet /\ t1.expect = "version" /\ t1.send = offer \o a[1].send
      BY <1>3, <2>3, Sends
    <2> HIDE DEF a, t1, d, offer
    <2>5. /\ d \in Seq(TurnSet) /\ Len(d) = Len(a) /\ d[1] = t1 /\ Len(a) >= 1
          /\ \A j \in 2..Len(a) : d[j] = a[j]
      BY <1>1, <1>6, <2>1, <2>4
    <2>6. s.scheme # "empty" /\ s.old /\ a # <<>> /\ offer = <<"types">>
      BY <1>5, <1>6 DEF offer
    <2>7. d[1].expect = "version" /\ d[1].send = <<"types">> \o a[1].send
      BY <2>4, <2>5, <2>6, Zenon
    <2>8. Len(a) \in Nat /\ Len(d) = 1 - 1 + Len(a)
      BY <1>1, <2>5
    <2>9. \A j \in 1..Len(a) : j > 1 => d[1 - 1 + j] = a[j]
      BY <2>5, <2>8
    <2> QED
      BY <2>5, <2>6, <2>7, <2>8, <2>9 DEF a, d
  <1>7. CASE ~(s.old /\ a # <<>>)
    <2>1. d = <<t2>> \o a
      BY <1>7 DEF Dialogue
    <2> HIDE DEF a, t2, d, offer
    <2>2. /\ d \in Seq(TurnSet) /\ Len(d) = Len(a) + 1 /\ d[1] = t2
          /\ \A j \in 1..Len(a) : d[j + 1] = a[j]
      BY <1>1, <2>1, <1>4
    <2> QED
      BY <1>1, <1>4, <1>5, <1>7, <2>2 DEF a, d, offer
  <1> QED
    BY <1>6, <1>7

\* The whole talk: the dialogue, the initialisation, the updates.
LEMMA TalkShape ==
  ASSUME server \in ServerSet
  PROVE  /\ Talk \in Seq(TurnSet) /\ Parts \in Nat \ {0} /\ Len(Talk) = Parts + 2 + MaxUpdates
         /\ \A j \in 1..Parts : Talk[j] = Dialogue(server)[j]
         /\ Talk[Parts + 1] = Turn("clientInit", <<"serverInit">>)
         /\ \A j \in (Parts + 2)..(Parts + 1 + MaxUpdates) : Talk[j] = Turn("request", <<"update">>)
         /\ Talk[Parts + 2 + MaxUpdates] = Turn("request", <<>>)
  <1> DEFINE d == Dialogue(server)
             c == Turn("clientInit", <<"serverInit">>)
             u == Turn("request", <<"update">>)
             us == [i \in 1..MaxUpdates |-> u]
             e == Turn("request", <<>>)
  <1>1. d \in Seq(TurnSet) /\ Len(d) >= 1 /\ MaxUpdates \in Nat
    BY DialogueShape, SessionAssumption
  <1>2. c \in TurnSet /\ u \in TurnSet /\ e \in TurnSet
    <2>1. "clientInit" \in Words /\ "request" \in Words /\ "serverInit" \in Words /\ "update" \in Words
      BY DEF Words
    <2> QED
      BY <2>1, Sends, Zenon
  <1>3. Talk = d \o <<c>> \o us \o <<e>>
    BY DEF Talk
  <1>4. Parts = Len(d)
    BY DEF Parts
  <1> HIDE DEF c, u, e, d
  <1>5. us \in Seq(TurnSet) /\ Len(us) = MaxUpdates /\ \A i \in 1..MaxUpdates : us[i] = u
    BY <1>1, <1>2
  <1> HIDE DEF us
  <1>6. /\ d \o <<c>> \in Seq(TurnSet) /\ Len(d \o <<c>>) = Len(d) + 1 /\ (d \o <<c>>)[Len(d) + 1] = c
        /\ \A j \in 1..Len(d) : (d \o <<c>>)[j] = d[j]
    BY <1>1, <1>2
  <1> DEFINE f == d \o <<c>>
  <1> HIDE DEF f
  <1>7. /\ f \o us \in Seq(TurnSet) /\ Len(f \o us) = Len(d) + 1 + MaxUpdates
        /\ \A j \in 1..(Len(d) + 1) : (f \o us)[j] = f[j]
        /\ \A j \in (Len(d) + 2)..(Len(d) + 1 + MaxUpdates) : (f \o us)[j] = u
    <2>1. /\ f \o us \in Seq(TurnSet) /\ Len(f \o us) = Len(d) + 1 + MaxUpdates
          /\ \A j \in 1..(Len(d) + 1) : (f \o us)[j] = f[j]
          /\ \A j \in (Len(d) + 2)..(Len(d) + 1 + MaxUpdates) : (f \o us)[j] = us[j - Len(f)]
      BY <1>1, <1>5, <1>6 DEF f
    <2>2. Len(f) = Len(d) + 1
      BY <1>6 DEF f
    <2> QED
      BY <1>1, <1>5, <2>1, <2>2
  <1> DEFINE g == f \o us
  <1> HIDE DEF g
  <1>8. /\ g \o <<e>> \in Seq(TurnSet) /\ Len(g \o <<e>>) = Len(g) + 1 /\ (g \o <<e>>)[Len(g) + 1] = e
        /\ \A j \in 1..Len(g) : (g \o <<e>>)[j] = g[j]
    BY <1>2, <1>7 DEF g
  <1>9. Talk = g \o <<e>>
    BY <1>3 DEF g, f
  <1>10. Len(g) = Len(d) + 1 + MaxUpdates /\ \A j \in 1..Len(d) : g[j] = d[j]
    BY <1>1, <1>6, <1>7 DEF g, f
  <1>11. g[Len(d) + 1] = c /\ \A j \in (Len(d) + 2)..(Len(d) + 1 + MaxUpdates) : g[j] = u
    BY <1>1, <1>6, <1>7 DEF g, f
  <1>12. Talk \in Seq(TurnSet) /\ Len(Talk) = Len(d) + 2 + MaxUpdates
    BY <1>1, <1>8, <1>9, <1>10
  <1>13. \A j \in 1..Len(d) : Talk[j] = d[j]
    BY <1>1, <1>8, <1>9, <1>10
  <1>14. Talk[Len(d) + 1] = c
    BY <1>1, <1>8, <1>9, <1>10, <1>11
  <1>15. \A j \in (Len(d) + 2)..(Len(d) + 1 + MaxUpdates) : Talk[j] = u
    BY <1>1, <1>8, <1>9, <1>10, <1>11
  <1>16. Talk[Len(d) + 2 + MaxUpdates] = e
    BY <1>1, <1>8, <1>9, <1>10
  <1> QED
    BY <1>1, <1>4, <1>12, <1>13, <1>14, <1>15, <1>16 DEF c, u, e, d

-----------------------------------------------------------------------------
\* An object, its page and its socket.
Xs == [r : RfbObjects, p : Pages, ws : WsStates]

\* The end of a session leaves alone where the handshake is.
SameHandshake(a, b) ==
  /\ b.init = a.init /\ b.scheme = a.scheme /\ b.creds = a.creds /\ b.resumes = a.resumes
  /\ b.ard = a.ard /\ b.ra2 = a.ra2 /\ b.loop = a.loop /\ b.once = a.once
\* An event that asks for nothing opens no dialog.
SamePage(q, s) == s.asked = q.asked /\ (q.dialog = "hidden" => s.dialog = "hidden")

\* What an event changes of the page, ui.js.
LEMMA DispatchFacts ==
  ASSUME NEW q \in Pages, NEW e \in {"connect", "securityfailure", "disconnect", "password", "full"}
  PROVE  LET s == Dispatch(q, e)
         IN  /\ s \in Pages
             /\ s.closed = (q.closed \/ e = "disconnect")
             /\ s.late = (q.late \/ q.closed)
             /\ e \in {"connect", "securityfailure", "disconnect"} => SamePage(q, s)
             /\ e \in {"password", "full"} => s.asked = e
  <1>1. CASE e = "connect"
    BY <1>1 DEF Dispatch, Pages, SamePage
  <1>2. CASE e = "securityfailure"
    BY <1>2 DEF Dispatch, Pages, SamePage
  <1>3. CASE e = "disconnect"
    BY <1>3 DEF Dispatch, Pages, SamePage, Hide
  <1>4. CASE e \in {"password", "full"}
    BY <1>4 DEF Dispatch, Pages, SamePage, Show
  <1> QED
    BY <1>1, <1>2, <1>3, <1>4

\* _disconnect: listeners, keyboard and messages are off and the socket is closing.
LEMMA TeardownFacts ==
  ASSUME NEW x \in Xs
  PROVE  LET y == Teardown(x)
         IN  /\ y \in Xs /\ y.p = x.p
             /\ y.ws = IF x.ws \in {"connecting", "open"} THEN "closing" ELSE x.ws
             /\ SameHandshake(x.r, y.r) /\ ~y.r.listening /\ ~y.r.grabbed /\ ~y.r.messages
             /\ y.r.conn = x.r.conn /\ y.r.onopen = x.r.onopen /\ y.r.onclose = x.r.onclose
             /\ y.r.timer = x.r.timer
  BY DEF Teardown, Xs, RfbObjects, Pages, WsStates, SameHandshake

\* A step of the connection's state that is not allowed changes nothing.
LEMMA UpdateFacts ==
  ASSUME NEW x \in Xs, NEW s \in Conns
  PROVE  LET y == UpdateConnectionState(x, s)
         IN  /\ y \in Xs /\ SameHandshake(x.r, y.r) /\ SamePage(x.p, y.p) /\ y.r.onopen = x.r.onopen
             /\ <<x.r.conn, s>> \notin Legal => y = x
             /\ <<x.r.conn, s>> \in Legal =>
                  /\ y.r.conn = s
                  /\ s = "connected" => /\ y.ws = x.ws /\ y.r.listening = x.r.listening /\ y.r.grabbed = x.r.grabbed
                                        /\ y.r.messages = x.r.messages
                                        /\ ~y.r.timer /\ y.r.onclose = (x.r.onclose /\ ~x.r.timer)
                                        /\ y.p.closed = x.p.closed /\ y.p.late = (x.p.late \/ x.p.closed)
                  /\ s = "disconnecting" => /\ y.ws = IF x.ws \in {"connecting", "open"} THEN "closing" ELSE x.ws
                                            /\ ~y.r.listening /\ ~y.r.grabbed /\ ~y.r.messages
                                            /\ y.r.timer /\ y.r.onclose = x.r.onclose /\ y.p = x.p
                  /\ s = "disconnected" => /\ y.ws = x.ws /\ y.r.listening = x.r.listening
                                           /\ y.r.grabbed = x.r.grabbed /\ y.r.messages = x.r.messages
                                           /\ ~y.r.timer /\ y.r.onclose = (x.r.onclose /\ ~x.r.timer)
                                           /\ y.p.closed /\ y.p.late = (x.p.late \/ x.p.closed)
  <1> DEFINE clear == x.r.timer /\ s # "disconnecting"
             z == [x EXCEPT !.r.conn = s, !.r.timer = @ /\ ~clear, !.r.onclose = @ /\ ~clear]
             y == UpdateConnectionState(x, s)
  <1>1. CASE <<x.r.conn, s>> \notin Legal
    BY <1>1 DEF UpdateConnectionState, SameHandshake, SamePage
  <1>2. CASE <<x.r.conn, s>> \in Legal
    <2>1. /\ z \in Xs /\ z.p = x.p /\ z.ws = x.ws /\ SameHandshake(x.r, z.r) /\ z.r.conn = s
          /\ z.r.timer = (x.r.timer /\ ~clear) /\ z.r.onclose = (x.r.onclose /\ ~clear)
          /\ z.r.listening = x.r.listening /\ z.r.grabbed = x.r.grabbed /\ z.r.messages = x.r.messages
          /\ z.r.onopen = x.r.onopen
      BY ZenonT(60) DEF Xs, RfbObjects, Pages, WsStates, SameHandshake
    <2>2. s \in {"connected", "disconnecting", "disconnected"}
      BY <1>2 DEF Legal
    <2>3. y = CASE s = "connected" -> [z EXCEPT !.p = Dispatch(@, "connect")]
                [] s = "disconnecting" -> [Teardown(z) EXCEPT !.r.timer = TRUE]
                [] s = "disconnected" -> [z EXCEPT !.p = Dispatch(@, "disconnect")]
      BY <1>2, Zenon DEF UpdateConnectionState
    <2> HIDE DEF z, y
    <2>4. CASE s = "connected"
      <3>1. y = [z EXCEPT !.p = Dispatch(z.p, "connect")]
        BY <2>3, <2>4
      <3>2. y \in Xs /\ y.r = z.r /\ y.ws = z.ws /\ y.p = Dispatch(z.p, "connect")
        <4>1. z.p \in Pages /\ Dispatch(z.p, "connect") \in Pages
          BY <2>1, DispatchFacts DEF Xs
        <4> QED
          BY <2>1, <3>1, <4>1 DEF Xs
      <3>3. z.p \in Pages /\ z.r \in RfbObjects
        BY <2>1 DEF Xs
      <3>4. SamePage(x.p, y.p) /\ y.p.closed = x.p.closed /\ y.p.late = (x.p.late \/ x.p.closed)
        <4>1. x.p.closed \in BOOLEAN /\ x.p = z.p
          BY <2>1, <3>3 DEF Pages
        <4>2. /\ SamePage(z.p, y.p) /\ y.p.closed = (z.p.closed \/ "connect" = "disconnect")
              /\ y.p.late = (z.p.late \/ z.p.closed)
          BY <3>2, <3>3, DispatchFacts
        <4> QED
          BY <4>1, <4>2
      <3> QED
        BY <1>2, <2>1, <2>4, <3>2, <3>4 DEF y
    <2>5. CASE s = "disconnecting"
      <3> DEFINE w == Teardown(z)
      <3>1. y = [w EXCEPT !.r.timer = TRUE]
        BY <2>3, <2>5
      <3>2. /\ w \in Xs /\ w.p = z.p
            /\ w.ws = IF z.ws \in {"connecting", "open"} THEN "closing" ELSE z.ws
            /\ SameHandshake(z.r, w.r) /\ ~w.r.listening /\ ~w.r.grabbed /\ ~w.r.messages
            /\ w.r.conn = z.r.conn /\ w.r.onopen = z.r.onopen /\ w.r.onclose = z.r.onclose
        BY <2>1, TeardownFacts
      <3> HIDE DEF w
      <3>3. /\ y \in Xs /\ y.p = w.p /\ y.ws = w.ws /\ SameHandshake(w.r, y.r) /\ ~y.r.listening /\ ~y.r.grabbed
            /\ ~y.r.messages /\ y.r.timer /\ y.r.onopen = w.r.onopen /\ y.r.onclose = w.r.onclose
            /\ y.r.conn = w.r.conn
        BY <3>1, <3>2 DEF Xs, RfbObjects, Pages, WsStates, SameHandshake
      <3>4. SameHandshake(x.r, y.r) /\ SamePage(x.p, y.p)
        BY <2>1, <3>2, <3>3 DEF SameHandshake, SamePage
      <3>5. x.r.onclose \in BOOLEAN /\ z.r.onclose = x.r.onclose
        BY <2>1, <2>5 DEF Xs, RfbObjects
      <3> QED
        BY <1>2, <2>1, <2>5, <3>2, <3>3, <3>4, <3>5 DEF y
    <2>6. CASE s = "disconnected"
      <3>1. y = [z EXCEPT !.p = Dispatch(z.p, "disconnect")]
        BY <2>3, <2>6
      <3>2. y \in Xs /\ y.r = z.r /\ y.ws = z.ws /\ y.p = Dispatch(z.p, "disconnect")
        <4>1. z.p \in Pages /\ Dispatch(z.p, "disconnect") \in Pages
          BY <2>1, DispatchFacts DEF Xs
        <4> QED
          BY <2>1, <3>1, <4>1 DEF Xs
      <3>3. z.p \in Pages /\ z.r \in RfbObjects
        BY <2>1 DEF Xs
      <3>4. SamePage(x.p, y.p) /\ y.p.closed /\ y.p.late = (x.p.late \/ x.p.closed)
        <4>1. x.p.closed \in BOOLEAN /\ x.p = z.p
          BY <2>1, <3>3 DEF Pages
        <4>2. /\ SamePage(z.p, y.p) /\ y.p.closed = (z.p.closed \/ "disconnect" = "disconnect")
              /\ y.p.late = (z.p.late \/ z.p.closed)
          BY <3>2, <3>3, DispatchFacts
        <4> QED
          BY <4>1, <4>2
      <3> QED
        BY <1>2, <2>1, <2>6, <3>2, <3>4 DEF y
    <2> QED
      BY <2>2, <2>4, <2>5, <2>6
  <1> QED
    BY <1>1, <1>2

\* From any state two steps end the session; the page hears of it if it had not.
LEMMA EndFacts ==
  ASSUME NEW x \in Xs, x.p.late => server.scheme = "xvp", x.p.closed <=> x.r.conn = "disconnected",
         x.r.conn \in {"disconnecting", "disconnected"} =>
            ~x.r.listening /\ ~x.r.grabbed /\ x.ws \in {"closing", "closed"},
         ~x.r.onclose => x.r.conn = "disconnected", x.r.timer => x.r.conn = "disconnecting"
  PROVE  LET y == UpdateConnectionState(UpdateConnectionState(x, "disconnecting"), "disconnected")
         IN  /\ y \in Xs /\ SameHandshake(x.r, y.r) /\ SamePage(x.p, y.p) /\ EndsWell(y.r, y.p, y.ws)
             /\ y.r.conn = "disconnected" /\ (x.ws = "closed" => y.ws = "closed")
  <1> DEFINE z == UpdateConnectionState(x, "disconnecting")
             y == UpdateConnectionState(z, "disconnected")
  <1>0. "disconnecting" \in Conns /\ "disconnected" \in Conns
    BY DEF Conns
  <1>t. x.r.conn \in Conns /\ x.r.timer \in BOOLEAN /\ x.r.onclose \in BOOLEAN /\ x.ws \in WsStates
        /\ x.p.late \in BOOLEAN /\ x.p.closed \in BOOLEAN
    BY DEF Xs, RfbObjects, Pages
  <1>1. CASE x.r.conn = "disconnected"
    <2>1. z = x
      BY <1>0, <1>1, UpdateFacts DEF Legal
    <2>2. y = x
      BY <1>0, <1>1, <2>1, UpdateFacts DEF Legal
    <2> QED
      BY <1>1, <1>t, <2>2 DEF SameHandshake, SamePage, EndsWell
  <1>2. CASE x.r.conn = "disconnecting"
    <2>1. z = x
      BY <1>0, <1>2, UpdateFacts DEF Legal
    <2>2. <<x.r.conn, "disconnected">> \in Legal
      BY <1>2 DEF Legal
    <2>3. /\ y \in Xs /\ SameHandshake(x.r, y.r) /\ SamePage(x.p, y.p) /\ y.r.conn = "disconnected"
          /\ y.ws = x.ws /\ y.r.listening = x.r.listening /\ y.r.grabbed = x.r.grabbed
          /\ ~y.r.timer /\ y.p.closed /\ y.p.late = (x.p.late \/ x.p.closed)
      BY <1>0, <2>1, <2>2, UpdateFacts
    <2> QED
      BY <1>2, <1>t, <2>3 DEF EndsWell
  <1>3. CASE x.r.conn \in {"connecting", "connected"}
    <2>1. <<x.r.conn, "disconnecting">> \in Legal /\ <<"disconnecting", "disconnected">> \in Legal
      BY <1>3 DEF Legal
    <2>2. /\ z \in Xs /\ SameHandshake(x.r, z.r) /\ SamePage(x.p, z.p) /\ z.r.conn = "disconnecting"
          /\ z.ws = IF x.ws \in {"connecting", "open"} THEN "closing" ELSE x.ws
          /\ ~z.r.listening /\ ~z.r.grabbed /\ z.r.timer /\ z.p = x.p
      BY <1>0, <2>1, UpdateFacts
    <2> HIDE DEF z
    <2>3. /\ y \in Xs /\ SameHandshake(z.r, y.r) /\ SamePage(z.p, y.p) /\ y.r.conn = "disconnected"
          /\ y.ws = z.ws /\ y.r.listening = z.r.listening /\ y.r.grabbed = z.r.grabbed
          /\ ~y.r.timer /\ y.p.closed /\ y.p.late = (z.p.late \/ z.p.closed)
      BY <1>0, <2>1, <2>2, UpdateFacts
    <2>4. SameHandshake(x.r, y.r) /\ SamePage(x.p, y.p)
      BY <2>2, <2>3 DEF SameHandshake, SamePage
    <2>5. y.ws \in {"closing", "closed"} /\ (x.ws = "closed" => y.ws = "closed")
      BY <1>t, <2>2, <2>3 DEF WsStates
    <2> QED
      BY <1>3, <1>t, <2>2, <2>3, <2>4, <2>5 DEF EndsWell, z
  <1> QED
    BY <1>1, <1>2, <1>3, <1>t DEF Conns

\* _fail ends the session from any state.
LEMMA FailFacts ==
  ASSUME NEW x \in Xs, EndsWell(x.r, x.p, x.ws)
  PROVE  LET y == Fail(x)
         IN  /\ y \in Xs /\ SameHandshake(x.r, y.r) /\ SamePage(x.p, y.p) /\ EndsWell(y.r, y.p, y.ws)
             /\ y.r.conn = "disconnected" /\ y.ws \in {"closing", "closed"}
  <1> DEFINE w == [x EXCEPT !.r.clean = FALSE]
  <1>1. /\ w \in Xs /\ w.p = x.p /\ w.ws = x.ws /\ SameHandshake(x.r, w.r)
        /\ w.r.conn = x.r.conn /\ w.r.listening = x.r.listening /\ w.r.grabbed = x.r.grabbed
        /\ w.r.onclose = x.r.onclose /\ w.r.timer = x.r.timer
    BY DEF Xs, RfbObjects, Pages, WsStates, SameHandshake
  <1> HIDE DEF w
  <1>2. Fail(x) = UpdateConnectionState(UpdateConnectionState(w, "disconnecting"), "disconnected")
    BY DEF Fail, w
  <1>3. /\ Fail(x) \in Xs /\ SameHandshake(w.r, Fail(x).r) /\ SamePage(w.p, Fail(x).p)
        /\ EndsWell(Fail(x).r, Fail(x).p, Fail(x).ws) /\ Fail(x).r.conn = "disconnected"
    <2>1. /\ (w.p.late => server.scheme = "xvp") /\ (w.p.closed <=> w.r.conn = "disconnected")
          /\ w.r.conn \in {"disconnecting", "disconnected"} =>
               ~w.r.listening /\ ~w.r.grabbed /\ w.ws \in {"closing", "closed"}
      BY <1>1 DEF EndsWell
    <2>2. (~w.r.onclose => w.r.conn = "disconnected") /\ (w.r.timer => w.r.conn = "disconnecting")
      BY <1>1 DEF EndsWell
    <2> QED
      BY <1>1, <1>2, <2>1, <2>2, EndFacts
  <1>4. SameHandshake(x.r, Fail(x).r) /\ SamePage(x.p, Fail(x).p)
    BY <1>1, <1>3 DEF SameHandshake, SamePage
  <1> QED
    BY <1>3, <1>4 DEF EndsWell

\* _socketClose, run when the browser has closed the socket.
LEMMA SocketCloseFacts ==
  ASSUME NEW x \in Xs, NEW w \in WsStates, EndsWell(x.r, x.p, w), x.ws = "closed"
  PROVE  LET y == SocketClose(x)
         IN  /\ y \in Xs /\ SameHandshake(x.r, y.r) /\ SamePage(x.p, y.p) /\ EndsWell(y.r, y.p, y.ws)
             /\ y.ws = "closed"
  <1> DEFINE v == [x EXCEPT !.r.clean = FALSE]
             z == CASE x.r.conn \in {"connecting", "disconnected"} -> Fail(x)
                    [] x.r.conn = "connected" ->
                         UpdateConnectionState(UpdateConnectionState(x, "disconnecting"), "disconnected")
                    [] x.r.conn = "disconnecting" -> UpdateConnectionState(x, "disconnected")
             y == SocketClose(x)
  <1>0. /\ (x.p.late => server.scheme = "xvp") /\ (x.p.closed <=> x.r.conn = "disconnected")
        /\ x.r.conn \in {"disconnecting", "disconnected"} =>
             ~x.r.listening /\ ~x.r.grabbed /\ x.ws \in {"closing", "closed"}
        /\ (~x.r.onclose => x.r.conn = "disconnected") /\ (x.r.timer => x.r.conn = "disconnecting")
        /\ x.r.conn \in Conns
    <2>1. x.r.conn \in Conns
      BY DEF Xs, RfbObjects
    <2> QED
      BY <2>1 DEF EndsWell
  <1>1. /\ z \in Xs /\ SameHandshake(x.r, z.r) /\ SamePage(x.p, z.p) /\ EndsWell(z.r, z.p, z.ws)
        /\ z.ws = "closed" /\ z.r.conn = "disconnected"
    <2>1. CASE x.r.conn \in {"connecting", "disconnected"}
      <3>1. /\ v \in Xs /\ v.p = x.p /\ v.ws = x.ws /\ SameHandshake(x.r, v.r)
            /\ v.r.conn = x.r.conn /\ v.r.listening = x.r.listening /\ v.r.grabbed = x.r.grabbed
            /\ v.r.onclose = x.r.onclose /\ v.r.timer = x.r.timer
        BY DEF Xs, RfbObjects, Pages, WsStates, SameHandshake
      <3>2. Fail(x) = UpdateConnectionState(UpdateConnectionState(v, "disconnecting"), "disconnected")
        BY DEF Fail
      <3>3. z = Fail(x)
        BY <2>1
      <3> HIDE DEF v, z
      <3>4. /\ z \in Xs /\ SameHandshake(v.r, z.r) /\ SamePage(v.p, z.p) /\ EndsWell(z.r, z.p, z.ws)
            /\ z.r.conn = "disconnected" /\ z.ws = "closed"
        BY <1>0, <3>1, <3>2, <3>3, EndFacts
      <3> QED
        BY <3>1, <3>4 DEF SameHandshake, SamePage
    <2>2. CASE x.r.conn = "connected"
      <3>1. z = UpdateConnectionState(UpdateConnectionState(x, "disconnecting"), "disconnected")
        BY <2>2
      <3> HIDE DEF z
      <3> QED
        BY <1>0, <3>1, EndFacts
    <2>3. CASE x.r.conn = "disconnecting"
      <3>1. z = UpdateConnectionState(x, "disconnected")
        BY <2>3
      <3>2. UpdateConnectionState(x, "disconnecting") = x
        BY <2>3, UpdateFacts DEF Legal, Conns
      <3> HIDE DEF z
      <3>3. z = UpdateConnectionState(UpdateConnectionState(x, "disconnecting"), "disconnected")
        BY <3>1, <3>2
      <3> QED
        BY <1>0, <3>3, EndFacts
    <2> QED
      BY <1>0, <2>1, <2>2, <2>3 DEF Conns
  <1>2. y = [z EXCEPT !.r.onclose = FALSE]
    BY DEF SocketClose
  <1> HIDE DEF z, y
  <1>3. /\ y \in Xs /\ y.p = z.p /\ y.ws = z.ws /\ SameHandshake(z.r, y.r) /\ y.r.conn = z.r.conn
        /\ y.r.listening = z.r.listening /\ y.r.grabbed = z.r.grabbed /\ y.r.timer = z.r.timer
    BY ZenonT(60), <1>1, <1>2 DEF Xs, RfbObjects, Pages, WsStates, SameHandshake
  <1>4. SameHandshake(x.r, y.r) /\ SamePage(x.p, y.p)
    BY <1>1, <1>3 DEF SameHandshake, SamePage
  <1>5. EndsWell(y.r, y.p, y.ws)
    BY <1>1, <1>3 DEF EndsWell
  <1> QED
    BY <1>1, <1>3, <1>4, <1>5 DEF y

\* disconnect(): a pending RA2 exchange goes on to the security result.
LEMMA DisconnectFacts ==
  ASSUME NEW x \in Xs, EndsWell(x.r, x.p, x.ws)
  PROVE  LET y == Disconnect(x)
         IN  /\ y \in Xs /\ SamePage(x.p, y.p) /\ EndsWell(y.r, y.p, y.ws)
             /\ y.ws \in {"closing", "closed"}
             /\ y.r.scheme = x.r.scheme /\ y.r.creds = x.r.creds /\ y.r.resumes = x.r.resumes
             /\ y.r.ard = x.r.ard /\ y.r.loop = x.r.loop /\ y.r.once = x.r.once /\ ~y.r.ra2
             /\ y.r.init = IF x.r.ra2 THEN "SecurityResult" ELSE x.r.init
             /\ y.r.conn \in {"disconnecting", "disconnected"}
  <1> DEFINE u == UpdateConnectionState(x, "disconnecting")
             v == [u EXCEPT !.r.messages = FALSE, !.r.onopen = FALSE]
             y == Disconnect(x)
  <1>0. "disconnecting" \in Conns /\ x.r.conn \in Conns /\ x.r.onclose \in BOOLEAN /\ x.ws \in WsStates
        /\ x.p.late \in BOOLEAN /\ x.p.closed \in BOOLEAN /\ x.r.timer \in BOOLEAN /\ x.r.ra2 \in BOOLEAN
    <2>1. "disconnecting" \in Conns
      BY DEF Conns
    <2> QED
      BY <2>1 DEF Xs, RfbObjects, Pages
  <1>1. /\ u \in Xs /\ SameHandshake(x.r, u.r) /\ SamePage(x.p, u.p) /\ EndsWell(u.r, u.p, u.ws)
        /\ u.r.conn \in {"disconnecting", "disconnected"}
    <2>1. CASE x.r.conn \in {"connecting", "connected"}
      <3>1. <<x.r.conn, "disconnecting">> \in Legal
        BY <2>1 DEF Legal
      <3>2. /\ u \in Xs /\ SameHandshake(x.r, u.r) /\ SamePage(x.p, u.p) /\ u.r.conn = "disconnecting"
            /\ u.ws = IF x.ws \in {"connecting", "open"} THEN "closing" ELSE x.ws
            /\ ~u.r.listening /\ ~u.r.grabbed /\ u.r.onclose = x.r.onclose /\ u.p = x.p
        BY <1>0, <3>1, UpdateFacts
      <3> QED
        BY <1>0, <2>1, <3>2 DEF EndsWell, WsStates
    <2>2. CASE x.r.conn \in {"disconnecting", "disconnected"}
      <3>1. u = x
        BY <1>0, <2>2, UpdateFacts DEF Legal
      <3> QED
        BY <2>2, <3>1 DEF SameHandshake, SamePage
    <2> QED
      BY <1>0, <2>1, <2>2 DEF Conns
  <1> HIDE DEF u
  <1>2. /\ v \in Xs /\ v.p = u.p /\ v.ws = u.ws /\ SameHandshake(u.r, v.r) /\ v.r.conn = u.r.conn
        /\ v.r.listening = u.r.listening /\ v.r.grabbed = u.r.grabbed /\ v.r.timer = u.r.timer
        /\ v.r.onclose = u.r.onclose
    BY ZenonT(60), <1>1 DEF Xs, RfbObjects, Pages, WsStates, SameHandshake
  <1>3. y = IF v.r.ra2 THEN [v EXCEPT !.r.init = "SecurityResult", !.r.ra2 = FALSE] ELSE v
    BY DEF Disconnect, EndRA2, u
  <1> HIDE DEF v, y
  <1>4. /\ y \in Xs /\ y.p = v.p /\ y.ws = v.ws /\ y.r.conn = v.r.conn
        /\ y.r.listening = v.r.listening /\ y.r.grabbed = v.r.grabbed /\ y.r.timer = v.r.timer
        /\ y.r.onclose = v.r.onclose /\ ~y.r.ra2
        /\ y.r.scheme = v.r.scheme /\ y.r.creds = v.r.creds /\ y.r.resumes = v.r.resumes
        /\ y.r.ard = v.r.ard /\ y.r.loop = v.r.loop /\ y.r.once = v.r.once
        /\ y.r.init = IF v.r.ra2 THEN "SecurityResult" ELSE v.r.init
    <2>1. CASE v.r.ra2
      <3>1. y = [v EXCEPT !.r.init = "SecurityResult", !.r.ra2 = FALSE]
        BY <1>3, <2>1
      <3>2. "SecurityResult" \in Inits /\ v \in Xs
        BY <1>2 DEF Inits
      <3>3. y \in Xs
        <4> DEFINE w == [v.r EXCEPT !.init = "SecurityResult", !.ra2 = FALSE]
        <4>1. v.r \in RfbObjects
          BY <3>2 DEF Xs
        <4>2. w \in RfbObjects
          BY <3>2, <4>1 DEF RfbObjects
        <4>3. y = [v EXCEPT !.r = w]
          BY <3>1, <3>2 DEF Xs, RfbObjects
        <4> HIDE DEF w
        <4> QED
          BY <3>2, <4>2, <4>3 DEF Xs
      <3>4. /\ y.p = v.p /\ y.ws = v.ws /\ y.r.conn = v.r.conn
            /\ y.r.listening = v.r.listening /\ y.r.grabbed = v.r.grabbed /\ y.r.timer = v.r.timer
            /\ y.r.onclose = v.r.onclose /\ y.r.ra2 = FALSE
            /\ y.r.scheme = v.r.scheme /\ y.r.creds = v.r.creds /\ y.r.resumes = v.r.resumes
            /\ y.r.ard = v.r.ard /\ y.r.loop = v.r.loop /\ y.r.once = v.r.once
            /\ y.r.init = "SecurityResult"
        BY <3>1, <3>2 DEF Xs, RfbObjects
      <3> QED
        BY <2>1, <3>3, <3>4
    <2>2. CASE ~v.r.ra2
      <3>1. y = v
        BY <1>3, <2>2
      <3> QED
        BY <1>2, <2>2, <3>1
    <2> QED
      BY <2>1, <2>2
  <1>5. SamePage(x.p, y.p) /\ EndsWell(y.r, y.p, y.ws) /\ y.ws \in {"closing", "closed"}
    BY <1>1, <1>2, <1>4 DEF SamePage, EndsWell
  <1>6. /\ y.r.scheme = x.r.scheme /\ y.r.creds = x.r.creds /\ y.r.resumes = x.r.resumes
        /\ y.r.ard = x.r.ard /\ y.r.loop = x.r.loop /\ y.r.once = x.r.once
        /\ y.r.init = IF x.r.ra2 THEN "SecurityResult" ELSE x.r.init
    BY <1>1, <1>2, <1>4 DEF SameHandshake
  <1> QED
    BY <1>1, <1>2, <1>4, <1>5, <1>6 DEF y

-----------------------------------------------------------------------------
(***************************************************************************)
(* What the two sides owe each other.                                      *)
(***************************************************************************)

\* Reading a message leaves the rest of the answer to read.
LEMMA Taken ==
  ASSUME NEW talk \in Seq(TurnSet), NEW left \in Seq(Words), NEW k \in Nat, NEW sv \in Nat,
         NEW queue \in Seq(Words), NEW coming \in Seq(Words), Owed(left, talk, k, sv, queue, coming),
         queue # <<>>
  PROVE  /\ left # <<>> /\ sv = k /\ Head(queue) = Head(left) /\ Tail(queue) = <<>>
         /\ queue = <<Head(left)>>
         /\ Owed(Tail(left), talk, k, sv, Tail(queue), coming)
  <1>1. sv = k /\ left # <<>> /\ queue = <<Head(left)>> /\ coming = Tail(left)
    BY DEF Owed, Line
  <1>2. Head(left) \in Words
    BY <1>1
  <1>3. Head(queue) = Head(left) /\ Tail(queue) = <<>>
    BY <1>1, <1>2
  <1> QED
    BY <1>1, <1>3 DEF Owed, Line

\* Once all is read, the next message owes its own answer.
LEMMA Sent ==
  ASSUME NEW talk \in Seq(TurnSet), NEW k \in Nat, NEW sv \in Nat,
         NEW queue \in Seq(Words), NEW coming \in Seq(Words), Owed(<<>>, talk, k, sv, queue, coming),
         k + 1 <= Len(talk)
  PROVE  Owed(talk[k + 1].send, talk, k + 1, sv, queue, coming)
  <1>1. queue = <<>> /\ coming = <<>>
    BY DEF Owed, Line
  <1>2. \A j \in (sv + 1)..((k + 1) - 1) : talk[j].send = <<>>
    BY DEF Owed
  <1>3. sv <= k
    BY DEF Owed
  <1> QED
    BY <1>1, <1>2, <1>3 DEF Owed, Line

\* The server answers the next message; only the last one is answered by words.
LEMMA Answered ==
  ASSUME NEW talk \in Seq(TurnSet), NEW left \in Seq(Words), NEW k \in Nat, NEW sv \in Nat,
         NEW queue \in Seq(Words), NEW coming \in Seq(Words), Owed(left, talk, k, sv, queue, coming),
         sv < k
  PROVE  /\ queue = <<>> /\ coming = <<>>
         /\ Owed(left, talk, k, sv + 1, queue, coming \o talk[sv + 1].send)
  <1>1. queue = <<>> /\ coming = <<>>
    BY DEF Owed, Line
  <1>2. talk[sv + 1].send \in Seq(Words)
    <2>1. sv + 1 \in 1..Len(talk)
      BY DEF Owed
    <2>2. talk[sv + 1] \in TurnSet
      BY <2>1
    <2> QED
      BY <2>2 DEF TurnSet
  <1>3. coming \o talk[sv + 1].send = talk[sv + 1].send
    BY <1>1, <1>2
  <1>4. CASE sv + 1 = k
    BY <1>1, <1>3, <1>4 DEF Owed, Line
  <1>5. CASE sv + 1 < k
    <2>1. talk[sv + 1].send = <<>>
      BY <1>5 DEF Owed
    <2> QED
      BY <1>1, <1>3, <1>5, <2>1 DEF Owed, Line
  <1> QED
    BY <1>1, <1>4, <1>5

\* A message that arrives is the first of the answer.
LEMMA Arrived ==
  ASSUME NEW talk \in Seq(TurnSet), NEW left \in Seq(Words), NEW k \in Nat, NEW sv \in Nat,
         NEW coming \in Seq(Words), Owed(left, talk, k, sv, <<>>, coming), coming # <<>>
  PROVE  /\ left = coming /\ sv = k
         /\ Owed(left, talk, k, sv, Append(<<>>, Head(coming)), Tail(coming))
  <1>1. sv = k /\ coming = left
    BY DEF Owed, Line
  <1>2. Head(coming) \in Words
    OBVIOUS
  <1>3. Append(<<>>, Head(coming)) = <<Head(left)>>
    BY <1>1, <1>2
  <1> QED
    BY <1>1, <1>3 DEF Owed, Line

-----------------------------------------------------------------------------
(***************************************************************************)
(* A turn of the handshake.                                                *)
(***************************************************************************)

\* The object, the page and the socket at the start of a step.
LEMMA XFacts ==
  ASSUME SesTypes, Ending
  PROVE  X \in Xs /\ X.r = r /\ X.p = p /\ X.ws = ws /\ EndsWell(X.r, X.p, X.ws)
  BY DEF X, Xs, SesTypes, Ending

\* The talk depends on the server alone.
LEMMA SameTalk ==
  ASSUME UNCHANGED server
  PROVE  /\ Talk' = Talk /\ Parts' = Parts /\ Base' = Base
         /\ Authentication(server)' = Authentication(server)
  BY DEF Talk, Parts, Base

\* What was not touched by a handler is as before.
SameRfb(a, b) ==
  /\ b.conn = a.conn /\ b.init = a.init /\ b.scheme = a.scheme /\ b.creds = a.creds
  /\ b.listening = a.listening /\ b.grabbed = a.grabbed /\ b.messages = a.messages
  /\ b.onopen = a.onopen /\ b.onclose = a.onclose /\ b.timer = a.timer /\ b.resumes = a.resumes
  /\ b.ard = a.ard /\ b.ra2 = a.ra2 /\ b.once = a.once

\* A turn of the handshake, whatever object it leaves.
LEMMA TurnsFacts ==
  ASSUME SesTypes, NEW x \in Xs, NEW take \in BOOLEAN, NEW on \in BOOLEAN, NEW out \in Seq(Words),
         EndsWell(x.r, x.p, x.ws), take => rq # <<>>, Turns(x, take, out, on)
  PROVE  /\ SesTypes' /\ Ending'
         /\ p' = x.p /\ ws' = x.ws /\ SameRfb(x.r, r')
         /\ r'.loop = (on /\ ~r.once /\ x.r.conn = "connecting")
         /\ rq' = (IF take THEN Tail(rq) ELSE rq)
         /\ sent' = (IF x.ws = "open" THEN sent \o out ELSE sent)
         /\ UNCHANGED <<server, inbox, served, viewOnly>>
  <1> DEFINE y == [x EXCEPT !.r.loop = on /\ ~r.once /\ x.r.conn = "connecting"]
  <1>1. (on /\ ~r.once /\ x.r.conn = "connecting") \in BOOLEAN
    OBVIOUS
  <1>2. /\ y \in Xs /\ y.p = x.p /\ y.ws = x.ws /\ SameRfb(x.r, y.r)
        /\ y.r.loop = (on /\ ~r.once /\ x.r.conn = "connecting")
    BY <1>1 DEF Xs, RfbObjects, Pages, WsStates, SameRfb
  <1>3. /\ r' = y.r /\ p' = y.p /\ ws' = y.ws /\ rq' = (IF take THEN Tail(rq) ELSE rq)
        /\ sent' = (IF x.ws = "open" THEN sent \o out ELSE sent)
        /\ UNCHANGED <<server, inbox, served, viewOnly>>
    BY DEF Turns, Becomes
  <1> HIDE DEF y
  <1>4. SesTypes'
    <2>1. r' \in RfbObjects /\ p' \in Pages /\ ws' \in WsStates
      BY <1>2, <1>3 DEF Xs
    <2>2. rq' \in Seq(Words) /\ sent' \in Seq(Words)
      BY <1>3 DEF SesTypes
    <2> QED
      BY <1>3, <2>1, <2>2 DEF SesTypes
  <1>5. Ending'
    BY <1>2, <1>3 DEF Ending, EndsWell, SameRfb
  <1> QED
    BY <1>2, <1>3, <1>4, <1>5 DEF SameRfb

\* What is left to read is a sequence of messages.
LEMMA LeftType ==
  ASSUME SesTypes, Placed
  PROVE  Left(Len(sent)) \in Seq(Words)
  <1> DEFINE k == Len(sent)
             a == Authentication(server)
  <1>1. k \in Nat /\ k <= Len(Talk)
    BY DEF SesTypes, Placed, Owed
  <1>2. <<"version">> \in Seq(Words) /\ <<"reason">> \in Seq(Words) /\ <<>> \in Seq(Words)
    BY Sends DEF Words
  <1>3. a \in Seq(TurnSet) /\ Talk \in Seq(TurnSet)
    BY AuthType, TalkShape DEF SesTypes
  <1>4. a # <<>> => a[1].send \in Seq(Words)
    <2>1. a # <<>> => a[1] \in TurnSet
      BY <1>3
    <2> QED
      BY <2>1 DEF TurnSet
  <1>5. k # 0 => Talk[k].send \in Seq(Words)
    <2>1. k # 0 => Talk[k] \in TurnSet
      BY <1>1, <1>3
    <2> QED
      BY <2>1 DEF TurnSet
  <1>6. k = 0 => r.init = "ProtocolVersion"
    <2>1. Parts \in Nat \ {0} /\ Base \in {1, 2}
      BY TalkShape DEF SesTypes, Base
    <2>2. Place(k) /\ r.init \in Inits /\ k \in Nat
      BY <1>1 DEF Placed, SesTypes, RfbObjects
    <2>3. SUFFICES ASSUME k = 0, r.init # "ProtocolVersion" PROVE FALSE
      OBVIOUS
    <2>4. CASE r.init = "Authentication"
      BY <2>1, <2>2, <2>3, <2>4 DEF Place
    <2>5. CASE r.init # "Authentication"
      BY <2>1, <2>2, <2>3, <2>5 DEF Place
    <2> QED
      BY <2>4, <2>5
  <1> HIDE DEF k
  <1>7. Left(k) \in Seq(Words)
    <2>1. CASE r.init = "ProtocolVersion"
      BY <1>2, <2>1 DEF Left
    <2>2. CASE r.init # "ProtocolVersion"
      <3>1. Talk[k].send \in Seq(Words)
        BY <1>5, <1>6, <2>2
      <3> QED
        BY <1>2, <1>4, <2>2, <3>1, Zenon DEF Left
    <2> QED
      BY <2>1, <2>2
  <1> QED
    BY <1>7 DEF k

\* A handler that reads or does not read, and sends nothing.
LEMMA Reads ==
  ASSUME SesTypes, Spoken, NEW k \in {Len(sent)}, ws = "open" => Placed, UNCHANGED <<server, inbox, served>>,
         sent' = sent, NEW take \in BOOLEAN, take => rq # <<>>, rq' = (IF take THEN Tail(rq) ELSE rq),
         ws = "open" => Place(k)' /\ Left(k)' = IF take THEN Tail(Left(k)) ELSE Left(k),
         ws' = "open" => ws = "open"
  PROVE  Spoken' /\ (ws' = "open" => Placed')
  <1>1. Talk' = Talk /\ Len(sent') = k
    BY SameTalk
  <1>2. Spoken'
    BY <1>1 DEF Spoken
  <1>3. ASSUME ws' = "open" PROVE Placed'
    <2>1. ws = "open" /\ Placed
      BY <1>3
    <2>2. Owed(Left(k), Talk, k, served, rq, inbox) /\ Left(k) \in Seq(Words) /\ Talk \in Seq(TurnSet)
      <3>1. Left(Len(sent)) \in Seq(Words) /\ Talk \in Seq(TurnSet)
        BY <2>1, LeftType, TalkShape DEF SesTypes
      <3> QED
        BY <2>1, <3>1 DEF Placed
    <2>3. k \in Nat /\ served \in Nat /\ rq \in Seq(Words) /\ inbox \in Seq(Words)
      BY DEF SesTypes
    <2>4. Owed(Left(k)', Talk, k, served, rq', inbox)
      <3>1. CASE take
        <4>1. Owed(Tail(Left(k)), Talk, k, served, Tail(rq), inbox)
          BY <2>2, <2>3, <3>1, Taken
        <4>2. Left(k)' = Tail(Left(k)) /\ rq' = Tail(rq)
          BY <2>1, <3>1
        <4> QED
          BY <4>1, <4>2
      <3>2. CASE ~take
        <4>2. Left(k)' = Left(k) /\ rq' = rq
          BY <2>1, <3>2
        <4> QED
          BY <2>2, <4>2
      <3> QED
        BY <3>1, <3>2
    <2> QED
      BY <1>1, <2>1, <2>4 DEF Placed
  <1> QED
    BY <1>2, <1>3

\* A handler that has read all there was and sends the message that is due.
LEMMA Says ==
  ASSUME SesTypes, Spoken, NEW k \in {Len(sent)}, ws = "open" => Placed, UNCHANGED <<server, inbox, served>>,
         NEW w \in Words, sent' = (IF ws = "open" THEN sent \o <<w>> ELSE sent),
         NEW take \in BOOLEAN, take => rq # <<>>, rq' = (IF take THEN Tail(rq) ELSE rq),
         NEW n \in {k + 1},
         ws = "open" =>
            /\ <<>> = IF take THEN Tail(Left(k)) ELSE Left(k)
            /\ n <= Len(Talk) /\ Talk[n].expect = w
            /\ Place(n)' /\ Left(n)' = Talk[n].send,
         ws' = "open" => ws = "open"
  PROVE  Spoken' /\ (ws' = "open" => Placed')
  <1>1. Talk' = Talk
    BY SameTalk
  <1>2. CASE ws # "open"
    BY <1>1, <1>2 DEF Spoken
  <1>3. CASE ws = "open"
    <2>1. /\ sent' \in Seq(Words) /\ Len(sent') = n /\ sent'[n] = w /\ k \in Nat /\ n \in Nat
          /\ \A i \in 1..k : sent'[i] = sent[i]
      BY <1>3 DEF SesTypes
    <2>2. Spoken'
      <3>1. Len(sent') <= Len(Talk')
        BY <1>1, <1>3, <2>1
      <3>2. ASSUME NEW i \in 1..n PROVE sent'[i] = Talk'[i].expect
        <4>1. CASE i = n
          BY <1>1, <1>3, <2>1, <4>1
        <4>2. CASE i \in 1..k
          BY <1>1, <2>1, <4>2 DEF Spoken
        <4> QED
          BY <2>1, <4>1, <4>2
      <3> QED
        BY <2>1, <3>1, <3>2 DEF Spoken
    <2>3. Placed'
      <3>1. Owed(Left(k), Talk, k, served, rq, inbox) /\ Left(k) \in Seq(Words) /\ Talk \in Seq(TurnSet)
        <4>1. Left(Len(sent)) \in Seq(Words) /\ Talk \in Seq(TurnSet)
          BY <1>3, LeftType, TalkShape DEF SesTypes
        <4> QED
          BY <1>3, <4>1 DEF Placed
      <3>2. k \in Nat /\ served \in Nat /\ rq \in Seq(Words) /\ inbox \in Seq(Words)
        BY DEF SesTypes
      <3>3. Owed(<<>>, Talk, k, served, rq', inbox) /\ rq' \in Seq(Words)
        <4>1. CASE take
          <5>1. Owed(Tail(Left(k)), Talk, k, served, Tail(rq), inbox)
            BY <3>1, <3>2, <4>1, Taken
          <5>2. <<>> = Tail(Left(k)) /\ rq' = Tail(rq)
            BY <1>3, <4>1
          <5>3. Tail(rq) \in Seq(Words)
            BY <3>2, <4>1
          <5> QED
            BY <5>1, <5>2, <5>3
        <4>2. CASE ~take
          <5>1. <<>> = Left(k) /\ rq' = rq
            BY <1>3, <4>2
          <5> QED
            BY <3>1, <3>2, <5>1
        <4> QED
          BY <4>1, <4>2
      <3>4. Owed(Talk[n].send, Talk, n, served, rq', inbox)
        BY <1>3, <3>1, <3>2, <3>3, Sent
      <3> QED
        BY <1>1, <1>3, <2>1, <3>4 DEF Placed
    <2> QED
      BY <2>2, <2>3
  <1> QED
    BY <1>2, <1>3

-----------------------------------------------------------------------------
(***************************************************************************)
(* The talk of each scheme, turn by turn.                                  *)
(***************************************************************************)

\* Where the turns of a scheme are in the whole talk, with and without the choice of 3.3.
LEMMA TalkParts ==
  ASSUME SesTypes
  PROVE  LET a == Authentication(server)
         IN  /\ a \in Seq(TurnSet) /\ Base = (IF server.old THEN 1 ELSE 2)
             /\ Talk[1].expect = "version"
             /\ server.scheme = "empty" => Talk[1].send = <<"types", "reason">>
             /\ server.scheme # "empty" /\ (~server.old \/ a = <<>>) => Talk[1].send = <<"types">>
             /\ server.scheme # "empty" /\ server.old /\ a # <<>> => Talk[1].send = <<"types">> \o a[1].send
             /\ a = <<>> => Parts = 1
             /\ a # <<>> => Parts = Base - 1 + Len(a)
             /\ \A j \in 1..Len(a) : j > 1 \/ ~server.old => Talk[Base - 1 + j] = a[j]
  <1> DEFINE a == Authentication(server)
             d == Dialogue(server)
  <1>1. server \in ServerSet /\ a \in Seq(TurnSet) /\ server.old \in BOOLEAN
    <2>1. server \in ServerSet
      BY DEF SesTypes
    <2> QED
      BY <2>1, AuthType DEF ServerSet
  <1>2. /\ d \in Seq(TurnSet) /\ Len(d) >= 1 /\ d[1].expect = "version"
        /\ server.scheme = "empty" => d[1].send = <<"types", "reason">>
        /\ server.scheme # "empty" /\ (~server.old \/ a = <<>>) => d[1].send = <<"types">>
        /\ server.scheme # "empty" /\ server.old /\ a # <<>> => d[1].send = <<"types">> \o a[1].send
        /\ Len(d) = IF a = <<>> THEN 1 ELSE Base - 1 + Len(a)
        /\ \A j \in 1..Len(a) : j > 1 \/ ~server.old => d[Base - 1 + j] = a[j]
    BY <1>1, DialogueShape DEF Base
  <1>3. Parts = Len(d) /\ Parts \in Nat \ {0} /\ \A j \in 1..Parts : Talk[j] = d[j]
    BY <1>1, TalkShape DEF Parts
  <1>4. Talk[1] = d[1]
    BY <1>3
  <1>5. Base = (IF server.old THEN 1 ELSE 2)
    BY DEF Base
  <1> HIDE DEF a, d
  <1>6. \A j \in 1..Len(a) : j > 1 \/ ~server.old => Talk[Base - 1 + j] = a[j]
    <2> SUFFICES ASSUME NEW j \in 1..Len(a), j > 1 \/ ~server.old PROVE Talk[Base - 1 + j] = a[j]
      OBVIOUS
    <2>1. a # <<>> /\ Len(a) \in Nat
      BY <1>1
    <2>2. Base - 1 + j \in 1..Parts
      BY <1>2, <1>3, <1>5, <2>1
    <2> QED
      BY <1>2, <1>3, <2>2
  <1>7. /\ a = <<>> => Parts = 1
        /\ a # <<>> => Parts = Base - 1 + Len(a)
    BY <1>2, <1>3
  <1> QED
    BY <1>1, <1>2, <1>4, <1>5, <1>6, <1>7 DEF a

\* First answers, and what follows the choice.
LEMMA SchemeTalk ==
  ASSUME SesTypes
  PROVE  LET a == Authentication(server)
             s == server.scheme
         IN  /\ s = "none" /\ ~server.old => a # <<>> /\ a[1].expect = "choice" /\ a[1].send = Verdict(server) /\ Parts = Base
             /\ (s = "none" /\ server.old) \/ s \in {"empty", "unsupported"} => a = <<>> /\ Parts = 1
             /\ s \in {"vnc", "mslogon"} =>
                  /\ a # <<>> /\ a[1].expect = "choice" /\ a[1].send = <<"challenge">> /\ Parts = Base + 1
                  /\ Talk[Base + 1].expect = "response" /\ Talk[Base + 1].send = Verdict(server)
             /\ s = "xvp" => a # <<>> /\ a[1].expect = "choice" /\ a[1].send = <<>> /\ Parts = Base
             /\ s = "vencrypt" =>
                  /\ a # <<>> /\ a[1].expect = "choice" /\ a[1].send = <<"version">> /\ Parts = Base + 3
                  /\ Talk[Base + 1].expect = "version" /\ Talk[Base + 1].send = <<"subtypes">>
                  /\ Talk[Base + 2].expect = "subtype" /\ Talk[Base + 2].send = <<>>
                  /\ Talk[Base + 3].expect = "login" /\ Talk[Base + 3].send = Verdict(server)
             /\ s = "tight" =>
                  /\ a # <<>> /\ a[1].expect = "choice" /\ a[1].send = <<"tunnels">> /\ Parts = Base + 3
                  /\ Talk[Base + 1].expect = "notunnel" /\ Talk[Base + 1].send = <<"subauths">>
                  /\ Talk[Base + 2].expect = "subauth" /\ Talk[Base + 2].send = <<>>
                  /\ Talk[Base + 3].expect = "login" /\ Talk[Base + 3].send = Verdict(server)
             /\ s = "ard" =>
                  /\ a # <<>> /\ a[1].expect = "choice" /\ a[1].send = <<"key">> /\ Parts = Base + 1
                  /\ Talk[Base + 1].expect = "answer" /\ Talk[Base + 1].send = Verdict(server)
             /\ s = "ra2" => a # <<>> /\ a[1].expect = "choice" /\ a[1].send = <<"key">> /\ Parts = Base
  <1> DEFINE a == Authentication(server)
             s == server.scheme
  <1>0. server \in ServerSet /\ server.old \in BOOLEAN /\ Verdict(server) \in Seq(Words)
    <2>1. server \in ServerSet
      BY DEF SesTypes
    <2> QED
      BY <2>1, VerdictType DEF ServerSet
  <1>1. /\ a \in Seq(TurnSet) /\ Base = (IF server.old THEN 1 ELSE 2) /\ Len(a) \in Nat /\ (Len(a) >= 1 => a # <<>>)
        /\ a = <<>> => Parts = 1
        /\ a # <<>> => Parts = Base - 1 + Len(a)
        /\ \A j \in 1..Len(a) : j > 1 \/ ~server.old => Talk[Base - 1 + j] = a[j]
    BY TalkParts
  <1> HIDE DEF a, s
  <1>2. ASSUME s = "none", ~server.old
        PROVE  /\ a # <<>> /\ a[1].expect = "choice" /\ a[1].send = Verdict(server) /\ Parts = Base
    <2>1. /\ Len(a) = 1
          /\ a[1] = Turn("choice", Verdict(server))
      BY <1>0, <1>2, NoneShape DEF a, s
    <2>2. a # <<>> /\ Parts = Base
      BY <1>1, <2>1
    <2>3. a[1].expect = "choice" /\ a[1].send = Verdict(server)
      BY <2>1 DEF Turn
    <2> QED
      BY <2>2, <2>3
  <1>3. ASSUME (s = "none" /\ server.old) \/ s \in {"empty", "unsupported"}
        PROVE  a = <<>> /\ Parts = 1
    <2>1. a = <<>>
      BY <1>0, <1>3, EmptyShape DEF a, s
    <2> QED
      BY <1>1, <2>1
  <1>4. ASSUME s \in {"vnc", "mslogon"}
        PROVE  /\ a # <<>> /\ a[1].expect = "choice" /\ a[1].send = <<"challenge">> /\ Parts = Base + 1
               /\ Talk[Base + 1].expect = "response" /\ Talk[Base + 1].send = Verdict(server)
    <2>1. /\ Len(a) = 2
          /\ a[1] = Turn("choice", <<"challenge">>)
          /\ a[2] = Turn("response", Verdict(server))
      BY <1>0, <1>4, VncShape DEF a, s
    <2>2. a # <<>> /\ Parts = Base + 1
      BY <1>1, <2>1
    <2>3. a[1].expect = "choice" /\ a[1].send = <<"challenge">>
      BY <2>1 DEF Turn
    <2>4. Talk[Base + 1] = a[2]
      <3>1. Talk[Base - 1 + 2] = a[2] /\ Base - 1 + 2 = Base + 1
        BY <1>1, <2>1
      <3> QED
        BY <3>1
    <2>5. Talk[Base + 1].expect = "response" /\ Talk[Base + 1].send = Verdict(server)
      BY <2>1, <2>4 DEF Turn
    <2> QED
      BY <2>2, <2>3, <2>5
  <1>5. ASSUME s = "xvp"
        PROVE  a # <<>> /\ a[1].expect = "choice" /\ a[1].send = <<>> /\ Parts = Base
    <2>1. Len(a) = 1 /\ a[1] = Turn("choice", <<>>)
      BY <1>0, <1>5, XvpShape DEF a, s
    <2>2. a # <<>> /\ Parts = Base
      BY <1>1, <2>1
    <2>3. a[1].expect = "choice" /\ a[1].send = <<>>
      BY <2>1 DEF Turn
    <2> QED
      BY <2>2, <2>3
  <1>6. ASSUME s = "vencrypt"
        PROVE  /\ a # <<>> /\ a[1].expect = "choice" /\ a[1].send = <<"version">> /\ Parts = Base + 3
               /\ Talk[Base + 1].expect = "version" /\ Talk[Base + 1].send = <<"subtypes">>
               /\ Talk[Base + 2].expect = "subtype" /\ Talk[Base + 2].send = <<>>
               /\ Talk[Base + 3].expect = "login" /\ Talk[Base + 3].send = Verdict(server)
    <2>1. /\ Len(a) = 4
          /\ a[1] = Turn("choice", <<"version">>)
          /\ a[2] = Turn("version", <<"subtypes">>)
          /\ a[3] = Turn("subtype", <<>>)
          /\ a[4] = Turn("login", Verdict(server))
      BY <1>0, <1>6, VencryptShape DEF a, s
    <2>2. a # <<>> /\ Parts = Base + 3
      BY <1>1, <2>1
    <2>3. a[1].expect = "choice" /\ a[1].send = <<"version">>
      BY <2>1 DEF Turn
    <2>4. Talk[Base + 1] = a[2]
      <3>1. Talk[Base - 1 + 2] = a[2] /\ Base - 1 + 2 = Base + 1
        BY <1>1, <2>1
      <3> QED
        BY <3>1
    <2>5. Talk[Base + 1].expect = "version" /\ Talk[Base + 1].send = <<"subtypes">>
      BY <2>1, <2>4 DEF Turn
    <2>6. Talk[Base + 2] = a[3]
      <3>1. Talk[Base - 1 + 3] = a[3] /\ Base - 1 + 3 = Base + 2
        BY <1>1, <2>1
      <3> QED
        BY <3>1
    <2>7. Talk[Base + 2].expect = "subtype" /\ Talk[Base + 2].send = <<>>
      BY <2>1, <2>6 DEF Turn
    <2>8. Talk[Base + 3] = a[4]
      <3>1. Talk[Base - 1 + 4] = a[4] /\ Base - 1 + 4 = Base + 3
        BY <1>1, <2>1
      <3> QED
        BY <3>1
    <2>9. Talk[Base + 3].expect = "login" /\ Talk[Base + 3].send = Verdict(server)
      BY <2>1, <2>8 DEF Turn
    <2> QED
      BY <2>2, <2>3, <2>5, <2>7, <2>9
  <1>7. ASSUME s = "tight"
        PROVE  /\ a # <<>> /\ a[1].expect = "choice" /\ a[1].send = <<"tunnels">> /\ Parts = Base + 3
               /\ Talk[Base + 1].expect = "notunnel" /\ Talk[Base + 1].send = <<"subauths">>
               /\ Talk[Base + 2].expect = "subauth" /\ Talk[Base + 2].send = <<>>
               /\ Talk[Base + 3].expect = "login" /\ Talk[Base + 3].send = Verdict(server)
    <2>1. /\ Len(a) = 4
          /\ a[1] = Turn("choice", <<"tunnels">>)
          /\ a[2] = Turn("notunnel", <<"subauths">>)
          /\ a[3] = Turn("subauth", <<>>)
          /\ a[4] = Turn("login", Verdict(server))
      BY <1>0, <1>7, TightShape DEF a, s
    <2>2. a # <<>> /\ Parts = Base + 3
      BY <1>1, <2>1
    <2>3. a[1].expect = "choice" /\ a[1].send = <<"tunnels">>
      BY <2>1 DEF Turn
    <2>4. Talk[Base + 1] = a[2]
      <3>1. Talk[Base - 1 + 2] = a[2] /\ Base - 1 + 2 = Base + 1
        BY <1>1, <2>1
      <3> QED
        BY <3>1
    <2>5. Talk[Base + 1].expect = "notunnel" /\ Talk[Base + 1].send = <<"subauths">>
      BY <2>1, <2>4 DEF Turn
    <2>6. Talk[Base + 2] = a[3]
      <3>1. Talk[Base - 1 + 3] = a[3] /\ Base - 1 + 3 = Base + 2
        BY <1>1, <2>1
      <3> QED
        BY <3>1
    <2>7. Talk[Base + 2].expect = "subauth" /\ Talk[Base + 2].send = <<>>
      BY <2>1, <2>6 DEF Turn
    <2>8. Talk[Base + 3] = a[4]
      <3>1. Talk[Base - 1 + 4] = a[4] /\ Base - 1 + 4 = Base + 3
        BY <1>1, <2>1
      <3> QED
        BY <3>1
    <2>9. Talk[Base + 3].expect = "login" /\ Talk[Base + 3].send = Verdict(server)
      BY <2>1, <2>8 DEF Turn
    <2> QED
      BY <2>2, <2>3, <2>5, <2>7, <2>9
  <1>8. ASSUME s = "ard"
        PROVE  /\ a # <<>> /\ a[1].expect = "choice" /\ a[1].send = <<"key">> /\ Parts = Base + 1
               /\ Talk[Base + 1].expect = "answer" /\ Talk[Base + 1].send = Verdict(server)
    <2>1. /\ Len(a) = 2
          /\ a[1] = Turn("choice", <<"key">>)
          /\ a[2] = Turn("answer", Verdict(server))
      BY <1>0, <1>8, ArdShape DEF a, s
    <2>2. a # <<>> /\ Parts = Base + 1
      BY <1>1, <2>1
    <2>3. a[1].expect = "choice" /\ a[1].send = <<"key">>
      BY <2>1 DEF Turn
    <2>4. Talk[Base + 1] = a[2]
      <3>1. Talk[Base - 1 + 2] = a[2] /\ Base - 1 + 2 = Base + 1
        BY <1>1, <2>1
      <3> QED
        BY <3>1
    <2>5. Talk[Base + 1].expect = "answer" /\ Talk[Base + 1].send = Verdict(server)
      BY <2>1, <2>4 DEF Turn
    <2> QED
      BY <2>2, <2>3, <2>5
  <1>9. ASSUME s = "ra2"
        PROVE  /\ a # <<>> /\ a[1].expect = "choice" /\ a[1].send = <<"key">> /\ Parts = Base
    <2>1. /\ Len(a) = 1
          /\ a[1] = Turn("choice", <<"key">>)
      BY <1>0, <1>9, Ra2Shape DEF a, s
    <2>2. a # <<>> /\ Parts = Base
      BY <1>1, <2>1
    <2>3. a[1].expect = "choice" /\ a[1].send = <<"key">>
      BY <2>1 DEF Turn
    <2> QED
      BY <2>2, <2>3
  <1> QED
    BY <1>2, <1>3, <1>4, <1>5, <1>6, <1>7, <1>8, <1>9, Zenon DEF a, s

-----------------------------------------------------------------------------
(***************************************************************************)
(* The handlers of the handshake, one by one.                              *)
(***************************************************************************)

\* Head and tail of one message.
LEMMA Singles ==
  /\ \A w \in Words : Head(<<w>>) = w /\ Tail(<<w>>) = <<>>
  /\ Head(<<"challenge">>) = "challenge" /\ Tail(<<"challenge">>) = <<>>
  /\ Head(<<"key">>) = "key" /\ Tail(<<"key">>) = <<>>
  <1>1. \A w \in Words : Head(<<w>>) = w /\ Tail(<<w>>) = <<>>
    OBVIOUS
  <1>2. "challenge" \in Words /\ "key" \in Words
    BY DEF Words
  <1> QED
    BY <1>1, <1>2

\* The message at the head of the queue.
LEMMA Heading ==
  ASSUME SesTypes
  PROVE  /\ rq = <<>> => Head1 = "nothing"
         /\ rq # <<>> => Head1 = Head(rq) /\ Head1 \in Words /\ Head1 # "nothing"
  BY DEF Head1, SesTypes, Words

\* Inside the handshake's loop the socket is open, and nothing has ended.
LEMMA InLoop ==
  ASSUME SesInv, InitMsg
  PROVE  /\ r.loop /\ (r.once => Rested /\ p.asked # "none" /\ r.creds = p.asked)
         /\ ~r.once => ws = "open" /\ r.conn = "connecting" /\ ~p.closed
  <1>1. r.loop /\ (r.once \/ r.conn # "connected") /\ r.conn \in Conns
    BY DEF InitMsg, SesInv, SesTypes, RfbObjects
  <1>2. r.once => Rested /\ p.asked # "none" /\ r.creds = p.asked
    BY <1>1 DEF SesInv, Looping, Asking
  <1>3. ~r.once => ws = "open"
    BY <1>1 DEF SesInv, Looping
  <1> QED
    BY <1>1, <1>2, <1>3 DEF SesInv, Ending, EndsWell, Conns

\* The first message in the queue is the first of those it has still to read.
LEMMA FirstLeft ==
  ASSUME SesInv, ws = "open", NEW k \in {Len(sent)}
  PROVE  /\ k \in Nat /\ Place(k) /\ Left(k) \in Seq(Words) /\ k <= Len(Talk)
         /\ rq # <<>> => Left(k) # <<>> /\ Head(rq) = Head(Left(k)) /\ Tail(rq) = <<>> /\ rq = <<Head(Left(k))>>
  <1>1. /\ SesTypes /\ Placed /\ k \in Nat /\ served \in Nat /\ rq \in Seq(Words) /\ inbox \in Seq(Words)
        /\ Talk \in Seq(TurnSet)
    BY TalkShape DEF SesInv, SesTypes
  <1>2. Place(k) /\ Owed(Left(k), Talk, k, served, rq, inbox)
    BY <1>1 DEF Placed
  <1>3. Left(k) \in Seq(Words)
    BY <1>1, LeftType
  <1>4. k <= Len(Talk)
    BY <1>2 DEF Owed
  <1> QED
    BY <1>1, <1>2, <1>3, <1>4, Taken

\* The place depends on the handshake and on the connection, on nothing else.
LEMMA SamePlace ==
  ASSUME UNCHANGED server, r'.init = r.init, r'.scheme = r.scheme, r'.ard = "none" <=> r.ard = "none",
         r'.ra2 = r.ra2, r'.conn = r.conn, NEW k
  PROVE  Place(k)' = Place(k) /\ Left(k)' = Left(k)
  <1>1. Talk' = Talk /\ Parts' = Parts /\ Base' = Base /\ Authentication(server)' = Authentication(server)
    BY SameTalk
  <1>2. Place(k)' = Place(k)
    BY <1>1 DEF Place
  <1>3. Left(k)' = Left(k)
    BY <1>1 DEF Left
  <1> QED
    BY <1>2, <1>3

\* y is the object with its handshake moved.
Moves(y, i, c, a, b) ==
  /\ y \in Xs /\ y.p = p /\ y.ws = ws
  /\ y.r.conn = r.conn /\ y.r.init = i /\ y.r.scheme = c /\ y.r.creds = r.creds
  /\ y.r.listening = r.listening /\ y.r.grabbed = r.grabbed /\ y.r.messages = r.messages
  /\ y.r.onopen = r.onopen /\ y.r.onclose = r.onclose /\ y.r.timer = r.timer /\ y.r.resumes = r.resumes
  /\ y.r.ard = a /\ y.r.ra2 = b /\ y.r.once = r.once

\* The objects the handlers leave move the handshake and nothing else.
LEMMA MovesX ==
  ASSUME SesTypes, Ending
  PROVE  /\ Moves(X, r.init, r.scheme, r.ard, r.ra2)
         /\ \A i \in Inits : Moves(To(i), i, r.scheme, r.ard, r.ra2)
         /\ \A i \in Inits, c \in Schemes \cup {"plain"} :
               Moves([To(i) EXCEPT !.r.scheme = c], i, c, r.ard, r.ra2)
         /\ \A c \in Schemes \cup {"plain"} : Moves([X EXCEPT !.r.scheme = c], r.init, c, r.ard, r.ra2)
         /\ \A i \in Inits : Moves([To(i) EXCEPT !.r.ard = "none"], i, r.scheme, "none", r.ra2)
         /\ Moves([X EXCEPT !.r.ard = "busy"], r.init, r.scheme, "busy", r.ra2)
         /\ Moves([X EXCEPT !.r.ra2 = TRUE], r.init, r.scheme, r.ard, TRUE)
  <1>1. X \in Xs /\ X.r = r /\ X.p = p /\ X.ws = ws
    BY XFacts
  <1>2. Moves(X, r.init, r.scheme, r.ard, r.ra2)
    BY <1>1 DEF Moves
  <1>3. ASSUME NEW i \in Inits PROVE Moves(To(i), i, r.scheme, r.ard, r.ra2)
    BY <1>1, <1>3 DEF Moves, To, Xs, RfbObjects
  <1>4. ASSUME NEW i \in Inits, NEW c \in Schemes \cup {"plain"}
        PROVE  Moves([To(i) EXCEPT !.r.scheme = c], i, c, r.ard, r.ra2)
    BY <1>3, <1>4 DEF Moves, Xs, RfbObjects
  <1>5. ASSUME NEW c \in Schemes \cup {"plain"} PROVE Moves([X EXCEPT !.r.scheme = c], r.init, c, r.ard, r.ra2)
    BY <1>1, <1>5 DEF Moves, Xs, RfbObjects
  <1>6. ASSUME NEW i \in Inits PROVE Moves([To(i) EXCEPT !.r.ard = "none"], i, r.scheme, "none", r.ra2)
    BY <1>3, <1>6 DEF Moves, Xs, RfbObjects
  <1>7. Moves([X EXCEPT !.r.ard = "busy"], r.init, r.scheme, "busy", r.ra2)
    BY <1>1 DEF Moves, Xs, RfbObjects
  <1>8. Moves([X EXCEPT !.r.ra2 = TRUE], r.init, r.scheme, r.ard, TRUE)
    BY <1>1 DEF Moves, Xs, RfbObjects
  <1> QED
    BY <1>2, <1>3, <1>4, <1>5, <1>6, <1>7, <1>8

\* The state after such a turn, field by field.
Turned(i, c, a, b, take, out, on) ==
  /\ SesTypes' /\ Ending' /\ p' = p /\ ws' = ws
  /\ r'.conn = r.conn /\ r'.init = i /\ r'.scheme = c /\ r'.creds = r.creds /\ r'.resumes = r.resumes
  /\ r'.ard = a /\ r'.ra2 = b /\ r'.once = r.once /\ r'.onopen = r.onopen
  /\ r'.loop = (on /\ ~r.once /\ r.conn = "connecting")
  /\ rq' = (IF take THEN Tail(rq) ELSE rq)
  /\ sent' = (IF ws = "open" THEN sent \o out ELSE sent)
  /\ UNCHANGED <<server, inbox, served, viewOnly>>

\* A turn with such an object, field by field.
LEMMA MovedTurn ==
  ASSUME SesTypes, Ending, NEW y, NEW i, NEW c, NEW a, NEW b, Moves(y, i, c, a, b),
         NEW take \in BOOLEAN, NEW on \in BOOLEAN, NEW out \in Seq(Words),
         take => rq # <<>>, Turns(y, take, out, on)
  PROVE  Turned(i, c, a, b, take, out, on)
  <1>1. y \in Xs /\ EndsWell(y.r, y.p, y.ws)
    BY DEF Moves, Ending, EndsWell
  <1>2. /\ SesTypes' /\ Ending'
        /\ p' = y.p /\ ws' = y.ws /\ SameRfb(y.r, r')
        /\ r'.loop = (on /\ ~r.once /\ y.r.conn = "connecting")
        /\ rq' = (IF take THEN Tail(rq) ELSE rq)
        /\ sent' = (IF y.ws = "open" THEN sent \o out ELSE sent)
        /\ UNCHANGED <<server, inbox, served, viewOnly>>
    BY <1>1, TurnsFacts
  <1> QED
    BY <1>2 DEF Moves, SameRfb, Turned

\* A handler that finds too few bytes, or waits for credentials, changes nothing it has to keep.
LEMMA WaitKeeps ==
  ASSUME SesInv, r.loop, Rested, Wait
  PROVE  SesInv'
  <1>1. SesTypes /\ Ending /\ Asking /\ Looping /\ Spoken /\ (ws = "open" => Placed)
    BY DEF SesInv
  <1>2. Moves(X, r.init, r.scheme, r.ard, r.ra2) /\ Turns(X, FALSE, <<>>, FALSE) /\ <<>> \in Seq(Words)
    <2>1. <<>> \in Seq(Words)
      OBVIOUS
    <2>2. Moves(X, r.init, r.scheme, r.ard, r.ra2)
      BY <1>1, MovesX
    <2> QED
      BY <2>1, <2>2 DEF Wait
  <1>t. Turned(r.init, r.scheme, r.ard, r.ra2, FALSE, <<>>, FALSE)
    BY <1>1, <1>2, MovedTurn
  <1>3. /\ SesTypes' /\ Ending' /\ p' = p /\ ws' = ws
        /\ r'.conn = r.conn /\ r'.init = r.init /\ r'.scheme = r.scheme /\ r'.creds = r.creds
        /\ r'.resumes = r.resumes /\ r'.ard = r.ard /\ r'.ra2 = r.ra2 /\ r'.once = r.once
        /\ r'.onopen = r.onopen /\ r'.loop = FALSE
        /\ rq' = rq /\ sent' = (IF ws = "open" THEN sent \o <<>> ELSE sent)
        /\ UNCHANGED <<server, inbox, served, viewOnly>>
    BY <1>t DEF Turned
  <1>4. sent' = sent
    BY <1>1, <1>3 DEF SesTypes
  <1>5. Asking'
    BY <1>1, <1>3 DEF Asking
  <1>6. Looping'
    BY <1>1, <1>3, <1>4 DEF Looping, Rested
  <1>7. Spoken' /\ (ws' = "open" => Placed')
    <2>1. \A k : Place(k)' = Place(k) /\ Left(k)' = Left(k)
      BY <1>3, SamePlace
    <2>2. PICK k \in {Len(sent)} : TRUE
      OBVIOUS
    <2>3. ws = "open" => Place(k)
      BY <1>1 DEF Placed
    <2>4. ws = "open" => Place(k)' /\ Left(k)' = IF FALSE THEN Tail(Left(k)) ELSE Left(k)
      BY <2>1, <2>3
    <2>5. rq' = (IF FALSE THEN Tail(rq) ELSE rq)
      BY <1>3
    <2> QED
      BY <1>1, <1>3, <1>4, <2>4, <2>5, Reads
  <1> QED
    BY <1>3, <1>5, <1>6, <1>7 DEF SesInv

\* A turn that moves the handshake and sends nothing.
LEMMA TurnReads ==
  ASSUME SesInv, NEW y, NEW i, NEW c, NEW a, NEW b, Moves(y, i, c, a, b),
         NEW take \in BOOLEAN, NEW on \in BOOLEAN, take => rq # <<>>, Turns(y, take, <<>>, on),
         NEW k \in {Len(sent)},
         ws = "open" => Place(k)' /\ Left(k)' = IF take THEN Tail(Left(k)) ELSE Left(k)
  PROVE  Spoken' /\ (ws' = "open" => Placed')
  <1>1. SesTypes /\ Ending /\ Spoken /\ (ws = "open" => Placed) /\ <<>> \in Seq(Words)
    BY DEF SesInv
  <1>2. /\ ws' = ws /\ rq' = (IF take THEN Tail(rq) ELSE rq)
        /\ sent' = (IF ws = "open" THEN sent \o <<>> ELSE sent) /\ UNCHANGED <<server, inbox, served>>
    <2>1. Turned(i, c, a, b, take, <<>>, on)
      BY <1>1, MovedTurn
    <2> QED
      BY <2>1 DEF Turned
  <1>3. sent' = sent
    BY <1>1, <1>2 DEF SesTypes
  <1> QED
    BY <1>1, <1>2, <1>3, Reads

\* A turn that moves the handshake and sends w.
LEMMA TurnSays ==
  ASSUME SesInv, NEW y, NEW i, NEW c, NEW a, NEW b, Moves(y, i, c, a, b), NEW w \in Words,
         NEW take \in BOOLEAN, NEW on \in BOOLEAN, take => rq # <<>>, Turns(y, take, <<w>>, on),
         NEW k \in {Len(sent)}, NEW n \in {k + 1},
         ws = "open" =>
            /\ <<>> = IF take THEN Tail(Left(k)) ELSE Left(k)
            /\ n <= Len(Talk) /\ Talk[n].expect = w
            /\ Place(n)' /\ Left(n)' = Talk[n].send
  PROVE  Spoken' /\ (ws' = "open" => Placed')
  <1>1. SesTypes /\ Ending /\ Spoken /\ (ws = "open" => Placed) /\ <<w>> \in Seq(Words)
    BY DEF SesInv
  <1>2. /\ ws' = ws /\ rq' = (IF take THEN Tail(rq) ELSE rq)
        /\ sent' = (IF ws = "open" THEN sent \o <<w>> ELSE sent) /\ UNCHANGED <<server, inbox, served>>
    <2>1. Turned(i, c, a, b, take, <<w>>, on)
      BY <1>1, MovedTurn
    <2> QED
      BY <2>1 DEF Turned
  <1> QED
    BY <1>1, <1>2, Says

\* _negotiateProtocolVersion reads the version and answers it.
LEMMA VersionStep ==
  ASSUME SesInv, InitMsg, r.init = "ProtocolVersion", Version
  PROVE  SesInv'
  <1>1. SesTypes /\ Ending /\ Asking /\ Looping
    BY DEF SesInv
  <1>2. r.loop /\ ~r.once /\ ws = "open" /\ r.conn = "connecting" /\ r.scheme = "none"
    BY <1>1, InLoop DEF Asking
  <1>3. PICK k \in {Len(sent)} : TRUE
    OBVIOUS
  <1>4. Left(k) = <<"version">> /\ k = 0
    <2>1. Place(k)
      BY <1>2, FirstLeft
    <2>2. k = 0
      BY <2>1 DEF Place
    <2>3. Left(k) = <<"version">>
      BY DEF Left
    <2> QED
      BY <2>2, <2>3
  <1>5. rq # <<>> => Head1 = "version"
    BY <1>1, <1>2, <1>4, FirstLeft, Heading
  <1>6. CASE Head1 # "version"
    <2>1. Wait /\ Rested
      BY <1>1, <1>5, <1>6 DEF Version, Rested, Asking
    <2> QED
      BY <1>2, <2>1, WaitKeeps
  <1>7. CASE Head1 = "version"
    <2>1. Turns(To("Security"), TRUE, <<"version">>, FALSE) /\ rq # <<>>
      BY <1>1, <1>7, Heading DEF Version
    <2>2. Moves(To("Security"), "Security", r.scheme, r.ard, r.ra2) /\ "version" \in Words /\ <<"version">> \in Seq(Words)
      BY <1>1, MovesX, Sends DEF Inits, Words
    <2>3. /\ SesTypes' /\ Ending' /\ p' = p /\ ws' = ws
          /\ r'.conn = r.conn /\ r'.init = "Security" /\ r'.scheme = r.scheme /\ r'.creds = r.creds
          /\ r'.resumes = r.resumes /\ r'.ard = r.ard /\ r'.ra2 = r.ra2 /\ r'.once = r.once
          /\ r'.onopen = r.onopen /\ r'.loop = FALSE /\ rq' = Tail(rq) /\ UNCHANGED server
      <3>1. Turned("Security", r.scheme, r.ard, r.ra2, TRUE, <<"version">>, FALSE)
        BY <1>1, <2>1, <2>2, MovedTurn
      <3> QED
        BY <3>1 DEF Turned
    <2>4. Asking'
      BY <1>1, <1>2, <2>3 DEF Asking
    <2>5. rq' = <<>>
      BY <1>2, <2>1, <2>3, FirstLeft
    <2>6. Looping'
      BY <1>1, <1>2, <2>3, <2>4, <2>5 DEF Looping, Rested, Asking
    <2>7. Spoken' /\ (ws' = "open" => Placed')
      <3>1. PICK n \in {k + 1} : TRUE
        OBVIOUS
      <3>2. n = 1 /\ n <= Len(Talk) /\ Talk[n].expect = "version" /\ Talk' = Talk
        BY <1>1, <1>4, <2>3, <3>1, TalkShape, TalkParts, SameTalk, SessionAssumption DEF SesTypes
      <3>3. <<>> = Tail(Left(k))
        BY <1>4
      <3>4. Place(n)' /\ Left(n)' = Talk[n].send
        BY <1>1, <1>2, <2>3, <3>2 DEF Place, Left, Asking
      <3> QED
        BY <2>1, <2>2, <3>2, <3>3, <3>4, TurnSays
    <2> QED
      BY <2>3, <2>4, <2>6, <2>7 DEF SesInv
  <1> QED
    BY <1>6, <1>7

\* In the authentication the first answer of the scheme is the one to read first.
LEMMA FirstAnswer ==
  ASSUME SesTypes, r.init = "Authentication", r.ard = "none", ~r.ra2, Authentication(server) # <<>>
  PROVE  Left(Base) = Authentication(server)[1].send
  <1> DEFINE a == Authentication(server)
  <1>1. /\ a \in Seq(TurnSet) /\ Base = (IF server.old THEN 1 ELSE 2)
        /\ \A j \in 1..Len(a) : j > 1 \/ ~server.old => Talk[Base - 1 + j] = a[j]
    BY TalkParts
  <1> HIDE DEF a
  <1>2. CASE server.old
    <2>1. Base = 1
      BY <1>1, <1>2
    <2> QED
      BY <2>1 DEF Left, a
  <1>3. CASE ~server.old
    <2>1. Base = 2 /\ 1 \in 1..Len(a)
      BY <1>1, <1>3 DEF a
    <2>2. Talk[Base - 1 + 1] = a[1] /\ Base - 1 + 1 = 2
      BY <1>1, <1>3, <2>1
    <2> QED
      BY <2>1, <2>2 DEF Left, a
  <1> QED
    BY <1>2, <1>3

\* The last message of a scheme: what comes next is the verdict.
LEMMA ToResult ==
  ASSUME SesInv, InitMsg, r.init = "Authentication", ~r.ra2,
         server.scheme \in {"vnc", "mslogon", "vencrypt", "tight", "ard"},
         NEW y, Moves(y, "SecurityResult", r.scheme, "none", r.ra2),
         NEW w \in Words, NEW take \in BOOLEAN, take => rq # <<>>, Turns(y, take, <<w>>, TRUE),
         (IF take THEN Tail(rq) ELSE rq) = <<>>,
         NEW k \in {Len(sent)},
         ws = "open" =>
            /\ <<>> = IF take THEN Tail(Left(k)) ELSE Left(k)
            /\ k + 1 = Parts /\ Talk[Parts].expect = w
  PROVE  SesInv'
  <1>1. SesTypes /\ Ending /\ Asking /\ Looping
    BY DEF SesInv
  <1>2. r.loop /\ (~r.once => ws = "open" /\ r.conn = "connecting")
    BY InLoop
  <1>3. Turned("SecurityResult", r.scheme, "none", r.ra2, take, <<w>>, TRUE)
    <2>1. <<w>> \in Seq(Words)
      OBVIOUS
    <2> QED
      BY <1>1, <2>1, MovedTurn
  <1>4. Asking'
    BY <1>1, <1>2, <1>3 DEF Asking, Turned
  <1>5. rq' = <<>> /\ UNCHANGED server
    BY <1>3 DEF Turned
  <1>6. Looping'
    BY <1>1, <1>2, <1>3, <1>5 DEF Looping, Rested, Turned
  <1>7. Spoken' /\ (ws' = "open" => Placed')
    <2>1. PICK n \in {k + 1} : TRUE
      OBVIOUS
    <2>2. Talk' = Talk /\ Parts' = Parts
      BY <1>5, SameTalk
    <2>3. ws = "open" => n = Parts /\ n <= Len(Talk) /\ Talk[n].expect = w
      BY <1>1, <2>1, TalkShape, SessionAssumption DEF SesTypes
    <2>4. Left(n)' = Talk[n].send
      BY <1>3, <2>2 DEF Left, Turned
    <2>5. ws = "open" => Place(n)'
      BY <1>3, <1>5, <2>2, <2>3 DEF Place, Turned
    <2> QED
      BY <2>3, <2>4, <2>5, TurnSays
  <1> QED
    BY <1>3, <1>4, <1>6, <1>7 DEF SesInv, Turned

\* The handshake asks for what it lacks, once, as no answer can be under way; only
\* XVP asks again.
LEMMA AskKeeps ==
  ASSUME SesInv, InitMsg, r.init = "Authentication", Rested, NEW e \in {"password", "full"}, Ask(e),
         e = "password" => r.scheme = "vnc" /\ r.creds = "none",
         e = "full" => r.scheme \in {"mslogon", "xvp", "plain", "ard"} /\ (r.creds = "full" => r.scheme = "xvp")
  PROVE  SesInv'
  <1>1. SesTypes /\ Ending /\ Asking /\ Looping /\ Spoken /\ (ws = "open" => Placed)
    BY DEF SesInv
  <1>2. r.loop /\ (r.once => p.asked # "none" /\ r.creds = p.asked)
        /\ (~r.once => ws = "open" /\ r.conn = "connecting" /\ ~p.closed)
    BY InLoop
  <1>3. /\ r.scheme = "xvp" <=> server.scheme = "xvp"
        /\ p.asked # "none" /\ r.creds = p.asked => r.scheme = "xvp" /\ e = "full" /\ p.asked = "full"
    <2>1. p.asked \in {"none", "password", "full"}
      BY <1>1 DEF SesTypes, Pages
    <2> QED
      BY <1>1, <2>1 DEF Asking
  <1>4. r.ard = "none" /\ ~r.ra2 /\ (r.scheme # "xvp" => ~r.once /\ r.resumes = 0)
    <2>1. r.resumes \in Nat
      BY <1>1 DEF SesTypes, RfbObjects
    <2> QED
      BY <1>1, <1>2, <1>3, <2>1 DEF Asking
  <1> DEFINE x == [X EXCEPT !.p = Dispatch(@, e)]
  <1>5. x \in Xs /\ x.r = r /\ x.p = Dispatch(p, e) /\ x.ws = ws
    <2>1. X \in Xs /\ X.r = r /\ X.p = p /\ X.ws = ws
      BY <1>1, XFacts
    <2>2. Dispatch(p, e) \in Pages
      BY <1>1, DispatchFacts DEF SesTypes
    <2> QED
      BY <2>1, <2>2 DEF Xs
  <1>6. x.p.closed = p.closed /\ (x.p.late => server.scheme = "xvp") /\ x.p.asked = e
    <2>1. p \in Pages /\ p.closed \in BOOLEAN /\ (p.late => server.scheme = "xvp")
      BY <1>1 DEF SesTypes, Pages, Ending, EndsWell
    <2>2. /\ Dispatch(p, e).closed = (p.closed \/ e = "disconnect")
          /\ Dispatch(p, e).late = (p.late \/ p.closed) /\ Dispatch(p, e).asked = e
      BY <2>1, DispatchFacts
    <2> QED
      BY <1>2, <1>3, <1>4, <1>5, <2>1, <2>2
  <1>7. EndsWell(x.r, x.p, x.ws) /\ Turns(x, FALSE, <<>>, FALSE)
    BY <1>1, <1>5, <1>6 DEF Ending, EndsWell, Ask
  <1> HIDE DEF x
  <1>8. /\ SesTypes' /\ Ending'
        /\ p' = x.p /\ ws' = x.ws /\ SameRfb(x.r, r')
        /\ r'.loop = (FALSE /\ ~r.once /\ x.r.conn = "connecting")
        /\ rq' = (IF FALSE THEN Tail(rq) ELSE rq)
        /\ sent' = (IF x.ws = "open" THEN sent \o <<>> ELSE sent)
        /\ UNCHANGED <<server, inbox, served, viewOnly>>
    <2>1. <<>> \in Seq(Words)
      OBVIOUS
    <2> QED
      BY <1>1, <1>5, <1>7, <2>1, TurnsFacts
  <1>9. /\ r'.init = r.init /\ r'.scheme = r.scheme /\ r'.ard = r.ard /\ r'.ra2 = r.ra2 /\ r'.conn = r.conn
        /\ r'.creds = r.creds /\ r'.resumes = r.resumes /\ r'.onopen = r.onopen /\ r'.loop = FALSE
        /\ p'.asked = e /\ ws' = ws /\ rq' = rq
    BY <1>5, <1>6, <1>8 DEF SameRfb
  <1>10. sent' = sent
    BY <1>1, <1>8 DEF SesTypes
  <1>11. Asking'
    BY <1>1, <1>3, <1>4, <1>8, <1>9 DEF Asking
  <1>12. Looping'
    BY <1>1, <1>8, <1>9, <1>10 DEF Looping, Rested
  <1>13. Spoken' /\ (ws' = "open" => Placed')
    <2>1. \A k : Place(k)' = Place(k) /\ Left(k)' = Left(k)
      BY <1>8, <1>9, SamePlace
    <2>2. PICK k \in {Len(sent)} : TRUE
      OBVIOUS
    <2>3. ws = "open" => Place(k)
      BY <1>1 DEF Placed
    <2>4. ws = "open" => Place(k)' /\ Left(k)' = IF FALSE THEN Tail(Left(k)) ELSE Left(k)
      BY <2>1, <2>3
    <2> QED
      BY <1>1, <1>8, <1>9, <1>10, <2>4, Reads
  <1> QED
    BY <1>8, <1>11, <1>12, <1>13 DEF SesInv

\* A client that waits for its challenge has nothing else to read, and answers next.
LEMMA VncLeft ==
  ASSUME SesInv, ws = "open", r.init = "Authentication", r.scheme \in {"vnc", "mslogon"}, NEW k \in {Len(sent)}
  PROVE  Left(k) = <<"challenge">> /\ k + 1 = Parts /\ Talk[Parts].expect = "response"
  <1>1. SesTypes /\ Asking
    BY DEF SesInv
  <1>2. server.scheme = r.scheme /\ r.ard = "none" /\ ~r.ra2
    BY <1>1 DEF Asking
  <1>3. Place(k) /\ k \in Nat /\ Base \in {1, 2}
    BY FirstLeft DEF Base
  <1>4. k = Base
    BY <1>3 DEF Place
  <1>5. /\ Authentication(server) # <<>> /\ Authentication(server)[1].send = <<"challenge">>
        /\ Parts = Base + 1 /\ Talk[Base + 1].expect = "response"
    BY <1>1, <1>2, SchemeTalk
  <1>6. Left(k) = <<"challenge">>
    BY <1>1, <1>2, <1>4, <1>5, FirstAnswer
  <1> QED
    BY <1>4, <1>5, <1>6

\* _negotiateStdVNCAuth asks for a password or answers the challenge.
LEMMA StdVNCAuthStep ==
  ASSUME SesInv, InitMsg, r.init = "Authentication", r.scheme = "vnc", StdVNCAuth
  PROVE  SesInv'
  <1>1. SesTypes /\ Ending /\ Asking /\ Looping
    BY DEF SesInv
  <1>2. r.loop /\ (r.once => Rested) /\ (~r.once => ws = "open") /\ server.scheme = "vnc"
        /\ r.ard = "none" /\ ~r.ra2
    BY <1>1, InLoop DEF Asking
  <1>3. PICK k \in {Len(sent)} : TRUE
    OBVIOUS
  <1>4. ASSUME ws = "open"
        PROVE  Left(k) = <<"challenge">> /\ k + 1 = Parts /\ Talk[Parts].expect = "response"
    BY <1>4, VncLeft
  <1>5. Rested
    <2>1. CASE r.once
      BY <1>2, <2>1
    <2>2. CASE ~r.once
      <3>1. rq = <<>> \/ rq = <<Head(<<"challenge">>)>>
        BY <1>2, <1>4, <2>2, FirstLeft
      <3>2. Head(<<"challenge">>) = "challenge"
        OBVIOUS
      <3> QED
        BY <1>2, <3>1, <3>2 DEF Rested
    <2> QED
      BY <2>1, <2>2
  <1>6. CASE Head1 # "challenge"
    BY <1>2, <1>5, <1>6, WaitKeeps DEF StdVNCAuth
  <1>7. CASE Head1 = "challenge" /\ r.creds = "none"
    <2>1. Ask("password")
      BY <1>7 DEF StdVNCAuth
    <2> QED
      BY <1>5, <1>7, <2>1, AskKeeps
  <1>8. CASE Head1 = "challenge" /\ r.creds # "none"
    <2>1. Turns(To("SecurityResult"), TRUE, <<"response">>, TRUE) /\ rq # <<>>
      BY <1>1, <1>8, Heading DEF StdVNCAuth
    <2>2. Moves(To("SecurityResult"), "SecurityResult", r.scheme, "none", r.ra2) /\ "response" \in Words
      <3>1. "SecurityResult" \in Inits /\ "response" \in Words
        BY DEF Inits, Words
      <3> QED
        BY <1>1, <1>2, <3>1, MovesX
    <2>3. (IF TRUE THEN Tail(rq) ELSE rq) = <<>>
      BY <1>2, <1>5, <2>1, Singles DEF Rested
    <2>4. ws = "open" =>
            /\ <<>> = IF TRUE THEN Tail(Left(k)) ELSE Left(k)
            /\ k + 1 = Parts /\ Talk[Parts].expect = "response"
      BY <1>4, Singles
    <2> QED
      BY <1>2, <2>1, <2>2, <2>3, <2>4, ToResult
  <1> QED
    BY <1>6, <1>7, <1>8

\* _negotiateMSLogonIIAuth asks for credentials or answers the challenge.
LEMMA MSLogonIIAuthStep ==
  ASSUME SesInv, InitMsg, r.init = "Authentication", r.scheme = "mslogon", MSLogonIIAuth
  PROVE  SesInv'
  <1>1. SesTypes /\ Ending /\ Asking /\ Looping
    BY DEF SesInv
  <1>2. r.loop /\ (r.once => Rested) /\ (~r.once => ws = "open") /\ server.scheme = "mslogon"
        /\ r.ard = "none" /\ ~r.ra2
    BY <1>1, InLoop DEF Asking
  <1>3. PICK k \in {Len(sent)} : TRUE
    OBVIOUS
  <1>4. ASSUME ws = "open"
        PROVE  Left(k) = <<"challenge">> /\ k + 1 = Parts /\ Talk[Parts].expect = "response"
    BY <1>4, VncLeft
  <1>5. Rested
    <2>1. CASE r.once
      BY <1>2, <2>1
    <2>2. CASE ~r.once
      <3>1. rq = <<>> \/ rq = <<Head(<<"challenge">>)>>
        BY <1>2, <1>4, <2>2, FirstLeft
      <3>2. Head(<<"challenge">>) = "challenge"
        OBVIOUS
      <3> QED
        BY <1>2, <3>1, <3>2 DEF Rested
    <2> QED
      BY <2>1, <2>2
  <1>6. CASE Head1 # "challenge"
    BY <1>2, <1>5, <1>6, WaitKeeps DEF MSLogonIIAuth
  <1>7. CASE Head1 = "challenge" /\ r.creds # "full"
    <2>1. Ask("full")
      BY <1>7 DEF MSLogonIIAuth
    <2> QED
      BY <1>5, <1>7, <2>1, AskKeeps
  <1>8. CASE Head1 = "challenge" /\ r.creds = "full"
    <2>1. Turns(To("SecurityResult"), TRUE, <<"response">>, TRUE) /\ rq # <<>>
      BY <1>1, <1>8, Heading DEF MSLogonIIAuth
    <2>2. Moves(To("SecurityResult"), "SecurityResult", r.scheme, "none", r.ra2) /\ "response" \in Words
      <3>1. "SecurityResult" \in Inits /\ "response" \in Words
        BY DEF Inits, Words
      <3> QED
        BY <1>1, <1>2, <3>1, MovesX
    <2>3. (IF TRUE THEN Tail(rq) ELSE rq) = <<>>
      BY <1>2, <1>5, <2>1, Singles DEF Rested
    <2>4. ws = "open" =>
            /\ <<>> = IF TRUE THEN Tail(Left(k)) ELSE Left(k)
            /\ k + 1 = Parts /\ Talk[Parts].expect = "response"
      BY <1>4, Singles
    <2> QED
      BY <1>2, <2>1, <2>2, <2>3, <2>4, ToResult
  <1> QED
    BY <1>6, <1>7, <1>8

\* VeNCrypt's plain login and TightVNC's: nothing is left to read before it.
LEMMA PlainAuthStep ==
  ASSUME SesInv, InitMsg, r.init = "Authentication", r.scheme = "plain", PlainAuth
  PROVE  SesInv'
  <1>1. SesTypes /\ Ending /\ Asking /\ Looping
    BY DEF SesInv
  <1>2. r.loop /\ (r.once => Rested) /\ (~r.once => ws = "open") /\ server.scheme \in {"vencrypt", "tight"}
        /\ r.ard = "none" /\ ~r.ra2
    <2>1. server.scheme \in Schemes
      BY <1>1 DEF SesTypes, ServerSet
    <2> QED
      BY <1>1, <2>1, InLoop DEF Asking, Schemes
  <1>3. PICK k \in {Len(sent)} : TRUE
    OBVIOUS
  <1>4. ASSUME ws = "open"
        PROVE  Left(k) = <<>> /\ k + 1 = Parts /\ Talk[Parts].expect = "login"
    <2>1. Place(k) /\ k \in Nat /\ Base \in {1, 2}
      BY <1>4, FirstLeft DEF Base
    <2>2. k = Base + 2 /\ k # 1
      BY <2>1 DEF Place
    <2>3. Talk[Base + 2].send = <<>> /\ Parts = Base + 3 /\ Talk[Base + 3].expect = "login"
      BY <1>1, <1>2, SchemeTalk
    <2>4. Left(k) = <<>>
      BY <1>2, <2>2, <2>3 DEF Left
    <2>5. k + 1 = Base + 3
      BY <2>1, <2>2
    <2> QED
      BY <2>3, <2>4, <2>5
  <1>5. Rested
    <2>1. CASE r.once
      BY <1>2, <2>1
    <2>2. CASE ~r.once
      <3>1. rq = <<>>
        BY <1>2, <1>4, <2>2, FirstLeft
      <3> QED
        BY <1>2, <3>1 DEF Rested
    <2> QED
      BY <2>1, <2>2
  <1>6. CASE r.creds # "full"
    <2>1. Ask("full")
      BY <1>6 DEF PlainAuth
    <2> QED
      BY <1>5, <1>6, <2>1, AskKeeps
  <1>7. CASE r.creds = "full"
    <2>1. Turns(To("SecurityResult"), FALSE, <<"login">>, TRUE)
      BY <1>7 DEF PlainAuth
    <2>2. Moves(To("SecurityResult"), "SecurityResult", r.scheme, "none", r.ra2) /\ "login" \in Words
      <3>1. "SecurityResult" \in Inits /\ "login" \in Words
        BY DEF Inits, Words
      <3> QED
        BY <1>1, <1>2, <3>1, MovesX
    <2>3. (IF FALSE THEN Tail(rq) ELSE rq) = <<>>
      BY <1>5 DEF Rested
    <2>4. ws = "open" =>
            /\ <<>> = IF FALSE THEN Tail(Left(k)) ELSE Left(k)
            /\ k + 1 = Parts /\ Talk[Parts].expect = "login"
      BY <1>4, Singles
    <2> QED
      BY <1>2, <2>1, <2>2, <2>3, <2>4, ToResult
  <1> QED
    BY <1>6, <1>7

\* A client that has the key computes its answer and has nothing to read.
LEMMA ArdLeft ==
  ASSUME SesInv, ws = "open", r.init = "Authentication", r.scheme = "ard", NEW k \in {Len(sent)}
  PROVE  /\ Left(k) = IF r.ard = "none" THEN <<"key">> ELSE <<>>
         /\ k = Base /\ k + 1 = Parts /\ Talk[Parts].expect = "answer"
  <1>1. SesTypes /\ Asking
    BY DEF SesInv
  <1>2. server.scheme = "ard" /\ ~r.ra2
    BY <1>1 DEF Asking
  <1>3. Place(k) /\ k \in Nat /\ Base \in {1, 2}
    BY FirstLeft DEF Base
  <1>4. k = Base
    BY <1>3 DEF Place
  <1>5. /\ Authentication(server) # <<>> /\ Authentication(server)[1].send = <<"key">>
        /\ Parts = Base + 1 /\ Talk[Base + 1].expect = "answer"
    BY <1>1, <1>2, SchemeTalk
  <1>6. Left(k) = IF r.ard = "none" THEN <<"key">> ELSE <<>>
    <2>1. CASE r.ard = "none"
      BY <1>1, <1>2, <1>4, <1>5, <2>1, FirstAnswer
    <2>2. CASE r.ard # "none"
      BY <2>2 DEF Left
    <2> QED
      BY <2>1, <2>2
  <1> QED
    BY <1>4, <1>5, <1>6

\* _negotiateARDAuth takes the key and leaves the answer to a promise.
LEMMA ARDAuthStep ==
  ASSUME SesInv, InitMsg, r.init = "Authentication", r.scheme = "ard", ARDAuth
  PROVE  SesInv'
  <1>1. SesTypes /\ Ending /\ Asking /\ Looping
    BY DEF SesInv
  <1>2. r.loop /\ (r.once => Rested) /\ (~r.once => ws = "open") /\ server.scheme = "ard" /\ ~r.ra2
    BY <1>1, InLoop DEF Asking
  <1>3. PICK k \in {Len(sent)} : TRUE
    OBVIOUS
  <1>4. ASSUME ws = "open"
        PROVE  /\ Left(k) = IF r.ard = "none" THEN <<"key">> ELSE <<>>
               /\ k = Base /\ k + 1 = Parts /\ Talk[Parts].expect = "answer"
    BY <1>4, ArdLeft
  <1>5. Rested
    <2>1. CASE r.once
      BY <1>2, <2>1
    <2>2. CASE ~r.once
      <3>1. rq = <<>> \/ (r.ard = "none" /\ rq = <<"key">>)
        BY <1>2, <1>4, <2>2, FirstLeft, Singles
      <3> QED
        BY <1>2, <3>1 DEF Rested
    <2> QED
      BY <2>1, <2>2
  <1>6. CASE r.creds # "full"
    <2>1. Ask("full")
      BY <1>6 DEF ARDAuth
    <2> QED
      BY <1>5, <1>6, <2>1, AskKeeps
  <1>7. CASE r.creds = "full" /\ r.ard = "ready"
    <2> DEFINE y == [To("SecurityResult") EXCEPT !.r.ard = "none"]
    <2>1. Turns(y, FALSE, <<"answer">>, TRUE)
      BY <1>7 DEF ARDAuth
    <2>2. Moves(y, "SecurityResult", r.scheme, "none", r.ra2) /\ "answer" \in Words
      <3>1. "SecurityResult" \in Inits /\ "answer" \in Words
        BY DEF Inits, Words
      <3> QED
        BY <1>1, <3>1, MovesX
    <2> HIDE DEF y
    <2>3. (IF FALSE THEN Tail(rq) ELSE rq) = <<>>
      BY <1>5, <1>7 DEF Rested
    <2>4. ws = "open" =>
            /\ <<>> = IF FALSE THEN Tail(Left(k)) ELSE Left(k)
            /\ k + 1 = Parts /\ Talk[Parts].expect = "answer"
      BY <1>4, <1>7
    <2> QED
      BY <1>2, <2>1, <2>2, <2>3, <2>4, ToResult
  <1>8. CASE r.creds = "full" /\ r.ard # "ready" /\ Head1 = "key"
    <2> DEFINE y == [X EXCEPT !.r.ard = "busy"]
    <2>1. Turns(y, TRUE, <<>>, FALSE) /\ rq # <<>>
      BY <1>1, <1>8, Heading DEF ARDAuth
    <2>2. Moves(y, r.init, r.scheme, "busy", r.ra2) /\ <<>> \in Seq(Words)
      <3>1. <<>> \in Seq(Words)
        OBVIOUS
      <3> QED
        BY <1>1, <3>1, MovesX
    <2> HIDE DEF y
    <2>3. Turned(r.init, r.scheme, "busy", r.ra2, TRUE, <<>>, FALSE)
      BY <1>1, <2>1, <2>2, MovedTurn
    <2>4. rq = <<"key">> /\ r.ard = "none" /\ rq' = <<>> /\ UNCHANGED server
      BY <1>2, <1>5, <2>1, <2>3, Singles DEF Rested, Turned
    <2>5. Asking'
      BY <1>1, <1>8, <2>3 DEF Asking, Turned
    <2>6. sent' = sent
      BY <1>1, <2>3 DEF SesTypes, Turned
    <2>7. Looping'
      BY <1>1, <2>3, <2>4, <2>6 DEF Looping, Rested, Turned
    <2>8. Spoken' /\ (ws' = "open" => Placed')
      <3>1. Base' = Base
        BY <2>4, SameTalk
      <3>2. Left(k)' = <<>>
        BY <2>3 DEF Left, Turned
      <3>3. ws = "open" => Place(k)'
        BY <1>4, <2>3, <3>1 DEF Place, Turned
      <3>4. ws = "open" => Place(k)' /\ Left(k)' = IF TRUE THEN Tail(Left(k)) ELSE Left(k)
        BY <1>4, <2>4, <3>2, <3>3, Singles
      <3> QED
        BY <2>1, <2>2, <3>4, TurnReads
    <2> QED
      BY <2>3, <2>5, <2>7, <2>8 DEF SesInv, Turned
  <1>9. CASE r.creds = "full" /\ r.ard # "ready" /\ Head1 # "key"
    BY <1>2, <1>5, <1>9, WaitKeeps DEF ARDAuth
  <1> QED
    BY <1>6, <1>7, <1>8, <1>9

\* _negotiateRA2neAuth starts the exchange once.
LEMMA RA2neAuthStep ==
  ASSUME SesInv, InitMsg, r.init = "Authentication", r.scheme = "ra2", RA2neAuth
  PROVE  SesInv'
  <1>1. SesTypes /\ Ending /\ Asking /\ Looping
    BY DEF SesInv
  <1>2. r.loop /\ ~r.once /\ ws = "open" /\ server.scheme = "ra2" /\ r.ard = "none"
    BY <1>1, InLoop DEF Asking
  <1>3. PICK k \in {Len(sent)} : TRUE
    OBVIOUS
  <1>4. k = Base /\ Left(k) = IF r.ra2 THEN <<>> ELSE <<"key">>
    <2>1. Place(k) /\ k \in Nat /\ Base \in {1, 2}
      BY <1>2, FirstLeft DEF Base
    <2>2. k = Base
      BY <2>1 DEF Place
    <2>3. Authentication(server) # <<>> /\ Authentication(server)[1].send = <<"key">>
      BY <1>1, <1>2, SchemeTalk
    <2>4. Left(k) = IF r.ra2 THEN <<>> ELSE <<"key">>
      <3>1. CASE ~r.ra2
        BY <1>1, <1>2, <2>2, <2>3, <3>1, FirstAnswer
      <3>2. CASE r.ra2
        BY <3>2 DEF Left
      <3> QED
        BY <3>1, <3>2
    <2> QED
      BY <2>2, <2>4
  <1>5. rq = <<>> \/ (~r.ra2 /\ rq = <<"key">>)
    BY <1>2, <1>4, FirstLeft, Singles
  <1>6. CASE Head1 # "key"
    <2>1. Rested
      BY <1>1, <1>2, <1>5, <1>6, Singles, Heading DEF Rested
    <2> QED
      BY <1>2, <1>6, <2>1, WaitKeeps DEF RA2neAuth
  <1>7. CASE Head1 = "key"
    <2> DEFINE y == [X EXCEPT !.r.ra2 = TRUE]
    <2>1. Turns(y, TRUE, <<>>, FALSE) /\ rq # <<>>
      BY <1>1, <1>7, Heading DEF RA2neAuth, RA2neAuthAsync
    <2>2. Moves(y, r.init, r.scheme, r.ard, TRUE) /\ <<>> \in Seq(Words)
      <3>1. <<>> \in Seq(Words)
        OBVIOUS
      <3> QED
        BY <1>1, <3>1, MovesX
    <2> HIDE DEF y
    <2>3. Turned(r.init, r.scheme, r.ard, TRUE, TRUE, <<>>, FALSE)
      BY <1>1, <2>1, <2>2, MovedTurn
    <2>4. rq = <<"key">> /\ ~r.ra2 /\ rq' = <<>> /\ UNCHANGED server
      BY <1>5, <2>1, <2>3, Singles DEF Turned
    <2>5. Asking'
      BY <1>1, <2>3 DEF Asking, Turned
    <2>6. sent' = sent
      BY <1>1, <2>3 DEF SesTypes, Turned
    <2>7. Looping'
      BY <1>1, <2>3, <2>4, <2>6 DEF Looping, Rested, Turned
    <2>8. Spoken' /\ (ws' = "open" => Placed')
      <3>1. Base' = Base
        BY <2>4, SameTalk
      <3>2. Left(k)' = <<>>
        BY <2>3 DEF Left, Turned
      <3>3. Place(k)'
        BY <1>4, <2>3, <3>1 DEF Place, Turned
      <3>4. ws = "open" => Place(k)' /\ Left(k)' = IF TRUE THEN Tail(Left(k)) ELSE Left(k)
        BY <1>4, <2>4, <3>2, <3>3, Singles
      <3> QED
        BY <2>1, <2>2, <3>4, TurnReads
    <2> QED
      BY <2>3, <2>5, <2>7, <2>8 DEF SesInv, Turned
  <1> QED
    BY <1>6, <1>7

\* A handshake without credentials, in 3.3 without a result either.
LEMMA AuthNoneStep ==
  ASSUME SesInv, InitMsg, r.init = "Authentication", r.scheme = "none", AuthNone
  PROVE  SesInv'
  <1> DEFINE i == IF server.old THEN "ClientInitialisation" ELSE "SecurityResult"
  <1>1. SesTypes /\ Ending /\ Asking /\ Looping
    BY DEF SesInv
  <1>2. r.loop /\ ~r.once /\ ws = "open" /\ r.conn = "connecting" /\ server.scheme = "none" /\ r.ard = "none" /\ ~r.ra2
    BY <1>1, InLoop DEF Asking
  <1>3. PICK k \in {Len(sent)} : TRUE
    OBVIOUS
  <1>4. k = Parts /\ Left(k) = IF server.old THEN <<>> ELSE Talk[k].send
    <2>1. Place(k) /\ k \in Nat /\ Base = IF server.old THEN 1 ELSE 2
      BY <1>2, FirstLeft DEF Base
    <2>2. k = Base
      BY <1>2, <2>1 DEF Place
    <2>3. CASE server.old
      <3>1. Authentication(server) = <<>> /\ Parts = 1
        BY <1>1, <1>2, <2>3, SchemeTalk
      <3> QED
        BY <1>2, <2>1, <2>2, <2>3, <3>1 DEF Left
    <2>4. CASE ~server.old
      <3>1. Parts = Base
        BY <1>1, <1>2, <2>4, SchemeTalk
      <3> QED
        BY <1>2, <2>1, <2>2, <2>4, <3>1 DEF Left
    <2> QED
      BY <2>3, <2>4
  <1>5. Turns(To(i), FALSE, <<>>, TRUE)
    BY DEF AuthNone
  <1>6. Moves(To(i), i, r.scheme, r.ard, r.ra2) /\ <<>> \in Seq(Words)
    <2>1. <<>> \in Seq(Words) /\ i \in Inits
      BY DEF Inits
    <2> HIDE DEF i
    <2> QED
      BY <1>1, <2>1, MovesX
  <1>7. Turned(i, r.scheme, r.ard, r.ra2, FALSE, <<>>, TRUE)
    BY <1>1, <1>5, <1>6, MovedTurn
  <1>8. UNCHANGED server /\ sent' = sent /\ Talk' = Talk /\ Parts' = Parts
    BY <1>1, <1>7, SameTalk DEF SesTypes, Turned
  <1>9. Asking'
    BY <1>1, <1>2, <1>7 DEF Asking, Turned
  <1>10. Looping'
    BY <1>1, <1>2, <1>7, <1>8 DEF Looping, Turned
  <1>11. Spoken' /\ (ws' = "open" => Placed')
    <2>1. Place(k)'
      BY <1>2, <1>4, <1>7, <1>8 DEF Place, Turned
    <2>2. Left(k)' = Left(k)
      BY <1>2, <1>4, <1>7, <1>8 DEF Left, Turned
    <2> HIDE DEF i
    <2>3. ws = "open" => Place(k)' /\ Left(k)' = IF FALSE THEN Tail(Left(k)) ELSE Left(k)
      BY <2>1, <2>2
    <2> QED
      BY <1>5, <1>6, <2>3, TurnReads
  <1> QED
    BY <1>7, <1>9, <1>10, <1>11 DEF SesInv, Turned

\* _negotiateXvpAuth asks for a target, now and whenever it is resumed.
LEMMA XvpAuthStep ==
  ASSUME SesInv, InitMsg, r.init = "Authentication", r.scheme = "xvp", XvpAuth
  PROVE  SesInv'
  <1>1. SesTypes /\ Ending /\ Asking /\ Looping /\ Spoken /\ (ws = "open" => Placed)
    BY DEF SesInv
  <1>2. r.loop /\ (r.once => Rested) /\ (~r.once => ws = "open") /\ server.scheme = "xvp" /\ ~r.ra2 /\ r.ard = "none"
    BY <1>1, InLoop DEF Asking
  <1>3. PICK k \in {Len(sent)} : TRUE
    OBVIOUS
  <1>4. ASSUME ws = "open"
        PROVE  Left(k) = <<>>
    <2>1. Place(k)
      BY <1>4, FirstLeft
    <2>2. k = Base
      BY <2>1 DEF Place
    <2>3. Authentication(server) # <<>> /\ Authentication(server)[1].send = <<>>
      BY <1>1, <1>2, SchemeTalk
    <2> QED
      BY <1>1, <1>2, <2>2, <2>3, FirstAnswer
  <1>5. Rested
    <2>1. CASE ~r.once
      <3>1. rq = <<>>
        BY <1>2, <1>4, <2>1, FirstLeft
      <3> QED
        BY <1>2, <3>1 DEF Rested
    <2> QED
      BY <1>2, <2>1
  <1>6. Ask("full")
    BY DEF XvpAuth
  <1> QED
    BY <1>5, <1>6, AskKeeps

\* _negotiateVeNCryptAuth, version and subtypes in turn.
LEMMA VeNCryptAuthStep ==
  ASSUME SesInv, InitMsg, r.init = "Authentication", r.scheme = "vencrypt", VeNCryptAuth
  PROVE  SesInv'
  <1>1. SesTypes /\ Ending /\ Asking /\ Looping
    BY DEF SesInv
  <1>2. r.loop /\ ~r.once /\ ws = "open" /\ r.conn = "connecting" /\ server.scheme = "vencrypt" /\ r.ard = "none" /\ ~r.ra2
    BY <1>1, InLoop DEF Asking
  <1>3. PICK k \in {Len(sent)} : TRUE
    OBVIOUS
  <1>w. "version" \in Words /\ "version" \in Words /\ "subtypes" \in Words /\ "subtype" \in Words
        /\ <<"version">> \in Seq(Words) /\ <<"subtype">> \in Seq(Words)
    BY Sends DEF Words
  <1>4. /\ k \in Nat /\ Base \in {1, 2} /\ Parts = Base + 3
        /\ (k = Base /\ Left(k) = <<"version">>) \/ (k = Base + 1 /\ Left(k) = <<"subtypes">>)
        /\ Talk[Base + 1].expect = "version" /\ Talk[Base + 2].expect = "subtype"
    <2>1. Place(k) /\ k \in Nat /\ Base \in {1, 2}
      BY <1>2, FirstLeft DEF Base
    <2>2. k \in {Base, Base + 1}
      BY <2>1 DEF Place
    <2>3. /\ Authentication(server) # <<>> /\ Authentication(server)[1].send = <<"version">>
          /\ Talk[Base + 1].send = <<"subtypes">> /\ Parts = Base + 3
          /\ Talk[Base + 1].expect = "version" /\ Talk[Base + 2].expect = "subtype"
      BY <1>1, <1>2, SchemeTalk
    <2>4. CASE k = Base
      BY <1>1, <1>2, <2>1, <2>3, <2>4, FirstAnswer
    <2>5. CASE k = Base + 1
      <3>1. k # 1
        BY <2>1, <2>5
      <3> QED
        BY <1>2, <2>1, <2>3, <2>5, <3>1 DEF Left
    <2> QED
      BY <2>2, <2>4, <2>5
  <1>5. rq # <<>> => Head1 = Head(Left(k)) /\ Tail(rq) = <<>>
    BY <1>1, <1>2, FirstLeft, Heading
  <1>6. /\ Head1 = "version" => k = Base /\ Tail(Left(k)) = <<>> /\ rq # <<>>
        /\ Head1 = "subtypes" => k = Base + 1 /\ Tail(Left(k)) = <<>> /\ rq # <<>>
        /\ Head1 \notin {"version", "subtypes"} => rq = <<>>
    <2>1. /\ Left(k) = <<"version">> => Head(Left(k)) = "version" /\ Tail(Left(k)) = <<>>
          /\ Left(k) = <<"subtypes">> => Head(Left(k)) = "subtypes" /\ Tail(Left(k)) = <<>>
      BY <1>w, Singles
    <2> QED
      BY <1>1, <1>4, <1>5, <2>1, Heading
  <1>7. CASE Head1 \notin {"version", "subtypes"}
    <2>1. Rested /\ Wait
      BY <1>2, <1>6, <1>7 DEF Rested, VeNCryptAuth
    <2> QED
      BY <1>2, <2>1, WaitKeeps
  <1>8. CASE Head1 = "version"
    <2>1. Turns(X, TRUE, <<"version">>, FALSE) /\ rq # <<>>
      BY <1>6, <1>8 DEF VeNCryptAuth
    <2>2. Moves(X, r.init, r.scheme, r.ard, r.ra2)
      BY <1>1, MovesX
    <2>3. Turned(r.init, r.scheme, r.ard, r.ra2, TRUE, <<"version">>, FALSE)
      BY <1>1, <1>w, <2>1, <2>2, MovedTurn
    <2>4. rq' = <<>> /\ UNCHANGED server /\ ws' = ws
      BY <1>5, <2>1, <2>3 DEF Turned
    <2>5. Asking'
      BY <1>1, <2>3 DEF Asking, Turned
    <2>6. Looping'
      BY <1>1, <1>2, <2>3, <2>4 DEF Looping, Rested, Turned
    <2>7. Spoken' /\ (ws' = "open" => Placed')
      <3>1. PICK n \in {k + 1} : TRUE
        OBVIOUS
      <3>2. Talk' = Talk /\ Parts' = Parts /\ Base' = Base
        BY <2>4, SameTalk
      <3>3. n = Base + 1 /\ n # 1 /\ n <= Len(Talk) /\ Talk[n].expect = "version"
        BY <1>1, <1>4, <1>6, <1>8, <3>1, TalkShape, SessionAssumption DEF SesTypes
      <3>4. Left(n)' = Talk[n].send
        BY <1>2, <2>3, <3>2, <3>3 DEF Left, Turned
      <3>5. Place(n)'
        BY <1>2, <2>3, <3>2, <3>3 DEF Place, Turned
      <3>6. ws = "open" =>
             /\ <<>> = IF TRUE THEN Tail(Left(k)) ELSE Left(k)
             /\ n <= Len(Talk) /\ Talk[n].expect = "version"
             /\ Place(n)' /\ Left(n)' = Talk[n].send
        BY <1>6, <1>8, <3>3, <3>4, <3>5
      <3> QED
        BY <1>w, <2>1, <2>2, <3>6, TurnSays
    <2> QED
      BY <2>3, <2>5, <2>6, <2>7 DEF SesInv, Turned
  <1>9. CASE Head1 = "subtypes"
    <2> DEFINE y == [X EXCEPT !.r.scheme = "plain"]
    <2>1. Turns(y, TRUE, <<"subtype">>, TRUE) /\ rq # <<>>
      BY <1>6, <1>9 DEF VeNCryptAuth
    <2>2. Moves(y, r.init, "plain", r.ard, r.ra2)
      BY <1>1, MovesX
    <2> HIDE DEF y
    <2>3. Turned(r.init, "plain", r.ard, r.ra2, TRUE, <<"subtype">>, TRUE)
      BY <1>1, <1>w, <2>1, <2>2, MovedTurn
    <2>4. rq' = <<>> /\ UNCHANGED server /\ ws' = ws
      BY <1>5, <2>1, <2>3 DEF Turned
    <2>5. Asking'
      BY <1>1, <1>2, <2>3 DEF Asking, Turned
    <2>6. Looping'
      BY <1>1, <1>2, <2>3, <2>4 DEF Looping, Rested, Turned
    <2>7. Spoken' /\ (ws' = "open" => Placed')
      <3>1. PICK n \in {k + 1} : TRUE
        OBVIOUS
      <3>2. Talk' = Talk /\ Parts' = Parts /\ Base' = Base
        BY <2>4, SameTalk
      <3>3. n = Base + 2 /\ n # 1 /\ n <= Len(Talk) /\ Talk[n].expect = "subtype"
        BY <1>1, <1>4, <1>6, <1>9, <3>1, TalkShape, SessionAssumption DEF SesTypes
      <3>4. Left(n)' = Talk[n].send
        BY <1>2, <2>3, <3>2, <3>3 DEF Left, Turned
      <3>5. Place(n)'
        BY <1>2, <2>3, <3>2, <3>3 DEF Place, Turned
      <3>6. ws = "open" =>
             /\ <<>> = IF TRUE THEN Tail(Left(k)) ELSE Left(k)
             /\ n <= Len(Talk) /\ Talk[n].expect = "subtype"
             /\ Place(n)' /\ Left(n)' = Talk[n].send
        BY <1>6, <1>9, <3>3, <3>4, <3>5
      <3> QED
        BY <1>w, <2>1, <2>2, <3>6, TurnSays
    <2> QED
      BY <2>3, <2>5, <2>6, <2>7 DEF SesInv, Turned
  <1> QED
    BY <1>7, <1>8, <1>9

\* _negotiateTightAuth, tunnels and subtypes in turn.
LEMMA TightAuthStep ==
  ASSUME SesInv, InitMsg, r.init = "Authentication", r.scheme = "tight", TightAuth
  PROVE  SesInv'
  <1>1. SesTypes /\ Ending /\ Asking /\ Looping
    BY DEF SesInv
  <1>2. r.loop /\ ~r.once /\ ws = "open" /\ r.conn = "connecting" /\ server.scheme = "tight" /\ r.ard = "none" /\ ~r.ra2
    BY <1>1, InLoop DEF Asking
  <1>3. PICK k \in {Len(sent)} : TRUE
    OBVIOUS
  <1>w. "tunnels" \in Words /\ "notunnel" \in Words /\ "subauths" \in Words /\ "subauth" \in Words
        /\ <<"notunnel">> \in Seq(Words) /\ <<"subauth">> \in Seq(Words)
    BY Sends DEF Words
  <1>4. /\ k \in Nat /\ Base \in {1, 2} /\ Parts = Base + 3
        /\ (k = Base /\ Left(k) = <<"tunnels">>) \/ (k = Base + 1 /\ Left(k) = <<"subauths">>)
        /\ Talk[Base + 1].expect = "notunnel" /\ Talk[Base + 2].expect = "subauth"
    <2>1. Place(k) /\ k \in Nat /\ Base \in {1, 2}
      BY <1>2, FirstLeft DEF Base
    <2>2. k \in {Base, Base + 1}
      BY <2>1 DEF Place
    <2>3. /\ Authentication(server) # <<>> /\ Authentication(server)[1].send = <<"tunnels">>
          /\ Talk[Base + 1].send = <<"subauths">> /\ Parts = Base + 3
          /\ Talk[Base + 1].expect = "notunnel" /\ Talk[Base + 2].expect = "subauth"
      BY <1>1, <1>2, SchemeTalk
    <2>4. CASE k = Base
      BY <1>1, <1>2, <2>1, <2>3, <2>4, FirstAnswer
    <2>5. CASE k = Base + 1
      <3>1. k # 1
        BY <2>1, <2>5
      <3> QED
        BY <1>2, <2>1, <2>3, <2>5, <3>1 DEF Left
    <2> QED
      BY <2>2, <2>4, <2>5
  <1>5. rq # <<>> => Head1 = Head(Left(k)) /\ Tail(rq) = <<>>
    BY <1>1, <1>2, FirstLeft, Heading
  <1>6. /\ Head1 = "tunnels" => k = Base /\ Tail(Left(k)) = <<>> /\ rq # <<>>
        /\ Head1 = "subauths" => k = Base + 1 /\ Tail(Left(k)) = <<>> /\ rq # <<>>
        /\ Head1 \notin {"tunnels", "subauths"} => rq = <<>>
    <2>1. /\ Left(k) = <<"tunnels">> => Head(Left(k)) = "tunnels" /\ Tail(Left(k)) = <<>>
          /\ Left(k) = <<"subauths">> => Head(Left(k)) = "subauths" /\ Tail(Left(k)) = <<>>
      BY <1>w, Singles
    <2> QED
      BY <1>1, <1>4, <1>5, <2>1, Heading
  <1>7. CASE Head1 \notin {"tunnels", "subauths"}
    <2>1. Rested /\ Wait
      BY <1>2, <1>6, <1>7 DEF Rested, TightAuth
    <2> QED
      BY <1>2, <2>1, WaitKeeps
  <1>8. CASE Head1 = "tunnels"
    <2>1. Turns(X, TRUE, <<"notunnel">>, FALSE) /\ rq # <<>>
      BY <1>6, <1>8 DEF TightAuth
    <2>2. Moves(X, r.init, r.scheme, r.ard, r.ra2)
      BY <1>1, MovesX
    <2>3. Turned(r.init, r.scheme, r.ard, r.ra2, TRUE, <<"notunnel">>, FALSE)
      BY <1>1, <1>w, <2>1, <2>2, MovedTurn
    <2>4. rq' = <<>> /\ UNCHANGED server /\ ws' = ws
      BY <1>5, <2>1, <2>3 DEF Turned
    <2>5. Asking'
      BY <1>1, <2>3 DEF Asking, Turned
    <2>6. Looping'
      BY <1>1, <1>2, <2>3, <2>4 DEF Looping, Rested, Turned
    <2>7. Spoken' /\ (ws' = "open" => Placed')
      <3>1. PICK n \in {k + 1} : TRUE
        OBVIOUS
      <3>2. Talk' = Talk /\ Parts' = Parts /\ Base' = Base
        BY <2>4, SameTalk
      <3>3. n = Base + 1 /\ n # 1 /\ n <= Len(Talk) /\ Talk[n].expect = "notunnel"
        BY <1>1, <1>4, <1>6, <1>8, <3>1, TalkShape, SessionAssumption DEF SesTypes
      <3>4. Left(n)' = Talk[n].send
        BY <1>2, <2>3, <3>2, <3>3 DEF Left, Turned
      <3>5. Place(n)'
        BY <1>2, <2>3, <3>2, <3>3 DEF Place, Turned
      <3>6. ws = "open" =>
             /\ <<>> = IF TRUE THEN Tail(Left(k)) ELSE Left(k)
             /\ n <= Len(Talk) /\ Talk[n].expect = "notunnel"
             /\ Place(n)' /\ Left(n)' = Talk[n].send
        BY <1>6, <1>8, <3>3, <3>4, <3>5
      <3> QED
        BY <1>w, <2>1, <2>2, <3>6, TurnSays
    <2> QED
      BY <2>3, <2>5, <2>6, <2>7 DEF SesInv, Turned
  <1>9. CASE Head1 = "subauths"
    <2> DEFINE y == [X EXCEPT !.r.scheme = "plain"]
    <2>1. Turns(y, TRUE, <<"subauth">>, TRUE) /\ rq # <<>>
      BY <1>6, <1>9 DEF TightAuth
    <2>2. Moves(y, r.init, "plain", r.ard, r.ra2)
      BY <1>1, MovesX
    <2> HIDE DEF y
    <2>3. Turned(r.init, "plain", r.ard, r.ra2, TRUE, <<"subauth">>, TRUE)
      BY <1>1, <1>w, <2>1, <2>2, MovedTurn
    <2>4. rq' = <<>> /\ UNCHANGED server /\ ws' = ws
      BY <1>5, <2>1, <2>3 DEF Turned
    <2>5. Asking'
      BY <1>1, <1>2, <2>3 DEF Asking, Turned
    <2>6. Looping'
      BY <1>1, <1>2, <2>3, <2>4 DEF Looping, Rested, Turned
    <2>7. Spoken' /\ (ws' = "open" => Placed')
      <3>1. PICK n \in {k + 1} : TRUE
        OBVIOUS
      <3>2. Talk' = Talk /\ Parts' = Parts /\ Base' = Base
        BY <2>4, SameTalk
      <3>3. n = Base + 2 /\ n # 1 /\ n <= Len(Talk) /\ Talk[n].expect = "subauth"
        BY <1>1, <1>4, <1>6, <1>9, <3>1, TalkShape, SessionAssumption DEF SesTypes
      <3>4. Left(n)' = Talk[n].send
        BY <1>2, <2>3, <3>2, <3>3 DEF Left, Turned
      <3>5. Place(n)'
        BY <1>2, <2>3, <3>2, <3>3 DEF Place, Turned
      <3>6. ws = "open" =>
             /\ <<>> = IF TRUE THEN Tail(Left(k)) ELSE Left(k)
             /\ n <= Len(Talk) /\ Talk[n].expect = "subauth"
             /\ Place(n)' /\ Left(n)' = Talk[n].send
        BY <1>6, <1>9, <3>3, <3>4, <3>5
      <3> QED
        BY <1>w, <2>1, <2>2, <3>6, TurnSays
    <2> QED
      BY <2>3, <2>5, <2>6, <2>7 DEF SesInv, Turned
  <1> QED
    BY <1>7, <1>8, <1>9

\* A handler that gives up ends the session where the handshake is.
LEMMA FailTurn ==
  ASSUME SesInv, r.loop, NEW x \in Xs, EndsWell(x.r, x.p, x.ws), SameHandshake(r, x.r), SamePage(p, x.p),
         rq # <<>>, Tail(rq) = <<>>, Turns(Fail(x), TRUE, <<>>, FALSE),
         r.init \notin {"", "Authentication", "ClientInitialisation"}
  PROVE  SesInv'
  <1>1. SesTypes /\ Ending /\ Asking /\ Looping /\ Spoken
    BY DEF SesInv
  <1> DEFINE y == Fail(x)
  <1>2. /\ y \in Xs /\ SameHandshake(x.r, y.r) /\ SamePage(x.p, y.p) /\ EndsWell(y.r, y.p, y.ws)
        /\ y.r.conn = "disconnected" /\ y.ws \in {"closing", "closed"}
    BY FailFacts
  <1> HIDE DEF y
  <1>3. /\ SesTypes' /\ Ending'
        /\ p' = y.p /\ ws' = y.ws /\ SameRfb(y.r, r')
        /\ r'.loop = (FALSE /\ ~r.once /\ y.r.conn = "connecting")
        /\ rq' = (IF TRUE THEN Tail(rq) ELSE rq)
        /\ sent' = (IF y.ws = "open" THEN sent \o <<>> ELSE sent)
        /\ UNCHANGED <<server, inbox, served, viewOnly>>
    <2>1. <<>> \in Seq(Words)
      BY Sends
    <2>2. Turns(y, TRUE, <<>>, FALSE)
      BY DEF y
    <2> QED
      BY <1>1, <1>2, <2>1, <2>2, TurnsFacts
  <1>4. /\ r'.init = r.init /\ r'.scheme = r.scheme /\ r'.creds = r.creds /\ r'.resumes = r.resumes
        /\ r'.ard = r.ard /\ r'.ra2 = r.ra2 /\ r'.conn = "disconnected" /\ r'.loop = FALSE
        /\ p'.asked = p.asked /\ (p.dialog = "hidden" => p'.dialog = "hidden")
        /\ ws' \in {"closing", "closed"} /\ rq' = <<>> /\ sent' = sent
    BY <1>2, <1>3 DEF SameHandshake, SamePage, SameRfb
  <1>5. Asking'
    BY <1>1, <1>3, <1>4 DEF Asking
  <1>6. Looping'
    BY <1>1, <1>4, <1>5 DEF Looping, Rested, Asking
  <1>7. Spoken'
    BY <1>1, <1>3, <1>4, SameTalk DEF Spoken
  <1> QED
    BY <1>3, <1>4, <1>5, <1>6, <1>7 DEF SesInv

\* _negotiateSecurity chooses a scheme, skips the choice in 3.3 or gives up.
LEMMA SecurityStep ==
  ASSUME SesInv, InitMsg, r.init = "Security", Security
  PROVE  SesInv'
  <1>1. SesTypes /\ Ending /\ Asking /\ Looping
    BY DEF SesInv
  <1>2. /\ r.loop /\ ~r.once /\ ws = "open" /\ r.conn = "connecting" /\ r.scheme = "none"
        /\ r.ard = "none" /\ ~r.ra2 /\ p.asked = "none"
    BY <1>1, InLoop DEF Asking
  <1>3. PICK k \in {Len(sent)} : TRUE
    OBVIOUS
  <1> DEFINE au == Authentication(server)
  <1>4. k = 1 /\ Left(k) = Talk[1].send
    <2>1. Place(k)
      BY <1>2, FirstLeft
    <2>2. k = 1
      BY <2>1 DEF Place
    <2> QED
      BY <1>2, <2>2 DEF Left
  <1>w. /\ "types" \in Words /\ "reason" \in Words /\ "choice" \in Words /\ <<"choice">> \in Seq(Words)
        /\ <<>> \in Seq(Words) /\ <<"reason">> \in Seq(Words)
    BY Sends DEF Words
  <1>5. /\ Head(Left(k)) = "types"
        /\ server.scheme = "empty" => Tail(Left(k)) = <<"reason">>
        /\ server.scheme # "empty" /\ (~server.old \/ au = <<>>) => Tail(Left(k)) = <<>>
        /\ server.scheme # "empty" /\ server.old /\ au # <<>> => Tail(Left(k)) = au[1].send
    <2>1. /\ au \in Seq(TurnSet)
          /\ server.scheme = "empty" => Talk[1].send = <<"types", "reason">>
          /\ server.scheme # "empty" /\ (~server.old \/ au = <<>>) => Talk[1].send = <<"types">>
          /\ server.scheme # "empty" /\ server.old /\ au # <<>> => Talk[1].send = <<"types">> \o au[1].send
      BY <1>1, TalkParts
    <2>2. au # <<>> => au[1].send \in Seq(Words)
      <3>1. au # <<>> => au[1] \in TurnSet
        BY <2>1
      <3> QED
        BY <3>1 DEF TurnSet
    <2> HIDE DEF au
    <2>3. /\ \A v, w \in Words : Head(<<v, w>>) = v /\ Tail(<<v, w>>) = <<w>>
          /\ \A w \in Words, s \in Seq(Words) : Head(<<w>> \o s) = w /\ Tail(<<w>> \o s) = s
      OBVIOUS
    <2>4. CASE server.scheme = "empty"
      <3>1. Left(k) = <<"types", "reason">>
        BY <1>4, <2>1, <2>4
      <3>2. Head(<<"types", "reason">>) = "types" /\ Tail(<<"types", "reason">>) = <<"reason">>
        BY <1>w, <2>3
      <3> QED
        BY <2>4, <3>1, <3>2
    <2>5. CASE server.scheme # "empty" /\ (~server.old \/ au = <<>>)
      BY <1>4, <1>w, <2>1, <2>5, Singles
    <2>6. CASE server.scheme # "empty" /\ server.old /\ au # <<>>
      <3>1. Left(k) = <<"types">> \o au[1].send /\ au[1].send \in Seq(Words)
        BY <1>4, <2>1, <2>2, <2>6
      <3>2. \A s \in Seq(Words) : Head(<<"types">> \o s) = "types" /\ Tail(<<"types">> \o s) = s
        BY <1>w, <2>3
      <3>3. Head(Left(k)) = "types" /\ Tail(Left(k)) = au[1].send
        BY <3>1, <3>2
      <3> QED
        BY <2>6, <3>3
    <2> QED
      BY <2>4, <2>5, <2>6
  <1> HIDE DEF au
  <1>6. rq # <<>> => Head1 = "types" /\ Tail(rq) = <<>>
    BY <1>1, <1>2, <1>5, FirstLeft, Heading
  <1>7. CASE Head1 # "types"
    <2>1. Wait /\ Rested
      BY <1>2, <1>6, <1>7 DEF Security, Rested
    <2> QED
      BY <1>2, <2>1, WaitKeeps
  <1>8. CASE Head1 = "types" /\ server.scheme = "empty"
    <2> DEFINE y == To("SecurityReason")
    <2>1. Turns(y, TRUE, <<>>, TRUE) /\ rq # <<>>
      BY <1>1, <1>8, Heading DEF Security
    <2>2. Moves(y, "SecurityReason", r.scheme, r.ard, r.ra2)
      <3>1. "SecurityReason" \in Inits
        BY DEF Inits
      <3> QED
        BY <1>1, <3>1, MovesX
    <2> HIDE DEF y
    <2>3. Turned("SecurityReason", r.scheme, r.ard, r.ra2, TRUE, <<>>, TRUE)
      BY <1>1, <1>w, <2>1, <2>2, MovedTurn
    <2>4. Parts = 1 /\ Parts' = Parts
      BY <1>1, <1>8, <2>3, SchemeTalk, SameTalk DEF Turned
    <2>5. Asking'
      BY <1>1, <1>2, <2>3 DEF Asking, Turned
    <2>6. Looping'
      BY <1>1, <1>2, <2>3 DEF Looping, Turned
    <2>7. ws = "open" => Place(k)' /\ Left(k)' = IF TRUE THEN Tail(Left(k)) ELSE Left(k)
      <3>1. Place(k)'
        BY <1>4, <2>3, <2>4 DEF Place, Turned
      <3>2. Left(k)' = <<"reason">>
        BY <1>2, <2>3 DEF Left, Turned
      <3> QED
        BY <1>5, <1>8, <3>1, <3>2
    <2>8. Spoken' /\ (ws' = "open" => Placed')
      BY <2>1, <2>2, <2>7, TurnReads
    <2> QED
      BY <2>3, <2>5, <2>6, <2>8 DEF SesInv, Turned
  <1>9. CASE Head1 = "types" /\ server.scheme = "unsupported"
    <2>1. Turns(Fail(X), TRUE, <<>>, FALSE) /\ rq # <<>>
      BY <1>1, <1>9, Heading DEF Security
    <2>2. X \in Xs /\ EndsWell(X.r, X.p, X.ws) /\ SameHandshake(r, X.r) /\ SamePage(p, X.p)
      <3>1. X \in Xs /\ EndsWell(X.r, X.p, X.ws) /\ X.r = r /\ X.p = p
        BY <1>1, XFacts
      <3> QED
        BY <3>1 DEF SameHandshake, SamePage
    <2> QED
      BY <1>2, <1>6, <2>1, <2>2, FailTurn
  <1>10. CASE Head1 = "types" /\ server.scheme \notin {"empty", "unsupported"} /\ server.old
    <2> DEFINE y == [To("Authentication") EXCEPT !.r.scheme = server.scheme]
    <2>1. Turns(y, TRUE, <<>>, TRUE) /\ rq # <<>>
      BY <1>1, <1>10, Heading DEF Security
    <2>2. Moves(y, "Authentication", server.scheme, r.ard, r.ra2)
      <3>1. "Authentication" \in Inits /\ server.scheme \in Schemes
        BY <1>1 DEF Inits, SesTypes, ServerSet
      <3> QED
        BY <1>1, <3>1, MovesX
    <2> HIDE DEF y
    <2>3. Turned("Authentication", server.scheme, r.ard, r.ra2, TRUE, <<>>, TRUE)
      BY <1>1, <1>w, <2>1, <2>2, MovedTurn
    <2>4. Base = 1 /\ Base' = Base /\ Authentication(server)' = au /\ UNCHANGED server
      BY <1>10, <2>3, SameTalk DEF Turned, Base, au
    <2>5. Asking'
      BY <1>1, <1>2, <1>10, <2>3 DEF Asking, Turned
    <2>6. Looping'
      BY <1>1, <1>2, <2>3 DEF Looping, Turned
    <2>7. ws = "open" => Place(k)' /\ Left(k)' = IF TRUE THEN Tail(Left(k)) ELSE Left(k)
      <3>0. server.scheme \in Schemes
        BY <1>1 DEF SesTypes, ServerSet
      <3>1. Place(k)'
        BY <1>4, <2>3, <2>4, <3>0 DEF Place, Turned, Schemes
      <3>2. Left(k)' = IF au = <<>> THEN <<>> ELSE au[1].send
        BY <1>2, <1>4, <2>3, <2>4 DEF Left, Turned
      <3> QED
        BY <1>5, <1>10, <3>1, <3>2
    <2>8. Spoken' /\ (ws' = "open" => Placed')
      BY <2>1, <2>2, <2>7, TurnReads
    <2> QED
      BY <2>3, <2>5, <2>6, <2>8 DEF SesInv, Turned
  <1>11. CASE Head1 = "types" /\ server.scheme \notin {"empty", "unsupported"} /\ ~server.old
    <2> DEFINE y == [To("Authentication") EXCEPT !.r.scheme = server.scheme]
    <2>1. Turns(y, TRUE, <<"choice">>, TRUE) /\ rq # <<>>
      BY <1>1, <1>11, Heading DEF Security
    <2>0. "Authentication" \in Inits /\ server.scheme \in Schemes
      BY <1>1 DEF Inits, SesTypes, ServerSet
    <2>2. Moves(y, "Authentication", server.scheme, r.ard, r.ra2)
      BY <1>1, <2>0, MovesX
    <2> HIDE DEF y
    <2>3. Turned("Authentication", server.scheme, r.ard, r.ra2, TRUE, <<"choice">>, TRUE)
      BY <1>1, <1>w, <2>1, <2>2, MovedTurn
    <2>4. Base = 2 /\ Base' = Base /\ Talk' = Talk /\ UNCHANGED server
      BY <1>11, <2>3, SameTalk DEF Turned, Base
    <2>5. Asking'
      BY <1>1, <1>2, <1>11, <2>3 DEF Asking, Turned
    <2>6. Looping'
      BY <1>1, <1>2, <2>3 DEF Looping, Turned
    <2>7. Spoken' /\ (ws' = "open" => Placed')
      <3>1. PICK n \in {k + 1} : TRUE
        OBVIOUS
      <3>2. n = 2 /\ n <= Len(Talk) /\ Talk[2].expect = "choice"
        <4>1. au \in Seq(TurnSet) /\ \A j \in 1..Len(au) : j > 1 \/ ~server.old => Talk[Base - 1 + j] = au[j]
          BY <1>1, TalkParts DEF au
        <4>2. au # <<>> /\ au[1].expect = "choice" /\ Parts >= 2
          BY <1>1, <1>11, <2>0, <2>4, SchemeTalk DEF au, Schemes
        <4>3. 1 \in 1..Len(au) /\ Base - 1 + 1 = 2
          BY <2>4, <4>1, <4>2
        <4>4. Talk[2] = au[1]
          BY <1>11, <4>1, <4>3
        <4>5. 2 <= Len(Talk)
          BY <1>1, <4>2, TalkShape, SessionAssumption DEF SesTypes
        <4> QED
          BY <1>4, <3>1, <4>2, <4>4, <4>5
      <3>4. Left(n)' = Talk[n].send
        BY <1>2, <2>3, <2>4, <3>2 DEF Left, Turned
      <3>5. Place(n)'
        BY <1>2, <2>0, <2>3, <2>4, <3>2 DEF Place, Turned, Schemes
      <3>6. ws = "open" =>
             /\ <<>> = IF TRUE THEN Tail(Left(k)) ELSE Left(k)
             /\ n <= Len(Talk) /\ Talk[n].expect = "choice"
             /\ Place(n)' /\ Left(n)' = Talk[n].send
        BY <1>5, <1>11, <3>2, <3>4, <3>5
      <3> QED
        BY <1>w, <2>1, <2>2, <3>6, TurnSays
    <2> QED
      BY <2>3, <2>5, <2>6, <2>7 DEF SesInv, Turned
  <1> QED
    BY <1>7, <1>8, <1>9, <1>10, <1>11

\* The result of the security handshake is the server's verdict.
LEMMA ResultLeft ==
  ASSUME SesTypes, server.scheme \notin {"empty", "unsupported", "ra2", "xvp"}, server.scheme = "none" => ~server.old
  PROVE  Talk[Parts].send = Verdict(server)
  <1>1. server.scheme \in Schemes
    BY DEF SesTypes, ServerSet
  <1>2. CASE server.scheme = "none"
    <2> DEFINE au == Authentication(server)
    <2>1. /\ au \in Seq(TurnSet) /\ Base = (IF server.old THEN 1 ELSE 2)
          /\ \A j \in 1..Len(au) : j > 1 \/ ~server.old => Talk[Base - 1 + j] = au[j]
      BY TalkParts
    <2>2. au # <<>> /\ au[1].send = Verdict(server) /\ Parts = Base
      BY <1>2, SchemeTalk
    <2> HIDE DEF au
    <2>3. 1 \in 1..Len(au) /\ Base - 1 + 1 = 2 /\ Parts = 2
      BY <1>2, <2>1, <2>2
    <2>4. Talk[2] = au[1]
      BY <1>2, <2>1, <2>3
    <2> QED
      BY <2>2, <2>3, <2>4
  <1>3. CASE server.scheme # "none"
    BY <1>1, <1>3, SchemeTalk DEF Schemes
  <1> QED
    BY <1>2, <1>3

\* The page hears of a refusal while its session is open.
LEMMA RefusalFacts ==
  ASSUME SesTypes, Ending, ws = "open"
  PROVE  LET x == [X EXCEPT !.p = Dispatch(@, "securityfailure")]
         IN  /\ x \in Xs /\ EndsWell(x.r, x.p, x.ws) /\ SameHandshake(r, x.r) /\ SamePage(p, x.p)
  <1> DEFINE x == [X EXCEPT !.p = Dispatch(@, "securityfailure")]
  <1>1. X \in Xs /\ X.r = r /\ X.p = p /\ X.ws = ws
    BY XFacts
  <1>2. p \in Pages /\ p.closed = FALSE /\ p.late \in BOOLEAN /\ (p.late => server.scheme = "xvp")
    <2>1. p \in Pages /\ p.closed \in BOOLEAN /\ p.late \in BOOLEAN
      BY DEF SesTypes, Pages
    <2> QED
      BY <2>1 DEF Ending, EndsWell
  <1>3. /\ Dispatch(p, "securityfailure") \in Pages
        /\ Dispatch(p, "securityfailure").closed = (p.closed \/ "securityfailure" = "disconnect")
        /\ Dispatch(p, "securityfailure").late = (p.late \/ p.closed)
        /\ SamePage(p, Dispatch(p, "securityfailure"))
    BY <1>2, DispatchFacts
  <1>4. x \in Xs /\ x.r = r /\ x.p = Dispatch(p, "securityfailure") /\ x.ws = ws
    BY <1>1, <1>3 DEF Xs
  <1> HIDE DEF x
  <1>5. EndsWell(x.r, x.p, x.ws)
    BY <1>2, <1>3, <1>4 DEF Ending, EndsWell
  <1>6. SameHandshake(r, x.r) /\ SamePage(p, x.p)
    BY <1>3, <1>4 DEF SameHandshake
  <1> QED
    BY <1>4, <1>5, <1>6 DEF x

\* _handleSecurityResult: on, or to the reason.
LEMMA SecurityResultStep ==
  ASSUME SesInv, InitMsg, r.init = "SecurityResult", SecurityResult
  PROVE  SesInv'
  <1>1. SesTypes /\ Ending /\ Asking /\ Looping
    BY DEF SesInv
  <1>2. /\ r.loop /\ r.ard = "none" /\ ~r.ra2 /\ (r.once => rq = <<>>)
        /\ ~r.once => ws = "open" /\ r.conn = "connecting"
    BY <1>1, InLoop DEF Asking, Rested
  <1>3. PICK k \in {Len(sent)} : TRUE
    OBVIOUS
  <1>w. /\ "ok" \in Words /\ "failed" \in Words /\ "reason" \in Words /\ <<>> \in Seq(Words)
    BY Sends DEF Words
  <1>4. ASSUME ws = "open" PROVE k = Parts /\ Left(k) = Verdict(server)
    <2>1. Place(k)
      BY <1>4, FirstLeft
    <2>2. /\ k = Parts /\ server.scheme \notin {"empty", "unsupported", "ra2", "xvp"}
          /\ server.scheme = "none" => ~server.old
      BY <2>1 DEF Place
    <2> QED
      BY <1>1, <1>2, <2>2, ResultLeft DEF Left
  <1>5. /\ server.accepts => Head(Verdict(server)) = "ok" /\ Tail(Verdict(server)) = <<>>
        /\ ~server.accepts => Head(Verdict(server)) = "failed"
        /\ ~server.accepts /\ ~server.old => Tail(Verdict(server)) = <<"reason">>
    <2>1. \A v, w \in Words : Head(<<v, w>>) = v /\ Tail(<<v, w>>) = <<w>>
      OBVIOUS
    <2>2. /\ Head(<<"ok">>) = "ok" /\ Tail(<<"ok">>) = <<>> /\ Head(<<"failed">>) = "failed"
          /\ Head(<<"failed", "reason">>) = "failed" /\ Tail(<<"failed", "reason">>) = <<"reason">>
      BY <1>w, <2>1, Singles
    <2>3. CASE server.accepts
      BY <2>2, <2>3 DEF Verdict
    <2>4. CASE ~server.accepts /\ server.old
      BY <2>2, <2>4 DEF Verdict
    <2>5. CASE ~server.accepts /\ ~server.old
      BY <2>2, <2>5 DEF Verdict
    <2> QED
      BY <2>3, <2>4, <2>5
  <1>6. rq # <<>> =>
          /\ ~r.once /\ ws = "open" /\ r.conn = "connecting" /\ Tail(rq) = <<>>
          /\ Head1 = IF server.accepts THEN "ok" ELSE "failed"
    <2>1. SUFFICES ASSUME rq # <<>> PROVE
             /\ ~r.once /\ ws = "open" /\ r.conn = "connecting" /\ Tail(rq) = <<>>
             /\ Head1 = IF server.accepts THEN "ok" ELSE "failed"
      OBVIOUS
    <2>2. ~r.once /\ ws = "open" /\ r.conn = "connecting"
      BY <1>2, <2>1
    <2>3. Head(rq) = Head(Left(k)) /\ Tail(rq) = <<>> /\ Head1 = Head(rq)
      BY <1>1, <2>1, <2>2, FirstLeft, Heading
    <2> QED
      BY <1>4, <1>5, <2>2, <2>3
  <1>7. CASE Head1 \notin {"ok", "failed"}
    <2>1. Wait /\ Rested
      BY <1>2, <1>6, <1>7 DEF SecurityResult, Rested
    <2> QED
      BY <1>2, <2>1, WaitKeeps
  <1>8. CASE Head1 = "ok"
    <2> DEFINE y == To("ClientInitialisation")
    <2>1. Turns(y, TRUE, <<>>, TRUE) /\ rq # <<>>
      BY <1>1, <1>8, Heading DEF SecurityResult
    <2>2. Moves(y, "ClientInitialisation", r.scheme, r.ard, r.ra2)
      <3>1. "ClientInitialisation" \in Inits
        BY DEF Inits
      <3> QED
        BY <1>1, <3>1, MovesX
    <2> HIDE DEF y
    <2>3. Turned("ClientInitialisation", r.scheme, r.ard, r.ra2, TRUE, <<>>, TRUE)
      BY <1>1, <1>w, <2>1, <2>2, MovedTurn
    <2>4. Parts' = Parts
      BY <2>3, SameTalk DEF Turned
    <2>5. Asking'
      BY <1>1, <1>2, <2>3 DEF Asking, Turned
    <2>6. Looping'
      BY <1>1, <1>2, <1>6, <2>1, <2>3 DEF Looping, Turned
    <2>7. ws = "open" => Place(k)' /\ Left(k)' = IF TRUE THEN Tail(Left(k)) ELSE Left(k)
      <3>1. ws = "open" => Place(k)'
        BY <1>4, <2>3, <2>4 DEF Place, Turned
      <3>2. Left(k)' = <<>>
        BY <2>3 DEF Left, Turned
      <3> QED
        BY <1>4, <1>5, <1>6, <1>8, <2>1, <3>1, <3>2
    <2>8. Spoken' /\ (ws' = "open" => Placed')
      BY <2>1, <2>2, <2>7, TurnReads
    <2> QED
      BY <2>3, <2>5, <2>6, <2>8 DEF SesInv, Turned
  <1>9. CASE Head1 = "failed" /\ server.old
    <2> DEFINE x == [X EXCEPT !.p = Dispatch(@, "securityfailure")]
    <2>1. Turns(Fail(x), TRUE, <<>>, FALSE) /\ rq # <<>>
      BY <1>1, <1>9, Heading DEF SecurityResult
    <2>2. /\ x \in Xs /\ EndsWell(x.r, x.p, x.ws) /\ SameHandshake(r, x.r) /\ SamePage(p, x.p)
      BY <1>1, <1>6, <2>1, RefusalFacts
    <2> HIDE DEF x
    <2> QED
      BY <1>2, <1>6, <2>1, <2>2, FailTurn
  <1>10. CASE Head1 = "failed" /\ ~server.old
    <2> DEFINE y == To("SecurityReason")
    <2>1. Turns(y, TRUE, <<>>, TRUE) /\ rq # <<>>
      BY <1>1, <1>10, Heading DEF SecurityResult
    <2>2. Moves(y, "SecurityReason", r.scheme, r.ard, r.ra2)
      <3>1. "SecurityReason" \in Inits
        BY DEF Inits
      <3> QED
        BY <1>1, <3>1, MovesX
    <2> HIDE DEF y
    <2>3. Turned("SecurityReason", r.scheme, r.ard, r.ra2, TRUE, <<>>, TRUE)
      BY <1>1, <1>w, <2>1, <2>2, MovedTurn
    <2>4. Parts' = Parts
      BY <2>3, SameTalk DEF Turned
    <2>5. Asking'
      BY <1>1, <1>2, <2>3 DEF Asking, Turned
    <2>6. Looping'
      BY <1>1, <1>2, <1>6, <2>1, <2>3 DEF Looping, Turned
    <2>7. ws = "open" => Place(k)' /\ Left(k)' = IF TRUE THEN Tail(Left(k)) ELSE Left(k)
      <3>1. ws = "open" => Place(k)'
        BY <1>4, <2>3, <2>4 DEF Place, Turned
      <3>2. Left(k)' = <<"reason">>
        BY <1>2, <2>3 DEF Left, Turned
      <3> QED
        BY <1>4, <1>5, <1>6, <1>10, <2>1, <3>1, <3>2
    <2>8. Spoken' /\ (ws' = "open" => Placed')
      BY <2>1, <2>2, <2>7, TurnReads
    <2> QED
      BY <2>3, <2>5, <2>6, <2>8 DEF SesInv, Turned
  <1> QED
    BY <1>7, <1>8, <1>9, <1>10

\* _handleSecurityReason tells the page and ends the session.
LEMMA SecurityReasonStep ==
  ASSUME SesInv, InitMsg, r.init = "SecurityReason", SecurityReason
  PROVE  SesInv'
  <1>1. SesTypes /\ Ending /\ Asking /\ Looping
    BY DEF SesInv
  <1>2. /\ r.loop /\ r.ard = "none" /\ ~r.ra2 /\ (r.once => rq = <<>>)
        /\ ~r.once => ws = "open" /\ r.conn = "connecting"
    BY <1>1, InLoop DEF Asking, Rested
  <1>3. PICK k \in {Len(sent)} : TRUE
    OBVIOUS
  <1>4. Left(k) = <<"reason">> /\ "reason" \in Words
    BY <1>2 DEF Left, Words
  <1>5. rq # <<>> => ws = "open" /\ Tail(rq) = <<>> /\ Head1 = "reason"
    <2>1. Head(<<"reason">>) = "reason"
      BY <1>4, Singles
    <2> QED
      BY <1>1, <1>2, <1>4, <2>1, FirstLeft, Heading
  <1>6. CASE Head1 # "reason"
    <2>1. Wait /\ Rested
      BY <1>2, <1>5, <1>6 DEF SecurityReason, Rested
    <2> QED
      BY <1>2, <2>1, WaitKeeps
  <1>7. CASE Head1 = "reason"
    <2> DEFINE x == [X EXCEPT !.p = Dispatch(@, "securityfailure")]
    <2>1. Turns(Fail(x), TRUE, <<>>, FALSE) /\ rq # <<>>
      BY <1>1, <1>7, Heading DEF SecurityReason
    <2>2. /\ x \in Xs /\ EndsWell(x.r, x.p, x.ws) /\ SameHandshake(r, x.r) /\ SamePage(p, x.p)
      BY <1>1, <1>5, <2>1, RefusalFacts
    <2> HIDE DEF x
    <2> QED
      BY <1>2, <1>5, <2>1, <2>2, FailTurn
  <1> QED
    BY <1>6, <1>7

\* ClientInit, without reading anything.
LEMMA ClientInitialisationStep ==
  ASSUME SesInv, InitMsg, r.init = "ClientInitialisation", ClientInitialisation
  PROVE  SesInv'
  <1>1. SesTypes /\ Ending /\ Asking /\ Looping
    BY DEF SesInv
  <1>2. r.loop /\ ~r.once /\ ws = "open" /\ r.conn = "connecting" /\ r.ard = "none" /\ ~r.ra2
    BY <1>1, InLoop DEF Asking, Rested
  <1>3. PICK k \in {Len(sent)} : TRUE
    OBVIOUS
  <1>4. Left(k) = <<>> /\ k = Parts
    <2>1. Place(k)
      BY <1>2, FirstLeft
    <2>2. k = Parts
      BY <2>1 DEF Place
    <2>3. Left(k) = <<>>
      BY DEF Left
    <2> QED
      BY <2>2, <2>3
  <1> DEFINE y == To("ServerInitialisation")
  <1>5. Turns(y, FALSE, <<"clientInit">>, TRUE)
    BY DEF ClientInitialisation
  <1>6. /\ Moves(y, "ServerInitialisation", r.scheme, r.ard, r.ra2)
        /\ "clientInit" \in Words /\ <<"clientInit">> \in Seq(Words)
    <2>1. "ServerInitialisation" \in Inits /\ "clientInit" \in Words
      BY DEF Inits, Words
    <2> QED
      BY <1>1, <2>1, MovesX, Sends
  <1> HIDE DEF y
  <1>7. Turned("ServerInitialisation", r.scheme, r.ard, r.ra2, FALSE, <<"clientInit">>, TRUE)
    BY <1>1, <1>5, <1>6, MovedTurn
  <1>8. Asking'
    BY <1>1, <1>2, <1>7 DEF Asking, Turned
  <1>9. Looping'
    BY <1>1, <1>2, <1>7 DEF Looping, Turned
  <1>10. Spoken' /\ (ws' = "open" => Placed')
    <2>1. PICK n \in {k + 1} : TRUE
      OBVIOUS
    <2>2. Talk' = Talk /\ Parts' = Parts
      BY <1>7, SameTalk DEF Turned
    <2>3. n = Parts + 1 /\ n <= Len(Talk) /\ Talk[n].expect = "clientInit"
      <3>1. Talk[Parts + 1] = Turn("clientInit", <<"serverInit">>) /\ Parts \in Nat /\ Len(Talk) = Parts + 2 + MaxUpdates
        BY <1>1, TalkShape DEF SesTypes
      <3>2. Talk[Parts + 1].expect = "clientInit"
        BY <3>1 DEF Turn
      <3> QED
        BY <1>4, <2>1, <3>1, <3>2, SessionAssumption
    <2>4. Left(n)' = Talk[n].send
      BY <1>2, <1>7, <2>2 DEF Left, Turned
    <2>5. Place(n)'
      BY <1>2, <1>7, <2>2, <2>3 DEF Place, Turned
    <2>6. ws = "open" =>
           /\ <<>> = IF FALSE THEN Tail(Left(k)) ELSE Left(k)
           /\ n <= Len(Talk) /\ Talk[n].expect = "clientInit"
           /\ Place(n)' /\ Left(n)' = Talk[n].send
      BY <1>4, <2>3, <2>4, <2>5
    <2> QED
      BY <1>5, <1>6, <2>6, TurnSays
  <1> QED
    BY <1>7, <1>8, <1>9, <1>10 DEF SesInv, Turned

\* What the server expects of a client that is connected.
LEMMA Requests ==
  ASSUME SesTypes
  PROVE  /\ \A n \in (Parts + 2)..Len(Talk) : Talk[n].expect = "request"
         /\ \A n \in (Parts + 2)..(Len(Talk) - 1) : Talk[n].send = <<"update">>
         /\ Talk[Len(Talk)].send = <<>> /\ Parts + 2 <= Len(Talk)
         /\ Talk[Parts + 1].send = <<"serverInit">> /\ Parts \in Nat /\ Len(Talk) \in Nat
  <1>1. /\ Talk \in Seq(TurnSet) /\ Parts \in Nat /\ Len(Talk) = Parts + 2 + MaxUpdates /\ MaxUpdates \in Nat
        /\ Talk[Parts + 1] = Turn("clientInit", <<"serverInit">>)
        /\ \A j \in (Parts + 2)..(Parts + 1 + MaxUpdates) : Talk[j] = Turn("request", <<"update">>)
        /\ Talk[Parts + 2 + MaxUpdates] = Turn("request", <<>>)
    BY TalkShape, SessionAssumption DEF SesTypes
  <1>2. /\ Turn("clientInit", <<"serverInit">>).send = <<"serverInit">>
        /\ Turn("request", <<"update">>).expect = "request" /\ Turn("request", <<"update">>).send = <<"update">>
        /\ Turn("request", <<>>).expect = "request" /\ Turn("request", <<>>).send = <<>>
    BY DEF Turn
  <1> QED
    BY <1>1, <1>2

\* _negotiateServerInit connects and asks for the first update.
LEMMA ServerInitialisationStep ==
  ASSUME SesInv, InitMsg, r.init = "ServerInitialisation", ServerInitialisation
  PROVE  SesInv'
  <1>1. SesTypes /\ Ending /\ Asking /\ Looping /\ Spoken /\ (ws = "open" => Placed)
    BY DEF SesInv
  <1>2. /\ r.loop /\ r.ard = "none" /\ ~r.ra2 /\ (r.once => rq = <<>>)
        /\ ~r.once => ws = "open" /\ r.conn = "connecting"
    BY <1>1, InLoop DEF Asking, Rested
  <1>3. PICK k \in {Len(sent)} : TRUE
    OBVIOUS
  <1>w. "serverInit" \in Words /\ "request" \in Words /\ <<"request">> \in Seq(Words)
    BY Sends DEF Words
  <1>4. ASSUME rq # <<>>
        PROVE  /\ ~r.once /\ ws = "open" /\ r.conn = "connecting" /\ k = Parts + 1 /\ Left(k) = <<"serverInit">>
               /\ Tail(rq) = <<>> /\ Head1 = "serverInit"
    <2>1. ~r.once /\ ws = "open" /\ r.conn = "connecting"
      BY <1>2, <1>4
    <2>2. Place(k) /\ Head(rq) = Head(Left(k)) /\ Tail(rq) = <<>> /\ Head1 = Head(rq)
      BY <1>1, <1>4, <2>1, FirstLeft, Heading
    <2>3. k = Parts + 1
      BY <2>1, <2>2 DEF Place
    <2>4. Left(k) = <<"serverInit">>
      BY <1>1, <1>2, <2>3, Requests DEF Left
    <2> QED
      BY <1>w, <2>1, <2>2, <2>3, <2>4, Singles
  <1>5. CASE Head1 # "serverInit"
    <2>1. Wait /\ Rested
      BY <1>2, <1>4, <1>5 DEF ServerInitialisation, Rested
    <2> QED
      BY <1>2, <2>1, WaitKeeps
  <1>6. CASE Head1 = "serverInit"
    <2> DEFINE x == [X EXCEPT !.r.grabbed = @ \/ ~viewOnly]
               y == UpdateConnectionState(x, "connected")
    <2>1. Turns(y, TRUE, <<"request">>, FALSE) /\ rq # <<>>
      BY <1>1, <1>6, Heading DEF ServerInitialisation
    <2>2. /\ ~r.once /\ ws = "open" /\ r.conn = "connecting" /\ k = Parts + 1 /\ Left(k) = <<"serverInit">>
          /\ Tail(rq) = <<>>
      BY <1>4, <2>1
    <2>3. /\ x \in Xs /\ x.p = p /\ x.ws = ws /\ SameHandshake(r, x.r)
          /\ x.r.conn = r.conn /\ x.r.onopen = r.onopen /\ x.r.onclose = r.onclose /\ x.r.timer = r.timer
      <3>1. X \in Xs /\ X.r = r /\ X.p = p /\ X.ws = ws
        BY <1>1, XFacts
      <3>2. (X.r.grabbed \/ ~viewOnly) \in BOOLEAN
        OBVIOUS
      <3> QED
        BY <3>1, <3>2 DEF Xs, RfbObjects, SameHandshake
    <2> HIDE DEF x
    <2>4. <<x.r.conn, "connected">> \in Legal /\ "connected" \in Conns
      BY <2>2, <2>3 DEF Legal, Conns
    <2>5. /\ y \in Xs /\ SameHandshake(x.r, y.r) /\ SamePage(x.p, y.p) /\ y.r.onopen = x.r.onopen
          /\ y.r.conn = "connected" /\ y.ws = x.ws /\ ~y.r.timer
          /\ y.r.onclose = (x.r.onclose /\ ~x.r.timer)
          /\ y.p.closed = x.p.closed /\ y.p.late = (x.p.late \/ x.p.closed)
      BY <2>3, <2>4, UpdateFacts
    <2> HIDE DEF y
    <2>6. EndsWell(y.r, y.p, y.ws)
      <3>1. p.closed = FALSE /\ (p.late => server.scheme = "xvp") /\ r.onclose = TRUE /\ r.timer = FALSE
        <4>1. p.closed \in BOOLEAN /\ p.late \in BOOLEAN /\ r.onclose \in BOOLEAN /\ r.timer \in BOOLEAN
          BY <1>1 DEF SesTypes, Pages, RfbObjects
        <4> QED
          BY <1>1, <2>2, <4>1 DEF Ending, EndsWell
      <3> QED
        BY <2>2, <2>3, <2>5, <3>1 DEF EndsWell
    <2>7. /\ SesTypes' /\ Ending'
          /\ p' = y.p /\ ws' = y.ws /\ SameRfb(y.r, r')
          /\ r'.loop = (FALSE /\ ~r.once /\ y.r.conn = "connecting")
          /\ rq' = (IF TRUE THEN Tail(rq) ELSE rq)
          /\ sent' = (IF y.ws = "open" THEN sent \o <<"request">> ELSE sent)
          /\ UNCHANGED <<server, inbox, served, viewOnly>>
      BY <1>1, <1>w, <2>1, <2>5, <2>6, TurnsFacts
    <2>8. /\ r'.init = r.init /\ r'.scheme = r.scheme /\ r'.creds = r.creds /\ r'.resumes = r.resumes
          /\ r'.ard = r.ard /\ r'.ra2 = r.ra2 /\ r'.conn = "connected" /\ r'.loop = FALSE /\ r'.once = r.once
          /\ p'.asked = p.asked /\ (p.dialog = "hidden" => p'.dialog = "hidden")
          /\ ws' = ws /\ rq' = <<>> /\ sent' = (IF ws = "open" THEN sent \o <<"request">> ELSE sent)
      BY <2>2, <2>3, <2>5, <2>7 DEF SameHandshake, SamePage, SameRfb
    <2>9. Asking'
      BY <1>1, <2>7, <2>8 DEF Asking
    <2>10. Looping'
      BY <1>1, <1>2, <2>2, <2>8 DEF Looping, Rested
    <2>11. Spoken' /\ (ws' = "open" => Placed')
      <3>1. PICK n \in {k + 1} : TRUE
        OBVIOUS
      <3>2. Talk' = Talk /\ Parts' = Parts
        BY <2>7, SameTalk
      <3>3. n = Parts + 2 /\ n <= Len(Talk) /\ Talk[n].expect = "request" /\ n > Parts + 1
        BY <1>1, <2>2, <3>1, Requests
      <3>4. Left(n)' = Talk[n].send
        BY <1>2, <2>8, <3>2 DEF Left
      <3>5. Place(n)'
        BY <2>8, <3>2, <3>3 DEF Place
      <3>6. ws = "open" =>
             /\ <<>> = IF TRUE THEN Tail(Left(k)) ELSE Left(k)
             /\ n <= Len(Talk) /\ Talk[n].expect = "request"
             /\ Place(n)' /\ Left(n)' = Talk[n].send
        BY <1>w, <2>2, <3>3, <3>4, <3>5, Singles
      <3> QED
        BY <1>1, <1>w, <2>1, <2>7, <2>8, <3>6, Says
    <2> QED
      BY <2>7, <2>9, <2>10, <2>11 DEF SesInv
  <1> QED
    BY <1>5, <1>6

\* The handshake, whatever its state.
LEMMA InitMsgStep ==
  ASSUME SesInv, InitMsg
  PROVE  SesInv'
  <1>1. r.init \in Inits /\ r.init # "" /\ r.loop /\ r.scheme \in Schemes \cup {"plain"}
    BY InLoop DEF SesInv, SesTypes, RfbObjects, Looping
  <1>2. CASE r.init = "ProtocolVersion"
    <2>1. Version
      BY <1>2 DEF InitMsg
    <2> QED
      BY <1>2, <2>1, VersionStep
  <1>3. CASE r.init = "Security"
    <2>1. Security
      BY <1>3 DEF InitMsg
    <2> QED
      BY <1>3, <2>1, SecurityStep
  <1>4. CASE r.init = "Authentication"
    <2>1. (CASE r.scheme = "none" -> AuthNone
            [] r.scheme = "vnc" -> StdVNCAuth
            [] r.scheme = "mslogon" -> MSLogonIIAuth
            [] r.scheme = "xvp" -> XvpAuth
            [] r.scheme = "vencrypt" -> VeNCryptAuth
            [] r.scheme = "tight" -> TightAuth
            [] r.scheme = "plain" -> PlainAuth
            [] r.scheme = "ard" -> ARDAuth
            [] r.scheme = "ra2" -> RA2neAuth)
      BY <1>4 DEF InitMsg
    <2>2. r.scheme \notin {"empty", "unsupported"}
      BY <1>4 DEF SesInv, Asking
    <2>3. CASE r.scheme = "none"
      BY <1>4, <2>1, <2>3, AuthNoneStep
    <2>4. CASE r.scheme = "vnc"
      BY <1>4, <2>1, <2>4, StdVNCAuthStep
    <2>5. CASE r.scheme = "mslogon"
      BY <1>4, <2>1, <2>5, MSLogonIIAuthStep
    <2>6. CASE r.scheme = "xvp"
      BY <1>4, <2>1, <2>6, XvpAuthStep
    <2>7. CASE r.scheme = "vencrypt"
      BY <1>4, <2>1, <2>7, VeNCryptAuthStep
    <2>8. CASE r.scheme = "tight"
      BY <1>4, <2>1, <2>8, TightAuthStep
    <2>9. CASE r.scheme = "plain"
      BY <1>4, <2>1, <2>9, PlainAuthStep
    <2>10. CASE r.scheme = "ard"
      BY <1>4, <2>1, <2>10, ARDAuthStep
    <2>11. CASE r.scheme = "ra2"
      BY <1>4, <2>1, <2>11, RA2neAuthStep
    <2> QED
      BY <1>1, <2>2, <2>3, <2>4, <2>5, <2>6, <2>7, <2>8, <2>9, <2>10, <2>11 DEF Schemes
  <1>5. CASE r.init = "SecurityResult"
    <2>1. SecurityResult
      BY <1>5 DEF InitMsg
    <2> QED
      BY <1>5, <2>1, SecurityResultStep
  <1>6. CASE r.init = "SecurityReason"
    <2>1. SecurityReason
      BY <1>6 DEF InitMsg
    <2> QED
      BY <1>6, <2>1, SecurityReasonStep
  <1>7. CASE r.init = "ClientInitialisation"
    <2>1. ClientInitialisation
      BY <1>7 DEF InitMsg
    <2> QED
      BY <1>7, <2>1, ClientInitialisationStep
  <1>8. CASE r.init = "ServerInitialisation"
    <2>1. ServerInitialisation
      BY <1>8 DEF InitMsg
    <2> QED
      BY <1>8, <2>1, ServerInitialisationStep
  <1> QED
    BY <1>1, <1>2, <1>3, <1>4, <1>5, <1>6, <1>7, <1>8 DEF Inits

\* Connected: an update is answered by the next request.
LEMMA NormalMsgStep ==
  ASSUME SesInv, NormalMsg
  PROVE  SesInv'
  <1>1. SesTypes /\ Ending /\ Asking /\ Looping
    BY DEF SesInv
  <1>2. /\ r.loop /\ ~r.once /\ r.conn = "connected" /\ ws = "open" /\ r.init = "ServerInitialisation"
        /\ r.ard = "none" /\ ~r.ra2
    BY <1>1 DEF NormalMsg, Looping, Asking
  <1>3. PICK k \in {Len(sent)} : TRUE
    OBVIOUS
  <1>4. Place(k) /\ k > Parts + 1 /\ k <= Len(Talk) /\ k \in Nat /\ Left(k) = Talk[k].send
    <2>1. Place(k) /\ k <= Len(Talk) /\ k \in Nat
      BY <1>2, FirstLeft
    <2>2. k > Parts + 1
      BY <1>2, <2>1 DEF Place
    <2>3. Left(k) = Talk[k].send
      BY <1>2 DEF Left
    <2> QED
      BY <2>1, <2>2, <2>3
  <1>5. CASE Head1 = "nothing" /\ Wait
    <2>1. Rested
      BY <1>1, <1>2, <1>5, Heading DEF Rested
    <2> QED
      BY <1>2, <1>5, <2>1, WaitKeeps
  <1>6. CASE Head1 # "nothing" /\ Turns(Fail(X), TRUE, <<>>, FALSE)
    <2>1. rq # <<>> /\ Tail(rq) = <<>>
      BY <1>1, <1>2, <1>6, FirstLeft, Heading
    <2>2. X \in Xs /\ EndsWell(X.r, X.p, X.ws) /\ SameHandshake(r, X.r) /\ SamePage(p, X.p)
      <3>1. X \in Xs /\ EndsWell(X.r, X.p, X.ws) /\ X.r = r /\ X.p = p
        BY <1>1, XFacts
      <3> QED
        BY <3>1 DEF SameHandshake, SamePage
    <2> QED
      BY <1>2, <1>6, <2>1, <2>2, FailTurn
  <1>7. CASE Head1 = "update" /\ Turns(X, TRUE, <<"request">>, FALSE)
    <2>1. rq # <<>> /\ Tail(rq) = <<>> /\ Left(k) # <<>>
      BY <1>1, <1>2, <1>7, FirstLeft, Heading
    <2>w. "request" \in Words /\ "update" \in Words /\ <<"request">> \in Seq(Words)
      BY Sends DEF Words
    <2>2. Moves(X, r.init, r.scheme, r.ard, r.ra2)
      BY <1>1, MovesX
    <2>3. Turned(r.init, r.scheme, r.ard, r.ra2, TRUE, <<"request">>, FALSE)
      BY <1>1, <1>7, <2>1, <2>2, <2>w, MovedTurn
    <2>4. k < Len(Talk) /\ Left(k) = <<"update">> /\ Tail(Left(k)) = <<>>
      <3>1. /\ \A n \in (Parts + 2)..(Len(Talk) - 1) : Talk[n].send = <<"update">>
            /\ Talk[Len(Talk)].send = <<>> /\ Parts \in Nat /\ Len(Talk) \in Nat
        BY <1>1, Requests
      <3>2. k # Len(Talk)
        BY <1>4, <2>1, <3>1
      <3>3. k \in (Parts + 2)..(Len(Talk) - 1)
        BY <1>4, <3>1, <3>2
      <3>4. Left(k) = <<"update">>
        BY <1>4, <3>1, <3>3
      <3> QED
        BY <1>4, <2>w, <3>1, <3>2, <3>4, Singles
    <2>5. Asking'
      BY <1>1, <2>3 DEF Asking, Turned
    <2>6. Looping'
      BY <1>1, <1>2, <2>1, <2>3 DEF Looping, Rested, Turned
    <2>7. Spoken' /\ (ws' = "open" => Placed')
      <3>1. PICK n \in {k + 1} : TRUE
        OBVIOUS
      <3>2. Talk' = Talk /\ Parts' = Parts
        BY <2>3, SameTalk DEF Turned
      <3>3. n <= Len(Talk) /\ Talk[n].expect = "request" /\ n > Parts + 1
        BY <1>1, <1>4, <2>4, <3>1, Requests
      <3>4. Left(n)' = Talk[n].send
        BY <1>2, <2>3, <3>2 DEF Left, Turned
      <3>5. Place(n)'
        BY <1>2, <2>3, <3>2, <3>3 DEF Place, Turned
      <3>6. ws = "open" =>
             /\ <<>> = IF TRUE THEN Tail(Left(k)) ELSE Left(k)
             /\ n <= Len(Talk) /\ Talk[n].expect = "request"
             /\ Place(n)' /\ Left(n)' = Talk[n].send
        BY <2>4, <3>3, <3>4, <3>5
      <3> QED
        BY <1>7, <2>1, <2>2, <2>w, <3>6, TurnSays
    <2> QED
      BY <2>3, <2>5, <2>6, <2>7 DEF SesInv, Turned
  <1> QED
    BY <1>5, <1>6, <1>7 DEF NormalMsg

-----------------------------------------------------------------------------
(***************************************************************************)
(* The server, the socket, the timers and the user.                        *)
(***************************************************************************)

\* A step that leaves handshake, queues and socket alone leaves the place alone.
LEMMA StillPlaced ==
  ASSUME SesInv, UNCHANGED <<server, rq, inbox, served, sent>>, ws' = "open" => ws = "open",
         r'.init = r.init, r'.scheme = r.scheme, r'.ard = "none" <=> r.ard = "none", r'.ra2 = r.ra2,
         ws' = "open" => r'.conn = r.conn
  PROVE  Spoken' /\ (ws' = "open" => Placed')
  <1>1. SesTypes /\ Spoken /\ (ws = "open" => Placed)
    BY DEF SesInv
  <1>2. PICK k \in {Len(sent)} : TRUE
    OBVIOUS
  <1>3. CASE ws' # "open"
    BY <1>1, <1>3, SameTalk DEF Spoken
  <1>4. CASE ws' = "open"
    <2>1. Place(k)' = Place(k) /\ Left(k)' = Left(k)
      BY <1>4, SamePlace
    <2>2. Place(k)
      BY <1>1, <1>4 DEF Placed
    <2>3. ws = "open" => Place(k)' /\ Left(k)' = IF FALSE THEN Tail(Left(k)) ELSE Left(k)
      BY <2>1, <2>2
    <2>4. rq' = (IF FALSE THEN Tail(rq) ELSE rq) /\ sent' = sent /\ UNCHANGED <<server, inbox, served>>
      OBVIOUS
    <2> QED
      BY <1>1, <2>3, <2>4, Reads
  <1> QED
    BY <1>3, <1>4

\* The server answers the oldest message it has not answered.
LEMMA ServerTurnStep ==
  ASSUME SesInv, ServerTurn
  PROVE  SesInv'
  <1>1. SesTypes /\ Ending /\ Asking /\ Looping /\ Spoken /\ (ws = "open" => Placed)
    BY DEF SesInv
  <1>2. /\ ws = "open" /\ ~r.loop /\ served < Len(sent) /\ served < Len(Talk) /\ served' = served + 1
        /\ inbox' = inbox \o Talk[served + 1].send /\ UNCHANGED <<server, ws, rq, sent, r, p, viewOnly>>
    BY DEF ServerTurn
  <1>3. PICK k \in {Len(sent)} : TRUE
    OBVIOUS
  <1>4. k \in Nat /\ served \in Nat /\ rq \in Seq(Words) /\ inbox \in Seq(Words) /\ Talk \in Seq(TurnSet)
        /\ Left(k) \in Seq(Words) /\ Place(k) /\ Owed(Left(k), Talk, k, served, rq, inbox)
    <2>1. Place(k) /\ Left(k) \in Seq(Words) /\ Talk \in Seq(TurnSet)
      BY <1>1, <1>2, FirstLeft, TalkShape DEF SesTypes
    <2> QED
      BY <1>1, <1>2, <2>1 DEF SesTypes, Placed
  <1>5. Talk[served + 1].send \in Seq(Words)
    <2>1. Talk[served + 1] \in TurnSet
      BY <1>2, <1>4
    <2> QED
      BY <2>1 DEF TurnSet
  <1>6. Owed(Left(k), Talk, k, served + 1, rq, inbox \o Talk[served + 1].send)
    BY <1>2, <1>4, Answered
  <1>7. Place(k)' = Place(k) /\ Left(k)' = Left(k) /\ Talk' = Talk
    BY <1>2, SamePlace, SameTalk
  <1>8. Placed'
    BY <1>2, <1>4, <1>6, <1>7 DEF Placed
  <1>9. SesTypes' /\ Ending'
    BY <1>1, <1>2, <1>4, <1>5 DEF SesTypes, Ending, EndsWell
  <1>10. Asking'
    BY <1>1, <1>2 DEF Asking
  <1>11. Looping'
    BY <1>1, <1>2 DEF Looping, Rested
  <1>12. Spoken'
    BY <1>1, <1>2, <1>7 DEF Spoken
  <1> QED
    BY <1>8, <1>9, <1>10, <1>11, <1>12 DEF SesInv

\* _socketOpen starts the handshake.
LEMMA SocketOpenStep ==
  ASSUME SesInv, SocketOpen
  PROVE  SesInv'
  <1>1. SesTypes /\ Ending /\ Asking /\ Looping /\ Spoken
    BY DEF SesInv
  <1>2. /\ ~r.loop /\ ws = "connecting" /\ ws' = "open" /\ inbox' = <<"version">>
        /\ r.onopen /\ r.init = "" /\ sent = <<>> /\ served = 0
        /\ r' = [r EXCEPT !.init = "ProtocolVersion"]
        /\ UNCHANGED <<server, rq, sent, served, p, viewOnly>>
    BY <1>1 DEF SocketOpen, Looping
  <1>3. /\ r' \in RfbObjects /\ r'.init = "ProtocolVersion"
        /\ r'.scheme = r.scheme /\ r'.conn = r.conn /\ r'.creds = r.creds
        /\ r'.listening = r.listening /\ r'.grabbed = r.grabbed /\ r'.onclose = r.onclose /\ r'.timer = r.timer
        /\ r'.onopen = r.onopen /\ r'.resumes = r.resumes /\ r'.ard = r.ard /\ r'.ra2 = r.ra2
        /\ r'.loop = r.loop /\ r'.once = r.once
    <2>1. r \in RfbObjects /\ "ProtocolVersion" \in Inits
      BY <1>1 DEF SesTypes, Inits
    <2> QED
      BY <1>2, <2>1 DEF RfbObjects
  <1>4. <<"version">> \in Seq(Words)
    BY Sends DEF Words
  <1>5. SesTypes'
    BY <1>1, <1>2, <1>3, <1>4 DEF SesTypes, WsStates
  <1>6. r.conn = "connecting"
    <2>1. r.conn \in Conns
      BY <1>1 DEF SesTypes, RfbObjects
    <2> QED
      BY <1>1, <1>2, <2>1 DEF Ending, EndsWell, Conns
  <1>7. Ending'
    BY <1>1, <1>2, <1>3, <1>6 DEF Ending, EndsWell
  <1>8. r.scheme = "none" /\ r.ard = "none" /\ ~r.ra2
    BY <1>1, <1>2 DEF Asking
  <1>9. Asking'
    BY <1>1, <1>2, <1>3, <1>8 DEF Asking
  <1>10. rq = <<>>
    BY <1>1, <1>2 DEF Looping, Rested
  <1>11. Looping'
    BY <1>1, <1>2, <1>3, <1>6, <1>8, <1>10 DEF Looping, Rested
  <1>12. Talk' = Talk /\ Talk \in Seq(TurnSet) /\ Len(Talk) \in Nat
    <2>1. Talk \in Seq(TurnSet)
      BY <1>1, TalkShape DEF SesTypes
    <2>2. Talk' = Talk
      BY <1>2, SameTalk
    <2> QED
      BY <2>1, <2>2
  <1>13. Spoken'
    BY <1>1, <1>2, <1>12 DEF Spoken
  <1>14. Placed'
    <2>1. PICK k \in {0} : TRUE
      OBVIOUS
    <2>2. Place(k)'
      BY <1>3, <2>1 DEF Place
    <2>3. Left(k)' = <<"version">>
      BY <1>3 DEF Left
    <2>4. Owed(<<"version">>, Talk, k, served, rq, inbox')
      <3>1. k = 0 /\ served = 0 /\ rq = <<>> /\ inbox' = <<"version">>
        BY <1>2, <1>10, <2>1
      <3>2. 0 <= Len(Talk)
        BY <1>12
      <3> QED
        BY <3>1, <3>2 DEF Owed, Line
    <2>5. k \in {Len(sent')}
      BY <1>2, <2>1
    <2> QED
      BY <1>2, <1>12, <2>2, <2>3, <2>4, <2>5 DEF Placed
  <1> QED
    BY <1>5, <1>7, <1>9, <1>11, <1>13, <1>14 DEF SesInv

\* A step after which the socket is not open, and the handshake where it was or,
\* by disconnect(), past the exchange of RA2.
LEMMA EndedStep ==
  ASSUME SesInv, ~r.loop, r' \in RfbObjects, p' \in Pages, ws' \in {"closing", "closed"}, Ending',
         r'.scheme = r.scheme, r'.creds = r.creds, r'.resumes = r.resumes, r'.ard = r.ard,
         r'.loop = r.loop, r'.once = r.once, SamePage(p, p'),
         \/ r'.init = r.init /\ r'.ra2 = r.ra2
         \/ r'.init = r.init /\ ~r'.ra2
         \/ r.ra2 /\ r'.init = "SecurityResult" /\ ~r'.ra2,
         r'.conn \in {"disconnecting", "disconnected"},
         inbox' \in Seq(Words), UNCHANGED <<server, rq, sent, served, viewOnly>>
  PROVE  SesInv'
  <1>1. SesTypes /\ Ending /\ Asking /\ Looping /\ Spoken
    BY DEF SesInv
  <1>2. SesTypes'
    BY <1>1 DEF SesTypes, WsStates
  <1>3. Asking'
    BY <1>1 DEF Asking, SamePage
  <1>4. Looping'
    <2>1. Rested
      BY <1>1 DEF Looping
    <2>2. r.ra2 => r.init = "Authentication" /\ r.scheme = "ra2" /\ rq = <<>> /\ r.ard = "none"
      BY <1>1, <2>1 DEF Asking, Rested
    <2> QED
      BY <1>1, <2>1, <2>2 DEF Looping, Rested
  <1>5. Spoken'
    BY <1>1, SameTalk DEF Spoken
  <1> QED
    BY <1>2, <1>3, <1>4, <1>5 DEF SesInv

\* _socketClose ends a session in whatever state it is.
LEMMA SocketClosesStep ==
  ASSUME SesInv, SocketCloses
  PROVE  SesInv'
  <1>1. SesTypes /\ Ending
    BY DEF SesInv
  <1> DEFINE x == [X EXCEPT !.ws = "closed"]
             y == IF r.onclose THEN SocketClose(x) ELSE x
  <1>2. /\ ~r.loop /\ Becomes(y) /\ inbox' = <<>> /\ UNCHANGED <<server, rq, sent, served, viewOnly>>
    BY DEF SocketCloses
  <1>3. x \in Xs /\ x.r = r /\ x.p = p /\ x.ws = "closed"
    <2>1. X \in Xs /\ X.r = r /\ X.p = p
      BY <1>1, XFacts
    <2> QED
      BY <2>1 DEF Xs, WsStates
  <1> HIDE DEF x
  <1>4. /\ y \in Xs /\ SameHandshake(r, y.r) /\ SamePage(p, y.p) /\ EndsWell(y.r, y.p, y.ws) /\ y.ws = "closed"
    <2>1. CASE r.onclose
      <3>1. ws \in WsStates /\ EndsWell(x.r, x.p, ws)
        BY <1>1, <1>3 DEF SesTypes, Ending
      <3>2. y = SocketClose(x)
        BY <2>1
      <3> HIDE DEF y
      <3>3. /\ y \in Xs /\ SameHandshake(x.r, y.r) /\ SamePage(x.p, y.p) /\ EndsWell(y.r, y.p, y.ws)
            /\ y.ws = "closed"
        BY <1>3, <3>1, <3>2, SocketCloseFacts
      <3> QED
        BY <1>3, <3>3
    <2>2. CASE ~r.onclose
      <3>1. y = x
        BY <2>2
      <3>2. EndsWell(x.r, x.p, x.ws)
        BY <1>1, <1>3, <2>2 DEF Ending, EndsWell
      <3> QED
        BY <1>3, <3>1, <3>2 DEF SameHandshake, SamePage
    <2> QED
      BY <2>1, <2>2
  <1> HIDE DEF y
  <1>5. r' = y.r /\ p' = y.p /\ ws' = y.ws
    BY <1>2 DEF Becomes
  <1>6. r' \in RfbObjects /\ p' \in Pages /\ ws' = "closed"
    BY <1>4, <1>5 DEF Xs
  <1>7. Ending'
    BY <1>2, <1>4, <1>5 DEF Ending, EndsWell
  <1>8. r'.conn \in {"disconnecting", "disconnected"}
    BY <1>6, <1>7 DEF Ending, EndsWell
  <1>9. inbox' \in Seq(Words)
    BY <1>2, Sends
  <1>10. /\ r'.scheme = r.scheme /\ r'.creds = r.creds /\ r'.resumes = r.resumes /\ r'.ard = r.ard
         /\ r'.loop = r.loop /\ r'.once = r.once /\ r'.init = r.init /\ r'.ra2 = r.ra2 /\ SamePage(p, p')
    BY <1>4, <1>5 DEF SameHandshake
  <1> QED
    BY <1>2, <1>6, <1>7, <1>8, <1>9, <1>10, EndedStep

\* The disconnect timer fires before the socket closed.
LEMMA DisconnectTimeoutStep ==
  ASSUME SesInv, DisconnectTimeout
  PROVE  SesInv'
  <1>1. SesTypes /\ Ending
    BY DEF SesInv
  <1> DEFINE x == [X EXCEPT !.r.timer = FALSE]
             y == UpdateConnectionState(x, "disconnected")
  <1>2. ~r.loop /\ r.timer /\ Becomes(y) /\ UNCHANGED <<server, inbox, rq, sent, served, viewOnly>>
    BY DEF DisconnectTimeout
  <1>3. /\ r.conn = "disconnecting" /\ ~r.listening /\ ~r.grabbed /\ ws \in {"closing", "closed"}
        /\ p.closed = FALSE /\ (p.late => server.scheme = "xvp") /\ r.onclose = TRUE
    <2>1. p.closed \in BOOLEAN /\ p.late \in BOOLEAN /\ r.onclose \in BOOLEAN
      BY <1>1 DEF SesTypes, RfbObjects, Pages
    <2> QED
      BY <1>1, <1>2, <2>1 DEF Ending, EndsWell
  <1>4. /\ x \in Xs /\ x.p = p /\ x.ws = ws /\ SameHandshake(r, x.r) /\ x.r.conn = r.conn
        /\ x.r.listening = r.listening /\ x.r.grabbed = r.grabbed /\ ~x.r.timer /\ x.r.onclose = r.onclose
    <2>1. X \in Xs /\ X.r = r /\ X.p = p /\ X.ws = ws
      BY <1>1, XFacts
    <2> QED
      BY <2>1 DEF Xs, RfbObjects, SameHandshake
  <1> HIDE DEF x
  <1>5. <<x.r.conn, "disconnected">> \in Legal /\ "disconnected" \in Conns
    BY <1>3, <1>4 DEF Legal, Conns
  <1>6. /\ y \in Xs /\ SameHandshake(x.r, y.r) /\ SamePage(x.p, y.p) /\ y.r.conn = "disconnected"
        /\ y.ws = x.ws /\ y.r.listening = x.r.listening /\ y.r.grabbed = x.r.grabbed
        /\ ~y.r.timer /\ y.p.closed /\ y.p.late = (x.p.late \/ x.p.closed)
    BY <1>4, <1>5, UpdateFacts
  <1> HIDE DEF y
  <1>7. r' = y.r /\ p' = y.p /\ ws' = y.ws
    BY <1>2 DEF Becomes
  <1>8. r' \in RfbObjects /\ p' \in Pages /\ ws' \in {"closing", "closed"} /\ r'.conn = "disconnected"
    BY <1>3, <1>4, <1>6, <1>7 DEF Xs
  <1>9. Ending'
    BY <1>2, <1>3, <1>4, <1>6, <1>7 DEF Ending, EndsWell
  <1>10. /\ r'.scheme = r.scheme /\ r'.creds = r.creds /\ r'.resumes = r.resumes /\ r'.ard = r.ard
         /\ r'.loop = r.loop /\ r'.once = r.once /\ r'.init = r.init /\ r'.ra2 = r.ra2 /\ SamePage(p, p')
    BY <1>4, <1>6, <1>7 DEF SameHandshake
  <1>11. inbox' \in Seq(Words)
    BY <1>1, <1>2 DEF SesTypes
  <1> QED
    BY <1>2, <1>8, <1>9, <1>10, <1>11, EndedStep

\* disconnect() on an object whose page differs by its dialog at most.
LEMMA DisconnectStep ==
  ASSUME SesInv, ~r.loop, NEW x \in Xs, x.r = r, x.ws = ws, SamePage(p, x.p),
         x.p.closed = p.closed, x.p.late = p.late,
         Becomes(Disconnect(x)), UNCHANGED <<server, inbox, rq, sent, served, viewOnly>>
  PROVE  SesInv'
  <1>1. SesTypes /\ Ending
    BY DEF SesInv
  <1>2. EndsWell(x.r, x.p, x.ws)
    BY <1>1 DEF Ending, EndsWell
  <1> DEFINE y == Disconnect(x)
  <1>3. /\ y \in Xs /\ SamePage(x.p, y.p) /\ EndsWell(y.r, y.p, y.ws)
        /\ y.ws \in {"closing", "closed"}
        /\ y.r.scheme = x.r.scheme /\ y.r.creds = x.r.creds /\ y.r.resumes = x.r.resumes
        /\ y.r.ard = x.r.ard /\ y.r.loop = x.r.loop /\ y.r.once = x.r.once /\ ~y.r.ra2
        /\ y.r.init = IF x.r.ra2 THEN "SecurityResult" ELSE x.r.init
        /\ y.r.conn \in {"disconnecting", "disconnected"}
    BY <1>2, DisconnectFacts
  <1>4. r' = y.r /\ p' = y.p /\ ws' = y.ws
    BY DEF Becomes
  <1> HIDE DEF y
  <1>5. r' \in RfbObjects /\ p' \in Pages
    BY <1>3, <1>4 DEF Xs
  <1>6. Ending' /\ inbox' \in Seq(Words)
    BY <1>1, <1>3, <1>4 DEF Ending, EndsWell, SesTypes
  <1>7. SamePage(p, p')
    BY <1>3, <1>4 DEF SamePage
  <1>8. \/ r'.init = r.init /\ r'.ra2 = r.ra2
        \/ r'.init = r.init /\ ~r'.ra2
        \/ r.ra2 /\ r'.init = "SecurityResult" /\ ~r'.ra2
    BY <1>3, <1>4
  <1> QED
    BY <1>3, <1>4, <1>5, <1>6, <1>7, <1>8, EndedStep

\* The user leaves, from any state of the handshake.
LEMMA UserDisconnectsStep ==
  ASSUME SesInv, UserDisconnects
  PROVE  SesInv'
  <1>1. SesTypes /\ Ending
    BY DEF SesInv
  <1>2. ~r.loop /\ UNCHANGED <<server, inbox, rq, sent, served, viewOnly>>
    BY DEF UserDisconnects
  <1>3. X \in Xs /\ X.r = r /\ X.p = p /\ X.ws = ws
    BY <1>1, XFacts
  <1> DEFINE x == [X EXCEPT !.p.dialog = Hide(@)]
  <1>4. CASE p.dialog \in {"opening", "shown"} /\ Becomes(Disconnect(x))
    <2>1. x \in Xs /\ x.r = r /\ x.ws = ws /\ SamePage(p, x.p) /\ x.p.closed = p.closed /\ x.p.late = p.late
      <3>1. Hide(X.p.dialog) \in {"hidden", "opening", "shown", "closing"}
        BY <1>3, <1>4 DEF Hide
      <3> QED
        BY <1>3, <1>4, <3>1 DEF Xs, Pages, SamePage
    <2> HIDE DEF x
    <2> QED
      BY <1>2, <1>4, <2>1, DisconnectStep
  <1>5. CASE ~p.closed /\ Becomes(Disconnect(X))
    <2>1. SamePage(p, X.p) /\ X.p.closed = p.closed /\ X.p.late = p.late
      BY <1>3 DEF SamePage
    <2> QED
      BY <1>2, <1>3, <1>5, <2>1, DisconnectStep
  <1> QED
    BY <1>4, <1>5 DEF UserDisconnects

\* The fields of the object that a timer, a promise or the user does not touch.
SameSocket(a, b) ==
  /\ b.conn = a.conn /\ b.init = a.init /\ b.scheme = a.scheme /\ b.listening = a.listening
  /\ b.onopen = a.onopen /\ b.onclose = a.onclose /\ b.timer = a.timer /\ b.ra2 = a.ra2

\* A message reaches the receive queue.
LEMMA MessageStep ==
  ASSUME SesInv, Message
  PROVE  SesInv'
  <1>1. SesTypes /\ Ending /\ Asking /\ Looping /\ Spoken /\ (ws = "open" => Placed)
    BY DEF SesInv
  <1>2. /\ ~r.loop /\ ws = "open" /\ inbox # <<>> /\ r' = [r EXCEPT !.loop = TRUE, !.once = FALSE]
        /\ inbox' = Tail(inbox) /\ rq' = Append(rq, Head(inbox))
        /\ UNCHANGED <<server, ws, sent, served, p, viewOnly>>
    BY DEF Message
  <1>3. PICK k \in {Len(sent)} : TRUE
    OBVIOUS
  <1>4. k \in Nat /\ served \in Nat /\ rq \in Seq(Words) /\ inbox \in Seq(Words) /\ Talk \in Seq(TurnSet)
        /\ Left(k) \in Seq(Words) /\ Place(k) /\ Owed(Left(k), Talk, k, served, rq, inbox)
    <2>1. Place(k) /\ Left(k) \in Seq(Words) /\ Talk \in Seq(TurnSet)
      BY <1>1, <1>2, FirstLeft, TalkShape DEF SesTypes
    <2> QED
      BY <1>1, <1>2, <2>1 DEF SesTypes, Placed
  <1>5. rq = <<>>
    <2>1. SUFFICES ASSUME rq # <<>> PROVE FALSE
      OBVIOUS
    <2>2. Left(k) # <<>> /\ inbox = Tail(Left(k))
      BY <1>4, <2>1 DEF Owed, Line
    <2>3. Rested
      BY <1>1, <1>2 DEF Looping
    <2>4. CASE r.init = "Authentication" /\ r.scheme \in {"vnc", "mslogon"}
      <3>1. Left(k) = <<"challenge">>
        BY <1>2, <2>4, VncLeft
      <3> QED
        BY <1>2, <2>2, <3>1, Singles
    <2>5. CASE r.init = "Authentication" /\ r.scheme = "ard"
      <3>1. Left(k) = <<"key">>
        BY <1>2, <2>2, <2>5, ArdLeft
      <3> QED
        BY <1>2, <2>2, <3>1, Singles
    <2> QED
      BY <2>1, <2>3, <2>4, <2>5 DEF Rested
  <1>6. /\ r' \in RfbObjects /\ SameSocket(r, r') /\ r'.grabbed = r.grabbed /\ r'.creds = r.creds
        /\ r'.resumes = r.resumes /\ r'.ard = r.ard /\ r'.loop = TRUE /\ r'.once = FALSE
    <2>1. r \in RfbObjects
      BY <1>1 DEF SesTypes
    <2> QED
      BY <1>2, <2>1 DEF RfbObjects, SameSocket
  <1>7. SesTypes'
    <2>1. Tail(inbox) \in Seq(Words) /\ Append(rq, Head(inbox)) \in Seq(Words)
      BY <1>2, <1>4
    <2> QED
      BY <1>1, <1>2, <1>6, <2>1 DEF SesTypes
  <1>8. Ending'
    BY <1>1, <1>2, <1>6 DEF Ending, EndsWell, SameSocket
  <1>9. Asking'
    BY <1>1, <1>2, <1>6 DEF Asking, SameSocket
  <1>10. Looping'
    BY <1>1, <1>2, <1>6 DEF Looping, SameSocket
  <1>11. Place(k)' = Place(k) /\ Left(k)' = Left(k) /\ Talk' = Talk
    BY <1>2, <1>6, SamePlace, SameTalk DEF SameSocket
  <1>12. Spoken'
    BY <1>1, <1>2, <1>11 DEF Spoken
  <1>13. Owed(Left(k), Talk, k, served, rq', inbox')
    BY <1>2, <1>4, <1>5, Arrived
  <1>14. Placed'
    BY <1>2, <1>4, <1>11, <1>13 DEF Placed
  <1> QED
    BY <1>7, <1>8, <1>9, <1>10, <1>12, <1>14 DEF SesInv

\* _resumeAuthentication runs the handshake once, on what is in the queue.
LEMMA ResumeStep ==
  ASSUME SesInv, Resume
  PROVE  SesInv'
  <1>1. SesTypes /\ Ending /\ Asking /\ Looping
    BY DEF SesInv
  <1>2. /\ ~r.loop /\ r.resumes > 0
        /\ r' = [r EXCEPT !.resumes = @ - 1, !.loop = TRUE, !.once = TRUE]
        /\ UNCHANGED <<server, ws, inbox, rq, sent, served, p, viewOnly>>
    BY DEF Resume
  <1>3. /\ r' \in RfbObjects /\ SameSocket(r, r') /\ r'.grabbed = r.grabbed /\ r'.creds = r.creds
        /\ r'.ard = r.ard /\ r'.loop = TRUE /\ r'.once = TRUE
    <2>1. r \in RfbObjects /\ r.resumes \in Nat /\ r.resumes - 1 \in Nat
      <3>1. r \in RfbObjects /\ r.resumes \in Nat
        BY <1>1 DEF SesTypes, RfbObjects
      <3> QED
        BY <1>2, <3>1
    <2> QED
      BY <1>2, <2>1 DEF RfbObjects, SameSocket
  <1>4. p.asked # "none" /\ r.creds = p.asked
    BY <1>1, <1>2 DEF Asking
  <1>5. r.init # "" /\ ws # "connecting"
    BY <1>1, <1>4 DEF Asking, Looping
  <1>6. SesTypes' /\ Ending'
    BY <1>1, <1>2, <1>3 DEF SesTypes, Ending, EndsWell, SameSocket
  <1>7. Asking'
    BY <1>1, <1>2, <1>3, <1>4 DEF Asking, SameSocket
  <1>8. Looping'
    BY <1>1, <1>2, <1>3, <1>5 DEF Looping, Rested, SameSocket
  <1>9. Spoken' /\ (ws' = "open" => Placed')
    BY <1>2, <1>3, StillPlaced DEF SameSocket
  <1> QED
    BY <1>6, <1>7, <1>8, <1>9 DEF SesInv

\* The promise of _negotiateARDAuthAsync has its answer ready, and resumes.
LEMMA ARDAuthAsyncStep ==
  ASSUME SesInv, ARDAuthAsync
  PROVE  SesInv'
  <1>1. SesTypes /\ Ending /\ Asking /\ Looping /\ Spoken /\ (ws = "open" => Placed)
    BY DEF SesInv
  <1>2. /\ ~r.loop /\ r.ard = "busy" /\ r' = [r EXCEPT !.ard = "ready", !.resumes = @ + 1]
        /\ UNCHANGED <<server, ws, inbox, rq, sent, served, p, viewOnly>>
    BY DEF ARDAuthAsync
  <1>3. /\ r' \in RfbObjects /\ SameSocket(r, r') /\ r'.grabbed = r.grabbed /\ r'.creds = r.creds
        /\ r'.ard = "ready" /\ r'.loop = r.loop /\ r'.once = r.once
    <2>1. r \in RfbObjects /\ r.resumes + 1 \in Nat
      BY <1>1 DEF SesTypes, RfbObjects
    <2> QED
      BY <1>2, <2>1 DEF RfbObjects, SameSocket
  <1>4. SesTypes' /\ Ending'
    BY <1>1, <1>2, <1>3 DEF SesTypes, Ending, EndsWell, SameSocket
  <1>5. Asking'
    BY <1>1, <1>2, <1>3 DEF Asking, SameSocket
  <1>6. Looping'
    BY <1>1, <1>2, <1>3 DEF Looping, Rested, SameSocket
  <1>7. Spoken' /\ (ws' = "open" => Placed')
    <2>1. PICK k \in {Len(sent)} : TRUE
      OBVIOUS
    <2>2. Talk' = Talk /\ Parts' = Parts /\ Base' = Base
      BY <1>2, SameTalk
    <2>3. Place(k)' = Place(k)
      BY <1>2, <1>3, <2>2 DEF Place, SameSocket
    <2>4. r.init = "Authentication"
      BY <1>1, <1>2 DEF Asking
    <2>5. Left(k)' = <<>> /\ Left(k) = <<>>
      BY <1>2, <1>3, <2>4 DEF Left, SameSocket
    <2>6. ws = "open" => Place(k)' /\ Left(k)' = IF FALSE THEN Tail(Left(k)) ELSE Left(k)
      BY <1>1, <2>3, <2>5 DEF Placed
    <2>7. rq' = (IF FALSE THEN Tail(rq) ELSE rq) /\ sent' = sent /\ UNCHANGED <<server, inbox, served>> /\ ws' = ws
      BY <1>2
    <2> QED
      BY <1>1, <2>6, <2>7, Reads
  <1> QED
    BY <1>4, <1>5, <1>6, <1>7 DEF SesInv

\* The user submits credentials: sendCredentials schedules a resumption.
LEMMA SubmitStep ==
  ASSUME SesInv, Submit
  PROVE  SesInv'
  <1>1. SesTypes /\ Ending /\ Asking /\ Looping
    BY DEF SesInv
  <1>2. /\ ~r.loop /\ p.dialog # "hidden" /\ p' = [p EXCEPT !.dialog = Hide(@), !.submits = @ + 1]
        /\ r' = [r EXCEPT !.creds = p.asked, !.resumes = @ + 1,
                           !.ard = IF @ = "ready" THEN "lost" ELSE @]
        /\ UNCHANGED <<server, ws, inbox, rq, sent, served, viewOnly>>
    BY DEF Submit
  <1>3. /\ p \in Pages /\ p.submits + 1 \in Nat /\ p.asked \in {"none", "password", "full"}
        /\ Hide(p.dialog) \in {"hidden", "opening", "shown", "closing"}
    BY <1>1 DEF SesTypes, Pages, Hide
  <1>4. /\ r' \in RfbObjects /\ SameSocket(r, r') /\ r'.grabbed = r.grabbed /\ r'.creds = p.asked
        /\ (r'.ard = "none" <=> r.ard = "none") /\ r'.loop = r.loop /\ r'.once = r.once
    <2>1. r \in RfbObjects /\ r.resumes + 1 \in Nat
      BY <1>1 DEF SesTypes, RfbObjects
    <2> QED
      BY <1>2, <1>3, <2>1 DEF RfbObjects, SameSocket
  <1>5. p' \in Pages /\ p'.asked = p.asked /\ p'.closed = p.closed /\ p'.late = p.late
    BY <1>2, <1>3 DEF Pages
  <1>6. SesTypes' /\ Ending'
    BY <1>1, <1>2, <1>4, <1>5 DEF SesTypes, Ending, EndsWell, SameSocket
  <1>7. Asking'
    BY <1>1, <1>2, <1>4, <1>5 DEF Asking, SameSocket
  <1>8. Looping'
    BY <1>1, <1>2, <1>4 DEF Looping, Rested, SameSocket
  <1>9. Spoken' /\ (ws' = "open" => Placed')
    BY <1>2, <1>4, StillPlaced DEF SameSocket
  <1> QED
    BY <1>6, <1>7, <1>8, <1>9 DEF SesInv

\* The dialog opens or closes.
LEMMA DialogMovesStep ==
  ASSUME SesInv, DialogMoves
  PROVE  SesInv'
  <1>1. SesTypes /\ Ending /\ Asking /\ Looping
    BY DEF SesInv
  <1>2. p.dialog # "hidden" /\ UNCHANGED <<server, ws, inbox, rq, sent, served, r, viewOnly>>
    BY DEF DialogMoves
  <1>3. p' \in Pages /\ p'.asked = p.asked /\ p'.closed = p.closed /\ p'.late = p.late
    BY <1>1 DEF DialogMoves, SesTypes, Pages
  <1>4. SesTypes' /\ Ending'
    BY <1>1, <1>2, <1>3 DEF SesTypes, Ending, EndsWell
  <1>5. Asking'
    BY <1>1, <1>2, <1>3 DEF Asking
  <1>6. Looping'
    BY <1>1, <1>2 DEF Looping, Rested
  <1>7. Spoken' /\ (ws' = "open" => Placed')
    BY <1>2, StillPlaced
  <1> QED
    BY <1>4, <1>5, <1>6, <1>7 DEF SesInv

\* View-only is set or cleared, in whatever state.
LEMMA ToggleViewOnlyStep ==
  ASSUME SesInv, ToggleViewOnly
  PROVE  SesInv'
  <1>1. SesTypes /\ Ending /\ Asking /\ Looping
    BY DEF SesInv
  <1> DEFINE g == IF r.conn \in {"connecting", "connected"} THEN viewOnly ELSE r.grabbed
  <1>2. r' = [r EXCEPT !.grabbed = g] /\ viewOnly' = ~viewOnly /\ UNCHANGED <<server, ws, inbox, rq, sent, served, p>>
    BY DEF ToggleViewOnly
  <1>3. g \in BOOLEAN /\ r \in RfbObjects
    BY <1>1 DEF SesTypes, RfbObjects
  <1>4. r.conn \in {"disconnecting", "disconnected"} => g = r.grabbed
    OBVIOUS
  <1> HIDE DEF g
  <1>5. /\ r' \in RfbObjects /\ SameSocket(r, r') /\ r'.grabbed = g /\ r'.creds = r.creds
        /\ r'.resumes = r.resumes /\ r'.ard = r.ard /\ r'.loop = r.loop /\ r'.once = r.once
    BY <1>2, <1>3 DEF RfbObjects, SameSocket
  <1>6. SesTypes' /\ Ending'
    BY <1>1, <1>2, <1>4, <1>5 DEF SesTypes, Ending, EndsWell, SameSocket
  <1>7. Asking'
    BY <1>1, <1>2, <1>5 DEF Asking, SameSocket
  <1>8. Looping'
    BY <1>1, <1>2, <1>5 DEF Looping, Rested, SameSocket
  <1>9. Spoken' /\ (ws' = "open" => Placed')
    BY <1>2, <1>5, StillPlaced DEF SameSocket
  <1> QED
    BY <1>6, <1>7, <1>8, <1>9 DEF SesInv

-----------------------------------------------------------------------------

\* A new object on a connecting socket.
LEMMA SesInvInit ==
  ASSUME SesInit
  PROVE  SesInv
  <1>1. PICK c \in Stored : r = NewRFB(c)
    BY DEF SesInit
  <1>2. c \in {"none", "password"}
    BY <1>1, SessionAssumption
  <1>3. /\ r.conn = "connecting" /\ r.init = "" /\ r.scheme = "none" /\ r.creds = c
        /\ r.onopen = TRUE /\ r.onclose = TRUE /\ r.timer = FALSE /\ r.resumes = 0 /\ r.ard = "none"
        /\ r.ra2 = FALSE /\ r.loop = FALSE /\ r.once = FALSE
    BY <1>1 DEF NewRFB
  <1>4. r \in RfbObjects
    <2>1. /\ "connecting" \in Conns /\ "" \in Inits /\ "none" \in Schemes \cup {"plain"}
          /\ c \in {"none", "password", "full"}
      BY <1>2 DEF Conns, Inits, Schemes
    <2>2. (~viewOnly) \in BOOLEAN
      OBVIOUS
    <2> QED
      BY <1>1, <2>1, <2>2 DEF NewRFB, RfbObjects
  <1>5. /\ ws = "connecting" /\ inbox = <<>> /\ rq = <<>> /\ sent = <<>> /\ served = 0
        /\ p.asked = "none" /\ p.dialog = "hidden" /\ p.closed = FALSE /\ p.late = FALSE /\ p \in Pages
    BY DEF SesInit, Pages
  <1>6. SesTypes
    <2>1. server \in ServerSet /\ viewOnly \in BOOLEAN
      BY SessionAssumption DEF SesInit, ServerSet
    <2>2. <<>> \in Seq(Words)
      BY Sends
    <2> QED
      BY <1>4, <1>5, <2>1, <2>2 DEF SesTypes, WsStates
  <1>7. Ending
    BY <1>3, <1>5 DEF Ending, EndsWell
  <1>8. Asking
    <2>1. r.creds = c /\ c # "full"
      BY <1>2, <1>3
    <2>2. \A n \in {0} : ~(n > 0)
      BY SMT
    <2>3. ~(r.resumes > 0)
      <3>1. r.resumes \in {0}
        BY <1>3
      <3> HIDE <1>1, <1>3
      <3> QED
        BY <2>2, <3>1
    <2> QED
      BY <1>3, <1>5, <2>1, <2>3 DEF Asking
  <1>9. Looping
    BY <1>3, <1>5 DEF Looping, Rested
  <1>10. Spoken
    <2>1. Talk \in Seq(TurnSet)
      BY <1>6, TalkShape DEF SesTypes
    <2>2. Len(sent) = 0 /\ Len(Talk) \in Nat
      BY <1>5, <2>1
    <2> QED
      BY <2>2 DEF Spoken
  <1> QED
    BY <1>5, <1>6, <1>7, <1>8, <1>9, <1>10 DEF SesInv

\* Every step keeps the invariant.
LEMMA SesInvStep ==
  ASSUME SesInv, [SesNext]_sesVars
  PROVE  SesInv'
  <1>1. CASE UNCHANGED sesVars
    <2>1. UNCHANGED <<server, ws, inbox, rq, sent, served, r, p, viewOnly>>
      BY <1>1 DEF sesVars
    <2>2. SesTypes /\ Ending /\ Asking /\ Looping
      BY DEF SesInv
    <2>3. SesTypes' /\ Ending' /\ Asking' /\ Looping'
      BY ZenonT(60), <2>1, <2>2 DEF SesTypes, Ending, EndsWell, Asking, Looping, Rested
    <2>4. Spoken' /\ (ws' = "open" => Placed')
      BY <2>1, StillPlaced
    <2> QED
      BY <2>3, <2>4 DEF SesInv
  <1>2. CASE SesNext
    BY <1>2, ServerTurnStep, SocketOpenStep, SocketClosesStep, MessageStep, InitMsgStep, NormalMsgStep,
       ResumeStep, ARDAuthAsyncStep, DisconnectTimeoutStep, SubmitStep, UserDisconnectsStep,
       DialogMovesStep, ToggleViewOnlyStep DEF SesNext
  <1> QED
    BY <1>1, <1>2

\* The invariant of a session: object, page and socket end together, credentials
\* are asked for by the scheme that lacks them, and in every state of the handshake
\* the client has sent what leads there and owes the server nothing (rfb.js,
\* _handleMessage, _initMsg, _resumeAuthentication, _updateConnectionState).
THEOREM SesInvariance == SesSpec => []SesInv
  <1>1. SesInit => SesInv
    BY SesInvInit
  <1>2. SesInv /\ [SesNext]_sesVars => SesInv'
    BY SesInvStep
  <1> QED
    BY <1>1, <1>2, PTL DEF SesSpec

\* Whatever the security scheme, whenever the user submits credentials, disconnects
\* or toggles view-only and however the answers are cut into messages, the client
\* says what the server expects and says it once: _resumeAuthentication never repeats
\* or skips a message of the handshake (rfb.js, _initMsg and the handlers it calls).
THEOREM InTurnTheorem == SesSpec => []InTurn
  <1>1. SesInv => InTurn
    <2> SUFFICES ASSUME SesInv PROVE InTurn
      OBVIOUS
    <2> DEFINE turns == [i \in 1..Len(Talk) |-> Talk[i].expect]
    <2>1. /\ sent \in Seq(Words) /\ Len(sent) <= Len(Talk) /\ Talk \in Seq(TurnSet)
          /\ \A i \in 1..Len(sent) : sent[i] = Talk[i].expect
      BY TalkShape DEF SesInv, SesTypes, Spoken
    <2>2. \A i \in 1..Len(Talk) : Talk[i].expect \in Words
      <3>1. \A i \in 1..Len(Talk) : Talk[i] \in TurnSet
        BY <2>1
      <3> QED
        BY <3>1 DEF TurnSet
    <2>3. Len(turns) = Len(Talk)
      <3>1. Len(Talk) \in Nat
        BY <2>1
      <3> QED
        BY <3>1, <2>2
    <2>4. IsPrefix(sent, turns)
      BY <2>1, <2>3 DEF IsPrefix
    <2> QED
      BY <2>4 DEF InTurn
  <1> QED
    BY <1>1, SesInvariance, PTL

\* Once a session is disconnecting its listeners and its keyboard are off and its
\* socket is closing, and the page that heard the disconnect event hears no other
\* event of this object but XVP's question, asked again when a late password resumes
\* it (rfb.js, _updateConnectionState, _disconnect and _negotiateXvpAuth).
THEOREM TornDownTheorem == SesSpec => []TornDown
  <1>1. SesInv => TornDown
    BY DEF SesInv, Ending, EndsWell, TornDown
  <1> QED
    BY <1>1, SesInvariance, PTL

=============================================================================
