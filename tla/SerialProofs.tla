---------------------------- MODULE SerialProofs ----------------------------
(***************************************************************************)
(* Proofs about the serial console daemon, for any pages, VMs, inputs,     *)
(* numbers the kernel gives out and limit of sessions: a session's         *)
(* descriptor and worker are its own as long as anybody uses them.         *)
(***************************************************************************)
EXTENDS SerialSessions, TLAPS, FiniteSetTheorems, WellFoundedInduction

Places == {"new", "lock", "refused", "kill", "close", "wait", "fork", "failed", "start", "done",
           "off", "stop", "bye", "loop", "locking", "in", "select"}
States == {"free", "alive", "killed", "zombie"}
Procs == [of : Pages \cup {NoPage}, state : States]
Records == [pid : Nat, fd : Nat, open : BOOLEAN]

SerTypes ==
  /\ at \in [Threads -> Places]
  /\ sessions \subseteq Pages /\ IsFiniteSet(sessions)
  /\ ses \in [Pages -> Records]
  /\ taken \in [Pages -> Pages \cup {NoPage}]
  /\ mutex \in BOOLEAN
  /\ fds \in [Numbers -> Pages \cup {NoPage}]
  /\ procs \in [Numbers -> Procs]

ConnectAt(s) == at[<<"connect", s>>]
\* connect has forked the page's worker.
Begun(s) == ConnectAt(s) \in {"start", "done"}
\* connect is inside sessions_lock between two steps.
Holds(s) == ConnectAt(s) \in {"kill", "close", "wait", "fork"}
\* t ends a session, up to the waitpid.
Ending(t) == at[t] \in {"kill", "close", "wait"}

\* One connect is inside the lock; it has made sure of its slot and its VM.
OneInside ==
  \A s \in Pages : Holds(s) =>
    /\ mutex
    /\ Cardinality(sessions) < MaxSessions
    /\ OpenSid(s) = {}
    /\ \A t \in Pages : Holds(t) => t = s

\* A worker that nobody has waited for keeps its number.
HasWorker(s) == ses[s].pid \in Numbers /\ procs[ses[s].pid].of = s

Listed ==
  /\ Cardinality(sessions) <= MaxSessions
  /\ \A s \in sessions :
       /\ Begun(s) /\ ses[s].open /\ HasWorker(s) /\ procs[ses[s].pid].state # "killed"
       /\ OpenSid(s) = {s}

\* An open session's descriptor is its own.
OwnDescriptor ==
  \A s \in Pages : ses[s].open => Begun(s) /\ ses[s].fd \in Numbers /\ fds[ses[s].fd] = s

\* A session that t ends is out of the table, and keeps what is to be closed and
\* waited for until then.
EndsWell(t, v) ==
  /\ t[1] \in {"connect", "forward", "disconnect", "reap"}
  /\ at[t] = "wait" => t[1] \in {"connect", "reap"}
  /\ t[1] = "reap" => at[t] = "wait"
  /\ v \in Pages /\ v \notin sessions /\ Begun(v) /\ HasWorker(v)
  /\ at[t] # "wait" => ses[v].open

\* One thread ends it.
OneEnds ==
  /\ \A t \in Threads : Ending(t) => EndsWell(t, EndedBy(t))
  /\ \A t, u \in Threads : Ending(t) /\ Ending(u) /\ EndedBy(t) = EndedBy(u) => t = u

SerInv == SerTypes /\ OneInside /\ Listed /\ OwnDescriptor /\ OneEnds
-----------------------------------------------------------------------------
(* Lemmas *)

LEMMA ThreadFacts ==
  /\ \A t \in Threads : t[2] \in Pages
  /\ \A s \in Pages : /\ <<"connect", s>> \in Threads /\ <<"forward", s>> \in Threads
                      /\ <<"disconnect", s>> \in Threads /\ <<"reap", s>> \in Threads
  /\ \A s \in Pages : \A kind \in Kinds : <<kind, s>> \in Threads
  /\ \A t \in Threads : t[1] = "connect" => t = <<"connect", t[2]>>
BY DEF Threads, Kinds

\* A set of numbers that is not empty has a least one.
LEMMA MinIn ==
  ASSUME NEW S, S \subseteq Nat, S # {}
  PROVE  Min(S) \in S
<1>1. PICK x \in S : \A y \in S : ~(<<y, x>> \in OpToRel(<, Nat))
  <2> DEFINE R == OpToRel(<, Nat)
  <2>1. IsWellFoundedOn(R, Nat)
    BY NatLessThanWellFounded
  <2> HIDE DEF R
  <2>2. \E x \in S : \A y \in S : ~(<<y, x>> \in R)
    BY <2>1, WFMin
  <2> QED BY <2>2 DEF R
<1>2. \A y \in S : x <= y
  <2> SUFFICES ASSUME NEW y \in S PROVE x <= y
    OBVIOUS
  <2>1. x \in Nat /\ y \in Nat
    OBVIOUS
  <2>2. ~(y < x)
    BY <1>1, <2>1 DEF OpToRel
  <2> QED BY <2>1, <2>2
<1> QED BY <1>2 DEF Min

\* Threads that go on ending what they end.
LEMMA EndsKept ==
  ASSUME OneEnds,
         \A u \in Threads : Ending(u)' => Ending(u),
         \A u \in Threads, v \in Pages :
           Ending(u)' /\ EndedBy(u) = v /\ EndsWell(u, v) => EndedBy(u)' = v /\ EndsWell(u, v)'
  PROVE  OneEnds'
<1>1. ASSUME NEW u \in Threads, Ending(u)'
      PROVE  Ending(u) /\ EndedBy(u) \in Pages /\ EndedBy(u)' = EndedBy(u) /\ EndsWell(u, EndedBy(u))
  BY <1>1 DEF OneEnds, EndsWell
<1>2. ASSUME NEW u \in Threads, Ending(u)' PROVE EndsWell(u, EndedBy(u))'
  <2>1. PICK v \in Pages : v = EndedBy(u)
    BY <1>1, <1>2
  <2>2. EndsWell(u, v)' /\ EndedBy(u)' = v
    BY <1>1, <1>2, <2>1
  <2> QED BY <2>2 DEF EndsWell, Begun, ConnectAt, HasWorker
<1> QED BY <1>1, <1>2 DEF OneEnds

\* Steps that only move threads, neither into the lock nor to the end of a session.
LEMMA QuietKeeps ==
  ASSUME SerInv, at' \in [Threads -> Places],
         UNCHANGED <<vm, sessions, ses, taken, mutex, fds, procs>>,
         \A u \in Threads : Ending(u)' => at'[u] = at[u],
         \A s \in Pages : (Holds(s)' => Holds(s)) /\ (Begun(s) => Begun(s)')
  PROVE  SerInv'
<1>0. SerTypes /\ OneInside /\ Listed /\ OwnDescriptor /\ OneEnds
  BY DEF SerInv
<1>1. \A s \in Pages : OpenSid(s)' = OpenSid(s) /\ (HasWorker(s)' <=> HasWorker(s))
  BY DEF OpenSid, HasWorker
<1>2. \A t \in Threads : EndedBy(t)' = EndedBy(t) /\ (Ending(t)' => Ending(t))
  BY DEF EndedBy, Ending
<1>3. SerTypes'
  BY <1>0 DEF SerTypes
<1>4. OneInside'
  BY <1>0, <1>1 DEF OneInside
<1>5. Listed'
  BY <1>0, <1>1 DEF Listed, SerTypes
<1>6. OwnDescriptor'
  BY <1>0 DEF OwnDescriptor
<1>7. OneEnds'
  <2> SUFFICES ASSUME NEW u \in Threads, NEW v \in Pages, Ending(u)', EndedBy(u) = v, EndsWell(u, v)
               PROVE  Ending(u) /\ EndedBy(u)' = v /\ EndsWell(u, v)'
    BY <1>0, <1>2, EndsKept
  <2> QED BY <1>1, <1>2 DEF EndsWell
<1> QED BY <1>3, <1>4, <1>5, <1>6, <1>7 DEF SerInv

\* One thread that goes elsewhere.
LEMMA MoveKeeps ==
  ASSUME SerInv, NEW t \in Threads, NEW to \in Places \ {"kill", "close", "wait", "fork"},
         at' = [at EXCEPT ![t] = to],
         t[1] = "connect" /\ at[t] \in {"start", "done"} => to \in {"start", "done"},
         UNCHANGED <<vm, sessions, ses, taken, mutex, fds, procs>>
  PROVE  SerInv'
<1>1. at \in [Threads -> Places]
  BY DEF SerInv, SerTypes
<1>2. at' \in [Threads -> Places] /\ at'[t] = to /\ \A u \in Threads : u # t => at'[u] = at[u]
  BY <1>1
<1>3. \A u \in Threads : Ending(u)' => at'[u] = at[u]
  BY <1>2 DEF Ending
<1>4. \A s \in Pages : <<"connect", s>> \in Threads /\ (<<"connect", s>> = t => t[1] = "connect")
  <2>1. \A s \in Pages : <<"connect", s>>[1] = "connect"
    OBVIOUS
  <2> QED BY <2>1, ThreadFacts
<1>5. \A s \in Pages : (Holds(s)' => Holds(s)) /\ (Begun(s) => Begun(s)')
  BY <1>2, <1>4 DEF Holds, Begun, ConnectAt
<1> QED BY <1>2, <1>3, <1>5, QuietKeeps

LEMMA StutterKeeps ==
  ASSUME SerInv, UNCHANGED <<vm, sessions, ses, taken, mutex, fds, procs, at>>
  PROVE  SerInv'
<1>1. at' \in [Threads -> Places]
  BY DEF SerInv, SerTypes
<1>2. \A s \in Pages : (Holds(s)' => Holds(s)) /\ (Begun(s) => Begun(s)')
  BY DEF Holds, Begun, ConnectAt
<1> QED BY <1>1, <1>2, QuietKeeps

-----------------------------------------------------------------------------
(* Steps of connect *)

LEMMA AdmitKeeps ==
  ASSUME SerInv, NEW s \in Pages, Admit(s)
  PROVE  SerInv'
<1>0. SerTypes /\ OneInside /\ Listed /\ OwnDescriptor /\ OneEnds
  BY DEF SerInv
<1>1. /\ at[<<"connect", s>>] = "lock" /\ at' = [at EXCEPT ![<<"connect", s>>] = "fork"]
      /\ ~mutex /\ mutex' = TRUE /\ UNCHANGED <<vm, sessions, ses, taken, fds, procs>>
      /\ OpenSid(s) = {} /\ ~(Cardinality(sessions) >= MaxSessions)
  BY DEF Admit, Goes, Refuses, kernel
<1>2. /\ at' \in [Threads -> Places] /\ at'[<<"connect", s>>] = "fork"
      /\ \A u \in Threads : u # <<"connect", s>> => at'[u] = at[u]
  BY <1>0, <1>1, ThreadFacts DEF SerTypes, Places
<1>3. Cardinality(sessions) < MaxSessions
  BY <1>0, <1>1, FS_CardinalityType, SerialAssumption DEF SerTypes
<1>4. \A t \in Pages : ~Holds(t)
  BY <1>0, <1>1 DEF OneInside
<1>5. \A t \in Pages : (t # s => ConnectAt(t)' = ConnectAt(t)) /\ ConnectAt(s)' = "fork" /\ ConnectAt(s) = "lock"
  BY <1>1, <1>2, ThreadFacts DEF ConnectAt
<1>6. \A t \in Pages : Holds(t)' => t = s
  BY <1>4, <1>5 DEF Holds
<1>7. \A t \in Pages : Begun(t) <=> Begun(t)'
  BY <1>5 DEF Begun
<1>8. \A t \in Pages : OpenSid(t)' = OpenSid(t) /\ (HasWorker(t)' <=> HasWorker(t))
  BY <1>1 DEF OpenSid, HasWorker
<1>9. \A u \in Threads : EndedBy(u)' = EndedBy(u) /\ (Ending(u)' => Ending(u) /\ at'[u] = at[u])
  BY <1>1, <1>2 DEF EndedBy, Ending
<1>10. SerTypes'
  BY <1>0, <1>1, <1>2 DEF SerTypes
<1>11. OneInside'
  BY <1>1, <1>3, <1>6, <1>8 DEF OneInside
<1>12. Listed'
  BY <1>0, <1>1, <1>7, <1>8 DEF Listed, SerTypes
<1>13. OwnDescriptor'
  BY <1>0, <1>1, <1>7 DEF OwnDescriptor
<1>14. OneEnds'
  <2> SUFFICES ASSUME NEW u \in Threads, NEW v \in Pages, Ending(u)', EndedBy(u) = v, EndsWell(u, v)
               PROVE  EndedBy(u)' = v /\ EndsWell(u, v)'
    BY <1>0, <1>9, EndsKept
  <2> QED BY <1>1, <1>7, <1>8, <1>9 DEF EndsWell
<1> QED BY <1>10, <1>11, <1>12, <1>13, <1>14 DEF SerInv

LEMMA TakeOverKeeps ==
  ASSUME SerInv, NEW s \in Pages, TakeOver(s)
  PROVE  SerInv'
<1>0. SerTypes /\ OneInside /\ Listed /\ OwnDescriptor /\ OneEnds
  BY DEF SerInv
<1> DEFINE c == <<"connect", s>>
<1>1. c \in Threads /\ c[1] = "connect" /\ c[2] = s
  BY ThreadFacts
<1>2. PICK v \in OpenSid(s) :
        /\ at[c] = "lock" /\ at' = [at EXCEPT ![c] = "kill"]
        /\ ~mutex /\ mutex' = TRUE /\ UNCHANGED <<vm, ses, fds, procs>>
        /\ sessions' = sessions \ {v} /\ taken' = [taken EXCEPT ![s] = v]
  BY DEF TakeOver, Goes, kernel
<1>3. v \in sessions /\ v \in Pages /\ vm[v] = vm[s] /\ OpenSid(v) = {v}
  BY <1>0, <1>2 DEF OpenSid, Listed, SerTypes
<1> HIDE DEF c
<1>4. /\ at' \in [Threads -> Places] /\ at'[c] = "kill"
      /\ \A u \in Threads : u # c => at'[u] = at[u]
  BY <1>0, <1>1, <1>2 DEF SerTypes, Places
<1>5. IsFiniteSet(sessions') /\ Cardinality(sessions') = Cardinality(sessions) - 1 /\ Cardinality(sessions) \in Nat
  BY <1>0, <1>2, <1>3, FS_RemoveElement, FS_CardinalityType DEF SerTypes
<1>6. Cardinality(sessions') < MaxSessions
  BY <1>0, <1>5, SerialAssumption DEF Listed
<1>7. \A t \in Pages : /\ t # s => ConnectAt(t)' = ConnectAt(t)
                       /\ ConnectAt(s)' = "kill" /\ ConnectAt(s) = "lock"
  BY <1>1, <1>2, <1>4, ThreadFacts DEF ConnectAt, c
<1>8. \A t \in Pages : Holds(t)' => t = s
  BY <1>0, <1>2, <1>7 DEF Holds, OneInside
<1>9. \A t \in Pages : (Begun(t) <=> Begun(t)') /\ (HasWorker(t)' <=> HasWorker(t))
  BY <1>2, <1>7 DEF Begun, HasWorker
<1>10. OpenSid(s)' = {}
  <2> SUFFICES ASSUME NEW p \in sessions, p # v, vm[p] = vm[s] PROVE FALSE
    BY <1>2 DEF OpenSid
  <2> QED BY <1>3 DEF OpenSid
<1>11. SerTypes'
  BY <1>0, <1>2, <1>3, <1>4, <1>5 DEF SerTypes
<1>12. OneInside'
  BY <1>2, <1>6, <1>8, <1>10 DEF OneInside
<1>13. Listed'
  <2>1. \A p \in sessions' : p \in sessions /\ p \in Pages /\ OpenSid(p)' = {p}
    BY <1>0, <1>2 DEF Listed, OpenSid, SerTypes
  <2>2. Cardinality(sessions') <= MaxSessions
    BY <1>5, <1>6, SerialAssumption, FS_CardinalityType
  <2> QED BY <1>0, <1>2, <1>9, <2>1, <2>2 DEF Listed
<1>14. OwnDescriptor'
  BY <1>0, <1>2, <1>9 DEF OwnDescriptor
<1>15. OneEnds'
  <2>1. /\ Ending(c)' /\ ~Ending(c) /\ EndedBy(c)' = v
        /\ \A u \in Threads : u # c => (Ending(u)' <=> Ending(u)) /\ EndedBy(u)' = EndedBy(u)
    <3>1. \A u \in Threads : u # c /\ u[1] = "connect" => u[2] # s
      BY ThreadFacts DEF c
    <3>2. taken'[s] = v /\ \A t \in Pages : t # s => taken'[t] = taken[t]
      BY <1>0, <1>2 DEF SerTypes
    <3>3. \A u \in Threads : u # c => EndedBy(u)' = EndedBy(u)
      BY <3>1, <3>2, ThreadFacts DEF EndedBy
    <3> QED BY <1>1, <1>2, <1>4, <3>2, <3>3 DEF Ending, EndedBy
  <2>2. EndsWell(c, v)'
    <3>1. Begun(v) /\ HasWorker(v) /\ ses[v].open
      BY <1>0, <1>3 DEF Listed
    <3> QED BY <1>1, <1>2, <1>3, <1>4, <1>9, <3>1 DEF EndsWell
  <2>3. ASSUME NEW u \in Threads, NEW w \in Pages, u # c, Ending(u), EndedBy(u) = w
        PROVE  EndsWell(u, w)' /\ w # v
    BY <1>0, <1>2, <1>3, <1>4, <1>9, <2>3 DEF OneEnds, EndsWell
  <2>4. \A u \in Threads : Ending(u) => EndedBy(u) \in Pages
    BY <1>0 DEF OneEnds, EndsWell
  <2>5. ASSUME NEW u \in Threads, Ending(u)' PROVE EndsWell(u, EndedBy(u))'
    <3>1. PICK w \in Pages : w = EndedBy(u)' /\ EndsWell(u, w)'
      BY <1>3, <2>1, <2>2, <2>3, <2>4, <2>5
    <3> QED BY <3>1 DEF EndsWell, Begun, ConnectAt, HasWorker
  <2>6. ASSUME NEW t \in Threads, NEW u \in Threads, Ending(t)', Ending(u)', EndedBy(t)' = EndedBy(u)'
        PROVE  t = u
    BY <1>0, <2>1, <2>3, <2>4, <2>6 DEF OneEnds
  <2> QED BY <2>5, <2>6 DEF OneEnds
<1> QED BY <1>11, <1>12, <1>13, <1>14, <1>15 DEF SerInv

\* waitpid: the number is free from here on, and nobody else's to end.
LEMMA WaitedKeeps ==
  ASSUME SerInv, NEW t \in Threads, NEW to \in {"fork", "done"}, at[t] = "wait",
         t[1] = "connect" <=> to = "fork", at' = [at EXCEPT ![t] = to],
         procs' = [procs EXCEPT ![ses[EndedBy(t)].pid] = NoProc],
         UNCHANGED <<vm, sessions, ses, taken, mutex, fds>>
  PROVE  SerInv'
<1>0. SerTypes /\ OneInside /\ Listed /\ OwnDescriptor /\ OneEnds
  BY DEF SerInv
<1> DEFINE v == EndedBy(t)
           n == ses[v].pid
<1>1. Ending(t) /\ EndsWell(t, v) /\ v \in Pages /\ v \notin sessions /\ HasWorker(v) /\ t[1] \in {"connect", "reap"}
  BY <1>0 DEF OneEnds, Ending, EndsWell
<1>2. n \in Numbers /\ procs[n].of = v
  BY <1>1 DEF HasWorker
<1> HIDE DEF v, n
<1>3. /\ at' \in [Threads -> Places] /\ at'[t] = to /\ \A u \in Threads : u # t => at'[u] = at[u]
  BY <1>0 DEF SerTypes, Places
<1>4. NoProc \in Procs /\ procs' = [procs EXCEPT ![n] = NoProc]
  BY DEF NoProc, Procs, States, n, v
<1>5. procs' \in [Numbers -> Procs] /\ \A m \in Numbers : m # n => procs'[m] = procs[m]
  BY <1>0, <1>4 DEF SerTypes
<1>6. \A w \in Pages : w # v /\ HasWorker(w) => HasWorker(w)' /\ procs'[ses[w].pid] = procs[ses[w].pid]
  BY <1>2, <1>5 DEF HasWorker
<1>7. \A w \in Pages : (Begun(w) <=> Begun(w)') /\ (Holds(w)' <=> Holds(w)) /\ OpenSid(w)' = OpenSid(w)
  <2>1. \A w \in Pages : <<"connect", w>> # t => ConnectAt(w)' = ConnectAt(w)
    BY <1>3, ThreadFacts DEF ConnectAt
  <2>2. \A w \in Pages : <<"connect", w>> = t => ConnectAt(w)' = "fork" /\ ConnectAt(w) = "wait"
    <3>1. \A w \in Pages : <<"connect", w>>[1] = "connect"
      OBVIOUS
    <3> QED BY <1>3, <3>1 DEF ConnectAt
  <2> QED BY <2>1, <2>2 DEF Begun, Holds, OpenSid
<1>8. SerTypes'
  BY <1>0, <1>3, <1>5 DEF SerTypes
<1>9. OneInside'
  BY <1>0, <1>7 DEF OneInside
<1>10. Listed'
  BY <1>0, <1>1, <1>6, <1>7 DEF Listed, SerTypes
<1>11. OwnDescriptor'
  BY <1>0, <1>7 DEF OwnDescriptor
<1>12. OneEnds'
  <2>1. \A u \in Threads : EndedBy(u)' = EndedBy(u) /\ (Ending(u)' => Ending(u) /\ u # t /\ at'[u] = at[u])
    BY <1>3 DEF EndedBy, Ending
  <2> SUFFICES ASSUME NEW u \in Threads, NEW w \in Pages, Ending(u)', EndedBy(u) = w, EndsWell(u, w)
               PROVE  EndedBy(u)' = w /\ EndsWell(u, w)'
    BY <1>0, <2>1, EndsKept
  <2>2. w # v
    BY <1>0, <1>1, <2>1 DEF OneEnds, v
  <2> QED BY <1>6, <1>7, <2>1, <2>2 DEF EndsWell
<1> QED BY <1>8, <1>9, <1>10, <1>11, <1>12 DEF SerInv

LEMMA ForkKeeps ==
  ASSUME SerInv, NEW s \in Pages, Fork(s)
  PROVE  SerInv'
<1>0. SerTypes /\ OneInside /\ Listed /\ OwnDescriptor /\ OneEnds
  BY DEF SerInv
<1> DEFINE c == <<"connect", s>>
           n == Min(FreePids)
           fd == Min(FreeFds)
<1>1. c \in Threads /\ c[1] = "connect" /\ c[2] = s
  BY ThreadFacts
<1>2. n \in Numbers /\ procs[n] = NoProc /\ n \in Nat
  <2>1. FreePids \subseteq Nat /\ FreePids # {}
    BY SerialAssumption DEF FreePids, Fork
  <2>2. n \in FreePids
    BY <2>1, MinIn
  <2> QED BY <2>1, <2>2 DEF FreePids
<1>3. fd \in Numbers /\ fds[fd] = NoPage /\ fd \in Nat
  <2>1. FreeFds \subseteq Nat /\ FreeFds # {}
    BY SerialAssumption DEF FreeFds, Fork
  <2>2. fd \in FreeFds
    BY <2>1, MinIn
  <2> QED BY <2>1, <2>2 DEF FreeFds
<1> DEFINE proc == [of |-> s, state |-> "alive"]
           row == [pid |-> n, fd |-> fd, open |-> TRUE]
<1>4. proc \in Procs /\ proc.of = s /\ proc.state = "alive" /\ NoProc.of = NoPage
  BY DEF Procs, States, NoProc
<1>5. row \in Records /\ row.pid = n /\ row.fd = fd /\ row.open = TRUE
  BY <1>2, <1>3 DEF Records
<1>6. /\ at[c] = "fork" /\ at' = [at EXCEPT ![c] = "start"]
      /\ procs' = [procs EXCEPT ![n] = proc] /\ fds' = [fds EXCEPT ![fd] = s]
      /\ ses' = [ses EXCEPT ![s] = row]
      /\ sessions' = sessions \cup {s} /\ mutex' = FALSE /\ UNCHANGED <<vm, taken>>
  BY DEF Fork, Goes
<1> HIDE DEF c, n, fd, proc, row
<1>7. /\ at' \in [Threads -> Places] /\ at'[c] = "start" /\ \A u \in Threads : u # c => at'[u] = at[u]
  BY <1>0, <1>1, <1>6 DEF SerTypes, Places
<1>8. /\ procs' \in [Numbers -> Procs] /\ procs'[n] = proc /\ \A m \in Numbers : m # n => procs'[m] = procs[m]
      /\ fds' \in [Numbers -> Pages \cup {NoPage}] /\ fds'[fd] = s /\ \A m \in Numbers : m # fd => fds'[m] = fds[m]
      /\ ses' \in [Pages -> Records] /\ ses'[s] = row /\ \A w \in Pages : w # s => ses'[w] = ses[w]
  BY <1>0, <1>2, <1>3, <1>4, <1>5, <1>6 DEF SerTypes
<1>9. Holds(s) /\ ~Begun(s) /\ Begun(s)' /\ ~Holds(s)'
  BY <1>6, <1>7 DEF Holds, Begun, ConnectAt, c
<1>10. \A w \in Pages : w # s => ConnectAt(w)' = ConnectAt(w)
  BY <1>7, ThreadFacts DEF ConnectAt, c
<1>11. \A w \in Pages : ~Holds(w)'
  BY <1>0, <1>9, <1>10 DEF Holds, OneInside
<1>12. \A w \in Pages : Begun(w) => w # s /\ Begun(w)'
  BY <1>9, <1>10 DEF Begun
<1>13. s \notin sessions /\ Cardinality(sessions) < MaxSessions /\ OpenSid(s) = {}
  BY <1>0, <1>9 DEF OneInside, Listed
<1>14. IsFiniteSet(sessions') /\ Cardinality(sessions') <= MaxSessions
  <2>1. /\ Cardinality(sessions) \in Nat /\ IsFiniteSet(sessions')
        /\ Cardinality(sessions') = Cardinality(sessions) + 1
    BY <1>0, <1>6, <1>13, FS_AddElement, FS_CardinalityType DEF SerTypes
  <2> QED BY <1>13, <2>1, SerialAssumption
<1>15. \A w \in Pages : w # s /\ HasWorker(w) =>
         HasWorker(w)' /\ procs'[ses'[w].pid] = procs[ses[w].pid]
  <2> SUFFICES ASSUME NEW w \in Pages, w # s, HasWorker(w)
               PROVE  HasWorker(w)' /\ procs'[ses'[w].pid] = procs[ses[w].pid]
    OBVIOUS
  <2>1. ses'[w] = ses[w] /\ ses[w].pid \in Numbers /\ procs[ses[w].pid].of = w
    BY <1>8 DEF HasWorker
  <2>2. ses[w].pid # n
    BY <1>2, <1>4, <2>1, SerialAssumption
  <2> QED BY <1>8, <2>1, <2>2 DEF HasWorker
<1>16. HasWorker(s)' /\ procs'[ses'[s].pid].state = "alive" /\ ses'[s].open
  BY <1>2, <1>4, <1>5, <1>8 DEF HasWorker
<1>17. SerTypes'
  BY <1>0, <1>6, <1>7, <1>8, <1>14 DEF SerTypes
<1>18. OneInside'
  BY <1>11 DEF OneInside
<1>19. Listed'
  <2>1. \A p \in sessions : p \in Pages /\ p # s /\ vm[p] # vm[s] /\ OpenSid(p) = {p}
    BY <1>0, <1>13 DEF Listed, OpenSid, SerTypes
  <2>2. \A p \in sessions' : OpenSid(p)' = {p}
    BY <1>6, <2>1 DEF OpenSid
  <2>3. \A p \in sessions' :
          Begun(p)' /\ ses'[p].open /\ HasWorker(p)' /\ procs'[ses'[p].pid].state # "killed"
    <3> SUFFICES ASSUME NEW p \in sessions'
                 PROVE  Begun(p)' /\ ses'[p].open /\ HasWorker(p)' /\ procs'[ses'[p].pid].state # "killed"
      OBVIOUS
    <3>1. CASE p = s
      BY <1>9, <1>16, <3>1 DEF Begun, ConnectAt, HasWorker
    <3>2. CASE p # s
      <4>1. p \in sessions /\ p \in Pages /\ ses'[p] = ses[p]
        BY <1>6, <1>8, <2>1, <3>2
      <4> QED BY <1>0, <1>12, <1>15, <3>2, <4>1 DEF Listed
    <3> QED BY <3>1, <3>2
  <2> QED BY <1>14, <2>2, <2>3 DEF Listed
<1>20. OwnDescriptor'
  <2> SUFFICES ASSUME NEW w \in Pages, ses'[w].open
               PROVE  Begun(w)' /\ ses'[w].fd \in Numbers /\ fds'[ses'[w].fd] = w
    BY DEF OwnDescriptor
  <2>1. CASE w = s
    BY <1>3, <1>5, <1>8, <1>9, <2>1 DEF Begun, ConnectAt
  <2>2. CASE w # s
    <3>1. ses'[w] = ses[w] /\ Begun(w)' /\ ses[w].fd \in Numbers /\ fds[ses[w].fd] = w
      BY <1>0, <1>8, <1>12, <2>2 DEF OwnDescriptor
    <3>2. ses[w].fd # fd
      BY <1>3, <3>1, SerialAssumption
    <3> QED BY <1>8, <3>1, <3>2
  <2> QED BY <2>1, <2>2
<1>21. OneEnds'
  <2>1. \A u \in Threads : EndedBy(u)' = EndedBy(u) /\ (Ending(u)' => Ending(u) /\ at'[u] = at[u])
    BY <1>6, <1>7 DEF EndedBy, Ending
  <2> SUFFICES ASSUME NEW u \in Threads, NEW w \in Pages, Ending(u)', EndedBy(u) = w, EndsWell(u, w)
               PROVE  EndedBy(u)' = w /\ EndsWell(u, w)'
    BY <1>0, <2>1, EndsKept
  <2>2. w # s /\ Begun(w)' /\ HasWorker(w)' /\ ses'[w] = ses[w]
    BY <1>8, <1>12, <1>15 DEF EndsWell
  <2> QED BY <1>6, <2>1, <2>2 DEF EndsWell
<1> QED BY <1>17, <1>18, <1>19, <1>20, <1>21 DEF SerInv

LEMMA ForkFailsKeeps ==
  ASSUME SerInv, NEW s \in Pages, ForkFails(s)
  PROVE  SerInv'
<1>0. SerTypes /\ OneInside /\ Listed /\ OwnDescriptor /\ OneEnds
  BY DEF SerInv
<1>1. /\ at[<<"connect", s>>] = "fork" /\ at' = [at EXCEPT ![<<"connect", s>>] = "failed"]
      /\ mutex' = FALSE /\ UNCHANGED <<vm, sessions, ses, taken, fds, procs>>
  BY DEF ForkFails, Goes, kernel
<1>2. /\ at' \in [Threads -> Places] /\ at'[<<"connect", s>>] = "failed"
      /\ \A u \in Threads : u # <<"connect", s>> => at'[u] = at[u]
  BY <1>0, <1>1, ThreadFacts DEF SerTypes, Places
<1>3. /\ ConnectAt(s) = "fork" /\ ConnectAt(s)' = "failed"
      /\ \A w \in Pages : w # s => ConnectAt(w)' = ConnectAt(w)
  BY <1>1, <1>2, ThreadFacts DEF ConnectAt
<1>4. \A w \in Pages : ~Holds(w)' /\ (Begun(w) => Begun(w)')
  BY <1>0, <1>3 DEF Holds, OneInside, Begun
<1>5. \A w \in Pages : OpenSid(w)' = OpenSid(w) /\ (HasWorker(w)' <=> HasWorker(w))
  BY <1>1 DEF OpenSid, HasWorker
<1>6. \A u \in Threads : EndedBy(u)' = EndedBy(u) /\ (Ending(u)' => Ending(u) /\ at'[u] = at[u])
  BY <1>1, <1>2 DEF EndedBy, Ending
<1>7. SerTypes' /\ OneInside'
  BY <1>0, <1>1, <1>2, <1>4 DEF SerTypes, OneInside
<1>8. Listed' /\ OwnDescriptor'
  BY <1>0, <1>1, <1>4, <1>5 DEF Listed, OwnDescriptor, SerTypes
<1>9. OneEnds'
  <2> SUFFICES ASSUME NEW u \in Threads, NEW v \in Pages, Ending(u)', EndedBy(u) = v, EndsWell(u, v)
               PROVE  EndedBy(u)' = v /\ EndsWell(u, v)'
    BY <1>0, <1>6, EndsKept
  <2> QED BY <1>1, <1>4, <1>5, <1>6 DEF EndsWell
<1> QED BY <1>7, <1>8, <1>9 DEF SerInv

-----------------------------------------------------------------------------
(* The end of a session *)

LEMMA StopKeeps ==
  ASSUME SerInv, NEW t \in Threads, Stop(t)
  PROVE  SerInv'
<1>0. SerTypes /\ OneInside /\ Listed /\ OwnDescriptor /\ OneEnds
  BY DEF SerInv
<1> DEFINE s == t[2]
           to == IF s \in sessions THEN "kill" ELSE Ended(t)
<1>1. /\ t[1] \in {"forward", "disconnect"} /\ ~mutex /\ at[t] = "stop" /\ at' = [at EXCEPT ![t] = to]
      /\ sessions' = sessions \ {s} /\ UNCHANGED <<vm, ses, mutex, taken, fds, procs>>
  BY DEF Stop, Goes, kernel
<1>2. Ended(t) \in {"bye", "done"}
  BY <1>1 DEF Ended
<1>3. s \in Pages
  BY ThreadFacts
<1> HIDE DEF s
<1>4. to \in Places
  BY <1>2 DEF Places
<1>5. at' \in [Threads -> Places] /\ at'[t] = to /\ \A u \in Threads : u # t => at'[u] = at[u]
  BY <1>0, <1>1, <1>4 DEF SerTypes
<1>6. to = "kill" <=> s \in sessions
  BY <1>2
<1>16. to \notin {"close", "wait"}
  BY <1>2
<1> HIDE DEF to
<1>7. /\ IsFiniteSet(sessions') /\ Cardinality(sessions') <= MaxSessions
  <2>1. /\ Cardinality(sessions) \in Nat /\ IsFiniteSet(sessions')
        /\ Cardinality(sessions') \in {Cardinality(sessions), Cardinality(sessions) - 1}
    BY <1>0, <1>1, FS_RemoveElement, FS_CardinalityType DEF SerTypes
  <2> QED BY <1>0, <2>1, SerialAssumption DEF Listed
<1>8. \A w \in Pages : ConnectAt(w)' = ConnectAt(w) /\ ~Holds(w)
  <2>1. \A w \in Pages : <<"connect", w>> # t
    <3>1. \A w \in Pages : <<"connect", w>>[1] = "connect"
      OBVIOUS
    <3> QED BY <1>1, <3>1
  <2> QED BY <1>0, <1>1, <1>5, <2>1, ThreadFacts DEF ConnectAt, OneInside
<1>9. \A w \in Pages : (Begun(w)' <=> Begun(w)) /\ ~Holds(w)' /\ (HasWorker(w)' <=> HasWorker(w))
  BY <1>1, <1>8 DEF Begun, Holds, HasWorker
<1>10. SerTypes' /\ OneInside'
  BY <1>0, <1>1, <1>5, <1>7, <1>9 DEF SerTypes, OneInside
<1>11. Listed'
  <2>1. \A p \in sessions' : p \in sessions /\ p \in Pages /\ OpenSid(p)' = {p}
    BY <1>0, <1>1 DEF Listed, OpenSid, SerTypes
  <2> QED BY <1>0, <1>1, <1>7, <1>9, <2>1 DEF Listed
<1>12. OwnDescriptor'
  BY <1>0, <1>1, <1>9 DEF OwnDescriptor
<1>13. /\ EndedBy(t)' = s /\ EndedBy(t) = s /\ ~Ending(t) /\ (Ending(t)' <=> s \in sessions)
       /\ \A u \in Threads : EndedBy(u)' = EndedBy(u) /\ (u # t => (Ending(u)' <=> Ending(u)))
  BY <1>1, <1>5, <1>6, <1>16 DEF EndedBy, Ending, s
<1>14. \A u \in Threads : Ending(u) => EndedBy(u) \in Pages /\ EndedBy(u) \notin sessions
  BY <1>0 DEF OneEnds, EndsWell
<1>15. OneEnds'
  <2>1. ASSUME s \in sessions PROVE EndsWell(t, s)'
    <3>1. Begun(s) /\ HasWorker(s) /\ ses[s].open /\ at'[t] = "kill"
      BY <1>0, <1>5, <1>6, <2>1 DEF Listed
    <3> QED BY <1>1, <1>3, <1>9, <3>1 DEF EndsWell
  <2>2. ASSUME NEW u \in Threads, NEW w \in Pages, u # t, Ending(u), EndedBy(u) = w
        PROVE  EndsWell(u, w)'
    BY <1>0, <1>1, <1>5, <1>9, <2>2 DEF OneEnds, EndsWell
  <2>3. ASSUME NEW u \in Threads, Ending(u)' PROVE EndsWell(u, EndedBy(u))'
    <3>1. PICK w \in Pages : w = EndedBy(u)' /\ EndsWell(u, w)'
      BY <1>3, <1>13, <1>14, <2>1, <2>2, <2>3
    <3> QED BY <3>1 DEF EndsWell, Begun, ConnectAt, HasWorker
  <2>4. ASSUME NEW v \in Threads, NEW u \in Threads, Ending(v)', Ending(u)', EndedBy(v)' = EndedBy(u)'
        PROVE  v = u
    BY <1>0, <1>13, <1>14, <2>4 DEF OneEnds
  <2> QED BY <2>3, <2>4 DEF OneEnds
<1> QED BY <1>10, <1>11, <1>12, <1>15 DEF SerInv

\* Whose worker is killed, whether by end or by itself, the number stays its page's.
LEMMA KillKeeps ==
  ASSUME SerInv, NEW t \in Threads, Kill(t)
  PROVE  SerInv'
<1>0. SerTypes /\ OneInside /\ Listed /\ OwnDescriptor /\ OneEnds
  BY DEF SerInv
<1> DEFINE v == EndedBy(t)
           n == ses[v].pid
<1>1. /\ at[t] = "kill" /\ at' = [at EXCEPT ![t] = "close"]
      /\ procs' = IF procs[n].state = "alive" THEN [procs EXCEPT ![n].state = "killed"] ELSE procs
      /\ UNCHANGED <<vm, sessions, ses, mutex, taken, fds>>
  BY DEF Kill, Goes, table
<1>2. EndsWell(t, v) /\ n \in Numbers /\ procs[n].of = v /\ v \notin sessions /\ v \in Pages
  BY <1>0, <1>1 DEF OneEnds, Ending, EndsWell, HasWorker
<1> HIDE DEF v, n
<1>3. at' \in [Threads -> Places] /\ at'[t] = "close" /\ \A u \in Threads : u # t => at'[u] = at[u]
  BY <1>0, <1>1 DEF SerTypes, Places
<1>4. /\ procs' \in [Numbers -> Procs] /\ \A m \in Numbers : procs'[m].of = procs[m].of
      /\ \A m \in Numbers : m # n => procs'[m] = procs[m]
  BY <1>0, <1>1, <1>2 DEF SerTypes, Procs, States
<1>5. \A w \in Pages : (HasWorker(w)' <=> HasWorker(w)) /\ OpenSid(w)' = OpenSid(w)
  BY <1>1, <1>4 DEF HasWorker, OpenSid
<1>6. \A w \in Pages : (Begun(w)' <=> Begun(w)) /\ (Holds(w)' <=> Holds(w))
  <2>1. \A w \in Pages : ConnectAt(w)' = ConnectAt(w) \/ (ConnectAt(w)' = "close" /\ ConnectAt(w) = "kill")
    BY <1>1, <1>3, ThreadFacts DEF ConnectAt
  <2> QED BY <2>1 DEF Begun, Holds
<1>7. SerTypes' /\ OneInside'
  BY <1>0, <1>1, <1>3, <1>4, <1>5, <1>6 DEF SerTypes, OneInside
<1>8. Listed'
  <2>1. \A p \in sessions : p \in Pages /\ ses[p].pid \in Numbers /\ ses[p].pid # n
    BY <1>0, <1>2 DEF Listed, HasWorker, SerTypes
  <2> QED BY <1>0, <1>1, <1>4, <1>5, <1>6, <2>1 DEF Listed
<1>9. OwnDescriptor'
  BY <1>0, <1>1, <1>6 DEF OwnDescriptor
<1>10. OneEnds'
  <2>1. \A u \in Threads : EndedBy(u)' = EndedBy(u) /\ (Ending(u)' => Ending(u)) /\
          (u # t => at'[u] = at[u]) /\ at[t] = "kill" /\ at'[t] = "close"
    BY <1>1, <1>3 DEF EndedBy, Ending
  <2> SUFFICES ASSUME NEW u \in Threads, NEW w \in Pages, Ending(u)', EndedBy(u) = w, EndsWell(u, w)
               PROVE  EndedBy(u)' = w /\ EndsWell(u, w)'
    BY <1>0, <2>1, EndsKept
  <2> QED BY <1>1, <1>5, <1>6, <2>1 DEF EndsWell
<1> QED BY <1>7, <1>8, <1>9, <1>10 DEF SerInv

LEMMA ExitsKeeps ==
  ASSUME SerInv, NEW n \in Numbers, Exits(n)
  PROVE  SerInv'
<1>0. SerTypes /\ OneInside /\ Listed /\ OwnDescriptor /\ OneEnds
  BY DEF SerInv
<1>1. procs' = [procs EXCEPT ![n].state = "zombie"] /\ UNCHANGED <<vm, sessions, ses, mutex, taken, fds, at>>
  BY DEF Exits, table
<1>2. /\ procs' \in [Numbers -> Procs] /\ \A m \in Numbers : procs'[m].of = procs[m].of
      /\ \A m \in Numbers : procs'[m].state \in {procs[m].state, "zombie"}
  BY <1>0, <1>1 DEF SerTypes, Procs, States
<1>3. \A w \in Pages : (HasWorker(w)' <=> HasWorker(w)) /\ OpenSid(w)' = OpenSid(w)
  BY <1>1, <1>2 DEF HasWorker, OpenSid
<1>4. \A w \in Pages : (Begun(w)' <=> Begun(w)) /\ (Holds(w)' <=> Holds(w))
  BY <1>1 DEF Begun, Holds, ConnectAt
<1>5. SerTypes' /\ OneInside' /\ OwnDescriptor'
  BY <1>0, <1>1, <1>2, <1>3, <1>4 DEF SerTypes, OneInside, OwnDescriptor
<1>6. Listed'
  <2>1. \A p \in sessions : p \in Pages /\ ses[p].pid \in Numbers
    BY <1>0 DEF Listed, HasWorker, SerTypes
  <2> QED BY <1>0, <1>1, <1>2, <1>3, <1>4, <2>1 DEF Listed
<1>7. OneEnds'
  <2>1. \A u \in Threads : EndedBy(u)' = EndedBy(u) /\ (Ending(u)' <=> Ending(u))
    BY <1>1 DEF EndedBy, Ending
  <2> SUFFICES ASSUME NEW u \in Threads, NEW w \in Pages, Ending(u)', EndedBy(u) = w, EndsWell(u, w)
               PROVE  EndedBy(u)' = w /\ EndsWell(u, w)'
    BY <1>0, <2>1, EndsKept
  <2> QED BY <1>1, <1>3, <1>4, <2>1 DEF EndsWell
<1> QED BY <1>5, <1>6, <1>7 DEF SerInv

LEMMA CloseKeeps ==
  ASSUME SerInv, NEW t \in Threads, Close(t)
  PROVE  SerInv'
<1>0. SerTypes /\ OneInside /\ Listed /\ OwnDescriptor /\ OneEnds
  BY DEF SerInv
<1>a. PICK v \in Pages : v = EndedBy(t)
  BY <1>0 DEF OneEnds, Ending, EndsWell, Close
<1> DEFINE reap == <<"reap", v>>
<1>1. /\ at[t] = "close"
      /\ at' = [at EXCEPT ![t] = Ended(t), ![reap] = IF t[1] = "connect" THEN @ ELSE "wait"]
      /\ ses' = [ses EXCEPT ![v].open = FALSE] /\ fds' = [fds EXCEPT ![ses[v].fd] = NoPage]
      /\ UNCHANGED <<vm, sessions, mutex, taken, procs>>
  BY <1>a DEF Close
<1>2. /\ Ending(t) /\ EndsWell(t, v) /\ v \in Pages /\ v \notin sessions /\ Begun(v) /\ HasWorker(v) /\ ses[v].open
      /\ t[1] \in {"connect", "forward", "disconnect"}
  BY <1>0, <1>1, <1>a DEF OneEnds, Ending, EndsWell
<1>3. ses[v].fd \in Numbers /\ fds[ses[v].fd] = v
  BY <1>0, <1>2 DEF OwnDescriptor
<1>4. /\ reap \in Threads /\ reap # t /\ reap[1] = "reap" /\ reap[2] = v
      /\ Ended(t) = (IF t[1] = "connect" THEN "wait" ELSE IF t[1] = "forward" THEN "bye" ELSE "done")
  <2>1. reap \in Threads /\ reap[1] = "reap" /\ reap[2] = v
    BY <1>2, ThreadFacts
  <2> QED BY <1>2, <2>1 DEF Ended
<1>5. ~Ending(reap)
  <2>1. EndedBy(reap) = v
    BY <1>4 DEF EndedBy
  <2> QED BY <1>0, <1>2, <1>4, <1>a, <2>1 DEF OneEnds
<1> HIDE DEF reap
<1>6. /\ at' \in [Threads -> Places] /\ \A u \in Threads : u # t /\ u # reap => at'[u] = at[u]
      /\ at'[t] = Ended(t) /\ at'[reap] = IF t[1] = "connect" THEN at[reap] ELSE "wait"
  BY <1>0, <1>1, <1>4 DEF SerTypes, Places
<1>7. /\ ses' \in [Pages -> Records] /\ ~ses'[v].open /\ \A w \in Pages : ses'[w].pid = ses[w].pid /\ ses'[w].fd = ses[w].fd
      /\ \A w \in Pages : w # v => ses'[w] = ses[w]
  BY <1>0, <1>1, <1>2 DEF SerTypes, Records
<1>8. /\ fds' \in [Numbers -> Pages \cup {NoPage}] /\ \A m \in Numbers : m # ses[v].fd => fds'[m] = fds[m]
  BY <1>0, <1>1, <1>3 DEF SerTypes
<1>9. \A w \in Pages : (Begun(w)' <=> Begun(w)) /\ (Holds(w)' <=> Holds(w))
  <2>1. \A w \in Pages : <<"connect", w>> # reap
    <3>1. \A w \in Pages : <<"connect", w>>[1] = "connect"
      OBVIOUS
    <3> QED BY <1>4, <3>1
  <2>2. \A w \in Pages : <<"connect", w>> # t => ConnectAt(w)' = ConnectAt(w)
    BY <1>6, <2>1, ThreadFacts DEF ConnectAt
  <2>3. \A w \in Pages : <<"connect", w>> = t => ConnectAt(w)' = "wait" /\ ConnectAt(w) = "close"
    <3>1. \A w \in Pages : <<"connect", w>>[1] = "connect"
      OBVIOUS
    <3> QED BY <1>1, <1>4, <1>6, <3>1 DEF ConnectAt
  <2> QED BY <2>2, <2>3 DEF Begun, Holds
<1>10. \A w \in Pages : (HasWorker(w)' <=> HasWorker(w)) /\ OpenSid(w)' = OpenSid(w)
  BY <1>1, <1>7 DEF HasWorker, OpenSid
<1>11. SerTypes' /\ OneInside'
  BY <1>0, <1>1, <1>6, <1>7, <1>8, <1>9, <1>10 DEF SerTypes, OneInside
<1>12. Listed'
  <2>1. \A p \in sessions : p \in Pages /\ p # v
    BY <1>0, <1>2 DEF SerTypes
  <2> QED BY <1>0, <1>1, <1>7, <1>9, <1>10, <2>1 DEF Listed
<1>13. OwnDescriptor'
  <2> SUFFICES ASSUME NEW w \in Pages, ses'[w].open
               PROVE  Begun(w)' /\ ses'[w].fd \in Numbers /\ fds'[ses'[w].fd] = w
    BY DEF OwnDescriptor
  <2>1. w # v /\ ses'[w] = ses[w]
    BY <1>7
  <2>2. Begun(w)' /\ ses[w].fd \in Numbers /\ fds[ses[w].fd] = w
    BY <1>0, <1>9, <2>1 DEF OwnDescriptor
  <2>3. ses[w].fd # ses[v].fd
    BY <1>3, <2>1, <2>2
  <2> QED BY <1>8, <2>1, <2>2, <2>3
<1>14. /\ EndedBy(t) = v /\ EndedBy(reap) = v
       /\ \A u \in Threads : EndedBy(u)' = EndedBy(u)
       /\ \A u \in Threads : u # t /\ u # reap => (Ending(u)' <=> Ending(u))
       /\ Ending(t)' <=> t[1] = "connect"
       /\ Ending(reap)' <=> t[1] # "connect"
  <2>1. EndedBy(t) = v /\ EndedBy(reap) = v /\ \A u \in Threads : EndedBy(u)' = EndedBy(u)
    BY <1>1, <1>4, <1>a DEF EndedBy
  <2> QED BY <1>4, <1>5, <1>6, <2>1 DEF Ending
<1>15. \A u \in Threads : Ending(u) => EndedBy(u) \in Pages
  BY <1>0 DEF OneEnds, EndsWell
<1>16. \A u \in Threads : Ending(u) /\ EndedBy(u) = v => u = t
  BY <1>0, <1>2, <1>14 DEF OneEnds
<1>17. ASSUME NEW u \in Threads, Ending(u)', EndedBy(u)' = v
       PROVE  EndsWell(u, v)' /\ u = IF t[1] = "connect" THEN t ELSE reap
  <2>1. u = IF t[1] = "connect" THEN t ELSE reap
    BY <1>14, <1>16, <1>17
  <2>2. at'[u] = "wait" /\ u[1] \in {"connect", "reap"}
    BY <1>4, <1>6, <2>1
  <2> QED BY <1>1, <1>2, <1>9, <1>10, <2>1, <2>2 DEF EndsWell
<1>18. ASSUME NEW u \in Threads, NEW w \in Pages, Ending(u)', EndedBy(u) = w, w # v
       PROVE  EndsWell(u, w)' /\ Ending(u)
  <2>1. u # t /\ u # reap /\ Ending(u) /\ at'[u] = at[u]
    BY <1>6, <1>14, <1>18
  <2> QED BY <1>0, <1>1, <1>7, <1>9, <1>10, <1>18, <2>1 DEF OneEnds, EndsWell
<1>19. OneEnds'
  <2>1. \A u \in Threads : Ending(u)' => EndedBy(u) \in Pages
    BY <1>2, <1>14, <1>15
  <2>2. ASSUME NEW u \in Threads, Ending(u)' PROVE EndsWell(u, EndedBy(u))'
    <3>1. PICK w \in Pages : w = EndedBy(u)' /\ EndsWell(u, w)'
      BY <1>2, <1>14, <1>17, <1>18, <2>1, <2>2
    <3> QED BY <3>1 DEF EndsWell, Begun, ConnectAt, HasWorker
  <2>3. ASSUME NEW x \in Threads, NEW u \in Threads, Ending(x)', Ending(u)', EndedBy(x)' = EndedBy(u)'
        PROVE  x = u
    <3>1. CASE EndedBy(u)' = v
      BY <1>17, <2>3, <3>1
    <3>2. CASE EndedBy(u)' # v
      BY <1>0, <1>14, <1>18, <2>1, <2>3, <3>2 DEF OneEnds
    <3> QED BY <3>1, <3>2
  <2> QED BY <2>2, <2>3 DEF OneEnds
<1> QED BY <1>11, <1>12, <1>13, <1>19 DEF SerInv

-----------------------------------------------------------------------------
(* The other steps *)

LEMMA ConnectKeeps ==
  ASSUME SerInv, NEW s \in Pages, ConnectStep(s) \/ ForkFails(s)
  PROVE  SerInv'
<1> DEFINE c == <<"connect", s>>
<1>1. c \in Threads /\ c[1] = "connect" /\ c[2] = s /\ <<"forward", s>> \in Threads
  BY ThreadFacts
<1>2. CASE Authorize(s) \/ Refused(s)
  <2>1. PICK to \in {"lock", "refused"} : at' = [at EXCEPT ![c] = to]
    BY <1>2 DEF Authorize, Refused, Goes
  <2>2. at[c] \in {"new", "lock"} /\ UNCHANGED <<vm, sessions, ses, taken, mutex, fds, procs>>
    BY <1>2 DEF Authorize, Refused, Goes, table, kernel
  <2>3. to \in Places \ {"kill", "close", "wait", "fork"}
    BY <2>1 DEF Places
  <2> QED BY <1>1, <2>1, <2>2, <2>3, MoveKeeps
<1>3. CASE WaitPid(s)
  <2>1. EndedBy(c) = taken[s]
    BY <1>1 DEF EndedBy
  <2>2. /\ at[c] = "wait" /\ at' = [at EXCEPT ![c] = "fork"]
        /\ procs' = [procs EXCEPT ![ses[EndedBy(c)].pid] = NoProc]
        /\ UNCHANGED <<vm, sessions, ses, taken, mutex, fds>>
    BY <1>3, <2>1 DEF WaitPid, Goes, table
  <2> QED BY <1>1, <2>2, WaitedKeeps
<1>4. CASE Started(s)
  <2>1. /\ at[c] = "start" /\ at' = [at EXCEPT ![c] = "done", ![<<"forward", s>>] = "loop"]
        /\ UNCHANGED <<vm, sessions, ses, taken, mutex, fds, procs>>
    BY <1>4 DEF Started, table, kernel
  <2>2. c # <<"forward", s>> /\ \A w \in Pages : <<"connect", w>> # <<"forward", s>>
    OBVIOUS
  <2>3. /\ at' \in [Threads -> Places] /\ at'[c] = "done" /\ at'[<<"forward", s>>] = "loop"
        /\ \A u \in Threads : u # c /\ u # <<"forward", s>> => at'[u] = at[u]
    BY <1>1, <2>1, <2>2 DEF SerInv, SerTypes, Places
  <2>4. \A u \in Threads : Ending(u)' => at'[u] = at[u]
    BY <2>3 DEF Ending
  <2>5. \A w \in Pages : (Holds(w)' => Holds(w)) /\ (Begun(w) => Begun(w)')
    <3>1. \A w \in Pages : w = s => ConnectAt(w)' = "done"
      BY <2>3 DEF ConnectAt
    <3>2. \A w \in Pages : w # s => ConnectAt(w)' = ConnectAt(w)
      BY <2>2, <2>3, ThreadFacts DEF ConnectAt
    <3> QED BY <3>1, <3>2 DEF Holds, Begun
  <2> QED BY <2>1, <2>3, <2>4, <2>5, QuietKeeps
<1> QED BY <1>2, <1>3, <1>4, AdmitKeeps, TakeOverKeeps, ForkKeeps, ForkFailsKeeps DEF ConnectStep

LEMMA PageKeeps ==
  ASSUME SerInv, NEW s \in Pages,
         ForwardStep(s) \/ ForwardLocks(s) \/ PageLeaves(s) \/ Reap(s) \/ Echoes(s) \/ Prints(s)
  PROVE  SerInv'
<1> DEFINE f == <<"forward", s>>
           d == <<"disconnect", s>>
           reap == <<"reap", s>>
<1>1. /\ f \in Threads /\ d \in Threads /\ reap \in Threads
      /\ f[1] # "connect" /\ d[1] # "connect" /\ reap[1] # "connect" /\ reap[2] = s
  BY ThreadFacts
<1>2. CASE ForwardStep(s) \/ ForwardLocks(s)
  <2>1. PICK to \in {"locking", "done", "in", "loop", "stop"} : at' = [at EXCEPT ![f] = to]
    BY <1>2 DEF ForwardStep, ForwardLocks, Select, Reads, ForwardEnds, Goes
  <2>2. UNCHANGED <<vm, sessions, ses, taken, mutex, fds, procs>>
    BY <1>2 DEF ForwardStep, ForwardLocks, Select, Reads, ForwardEnds, table, kernel
  <2>3. to \in Places \ {"kill", "close", "wait", "fork"}
    BY <2>1 DEF Places
  <2> QED BY <1>1, <2>1, <2>2, <2>3, MoveKeeps
<1>3. CASE PageLeaves(s)
  <2>1. at' = [at EXCEPT ![d] = "stop"] /\ UNCHANGED <<vm, sessions, ses, taken, mutex, fds, procs>>
    BY <1>3 DEF PageLeaves, Goes, table, kernel
  <2>2. "stop" \in Places \ {"kill", "close", "wait", "fork"}
    BY DEF Places
  <2> QED BY <1>1, <2>1, <2>2, MoveKeeps
<1>4. CASE Reap(s)
  <2>1. EndedBy(reap) = s
    BY <1>1 DEF EndedBy
  <2>2. /\ at[reap] = "wait" /\ at' = [at EXCEPT ![reap] = "done"]
        /\ procs' = [procs EXCEPT ![ses[EndedBy(reap)].pid] = NoProc]
        /\ UNCHANGED <<vm, sessions, ses, taken, mutex, fds>>
    BY <1>4, <2>1 DEF Reap, Goes, table
  <2> QED BY <1>1, <2>2, WaitedKeeps
<1>5. CASE Echoes(s) \/ Prints(s)
  BY <1>5, StutterKeeps DEF Echoes, Prints, table
<1> QED BY <1>2, <1>3, <1>4, <1>5

LEMMA InputKeeps ==
  ASSUME SerInv, NEW i \in Sends,
         Emit(i[1], i[2]) \/ InputStep(i[1], i[2]) \/ InputLocks(i[1], i[2])
  PROVE  SerInv'
<1> DEFINE t == <<i[2], i[1]>>
<1>1. t \in Threads /\ t[1] # "connect"
  <2>1. i[1] \in Pages /\ i[2] \in Kinds
    BY SerialAssumption
  <2>2. t \in Threads
    BY <2>1, ThreadFacts
  <2> QED BY <2>1, <2>2 DEF Kinds
<1>2. PICK to \in {"locking", "done", "in", "select"} : at' = [at EXCEPT ![t] = to]
  <2>1. CASE Emit(i[1], i[2]) \/ InputLocks(i[1], i[2]) \/ InputSelects(i[1], i[2])
    BY <2>1 DEF Emit, InputLocks, InputSelects, Goes
  <2>2. CASE Writes(i[1], i[2])
    BY <2>2 DEF Writes, Goes, NoRoom
  <2> QED BY <2>1, <2>2 DEF InputStep
<1>3. UNCHANGED <<vm, sessions, ses, taken, mutex, fds, procs>>
  BY DEF Emit, InputLocks, InputStep, InputSelects, Writes, table, kernel
<1>4. to \in Places \ {"kill", "close", "wait", "fork"}
  BY <1>2 DEF Places
<1> QED BY <1>1, <1>2, <1>3, <1>4, MoveKeeps

LEMMA SerStep == SerInv /\ [SerNext]_serVars => SerInv'
<1> SUFFICES ASSUME SerInv, [SerNext]_serVars PROVE SerInv'
  OBVIOUS
<1>1. CASE UNCHANGED serVars
  BY <1>1, StutterKeeps DEF serVars
<1>2. ASSUME NEW t \in Threads, EndStep(t) PROVE SerInv'
  BY <1>2, StopKeeps, KillKeeps, CloseKeeps DEF EndStep
<1> QED BY <1>1, <1>2, ConnectKeeps, PageKeeps, InputKeeps, ExitsKeeps DEF SerNext

LEMMA SerInitInv == SerInit => SerInv
<1> SUFFICES ASSUME SerInit PROVE SerInv
  OBVIOUS
<1> USE SerialAssumption
<1>1. /\ sessions = {} /\ mutex = FALSE /\ \A s \in Pages : ses[s].open = FALSE
      /\ at = [t \in Threads |-> IF t[1] = "connect" THEN "new" ELSE "off"]
  BY DEF SerInit
<1>2. SerTypes
  <2>1. ses \in [Pages -> Records]
    <3>1. [pid |-> 0, fd |-> 0, open |-> FALSE] \in Records
      BY DEF Records
    <3> QED BY <3>1 DEF SerInit
  <2>2. procs \in [Numbers -> Procs]
    <3>1. NoProc \in Procs
      BY DEF NoProc, Procs, States
    <3> QED BY <3>1 DEF SerInit
  <2>3. fds \in [Numbers -> Pages \cup {NoPage}] /\ taken \in [Pages -> Pages \cup {NoPage}]
    BY DEF SerInit
  <2>4. at \in [Threads -> Places]
    BY <1>1 DEF Places
  <2> QED BY <1>1, <2>1, <2>2, <2>3, <2>4, FS_EmptySet DEF SerTypes
<1>3. OneInside /\ OneEnds
  <2>1. \A t \in Threads : ~Ending(t)
    BY <1>1 DEF Ending
  <2>2. \A s \in Pages : ~Holds(s)
    BY <1>1, ThreadFacts DEF Holds, ConnectAt
  <2> QED BY <2>1, <2>2 DEF OneInside, OneEnds
<1>4. Listed /\ OwnDescriptor
  BY <1>1, FS_EmptySet DEF Listed, OwnDescriptor
<1> QED BY <1>2, <1>3, <1>4 DEF SerInv

\* For any pages, VMs, take-overs, leaving pages, dying workers and reuse of
\* descriptors and process numbers by the kernel: whoever is inside a session's
\* lock has that session's own descriptor, a session in the table keeps its
\* descriptor and a worker nobody killed, a VM has one console, and there are not
\* more than MAX_SESSIONS. [connect, forward, stop, end, pty_input]
THEOREM ConsoleTheorem == SerSpec => []OwnConsole
<1>1. SerInv => OwnConsole
  <2> SUFFICES ASSUME SerInv PROVE OwnConsole
    OBVIOUS
  <2>0. SerTypes /\ Listed /\ OwnDescriptor
    BY DEF SerInv
  <2>1. \A t \in Threads : StillOpen(t[2]) => fds[ses[t[2]].fd] = t[2]
    BY <2>0, ThreadFacts DEF StillOpen, OwnDescriptor
  <2>2. \A s \in sessions :
          /\ ses[s].open /\ fds[ses[s].fd] = s
          /\ procs[ses[s].pid].of = s /\ procs[ses[s].pid].state # "killed"
          /\ OpenSid(s) = {s}
    BY <2>0 DEF Listed, OwnDescriptor, SerTypes, HasWorker
  <2> QED BY <2>0, <2>1, <2>2 DEF OwnConsole, Listed
<1> QED BY <1>1, SerInitInv, SerStep, PTL DEF SerSpec
=============================================================================
