--------------------------- MODULE SerialSessions ---------------------------
(***************************************************************************)
(* socketiod, the serial console daemon (console/socketiod): a worker      *)
(* process on a pty for each page, its sessions and their two kinds of     *)
(* lock, the threads that forward output, write input and end a session.   *)
(*                                                                         *)
(* A thread is <<role, page>>.  Descriptors and process numbers are the    *)
(* kernel's: the least number that is free is given out, so that one that  *)
(* was closed or reaped is soon another's.                                 *)
(* Socket.IO calls connect before any other handler of a connection, runs  *)
(* input handlers on threads of their own and delivers in order.           *)
(***************************************************************************)
EXTENDS Naturals, SequencesExt, FiniteSetsExt

CONSTANTS
  Pages,          \* connections (sids)
  Tokens,         \* what the pages' tokens may be for: functions from Pages to VMs
  Superusers,     \* pages of superusers
  MaxSessions,    \* MAX_SESSIONS
  Sends,          \* the inputs a page sends: <<page, kind>>
  Numbers,        \* descriptors and process numbers
  Room,           \* what a pty keeps in each direction
  ForkMayFail,    \* whether pty.fork may raise
  NoPage

Kinds == {"paste", "key", "resize"}
SizeOf(kind) == CASE kind = "paste" -> Room + 1 [] kind = "key" -> 1 [] kind = "resize" -> 0
Threads == ({"connect", "forward", "disconnect", "reap"} \cup Kinds) \X Pages

ASSUME SerialAssumption ==
  /\ \A vms \in Tokens : DOMAIN vms = Pages
  /\ Superusers \subseteq Pages
  /\ MaxSessions \in Nat /\ Numbers \subseteq Nat \ {0} /\ Room \in Nat \ {0}
  /\ Sends \subseteq Pages \X Kinds /\ NoPage \notin Pages /\ ForkMayFail \in BOOLEAN

VARIABLES
  vm,          \* sid -> its VM
  sessions,    \* the sids in sessions
  ses,         \* sid -> its session: pid, fd, open
  mutex,       \* sessions_lock is held
  locked,      \* the sessions whose own lock is held
  at,          \* thread -> where it is
  taken,       \* sid -> the sid it takes over
  rest,        \* <<sid, kind>> -> what is still to be written
  fds,         \* kernel: descriptor -> the page whose pty it is
  procs,       \* kernel: number -> the page whose worker it is, and its state
  inq, outq,   \* how much a page's pty holds for the worker, and of the worker
  told,        \* page -> taken_over and disconnect, as sent to it
  gone         \* pages that left

serVars == <<vm, sessions, ses, mutex, locked, at, taken, rest, fds, procs, inq, outq, told, gone>>
table == <<vm, sessions, ses, mutex, taken>>
kernel == <<fds, procs, inq, outq>>

NoProc == [of |-> NoPage, state |-> "free"]

SerInit ==
  /\ vm \in Tokens
  /\ sessions = {} /\ mutex = FALSE /\ locked = {} /\ gone = {}
  /\ ses = [s \in Pages |-> [pid |-> 0, fd |-> 0, open |-> FALSE]]
  /\ at = [t \in Threads |-> IF t[1] = "connect" THEN "new" ELSE "off"]
  /\ taken = [s \in Pages |-> NoPage]
  /\ rest = [i \in Sends |-> SizeOf(i[2])]
  /\ fds = [n \in Numbers |-> NoPage] /\ procs = [n \in Numbers |-> NoProc]
  /\ inq = [s \in Pages |-> 0] /\ outq = [s \in Pages |-> 0]
  /\ told = [s \in Pages |-> <<>>]

Goes(t, from, to) == at[t] = from /\ at' = [at EXCEPT ![t] = to]
Tell(s, message) == told' = [told EXCEPT ![s] = Append(@, message)]
\* sio.disconnect, once: a connection that is over is not ended again. It calls the
\* disconnect handler, whose stop finds nothing left.
Disconnected(s) == \E i \in DOMAIN told[s] : told[s][i] = "disconnect"
Disconnect(s) == ~mutex /\ IF s \in gone \/ Disconnected(s) THEN UNCHANGED told ELSE Tell(s, "disconnect")

Forked(s) == ses[s].pid # 0
Lives(s) == \E n, m \in Numbers : procs[n] = [of |-> s, state |-> "alive"] /\ fds[m] = s
Ran(s) == ~\E n \in Numbers : procs[n].of = s /\ procs[n].state \in {"alive", "killed"}

-----------------------------------------------------------------------------
(* connect *)

\* The console may be off, the token expired.
Authorize(s) ==
  /\ \E to \in {"lock", "refused"} : Goes(<<"connect", s>>, "new", to)
  /\ UNCHANGED <<table, locked, rest, kernel, told, gone>>

OpenSid(s) == {p \in sessions : vm[p] = vm[s]}

\* Mutant: the limit counts only when the VM's console is open.
RefusesUnlimited(s) == OpenSid(s) # {} /\ s \notin Superusers
Refuses(s) ==
  \/ OpenSid(s) # {} /\ s \notin Superusers
  \/ OpenSid(s) = {} /\ Cardinality(sessions) >= MaxSessions

Refused(s) ==
  /\ ~mutex /\ Refuses(s)
  /\ Goes(<<"connect", s>>, "lock", "refused")
  /\ UNCHANGED <<table, locked, rest, kernel, told, gone>>

\* No console of the VM is open: sessions_lock is kept up to the fork.
Admit(s) ==
  /\ ~mutex /\ ~Refuses(s) /\ OpenSid(s) = {}
  /\ Goes(<<"connect", s>>, "lock", "fork")
  /\ mutex' = TRUE
  /\ UNCHANGED <<vm, sessions, ses, taken, locked, rest, kernel, told, gone>>

\* Mutant: the page is told when its console has been ended.
TakeOverSilently(s) ==
  /\ ~mutex /\ ~Refuses(s) /\ mutex' = TRUE
  /\ \E v \in OpenSid(s) :
       /\ sessions' = sessions \ {v}
       /\ taken' = [taken EXCEPT ![s] = v]
       /\ Goes(<<"connect", s>>, "lock", "kill")
  /\ UNCHANGED <<vm, ses, locked, rest, kernel, told, gone>>

\* A superuser takes over; the page hears who did first.
TakeOver(s) ==
  /\ ~mutex /\ ~Refuses(s) /\ mutex' = TRUE
  /\ \E v \in OpenSid(s) :
       /\ sessions' = sessions \ {v}
       /\ taken' = [taken EXCEPT ![s] = v]
       /\ Tell(v, "taken_over")
       /\ Goes(<<"connect", s>>, "lock", "kill")
  /\ UNCHANGED <<vm, ses, locked, rest, kernel, gone>>

\* end(wait=True): the worker is gone before the next one starts.
WaitPid(s) ==
  /\ Goes(<<"connect", s>>, "wait", "fork")
  /\ LET n == ses[taken[s]].pid IN
       /\ procs[n].state \in {"zombie", "free"}
       /\ procs' = [procs EXCEPT ![n] = NoProc]
  /\ UNCHANGED <<table, locked, rest, fds, inq, outq, told, gone>>

FreePids == {n \in Numbers : procs[n] = NoProc}
FreeFds == {n \in Numbers : fds[n] = NoPage}

Fork(s) ==
  /\ FreePids # {} /\ FreeFds # {}
  /\ Goes(<<"connect", s>>, "fork", "start")
  /\ LET n == Min(FreePids)
         fd == Min(FreeFds)
     IN  /\ procs' = [procs EXCEPT ![n] = [of |-> s, state |-> "alive"]]
         /\ fds' = [fds EXCEPT ![fd] = s]
         /\ ses' = [ses EXCEPT ![s] = [pid |-> n, fd |-> fd, open |-> TRUE]]
  /\ sessions' = sessions \cup {s}
  /\ mutex' = FALSE
  /\ UNCHANGED <<vm, taken, locked, rest, inq, outq, told, gone>>

\* No pty, no process: the exception leaves the lock and connect.
ForkFails(s) ==
  /\ ForkMayFail \/ FreePids = {} \/ FreeFds = {}
  /\ Goes(<<"connect", s>>, "fork", "failed")
  /\ mutex' = FALSE
  /\ UNCHANGED <<vm, sessions, ses, taken, locked, rest, kernel, told, gone>>

\* The page taken over is disconnected; output is forwarded from here on.
Started(s) ==
  /\ at[<<"connect", s>>] = "start"
  /\ at' = [at EXCEPT ![<<"connect", s>>] = "done", ![<<"forward", s>>] = "loop"]
  /\ IF taken[s] = NoPage THEN UNCHANGED told ELSE Disconnect(taken[s])
  /\ UNCHANGED <<table, locked, rest, kernel, gone>>

-----------------------------------------------------------------------------
(* stop and end, by the thread t *)

Ended(t) == CASE t[1] = "connect" -> "wait" [] t[1] = "forward" -> "bye" [] t[1] = "disconnect" -> "done"
EndedBy(t) == IF t[1] = "connect" THEN taken[t[2]] ELSE t[2]

\* Mutant: the session stays in the table while it is ended.
StopKeeping(t) ==
  /\ t[1] \in {"forward", "disconnect"} /\ ~mutex
  /\ Goes(t, "stop", IF t[2] \in sessions THEN "kill" ELSE Ended(t))
  /\ UNCHANGED <<table, locked, rest, kernel, told, gone>>

\* Whoever takes the session out of the table ends it.
Stop(t) ==
  /\ t[1] \in {"forward", "disconnect"} /\ ~mutex
  /\ Goes(t, "stop", IF t[2] \in sessions THEN "kill" ELSE Ended(t))
  /\ sessions' = sessions \ {t[2]}
  /\ UNCHANGED <<vm, ses, mutex, taken, locked, rest, kernel, told, gone>>

\* SIGKILL to whatever has the number.
Kill(t) ==
  /\ Goes(t, "kill", "close")
  /\ LET n == ses[EndedBy(t)].pid IN
       procs' = IF procs[n].state = "alive" THEN [procs EXCEPT ![n].state = "killed"] ELSE procs
  /\ UNCHANGED <<table, locked, rest, fds, inq, outq, told, gone>>

\* Mutant: nobody waits for the worker of a page that left.
CloseOnly(t) ==
  LET v == EndedBy(t) IN
    /\ v \notin locked
    /\ Goes(t, "close", Ended(t))
    /\ ses' = [ses EXCEPT ![v].open = FALSE]
    /\ fds' = [fds EXCEPT ![ses[v].fd] = NoPage]
    /\ inq' = [inq EXCEPT ![v] = 0] /\ outq' = [outq EXCEPT ![v] = 0]
    /\ UNCHANGED <<vm, sessions, mutex, taken, locked, rest, procs, told, gone>>

\* The descriptor is closed under the session's lock; then waitpid, or a thread for it.
Close(t) ==
  LET v == EndedBy(t) IN
    /\ v \notin locked /\ at[t] = "close"
    /\ at' = [at EXCEPT ![t] = Ended(t), ![<<"reap", v>>] = IF t[1] = "connect" THEN @ ELSE "wait"]
    /\ ses' = [ses EXCEPT ![v].open = FALSE]
    /\ fds' = [fds EXCEPT ![ses[v].fd] = NoPage]
    /\ inq' = [inq EXCEPT ![v] = 0] /\ outq' = [outq EXCEPT ![v] = 0]
    /\ UNCHANGED <<vm, sessions, mutex, taken, locked, rest, procs, told, gone>>

Reap(s) ==
  /\ Goes(<<"reap", s>>, "wait", "done")
  /\ LET n == ses[s].pid IN
       /\ procs[n].state \in {"zombie", "free"}
       /\ procs' = [procs EXCEPT ![n] = NoProc]
  /\ UNCHANGED <<table, locked, rest, fds, inq, outq, told, gone>>

\* A page that is closed or unreachable; connect has returned before.
PageLeaves(s) ==
  /\ at[<<"connect", s>>] = "done" /\ s \notin gone /\ ~Disconnected(s)
  /\ gone' = gone \cup {s}
  /\ Goes(<<"disconnect", s>>, "off", "stop")
  /\ UNCHANGED <<table, locked, rest, kernel, told>>

-----------------------------------------------------------------------------
(* forward *)

\* select returns: something to read, or the descriptor is closed.
Select(s) ==
  /\ IF ses[s].open
       THEN LET p == fds[ses[s].fd] IN
              /\ p # NoPage => outq[p] > 0 \/ Ran(p)
              /\ Goes(<<"forward", s>>, "loop", "locking")
       ELSE Goes(<<"forward", s>>, "loop", "done")
  /\ UNCHANGED <<table, locked, rest, kernel, told, gone>>

ForwardLocks(s) ==
  /\ s \notin locked /\ locked' = locked \cup {s}
  /\ Goes(<<"forward", s>>, "locking", "in")
  /\ UNCHANGED <<table, rest, kernel, told, gone>>

\* Mutant: a session closed while the thread waited for its lock is read.
StillOpenAnyway(s) == TRUE
StillOpen(s) == ses[s].open

Reads(s) ==
  LET p == fds[ses[s].fd]
      closed == p = NoPage
  IN  /\ at[<<"forward", s>>] = "in"
      /\ locked' = locked \ {s}
      /\ IF ~StillOpen(s) THEN /\ Goes(<<"forward", s>>, "in", "done")
                               /\ UNCHANGED outq
         ELSE IF ~closed /\ outq[p] > 0 THEN
              /\ outq' = [outq EXCEPT ![p] = 0]
              /\ Goes(<<"forward", s>>, "in", "loop")
         ELSE /\ Goes(<<"forward", s>>, "in", IF closed \/ Ran(p) THEN "stop" ELSE "loop")
              /\ UNCHANGED outq
      /\ UNCHANGED <<table, rest, fds, procs, inq, told, gone>>

\* The worker ended: the page is disconnected.
ForwardEnds(s) ==
  /\ Goes(<<"forward", s>>, "bye", "done")
  /\ Disconnect(s)
  /\ UNCHANGED <<table, locked, rest, kernel, gone>>

-----------------------------------------------------------------------------
(* pty_input, resize *)

\* The handler finds the session, without a lock.
Emit(s, kind) ==
  /\ <<s, kind>> \in Sends
  /\ at[<<"connect", s>>] = "done" /\ s \notin gone
  /\ Goes(<<kind, s>>, "off", IF s \in sessions THEN "locking" ELSE "done")
  /\ UNCHANGED <<table, locked, rest, kernel, told, gone>>

InputLocks(s, kind) ==
  /\ s \notin locked /\ locked' = locked \cup {s}
  /\ Goes(<<kind, s>>, "locking", "in")
  /\ UNCHANGED <<table, rest, kernel, told, gone>>

\* Mutant: a write that finds no room waits for it inside the lock.
NoRoomBlocking == "in"
\* A full pty does not block: the rest waits outside the lock.
NoRoom == "select"

\* The lock is given back on the way out of its block.
Unlock(s, to) == IF to = "in" THEN locked ELSE locked \ {s}

\* os.write of what fits, or the ioctl; an error ends the handler.
Writes(s, kind) ==
  LET p == fds[ses[s].fd]
      n == rest[<<s, kind>>]
      fits == Min({n, Room - inq[p]})
      to == IF n = fits THEN "done" ELSE IF fits = 0 THEN NoRoom ELSE "locking"
  IN  /\ at[<<kind, s>>] = "in"
      /\ IF ~StillOpen(s) \/ p = NoPage \/ Ran(p)
           THEN /\ Goes(<<kind, s>>, "in", "done")
                /\ locked' = locked \ {s}
                /\ UNCHANGED <<inq, rest>>
           ELSE /\ Goes(<<kind, s>>, "in", to)
                /\ locked' = Unlock(s, to)
                /\ inq' = [inq EXCEPT ![p] = @ + fits]
                /\ rest' = [rest EXCEPT ![<<s, kind>>] = n - fits]
      /\ UNCHANGED <<table, fds, procs, outq, told, gone>>

\* select: writable, or a tenth of a second.
InputSelects(s, kind) ==
  /\ Goes(<<kind, s>>, "select", "locking")
  /\ UNCHANGED <<table, locked, rest, kernel, told, gone>>

-----------------------------------------------------------------------------
(* The workers (conf/daemon/consolecallback) *)

\* What is typed comes back: a worker that cannot print does not read.
Echoes(s) ==
  /\ Lives(s) /\ inq[s] > 0 /\ outq[s] < Room
  /\ inq' = [inq EXCEPT ![s] = @ - 1]
  /\ outq' = [outq EXCEPT ![s] = @ + 1]
  /\ UNCHANGED <<table, locked, at, rest, fds, procs, told, gone>>

Prints(s) ==
  /\ Lives(s) /\ outq[s] = 0 /\ inq[s] = 0
  /\ outq' = [outq EXCEPT ![s] = 1]
  /\ UNCHANGED <<table, locked, at, rest, fds, procs, inq, told, gone>>

\* Killed, or by itself: the VM or the host went, the user may no longer, the pty closed.
Exits(n) ==
  /\ procs[n].state \in {"alive", "killed"}
  /\ procs' = [procs EXCEPT ![n].state = "zombie"]
  /\ UNCHANGED <<table, locked, at, rest, fds, inq, outq, told, gone>>

-----------------------------------------------------------------------------

ConnectStep(s) ==
  \/ Authorize(s) \/ Refused(s) \/ Admit(s) \/ TakeOver(s) \/ WaitPid(s) \/ Fork(s) \/ Started(s)
ForwardStep(s) == Select(s) \/ Reads(s) \/ ForwardEnds(s)
EndStep(t) == Stop(t) \/ Kill(t) \/ Close(t)
InputStep(s, kind) == Writes(s, kind) \/ InputSelects(s, kind)

SerNext ==
  \/ \E s \in Pages :
       \/ ConnectStep(s) \/ ForkFails(s) \/ ForwardStep(s) \/ ForwardLocks(s)
       \/ PageLeaves(s) \/ Reap(s) \/ Echoes(s) \/ Prints(s)
  \/ \E i \in Sends : Emit(i[1], i[2]) \/ InputStep(i[1], i[2]) \/ InputLocks(i[1], i[2])
  \/ \E t \in Threads : EndStep(t)
  \/ \E n \in Numbers : Exits(n)

\* Threads run; a lock that is given back and taken again is not kept from the
\* others for ever; a killed process dies; a worker reads what is typed.
SerFairness ==
  /\ \A s \in Pages :
       /\ WF_serVars(ConnectStep(s)) /\ WF_serVars(ForwardStep(s))
       /\ SF_serVars(ForwardLocks(s))
       /\ WF_serVars(Reap(s)) /\ WF_serVars(Echoes(s))
  /\ \A i \in Sends : WF_serVars(InputStep(i[1], i[2])) /\ SF_serVars(InputLocks(i[1], i[2]))
  /\ SF_serVars(\E t \in Threads : EndStep(t))
  /\ \A n \in Numbers : WF_serVars(procs[n].state = "killed" /\ Exits(n))

SerSpec == SerInit /\ [][SerNext]_serVars /\ SerFairness

-----------------------------------------------------------------------------
(* Properties *)

\* A console is its page's alone. A thread that is about to read, write or size
\* a terminal has its own page's, also when the session was closed while the
\* thread waited for its lock and the descriptor's number is a new session's; a
\* session in the table keeps its descriptor and its worker, nobody closes,
\* kills or reaps by a number that is a later session's; a VM has one, and there
\* are not more than the limit. ["so a closed fd's number ... never reaches
\* another console", stop "once", connect]
OwnConsole ==
  /\ \A t \in Threads :
       t[1] \in Kinds \cup {"forward"} /\ at[t] = "in" /\ StillOpen(t[2]) => fds[ses[t[2]].fd] = t[2]
  /\ \A s \in sessions :
       /\ ses[s].open /\ fds[ses[s].fd] = s
       /\ procs[ses[s].pid].of = s /\ procs[ses[s].pid].state # "killed"
       /\ OpenSid(s) = {s}
  /\ Cardinality(sessions) <= MaxSessions

Cleared(s) == s \notin sessions /\ \A n \in Numbers : fds[n] # s /\ procs[n].of # s

\* The console of a page that left, or whose worker ended, is given back: the
\* VM's slot, the descriptor and the process, reaped. And input ends: a paste
\* longer than the pty and its echo do not wait on each other.
\* [forward, stop, end; "no one waits on it while holding the lock"]
ConsolesCleared ==
  /\ \A s \in Pages : s \in gone \/ (Forked(s) /\ Ran(s)) ~> Cleared(s)
  /\ \A i \in Sends : at[<<i[2], i[1]>>] # "off" ~> at[<<i[2], i[1]>>] = "done"

TakerFailed(s) == \E t \in Pages : taken[t] = s /\ at[<<"connect", t>>] = "failed"

\* A page whose console ended is disconnected, unless it left itself or the one
\* that took it over could not start its own; and it hears first who took it,
\* whichever thread disconnects it. [connect: "first, as its forward ends the
\* connection", forward]
PagesTold ==
  /\ [](\A s \in Pages : taken[s] # NoPage /\ told[taken[s]] # <<>> => told[taken[s]][1] = "taken_over")
  /\ \A s \in Pages :
       at[<<"connect", s>>] = "done" /\ s \notin sessions ~> s \in gone \/ Disconnected(s) \/ TakerFailed(s)
=============================================================================
