------------------------------- MODULE Claims -------------------------------
(***************************************************************************)
(* The claims of short requests: claims.hold around a libvirt call, its    *)
(* rows with an expiry, the rows of processes that died, and the claims of *)
(* jobs beside them (operations/claims.py). gunicorn's worker ends a       *)
(* process whose request runs past the timeout                             *)
(* (webvirtcloud/gunicorn_worker.py); rows expire by the clock of whoever  *)
(* looks at them.                                                          *)
(***************************************************************************)
EXTENDS Naturals, FiniteSets

CONSTANTS
  Procs,       \* processes; each start is a new one
  WebProcs,    \* those run by gunicorn's worker, with its request timeout
  Nodes,       \* installations: node_id, and the PID space of its processes
  NodeOf, PidOf,
  Clock,       \* Nodes -> how far the node's clock is ahead
  Threads, ProcOf,
  Jobs,
  Keys,
  Wants,       \* what a block may hold: sets of <<key, mode>>, one mode a key
  JobWants,    \* Jobs -> one of them
  Timeout,     \* cfg.timeout
  Delay,       \* how late notify may come
  TTL,         \* TRANSIENT_TTL
  MaxDepth,    \* bound on nested blocks
  MaxTime      \* bound on time

Modes == {"shared", "exclusive"}
Levels == 1..MaxDepth

ASSUME ProcsAssumption ==
  /\ WebProcs \subseteq Procs
  /\ NodeOf \in [Procs -> Nodes] /\ ProcOf \in [Threads -> Procs]
  /\ Clock \in [Nodes -> Nat]
ASSUME WantsAssumption ==
  /\ Wants \subseteq SUBSET (Keys \X Modes)
  /\ \A w \in Wants : \A c, d \in w : c[1] = d[1] => c = d
  /\ JobWants \in [Jobs -> Wants]
  /\ Jobs \cap Threads = {}
\* The TTL covers the longest request, the delay of its end and the clocks.
ASSUME TimesAssumption ==
  /\ Timeout \in Nat /\ Delay \in Nat /\ TTL \in Nat /\ MaxDepth \in Nat /\ MaxTime \in Nat
  /\ \A m, n \in Nodes : Timeout + Delay + Clock[m] < TTL + Clock[n]

VARIABLES
  now,       \* seconds
  up,        \* the processes that run
  ended,     \* those that ran
  busy,      \* Threads -> it serves a request (or runs housekeeping)
  started,   \* Threads -> when that began
  depth,     \* Threads -> the number of blocks it is in
  want,      \* Threads -> level -> what the block asked for
  got,       \* Threads -> level -> the rows hold wrote for it
  table,     \* the Claim rows; by: the thread, or the job
  jobState

claimsVars == <<now, up, ended, busy, started, depth, want, got, table, jobState>>

Rows == [by : Threads \cup Jobs, key : Keys, mode : Modes, exp : Nat]
Clash(m, n) == m = "exclusive" \/ n = "exclusive"
Node(t) == NodeOf[ProcOf[t]]

ClaimsInit ==
  /\ now = 0 /\ up = {} /\ ended = {}
  /\ busy = [t \in Threads |-> FALSE]
  /\ started = [t \in Threads |-> 0]
  /\ depth = [t \in Threads |-> 0]
  /\ want = [t \in Threads |-> [i \in Levels |-> {}]]
  /\ got = [t \in Threads |-> [i \in Levels |-> {}]]
  /\ table = {}
  /\ jobState = [j \in Jobs |-> "none"]

-----------------------------------------------------------------------------
(* Processes, requests and time *)

\* A process takes a PID no living process of its node has.
ProcStart(p) ==
  /\ p \notin up \cup ended
  /\ \A q \in up : NodeOf[q] = NodeOf[p] => PidOf[q] # PidOf[p]
  /\ up' = up \cup {p}
  /\ UNCHANGED <<now, ended, busy, started, depth, want, got, table, jobState>>

\* Its threads and their blocks end with it; their rows stay.
ProcEnds(p) ==
  /\ p \in up
  /\ up' = up \ {p}
  /\ ended' = ended \cup {p}
  /\ busy' = [t \in Threads |-> busy[t] /\ ProcOf[t] # p]
  /\ started' = [t \in Threads |-> IF ProcOf[t] = p THEN 0 ELSE started[t]]
  /\ depth' = [t \in Threads |-> IF ProcOf[t] = p THEN 0 ELSE depth[t]]
  /\ want' = [t \in Threads |-> IF ProcOf[t] = p THEN [i \in Levels |-> {}] ELSE want[t]]
  /\ got' = [t \in Threads |-> IF ProcOf[t] = p THEN [i \in Levels |-> {}] ELSE got[t]]
  /\ UNCHANGED <<now, table, jobState>>

Running(t) == ProcOf[t] \in up /\ busy[t]

\* Worker.handle
Begin(t) ==
  /\ ProcOf[t] \in up /\ ~busy[t]
  /\ busy' = [busy EXCEPT ![t] = TRUE]
  /\ started' = [started EXCEPT ![t] = now]
  /\ UNCHANGED <<now, up, ended, depth, want, got, table, jobState>>

FinishRequest(t) ==
  /\ Running(t) /\ depth[t] = 0
  /\ busy' = [busy EXCEPT ![t] = FALSE]
  /\ started' = [started EXCEPT ![t] = 0]
  /\ UNCHANGED <<now, up, ended, depth, want, got, table, jobState>>

\* Worker.notify: the process of a request past the timeout exits.
Overdue(p) == \E t \in Threads : ProcOf[t] = p /\ busy[t] /\ now > started[t] + Timeout
Notify(p) ==
  /\ p \in WebProcs
  /\ Overdue(p)
  /\ ProcEnds(p)

\* Mutant: a request that waits does not keep the worker from reporting in.
TickUnbounded ==
  /\ now < MaxTime
  /\ now' = now + 1
  /\ UNCHANGED <<up, ended, busy, started, depth, want, got, table, jobState>>

\* Time passes, and notify comes in time.
Tick ==
  /\ now < MaxTime
  /\ \A t \in Threads : Running(t) /\ ProcOf[t] \in WebProcs => now < started[t] + Timeout + Delay
  /\ now' = now + 1
  /\ UNCHANGED <<up, ended, busy, started, depth, want, got, table, jobState>>

-----------------------------------------------------------------------------
(* Admission *)

\* A row of a short request that the clock of node n calls expired.
Expired(r, n) == r.by \in Threads /\ r.exp <= now + Clock[n]

\* Mutant: the PID of another installation is looked for here.
GoneAnyNode(r, n) ==
  /\ r.by \in Threads
  /\ \A p \in up : NodeOf[p] = n => PidOf[p] # PidOf[ProcOf[r.by]]

\* claims._gone, looking from node n.
Gone(r, n) ==
  /\ r.by \in Threads
  /\ Node(r.by) = n
  /\ \A p \in up : NodeOf[p] = n => PidOf[p] # PidOf[ProcOf[r.by]]

Against(r, wanted) == \E c \in wanted : c[1] = r.key /\ Clash(c[2], r.mode)

\* claims._check from node n: what it deletes, and whether it lets wanted in.
Stale(wanted, n) ==
  {r \in table : \/ Expired(r, n) /\ \E c \in wanted : c[1] = r.key
                 \/ Against(r, wanted) /\ Gone(r, n)}
Free(wanted, n) == \A r \in table : Against(r, wanted) => Expired(r, n) \/ Gone(r, n)

Held(t) == UNION {got[t][i] : i \in Levels}

\* Mutant: a shared key counts as held for an exclusive block inside.
HoldUpgrading(t, wanted) ==
  LET new == {c \in wanted : \A r \in Held(t) : r.key # c[1]}
      rows == {[by |-> t, key |-> c[1], mode |-> c[2], exp |-> now + Clock[Node(t)] + TTL] : c \in new}
  IN  /\ Running(t) /\ depth[t] < MaxDepth
      /\ Free(new, Node(t))
      /\ table' = (table \ Stale(new, Node(t))) \cup rows
      /\ depth' = [depth EXCEPT ![t] = @ + 1]
      /\ want' = [want EXCEPT ![t][depth[t] + 1] = wanted]
      /\ got' = [got EXCEPT ![t][depth[t] + 1] = rows]
      /\ UNCHANGED <<now, up, ended, busy, started, jobState>>

\* claims.hold: keys the thread holds are reused, the others are admitted in one
\* transaction. (A refusal, or the refused upgrade of a shared key, changes nothing.)
Hold(t, wanted) ==
  LET new == {c \in wanted : \A r \in Held(t) : r.key # c[1]}
      rows == {[by |-> t, key |-> c[1], mode |-> c[2], exp |-> now + Clock[Node(t)] + TTL] : c \in new}
  IN  /\ Running(t) /\ depth[t] < MaxDepth
      /\ \A c \in wanted, r \in Held(t) : r.key = c[1] => r.mode = "exclusive" \/ c[2] = "shared"
      /\ Free(new, Node(t))
      /\ table' = (table \ Stale(new, Node(t))) \cup rows
      /\ depth' = [depth EXCEPT ![t] = @ + 1]
      /\ want' = [want EXCEPT ![t][depth[t] + 1] = wanted]
      /\ got' = [got EXCEPT ![t][depth[t] + 1] = rows]
      /\ UNCHANGED <<now, up, ended, busy, started, jobState>>

\* Mutant: the end of an inner block deletes every row of the thread.
ReleaseAll(t) ==
  /\ Running(t) /\ depth[t] > 0
  /\ table' = {r \in table : r.by # t}
  /\ depth' = [depth EXCEPT ![t] = @ - 1]
  /\ want' = [want EXCEPT ![t][depth[t]] = {}]
  /\ got' = [got EXCEPT ![t][depth[t]] = {}]
  /\ UNCHANGED <<now, up, ended, busy, started, jobState>>

\* The end of a block: its own rows go; a database error leaves them.
Release(t) ==
  /\ Running(t) /\ depth[t] > 0
  /\ table' \in {table \ got[t][depth[t]], table}
  /\ depth' = [depth EXCEPT ![t] = @ - 1]
  /\ want' = [want EXCEPT ![t][depth[t]] = {}]
  /\ got' = [got EXCEPT ![t][depth[t]] = {}]
  /\ UNCHANGED <<now, up, ended, busy, started, jobState>>

\* claims.admit_job by a request of node n: rows without expiry.
AdmitJob(j, n) ==
  /\ jobState[j] = "none"
  /\ Free(JobWants[j], n)
  /\ table' = (table \ Stale(JobWants[j], n))
              \cup {[by |-> j, key |-> c[1], mode |-> c[2], exp |-> 0] : c \in JobWants[j]}
  /\ jobState' = [jobState EXCEPT ![j] = "active"]
  /\ UNCHANGED <<now, up, ended, busy, started, depth, want, got>>

\* jobs.finish, cancel and resolve delete the job's rows with its end.
JobEnds(j) ==
  /\ jobState[j] = "active"
  /\ table' = {r \in table : r.by # j}
  /\ jobState' = [jobState EXCEPT ![j] = "ended"]
  /\ UNCHANGED <<now, up, ended, busy, started, depth, want, got>>

\* worker.housekeeping of node n.
Housekeeping(n) ==
  /\ table' = {r \in table : ~(r.by \in Threads /\ r.exp < now + Clock[n])}
  /\ UNCHANGED <<now, up, ended, busy, started, depth, want, got, jobState>>

ClaimsNext ==
  \/ Tick
  \/ \E p \in Procs : ProcStart(p) \/ ProcEnds(p) \/ Notify(p)
  \/ \E t \in Threads : Begin(t) \/ FinishRequest(t) \/ Release(t) \/ \E wanted \in Wants : Hold(t, wanted)
  \/ \E j \in Jobs : JobEnds(j) \/ \E n \in Nodes : AdmitJob(j, n)
  \/ \E n \in Nodes : Housekeeping(n)

ClaimsSpec == ClaimsInit /\ [][ClaimsNext]_claimsVars

-----------------------------------------------------------------------------
(* Properties *)

\* The types of the processes, of their blocks and of the claims table.
TypeOK ==
  /\ now \in Nat /\ up \subseteq Procs /\ ended \subseteq Procs
  /\ busy \in [Threads -> BOOLEAN]
  /\ started \in [Threads -> Nat]
  /\ depth \in [Threads -> 0..MaxDepth]
  /\ want \in [Threads -> [Levels -> SUBSET (Keys \X Modes)]]
  /\ got \in [Threads -> [Levels -> SUBSET Rows]]
  /\ table \subseteq Rows
  /\ jobState \in [Jobs -> {"none", "active", "ended"}]

Blocks(t) == UNION {want[t][i] : i \in Levels}

\* Two blocks that run, or a block that runs and a job with its claims, never
\* want one resource in conflicting modes: not over requests as long as the
\* timeout, clocks that differ, processes that died, PIDs used again, nested
\* blocks and failed releases. [claims.hold, _check, _gone, TRANSIENT_TTL]
BlocksExclude ==
  /\ \A t, u \in Threads : t # u =>
       \A c \in Blocks(t), d \in Blocks(u) : c[1] = d[1] => ~Clash(c[2], d[2])
  /\ \A t \in Threads, j \in Jobs : jobState[j] = "active" =>
       \A c \in Blocks(t), d \in JobWants[j] : c[1] = d[1] => ~Clash(c[2], d[2])
  /\ \A j, k \in Jobs : j # k /\ jobState[j] = "active" /\ jobState[k] = "active" =>
       \A c \in JobWants[j], d \in JobWants[k] : c[1] = d[1] => ~Clash(c[2], d[2])

(* The inductive invariant (proved in ClaimsProofs). *)

\* A thread in a block runs a request that is not past its time.
InTime ==
  \A t \in Threads :
    /\ \A i \in Levels : i > depth[t] => want[t][i] = {} /\ got[t][i] = {}
    /\ depth[t] > 0 => busy[t]
    /\ busy[t] => ProcOf[t] \in up /\ started[t] <= now
    /\ busy[t] /\ ProcOf[t] \in WebProcs => now <= started[t] + Timeout + Delay

\* A living block's own rows are in the table until the block ends, and none
\* expires while its request may run.
RowsStay ==
  \A t \in Threads, i \in Levels : \A r \in got[t][i] :
    /\ r \in table /\ r.by = t
    /\ r.exp >= started[t] + Clock[Node(t)] + TTL

\* What a block asked for it holds, itself or through a block around it.
Covered ==
  \A t \in Threads, i \in Levels : \A c \in want[t][i] :
    \E k \in Levels : k <= i /\ \E r \in got[t][k] :
      r.key = c[1] /\ (r.mode = "exclusive" \/ c[2] = "shared")

\* Two levels of a thread hold no key twice, so a release takes only its own.
LevelsApart ==
  \A t \in Threads : \A i, k \in Levels : i # k =>
    \A r \in got[t][i], s \in got[t][k] : r.key # s.key

\* No two rows of the table conflict.
TableApart ==
  \A r, s \in table : r # s /\ r.key = s.key => ~Clash(r.mode, s.mode)

\* The rows of a job are its plan, while it is active.
JobRows ==
  \A j \in Jobs :
    /\ jobState[j] = "active" =>
         \A c \in JobWants[j] : [by |-> j, key |-> c[1], mode |-> c[2], exp |-> 0] \in table
    /\ \A r \in table : r.by = j => jobState[j] = "active"

\* All of it. [operations/claims.py as a whole]
Inv == TypeOK /\ InTime /\ RowsStay /\ Covered /\ LevelsApart /\ TableApart /\ JobRows
=============================================================================
