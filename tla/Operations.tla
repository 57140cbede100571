----------------------------- MODULE Operations -----------------------------
(***************************************************************************)
(* The job queue: Operation rows, the claims they hold, the worker lease   *)
(* that fences every write a worker makes, the worker's manager loop, its  *)
(* job threads and control threads, and the recovery of interrupted jobs   *)
(* (operations/models.py, jobs.py, worker.py, claims.admit_job).           *)
(*                                                                         *)
(* One action per database transaction or per step between transactions:   *)
(* fenced() locks the lease row, so a fenced transaction is atomic with    *)
(* respect to acquire(); everything between two transactions interleaves.  *)
(* Wall-clock time enters as nondeterminism: a lease may become stale at   *)
(* any moment after its last renewal (LeaseAges), a back-off may elapse at *)
(* any moment, a limit may pass at any moment.                             *)
(***************************************************************************)
EXTENDS Naturals, FiniteSets

CONSTANTS
  Jobs,            \* the jobs that can be submitted, numbered in order of submission
  Workers,         \* worker processes: every start of run_worker is a new identity
  Hosts,           \* installations (data directories); each has one flock
  HostOf,          \* Workers -> Hosts
  Resources,       \* claim keys
  Computes,        \* the "compute:<id>" keys among them
  Wanted,          \* Jobs -> set of <<key, mode>>: what the kind's plan claims
  Cancellable,     \* jobs whose kind sets cancellable
  HookWaits,       \* jobs whose cancel hook waits for libvirt's work to begin (migrate, disk move)
  AnyErrorCancels, \* jobs whose kind takes every libvirt error for the cancel asked of it (migrate)
  TimeLimited,     \* jobs whose kind sets time_limit
  InRequest,       \* jobs a web request runs (ISO uploads)
  Concurrency,     \* WORKER_CONCURRENCY
  ControlThreads,  \* CONTROL_THREADS
  HooksMayFail,    \* whether a cancel hook may find its host unreachable
  NoWorker, Request

QUEUED == "queued"
RUNNING == "running"
CANCELLING == "cancelling"
SUCCEEDED == "succeeded"
FAILED == "failed"
CANCELLED == "cancelled"
UNCERTAIN == "uncertain"
ACTIVE == {QUEUED, RUNNING, CANCELLING}
STARTED == {RUNNING, CANCELLING}                 \* worker.ACTIVE
ENDED == {SUCCEEDED, FAILED, CANCELLED}
TERMINAL == ENDED \cup {UNCERTAIN}
States == {"none", "deleted"} \cup ACTIVE \cup TERMINAL
Modes == {"shared", "exclusive"}

\* What a job thread is about to do; "none": not in the worker's self.jobs.
ThreadStates == {"none", "precheck", "run", "effects", "returned", "cancelled",
                 "raised", "raised_dirty", "done", "failed"}
\* The threads that may still change something in libvirt.
EffectThreads == {"run", "effects"}
\* Where the recovery of a job stands; a verdict is the outcome finish will be given.
Verdicts == ENDED \cup {UNCERTAIN}
\* The job is the inspector's: what it read of cancel_requested, its cancel hook.
Reconciling == {"reconcile", "reconcile_cancel", "pass_cancel"}
RecoveryStates == {"none", "due", "inflight"} \cup Reconciling \cup Verdicts
Alive == {"waiting", "starting", "leading", "draining"}
ProcStates == {"new", "dead"} \cup Alive

ASSUME JobsAssumption == Jobs \subseteq Nat
ASSUME SizesAssumption == Concurrency \in Nat \ {0} /\ ControlThreads \in Nat \ {0}
ASSUME WorkersAssumption ==
  /\ HostOf \in [Workers -> Hosts]
  /\ NoWorker \notin Workers /\ Request \notin Workers
ASSUME PlansAssumption ==
  /\ Computes \subseteq Resources
  /\ Wanted \in [Jobs -> SUBSET (Resources \X Modes)]
  /\ Cancellable \subseteq Jobs /\ HookWaits \subseteq Cancellable
  /\ AnyErrorCancels \subseteq Cancellable
  /\ TimeLimited \subseteq Jobs /\ InRequest \subseteq Jobs
  /\ HooksMayFail \in BOOLEAN

VARIABLES
  state, worker, effectsStarted, cancelRequested, resolved,  \* the Operation rows
  claims,        \* Jobs -> its Claim rows, as <<key, mode>>
  lease,         \* the WorkerLease row; fresh: renewed within TAKEOVER_AFTER
  proc,          \* the worker processes
  thread,        \* worker -> job -> its job thread
  recovery,      \* worker -> job -> its place in Scheduler
  hooks,         \* worker -> jobs whose cancel hook runs on a control thread
  sent,          \* worker -> the cancels already signalled, by path
  work,          \* job -> libvirt's own work for it (block job, backup, migration)
  told           \* job -> libvirt was asked to abort that work

rows == <<state, worker, effectsStarted, cancelRequested, resolved, claims>>
memory == <<thread, recovery, hooks, sent>>
host == <<work, told>>
vars == <<rows, lease, proc, memory, host>>

Conflict(c, d) == c[1] = d[1] /\ (c[2] = "exclusive" \/ d[2] = "exclusive")
ConflictingPlans(j, k) == \E c \in Wanted[j], d \in Wanted[k] : Conflict(c, d)
HostsOf(j) == {c[1] : c \in Wanted[j]} \cap Computes

-----------------------------------------------------------------------------
(* Rows *)

Init ==
  /\ state = [j \in Jobs |-> "none"]
  /\ worker = [j \in Jobs |-> NoWorker]
  /\ effectsStarted = [j \in Jobs |-> FALSE]
  /\ cancelRequested = [j \in Jobs |-> FALSE]
  /\ resolved = [j \in Jobs |-> FALSE]
  /\ claims = [j \in Jobs |-> {}]
  /\ lease = [holder |-> NoWorker, fresh |-> FALSE]
  /\ proc = [w \in Workers |-> "new"]
  /\ thread = [w \in Workers |-> [j \in Jobs |-> "none"]]
  /\ recovery = [w \in Workers |-> [j \in Jobs |-> "none"]]
  /\ hooks = [w \in Workers |-> {}]
  /\ sent = [w \in Workers |-> {}]
  /\ work = [j \in Jobs |-> "none"]
  /\ told = [j \in Jobs |-> FALSE]

\* Mutant: the claims of uncertain jobs are not looked at.
AdmissibleActiveOnly(j) ==
  \A k \in Jobs : state[k] \in ACTIVE => \A c \in Wanted[j], d \in claims[k] : ~Conflict(c, d)

\* claims._check against the claims jobs hold (Claims.tla has the short requests')
Admissible(j) == \A k \in Jobs : \A c \in Wanted[j], d \in claims[k] : ~Conflict(c, d)

\* jobs.submit, claims.admit_job: the row and its claims in one transaction.
\* A job its requests run is admitted running and is never the worker's.
Submit(j) ==
  /\ state[j] = "none"
  /\ \A k \in Jobs : k > j => state[k] = "none"
  /\ Admissible(j)
  /\ state' = [state EXCEPT ![j] = IF j \in InRequest THEN RUNNING ELSE QUEUED]
  /\ worker' = [worker EXCEPT ![j] = IF j \in InRequest THEN Request ELSE NoWorker]
  /\ claims' = [claims EXCEPT ![j] = Wanted[j]]
  /\ UNCHANGED <<effectsStarted, cancelRequested, resolved, lease, proc, memory, host>>

\* Mutant: the claims outlive the cancelled job.
CancelQueuedKeepingClaims(j) ==
  /\ state[j] = QUEUED
  /\ state' = [state EXCEPT ![j] = CANCELLED]
  /\ UNCHANGED <<worker, effectsStarted, cancelRequested, resolved, claims, lease, proc, memory, host>>

\* jobs.cancel while queued: ended at once.
CancelQueued(j) ==
  /\ state[j] = QUEUED
  /\ state' = [state EXCEPT ![j] = CANCELLED]
  /\ claims' = [claims EXCEPT ![j] = {}]
  /\ UNCHANGED <<worker, effectsStarted, cancelRequested, resolved, lease, proc, memory, host>>

\* jobs.cancel while running: only the flag; the worker signals the job.
CancelRunning(j) ==
  /\ state[j] = RUNNING
  /\ j \in Cancellable
  /\ state' = [state EXCEPT ![j] = CANCELLING]
  /\ cancelRequested' = [cancelRequested EXCEPT ![j] = TRUE]
  /\ UNCHANGED <<worker, effectsStarted, resolved, claims, lease, proc, memory, host>>

\* Mutant: an uncertain end releases the claims too.
WriteOutcomeReleasing(j, outcome) ==
  /\ state' = [state EXCEPT ![j] = outcome]
  /\ claims' = [claims EXCEPT ![j] = {}]

\* What jobs.finish writes once its filter matched; uncertain keeps the claims.
WriteOutcome(j, outcome) ==
  /\ state' = [state EXCEPT ![j] = outcome]
  /\ claims' = IF outcome = UNCERTAIN THEN claims ELSE [claims EXCEPT ![j] = {}]

\* Mutant: a request ends any started job, a worker's too.
FinishInRequestAny(j, outcome) ==
  /\ state[j] \in STARTED
  /\ WriteOutcome(j, outcome)
  /\ UNCHANGED <<worker, effectsStarted, cancelRequested, resolved, lease, proc, memory, host>>

\* jobs.finish without a worker: the request that runs the job ends it.
FinishInRequest(j, outcome) ==
  /\ state[j] \in STARTED
  /\ worker[j] = Request
  /\ WriteOutcome(j, outcome)
  /\ UNCHANGED <<worker, effectsStarted, cancelRequested, resolved, lease, proc, memory, host>>

\* jobs.resolve: a superuser decides an uncertain job.
Resolve(j, outcome) ==
  /\ state[j] = UNCERTAIN
  /\ state' = [state EXCEPT ![j] = outcome]
  /\ resolved' = [resolved EXCEPT ![j] = TRUE]
  /\ claims' = [claims EXCEPT ![j] = {}]
  /\ UNCHANGED <<worker, effectsStarted, cancelRequested, lease, proc, memory, host>>

\* worker.housekeeping: an old ended job without claims leaves the history.
DeleteOld(j) ==
  /\ state[j] \in TERMINAL \ {UNCERTAIN}
  /\ claims[j] = {}
  /\ \E w \in Workers : proc[w] \in {"leading", "draining"}
  /\ state' = [state EXCEPT ![j] = "deleted"]
  /\ UNCHANGED <<worker, effectsStarted, cancelRequested, resolved, claims, lease, proc, memory, host>>

-----------------------------------------------------------------------------
(* The worker process and the lease *)

Fenced(w) == lease.holder = w
SameHost(v, w) == HostOf[v] = HostOf[w]

\* Mutant: the worker runs without the flock.
StartUnlocked(w) ==
  /\ proc[w] = "new"
  /\ proc' = [proc EXCEPT ![w] = "waiting"]
  /\ UNCHANGED <<rows, lease, memory, host>>

\* Worker.run takes the flock. While another worker of the host has it, run
\* returns 1 and changes nothing.
Start(w) ==
  /\ proc[w] = "new"
  /\ \A v \in Workers : SameHost(v, w) => proc[v] \notin Alive
  /\ proc' = [proc EXCEPT ![w] = "waiting"]
  /\ UNCHANGED <<rows, lease, memory, host>>

\* models.acquire: no lease yet, this host's (the flock proves its holder is
\* gone), or one not renewed for TAKEOVER_AFTER.
Acquire(w) ==
  /\ proc[w] = "waiting"
  /\ \/ lease.holder \in {NoWorker, w}
     \/ ~lease.fresh
     \/ lease.holder \in Workers /\ SameHost(lease.holder, w)
  /\ lease' = [holder |-> w, fresh |-> TRUE]
  /\ proc' = [proc EXCEPT ![w] = "starting"]
  /\ UNCHANGED <<rows, memory, host>>

\* Mutant: jobs asked to stop are not looked for.
ScheduleRunningOrphans(w) ==
  /\ proc[w] = "starting"
  /\ proc' = [proc EXCEPT ![w] = "leading"]
  /\ recovery' = [recovery EXCEPT ![w] = [j \in Jobs |->
       IF state[j] = RUNNING /\ worker[j] \notin {w, Request} THEN "due" ELSE @[j]]]
  /\ UNCHANGED <<rows, lease, thread, hooks, sent, host>>

\* Mutant: the jobs of requests are taken for orphans.
ScheduleAllOrphans(w) ==
  /\ proc[w] = "starting"
  /\ proc' = [proc EXCEPT ![w] = "leading"]
  /\ recovery' = [recovery EXCEPT ![w] = [j \in Jobs |->
       IF state[j] \in STARTED /\ worker[j] # w THEN "due" ELSE @[j]]]
  /\ UNCHANGED <<rows, lease, thread, hooks, sent, host>>

\* Scheduler.schedule_orphans: other workers' started jobs, not the requests'.
ScheduleOrphans(w) ==
  /\ proc[w] = "starting"
  /\ proc' = [proc EXCEPT ![w] = "leading"]
  /\ recovery' = [recovery EXCEPT ![w] = [j \in Jobs |->
       IF state[j] \in STARTED /\ worker[j] \notin {w, Request} THEN "due" ELSE @[j]]]
  /\ UNCHANGED <<rows, lease, thread, hooks, sent, host>>

\* _heartbeat and models.renew of a worker that still holds the lease.
Renew(w) ==
  /\ proc[w] \in {"leading", "draining"}
  /\ Fenced(w)
  /\ lease' = [lease EXCEPT !.fresh = TRUE]
  /\ UNCHANGED <<rows, proc, memory, host>>

\* TAKEOVER_AFTER passes without a renewal.
LeaseAges ==
  /\ lease.fresh
  /\ lease' = [lease EXCEPT !.fresh = FALSE]
  /\ UNCHANGED <<rows, proc, memory, host>>

\* A process that ends takes its threads and its memory with it, and its flock.
Forget(w) ==
  /\ proc' = [proc EXCEPT ![w] = "dead"]
  /\ thread' = [thread EXCEPT ![w] = [j \in Jobs |-> "none"]]
  /\ recovery' = [recovery EXCEPT ![w] = [j \in Jobs |-> "none"]]
  /\ hooks' = [hooks EXCEPT ![w] = {}]
  /\ sent' = [sent EXCEPT ![w] = {}]
  /\ UNCHANGED <<rows, lease, host>>

\* The bound on failures: a process ends only while another can still lead.
Spare(w) == \E v \in Workers \ {w} : proc[v] \in {"new", "waiting"}

\* SIGTERM: Worker.stopping is set and the loop ends in _drain. (A worker
\* still waiting for the lease returns 0: Die.)
Stop(w) ==
  /\ proc[w] = "leading"
  /\ Spare(w)
  /\ proc' = [proc EXCEPT ![w] = "draining"]
  /\ UNCHANGED <<rows, lease, memory, host>>

\* A crash, a kill, or os._exit at the end of _drain (the grace may have
\* passed with job threads still running).
Die(w) ==
  /\ proc[w] \in Alive
  /\ Spare(w)
  /\ Forget(w)

\* Worker._lose_lease: self-fencing, os._exit(1).
LoseLease(w) ==
  /\ proc[w] \in {"leading", "draining"}
  /\ ~Fenced(w)
  /\ Forget(w)

-----------------------------------------------------------------------------
(* The manager loop *)

OwnJobs(w) == {j \in Jobs : thread[w][j] # "none"}                \* self.jobs
PerHost == IF Concurrency \div 2 > 1 THEN Concurrency \div 2 ELSE 1
RunningOn(w, c) == {j \in OwnJobs(w) : c \in HostsOf(j)}
\* Mutant: one job too many a host.
HasRoomOffByOne(w, j) == \A c \in HostsOf(j) : Cardinality(RunningOn(w, c)) <= PerHost

HasRoom(w, j) == \A c \in HostsOf(j) : Cardinality(RunningOn(w, c)) < PerHost

\* Mutant: the update does not filter on the queued state.
ClaimStarted(w, j) ==
  /\ proc[w] = "leading"
  /\ Fenced(w)
  /\ Cardinality(OwnJobs(w)) < Concurrency
  /\ state[j] \in {QUEUED, RUNNING}
  /\ HasRoom(w, j)
  /\ state' = [state EXCEPT ![j] = RUNNING]
  /\ worker' = [worker EXCEPT ![j] = w]
  /\ thread' = [thread EXCEPT ![w][j] = "precheck"]
  /\ UNCHANGED <<effectsStarted, cancelRequested, resolved, claims, lease, proc,
                 recovery, hooks, sent, host>>

\* Worker._claim: the oldest queued job that no host keeps out.
Claim(w, j) ==
  /\ proc[w] = "leading"
  /\ Fenced(w)
  /\ Cardinality(OwnJobs(w)) < Concurrency
  /\ state[j] = QUEUED
  /\ HasRoom(w, j)
  /\ \A k \in Jobs : k < j /\ state[k] = QUEUED => ~HasRoom(w, k)
  /\ state' = [state EXCEPT ![j] = RUNNING]
  /\ worker' = [worker EXCEPT ![j] = w]
  /\ thread' = [thread EXCEPT ![w][j] = "precheck"]
  /\ UNCHANGED <<effectsStarted, cancelRequested, resolved, claims, lease, proc,
                 recovery, hooks, sent, host>>

\* Mutant: the exception of a job thread is dropped.
ReapSilently(w, j) ==
  /\ proc[w] \in {"leading", "draining"}
  /\ thread[w][j] \in {"done", "failed"}
  /\ thread' = [thread EXCEPT ![w][j] = "none"]
  /\ sent' = [sent EXCEPT ![w] = @ \ {<<"job", j>>}]
  /\ UNCHANGED <<rows, lease, proc, recovery, hooks, host>>

\* Worker._reap: a job thread that ended; one that raised goes to inspection.
Reap(w, j) ==
  /\ proc[w] \in {"leading", "draining"}
  /\ thread[w][j] \in {"done", "failed"}
  /\ thread' = [thread EXCEPT ![w][j] = "none"]
  /\ sent' = [sent EXCEPT ![w] = @ \ {<<"job", j>>}]
  /\ recovery' = IF thread[w][j] = "failed" THEN [recovery EXCEPT ![w][j] = "due"] ELSE recovery
  /\ UNCHANGED <<rows, lease, proc, hooks, host>>

\* Worker._limits: past its time limit a job that can be cancelled is.
Limits(w, j) ==
  /\ proc[w] = "leading"
  /\ Fenced(w)
  /\ thread[w][j] # "none"
  /\ j \in TimeLimited \cap Cancellable
  /\ ~cancelRequested[j]
  /\ worker[j] = w /\ state[j] \in ACTIVE
  /\ state' = [state EXCEPT ![j] = CANCELLING]
  /\ cancelRequested' = [cancelRequested EXCEPT ![j] = TRUE]
  /\ UNCHANGED <<worker, effectsStarted, resolved, claims, lease, proc, memory, host>>

\* The jobs with a control task of w: a cancel hook or an inspection.
Inspecting(w) == {j \in Jobs : recovery[w][j] \in {"inflight"} \cup Reconciling \cup Verdicts}
ControlTasks(w) == ({"cancel"} \X hooks[w]) \cup ({"inspect"} \X Inspecting(w))
HostTasks(w) == {t \in ControlTasks(w) : HostsOf(t[2]) # {}}

\* Worker.run_control: one control task a host, one thread left to housekeeping.
ControlFree(w, j) ==
  /\ \A t \in ControlTasks(w) : HostsOf(t[2]) \cap HostsOf(j) = {}
  /\ HostsOf(j) = {} \/ Cardinality(HostTasks(w)) < ControlThreads - 1

\* Worker._cancels: the hook of a job asked to stop, signalled once.
SignalCancel(w, j) ==
  /\ proc[w] \in {"leading", "draining"}
  /\ thread[w][j] # "none"
  /\ cancelRequested[j]
  /\ <<"job", j>> \notin sent[w]
  /\ ControlFree(w, j)
  /\ hooks' = [hooks EXCEPT ![w] = @ \cup {j}]
  /\ sent' = [sent EXCEPT ![w] = @ \cup {<<"job", j>>}]
  /\ UNCHANGED <<rows, lease, proc, thread, recovery, host>>

\* Kind.cancel is over: it aborted libvirt's work; or it found none and does not
\* wait for it, or the job has ended (MigrateInstance.cancel, MoveDisk.cancel
\* wait while the job is active and libvirt does nothing).
HookOver(j) ==
  /\ work[j] = "busy" \/ j \notin HookWaits \/ state[j] \notin ACTIVE
  /\ told' = [told EXCEPT ![j] = @ \/ work[j] = "busy"]

HookEnds(w, j) ==
  /\ proc[w] \in Alive
  /\ j \in hooks[w]
  /\ HookOver(j)
  /\ hooks' = [hooks EXCEPT ![w] = @ \ {j}]
  /\ UNCHANGED <<rows, lease, proc, thread, recovery, sent, work>>

\* Kind.cancel raises (the host cannot be reached): _guarded logs it; it is not sent again.
HookFails(w, j) ==
  /\ HooksMayFail
  /\ proc[w] \in Alive
  /\ j \in hooks[w]
  /\ hooks' = [hooks EXCEPT ![w] = @ \ {j}]
  /\ UNCHANGED <<rows, lease, proc, thread, recovery, sent, host>>

-----------------------------------------------------------------------------
(* A job thread: worker.execute *)

Step(w, j, from, to) ==
  /\ proc[w] \in {"leading", "draining"}
  /\ thread[w][j] \in from
  /\ thread' = [thread EXCEPT ![w][j] = to]

\* Kind.precheck passes, or raises before any effect; a database error in
\* execute's first reads leaves the thread with the exception.
Precheck(w, j) ==
  /\ \E to \in {"run", "raised", "failed"} : Step(w, j, {"precheck"}, to)
  /\ UNCHANGED <<rows, lease, proc, recovery, hooks, sent, host>>

\* Context.record_intent before the first effect; LeaseLost leaves the job alone.
RecordIntent(w, j) ==
  /\ IF Fenced(w) /\ worker[j] = w
     THEN /\ Step(w, j, {"run"}, "effects")
          /\ effectsStarted' = [effectsStarted EXCEPT ![j] = TRUE]
     ELSE /\ Step(w, j, {"run"}, "done")
          /\ UNCHANGED effectsStarted
  /\ UNCHANGED <<state, worker, cancelRequested, resolved, claims, lease, proc,
                 recovery, hooks, sent, host>>

\* A later Context._write (set_phase, another intent) of a job no longer ours.
WriteLosesLease(w, j) ==
  /\ ~(Fenced(w) /\ worker[j] = w)
  /\ Step(w, j, {"effects"}, "done")
  /\ UNCHANGED <<rows, lease, proc, recovery, hooks, sent, host>>

\* The kind starts libvirt's work. One whose hook does not wait (a live clone)
\* looks at cancel_requested itself right after.
BeginWork(w, j) ==
  /\ Step(w, j, {"effects"}, "effects")
  /\ work[j] = "none"
  /\ work' = [work EXCEPT ![j] = "busy"]
  /\ told' = [told EXCEPT ![j] = j \notin HookWaits /\ cancelRequested[j]]
  /\ UNCHANGED <<rows, lease, proc, recovery, hooks, sent>>

\* Kind.run returns, or sees its cancel, once libvirt has ended its work
\* (CloneInstance waits for its backup, MoveDisk looks for the block job).
RunReturns(w, j) ==
  /\ work[j] # "busy"
  /\ \/ Step(w, j, {"effects"}, "returned")
     \/ cancelRequested[j] /\ Step(w, j, {"effects"}, "cancelled")
  /\ UNCHANGED <<rows, lease, proc, recovery, hooks, sent, host>>

\* MigrateInstance.run: once a cancel was asked every libvirt error is the cancel,
\* also a lost connection to a libvirt that migrates on.
ErrorTakenForCancel(w, j) ==
  /\ j \in AnyErrorCancels /\ cancelRequested[j]
  /\ Step(w, j, {"effects"}, "cancelled")
  /\ UNCHANGED <<rows, lease, proc, recovery, hooks, sent, host>>

\* Kind.run raises at any moment; a lost connection leaves libvirt's work behind.
RunRaises(w, j) ==
  /\ \/ Step(w, j, {"run"}, "raised")
     \/ Step(w, j, {"effects"}, "raised_dirty")
  /\ UNCHANGED <<rows, lease, proc, recovery, hooks, sent, host>>

OutcomeOf(t) == CASE t = "returned" -> SUCCEEDED [] t = "cancelled" -> CANCELLED [] t = "raised" -> FAILED
Finishing == {"returned", "cancelled", "raised"}

\* Mutant: the end is written without the fence.
ThreadFinishUnfenced(w, j) ==
  /\ Step(w, j, Finishing, "done")
  /\ IF worker[j] = w /\ state[j] \in ACTIVE
     THEN WriteOutcome(j, OutcomeOf(thread[w][j]))
     ELSE UNCHANGED <<state, claims>>
  /\ UNCHANGED <<worker, effectsStarted, cancelRequested, resolved, lease, proc,
                 recovery, hooks, sent, host>>

\* jobs.finish by the job thread: fenced, and only its own active job.
ThreadFinish(w, j) ==
  /\ Fenced(w)
  /\ Step(w, j, Finishing, "done")
  /\ IF worker[j] = w /\ state[j] \in ACTIVE
     THEN WriteOutcome(j, OutcomeOf(thread[w][j]))
     ELSE UNCHANGED <<state, claims>>
  /\ UNCHANGED <<worker, effectsStarted, cancelRequested, resolved, lease, proc,
                 recovery, hooks, sent, host>>

\* finish raises LeaseLost: only the one in "except Cancelled" leaves execute.
FinishLosesLease(w, j) ==
  /\ ~Fenced(w)
  /\ \/ Step(w, j, {"returned", "raised"}, "done")
     \/ Step(w, j, {"cancelled"}, "failed")
  /\ UNCHANGED <<rows, lease, proc, recovery, hooks, sent, host>>

\* finish raises a database error (rolled back): execute's handlers.
FinishDbError(w, j) ==
  /\ \/ Step(w, j, {"returned"}, "raised_dirty")
     \/ Step(w, j, {"cancelled", "raised"}, "failed")
  /\ UNCHANGED <<rows, lease, proc, recovery, hooks, sent, host>>

\* An exception after effects: Scheduler.inspect_now, then the thread ends.
ToInspection(w, j) ==
  /\ Step(w, j, {"raised_dirty"}, "done")
  /\ recovery' = [recovery EXCEPT ![w][j] = "due"]
  /\ UNCHANGED <<rows, lease, proc, hooks, sent, host>>

\* libvirt's work ends by itself or because it was told to.
WorkEnds(j) ==
  /\ work[j] = "busy"
  /\ work' = [work EXCEPT ![j] = "over"]
  /\ UNCHANGED <<rows, lease, proc, memory, told>>

-----------------------------------------------------------------------------
(* Recovery: Scheduler *)

\* Scheduler.due: an inspection starts when the job's hosts have no control
\* task. A job that has ended holds no claims, so no host, and is only forgotten;
\* the inspection of a deleted one fails and is tried again.
Due(w, j) ==
  /\ proc[w] = "leading"
  /\ recovery[w][j] = "due"
  /\ \/ state[j] \in ENDED /\ recovery' = [recovery EXCEPT ![w][j] = "none"]
     \/ /\ state[j] \in ACTIVE \cup {UNCERTAIN}
        /\ ControlFree(w, j)
        /\ recovery' = [recovery EXCEPT ![w][j] = "inflight"]
  /\ UNCHANGED <<rows, lease, proc, thread, hooks, sent, host>>

Advance(w, j, from, to) ==
  /\ proc[w] \in {"leading", "draining"}
  /\ recovery[w][j] \in from
  /\ recovery' = [recovery EXCEPT ![w][j] = to]

\* Scheduler._done
Done(w, j, from) ==
  /\ Advance(w, j, from, "none")
  /\ sent' = [sent EXCEPT ![w] = @ \ {<<"recovery", j>>}]

\* Mutant: recovery forgets that a cancel was asked.
AfterOwnershipNoCancel(j) == IF effectsStarted[j] THEN "reconcile" ELSE FAILED

\* Without effects the job never reached libvirt: failed. Otherwise the kind looks.
\* The row read here is used until the inspection ends: a later cancel is not seen.
AfterOwnership(j) ==
  CASE ~effectsStarted[j] -> FAILED
    [] effectsStarted[j] /\ cancelRequested[j] -> "reconcile_cancel"
    [] effectsStarted[j] /\ ~cancelRequested[j] -> "reconcile"

\* The owner's identity starts with this worker's host.
RanHere(w, j) == worker[j] \in Workers /\ SameHost(worker[j], w)

\* Mutant: another host's job is taken over as if its worker were gone.
TakeOverAny(w, j) ==
  /\ state[j] \in STARTED /\ worker[j] # w
  /\ Fenced(w)
  /\ worker' = [worker EXCEPT ![j] = w]

\* Scheduler._take_over of a job whose worker ran on this host: the flock
\* proves that worker is gone.
TakeOver(w, j) ==
  /\ state[j] \in STARTED /\ worker[j] # w
  /\ Fenced(w)
  /\ RanHere(w, j)
  /\ worker' = [worker EXCEPT ![j] = w]

\* Scheduler._take_over of another host's job: nothing proves that its worker
\* stopped, so it ends uncertain in the same transaction.
Abandoned(w, j) ==
  /\ state[j] \in STARTED /\ worker[j] # w
  /\ Fenced(w)
  /\ ~RanHere(w, j)
  /\ worker' = [worker EXCEPT ![j] = w]
  /\ state' = [state EXCEPT ![j] = UNCERTAIN]

\* Scheduler._inspect up to the ownership of the job. The read of the row and
\* the transaction of _take_over, which filters on what was read, are one step.
Inspect(w, j) ==
  /\ \/ /\ state[j] \notin STARTED \cup {"deleted"}
        /\ Done(w, j, {"inflight"})
        /\ UNCHANGED <<state, worker>>
     \/ /\ state[j] = "deleted"
        /\ Advance(w, j, {"inflight"}, "due")
        /\ UNCHANGED <<state, worker, sent>>
     \/ /\ state[j] \in STARTED /\ worker[j] = w
        /\ Advance(w, j, {"inflight"}, AfterOwnership(j))
        /\ UNCHANGED <<state, worker, sent>>
     \/ /\ state[j] \in STARTED /\ worker[j] # w
        /\ ~Fenced(w)
        /\ Done(w, j, {"inflight"})
        /\ UNCHANGED <<state, worker>>
     \/ /\ TakeOver(w, j)
        /\ Advance(w, j, {"inflight"}, AfterOwnership(j))
        /\ UNCHANGED <<state, sent>>
     \/ /\ Abandoned(w, j)
        /\ Done(w, j, {"inflight"})
  /\ UNCHANGED <<effectsStarted, cancelRequested, resolved, claims, lease, proc, thread, hooks, host>>

\* Kind.reconcile reads libvirt. While libvirt still works the job is watched,
\* until it stalls for STALL_LIMIT; a cancel read with the row is passed on once.
Reconcile(w, j) ==
  /\ \/ /\ work[j] = "busy"
        /\ \/ /\ recovery[w][j] = "reconcile" \/ <<"recovery", j>> \in sent[w]
              /\ \E to \in {"due", UNCERTAIN} : Advance(w, j, {"reconcile", "reconcile_cancel"}, to)
              /\ UNCHANGED sent
           \/ /\ <<"recovery", j>> \notin sent[w]
              /\ Advance(w, j, {"reconcile_cancel"}, "pass_cancel")
              /\ sent' = [sent EXCEPT ![w] = @ \cup {<<"recovery", j>>}]
     \/ /\ work[j] # "busy"
        /\ \/ \E to \in {SUCCEEDED, FAILED, UNCERTAIN} : Advance(w, j, {"reconcile", "reconcile_cancel"}, to)
           \/ Advance(w, j, {"reconcile_cancel"}, CANCELLED)
        /\ UNCHANGED sent
  /\ UNCHANGED <<rows, lease, proc, thread, hooks, host>>

\* The cancel hook inside the inspection; libvirt's work may have ended since
\* reconcile saw it. Then the job is watched on, or has stalled.
PassCancel(w, j) ==
  /\ HookOver(j)
  /\ \E to \in {"due", UNCERTAIN} : Advance(w, j, {"pass_cancel"}, to)
  /\ UNCHANGED <<rows, lease, proc, thread, hooks, sent, work>>

\* The hook raises (_guarded logs it): the job is watched on without it.
PassCancelFails(w, j) ==
  /\ HooksMayFail
  /\ \E to \in {"due", UNCERTAIN} : Advance(w, j, {"pass_cancel"}, to)
  /\ UNCHANGED <<rows, lease, proc, thread, hooks, sent, host>>

\* A host that cannot be read is tried again until RECOVERY_LIMIT.
ReconcileFails(w, j) ==
  /\ \E to \in {"due", UNCERTAIN} : Advance(w, j, {"reconcile", "reconcile_cancel"}, to)
  /\ UNCHANGED <<rows, lease, proc, thread, hooks, sent, host>>

\* Scheduler._finish, then _done; LeaseLost also forgets the job.
InspectFinish(w, j) ==
  /\ Done(w, j, Verdicts)
  /\ IF Fenced(w) /\ worker[j] = w /\ state[j] \in ACTIVE
     THEN WriteOutcome(j, recovery[w][j])
     ELSE UNCHANGED <<state, claims>>
  /\ UNCHANGED <<worker, effectsStarted, cancelRequested, resolved, lease, proc, thread, hooks, host>>

\* A database error in _inspect: the longest back-off.
InspectDbError(w, j) ==
  /\ Advance(w, j, {"inflight"} \cup Verdicts, "due")
  /\ UNCHANGED <<rows, lease, proc, thread, hooks, sent, host>>

-----------------------------------------------------------------------------

RowStep(j) ==
  \/ Submit(j) \/ CancelQueued(j) \/ CancelRunning(j) \/ DeleteOld(j) \/ WorkEnds(j)
  \/ \E outcome \in ENDED : FinishInRequest(j, outcome)
  \/ \E outcome \in {SUCCEEDED, FAILED} : Resolve(j, outcome)

ProcessStep(w) ==
  \/ Start(w) \/ Acquire(w) \/ ScheduleOrphans(w) \/ Renew(w)
  \/ Stop(w) \/ Die(w) \/ LoseLease(w)

ManagerStep(w, j) ==
  \/ Claim(w, j) \/ Reap(w, j) \/ Limits(w, j)
  \/ SignalCancel(w, j) \/ HookEnds(w, j) \/ HookFails(w, j)

ThreadStep(w, j) ==
  \/ Precheck(w, j) \/ RecordIntent(w, j) \/ WriteLosesLease(w, j) \/ BeginWork(w, j)
  \/ RunReturns(w, j) \/ ErrorTakenForCancel(w, j) \/ RunRaises(w, j) \/ ThreadFinish(w, j) \/ FinishLosesLease(w, j)
  \/ FinishDbError(w, j) \/ ToInspection(w, j)

RecoveryStep(w, j) ==
  \/ Due(w, j) \/ Inspect(w, j) \/ Reconcile(w, j) \/ ReconcileFails(w, j)
  \/ PassCancel(w, j) \/ PassCancelFails(w, j)
  \/ InspectFinish(w, j) \/ InspectDbError(w, j)

Next ==
  \/ LeaseAges
  \/ \E j \in Jobs : RowStep(j)
  \/ \E w \in Workers : ProcessStep(w)
  \/ \E w \in Workers, j \in Jobs :
       ManagerStep(w, j) \/ ThreadStep(w, j) \/ RecoveryStep(w, j)

Spec == Init /\ [][Next]_vars

\* What each process and each thread keeps doing.
ProcessProgress(w) ==
  \/ Start(w) \/ Acquire(w) \/ ScheduleOrphans(w) \/ LoseLease(w)
  \/ proc[w] = "draining" /\ Die(w)

TickProgress(w, j) == Claim(w, j) \/ Reap(w, j) \/ SignalCancel(w, j) \/ Due(w, j)

ThreadProgress(w, j) ==
  \/ Precheck(w, j) \/ RecordIntent(w, j) \/ RunReturns(w, j)
  \/ ThreadFinish(w, j) \/ FinishLosesLease(w, j) \/ ToInspection(w, j)

\* systemd or runit starts a worker that ended, its loop ticks, its threads
\* run. An inspection that errors is tried again after a back-off, so its
\* steps are strongly fair: the database and the host do not fail each time.
Fairness ==
  /\ WF_vars(LeaseAges)
  /\ \A w \in Workers : WF_vars(ProcessProgress(w))
  /\ \A w \in Workers, j \in Jobs :
       /\ WF_vars(TickProgress(w, j)) /\ WF_vars(HookEnds(w, j)) /\ WF_vars(ThreadProgress(w, j))
       /\ SF_vars(Inspect(w, j)) /\ SF_vars(Reconcile(w, j)) /\ SF_vars(PassCancel(w, j))
       /\ SF_vars(InspectFinish(w, j))

\* libvirt may work forever (a guest that dirties its memory faster than a
\* migration copies it) unless it is told to abort.
LiveSpec == Spec /\ Fairness /\ \A j \in Jobs : WF_vars(told[j] /\ WorkEnds(j))

-----------------------------------------------------------------------------
(* Properties *)

\* The types of the rows, of the lease and of the processes' memory.
TypeOK ==
  /\ state \in [Jobs -> States]
  /\ worker \in [Jobs -> Workers \cup {NoWorker, Request}]
  /\ effectsStarted \in [Jobs -> BOOLEAN]
  /\ cancelRequested \in [Jobs -> BOOLEAN]
  /\ resolved \in [Jobs -> BOOLEAN]
  /\ claims \in [Jobs -> SUBSET (Resources \X Modes)]
  /\ lease \in [holder : Workers \cup {NoWorker}, fresh : BOOLEAN]
  /\ proc \in [Workers -> ProcStates]
  /\ thread \in [Workers -> [Jobs -> ThreadStates]]
  /\ recovery \in [Workers -> [Jobs -> RecoveryStates]]
  /\ hooks \in [Workers -> SUBSET Jobs]
  /\ sent \in [Workers -> SUBSET ({"job", "recovery"} \X Jobs)]
  /\ work \in [Jobs -> {"none", "busy", "over"}]
  /\ told \in [Jobs -> BOOLEAN]

\* Something of the job still changes libvirt: a job thread past precheck in a
\* living process (also one that lost its lease and does not know yet), or
\* libvirt's own work that outlived it.
Touching(j) == work[j] = "busy" \/ \E w \in Workers : thread[w][j] \in EffectThreads

\* What the job holds was given away although it may still change libvirt: a
\* superuser resolved it, or a migration that was asked to stop ended as cancelled
\* on an error of libvirt, which may migrate on.
GivenAway(j) ==
  \/ resolved[j]
  \/ j \in AnyErrorCancels /\ cancelRequested[j] /\ state[j] \in {CANCELLED, "deleted"}

\* As long as something of a job changes libvirt, the job holds its claims, unless
\* they were given away: by a superuser, or by a cancelled migration on an error.
\* [worker.py: uncertain keeps its claims; jobs.py: MigrateInstance.run]
TouchingHolds == \A j \in Jobs : Touching(j) => claims[j] = Wanted[j] \/ GivenAway(j)

\* Two jobs whose plans conflict never change libvirt at the same time, over
\* crashes, take-overs by the same or another host and workers that lost their
\* lease without knowing it; only a superuser who resolves an uncertain job
\* (and so says that it no longer runs) gives its resources away, and a migration
\* that takes an error of libvirt for its cancel (HoldsWhatItChanges).
\* [worker.py: fenced writes, _take_over, finish; claims.admit_job]
EffectsExclude ==
  \A j, k \in Jobs :
    j # k /\ ConflictingPlans(j, k) /\ Touching(j) /\ Touching(k) => GivenAway(j) \/ GivenAway(k)

\* "A job holds claims on what it changes" [doc/architecture.md], with no
\* superuser's decision behind an exception: two jobs whose plans conflict never
\* change libvirt together. A cancelled migration breaks it.
\* [instances/jobs.py: MigrateInstance.run]
HoldsWhatItChanges ==
  \A j, k \in Jobs :
    j # k /\ ConflictingPlans(j, k) /\ Touching(j) /\ Touching(k) => resolved[j] \/ resolved[k]

\* The thread of worker w begins to run the job, for the first time or again.
Early == {"precheck", "run", "effects"}
Begins(w, j) == thread[w][j] \notin Early /\ thread'[w][j] \in Early

\* A job begins only while no worker ever had it, and from then on a worker has
\* had it.
BeginsOnce ==
  \A j \in Jobs :
    /\ worker[j] # NoWorker => worker'[j] # NoWorker
    /\ \A w \in Workers :
         Begins(w, j) => worker[j] = NoWorker /\ worker'[j] = w /\ ~effectsStarted[j]

\* No job is run twice, in all its life: over crashes, take-overs, inspections,
\* database errors and workers that lost their lease, one thread of one worker
\* begins it, once. [worker.py: _claim, execute, Scheduler; architecture.md "a
\* job whose worker died is never run again"]
RunsOnce == [][BeginsOnce]_vars

\* A started job that a worker owns is never lost by the live lease holder: the
\* worker runs its thread, or has it in its recovery, or will when it
\* schedules the orphans. [worker.py: _claim, _reap, schedule_orphans, _inspect]
Attended ==
  \A w \in Workers :
    Fenced(w) /\ proc[w] = "leading" =>
      \A j \in Jobs :
        state[j] \in STARTED /\ worker[j] # Request =>
          \/ worker[j] = w /\ thread[w][j] # "none"
          \/ recovery[w][j] # "none"

\* One host's jobs have at most half of the worker's slots, one control task at
\* a time, and a control thread is left to housekeeping.
\* [worker.py: _claim, run_control]
HostShare ==
  \A w \in Workers :
    /\ \A c \in Computes : Cardinality(RunningOn(w, c)) <= PerHost
    /\ \A c \in Computes : Cardinality({t \in ControlTasks(w) : c \in HostsOf(t[2])}) <= 1
    /\ Cardinality(HostTasks(w)) < ControlThreads

\* What one step may do to a started job: one of a worker ends, or changes
\* hands, only by the holder of the lease; one of a request stays its own.
HolderWrote ==
  \A j \in Jobs :
    /\ worker[j] = Request /\ state[j] \in STARTED => worker'[j] = Request /\ state'[j] # UNCERTAIN
    /\ worker[j] \in Workers /\ state[j] \in STARTED /\ state'[j] \in TERMINAL => Fenced(worker'[j])
    /\ worker'[j] # worker[j] /\ worker'[j] # Request => Fenced(worker'[j])

\* After a take-over of the lease nothing the old worker does reaches a row, and
\* no worker ends a job that a request runs. [models.fenced, jobs.finish,
\* Scheduler.schedule_orphans]
OnlyHolderWrites == [][HolderWrote]_vars

(* The inductive invariant behind these (proved in OperationsProofs). *)

Loops == {"leading", "draining"}
Running == {"precheck", "run", "effects", "returned", "cancelled", "raised", "raised_dirty"}

\* The flock: one living worker a host.
OneAlive == \A v, w \in Workers : SameHost(v, w) /\ proc[v] \in Alive /\ proc[w] \in Alive => v = w

\* Only a worker in its loop has threads, inspections and jobs.
LoopsOnly ==
  \A w \in Workers, j \in Jobs :
    /\ proc[w] \notin Loops => thread[w][j] = "none" /\ recovery[w][j] = "none"
    /\ worker[j] = w => proc[w] \in Loops \cup {"dead"}

\* A job no worker took yet, or one of a request, is in no worker's memory.
Unowned ==
  \A j \in Jobs :
    /\ state[j] \in {"none", QUEUED} => worker[j] = NoWorker
    /\ state[j] \in {"none", QUEUED} \/ worker[j] = Request =>
         /\ work[j] = "none" /\ ~effectsStarted[j]
         /\ \A w \in Workers : thread[w][j] = "none" /\ recovery[w][j] = "none"
    /\ resolved[j] => state[j] \in {SUCCEEDED, FAILED, "deleted"}
    /\ state[j] \in STARTED => worker[j] \in Workers \cup {Request}

\* A running thread's job is its worker's, or was given up as uncertain; its
\* worker does not inspect it.
ThreadOwns ==
  \A w \in Workers, j \in Jobs :
    thread[w][j] \in Running =>
      /\ (state[j] \in STARTED /\ worker[j] = w) \/ state[j] = UNCERTAIN \/ resolved[j]
      /\ recovery[w][j] = "none"
      /\ \A v \in Workers : thread[v][j] \in Running => v = w

\* What is known of libvirt's work: none before the intent is recorded, ended
\* when the thread returns (but for a migration's error taken for its cancel) or
\* when the owner's inspection found the job's end.
WorkKnown ==
  \A j \in Jobs :
    /\ ~effectsStarted[j] => work[j] = "none"
    /\ work[j] = "busy" => state[j] \in STARTED \cup {UNCERTAIN} \/ GivenAway(j)
    /\ \A w \in Workers :
         /\ thread[w][j] = "effects" => effectsStarted[j]
         /\ thread[w][j] \in {"precheck", "run", "raised"} => work[j] = "none"
         /\ thread[w][j] = "returned" => work[j] # "busy"
         /\ thread[w][j] = "cancelled" =>
              work[j] # "busy" \/ (j \in AnyErrorCancels /\ cancelRequested[j])
         /\ recovery[w][j] \in ENDED /\ worker[j] = w /\ state[j] \in STARTED => work[j] # "busy"

\* The lease holder keeps what it attends: a thread it ended unfinished is in
\* its recovery, and what it inspects is its own.
HolderKeeps ==
  \A w \in Workers, j \in Jobs :
    Fenced(w) /\ state[j] \in STARTED =>
      /\ thread[w][j] = "done" /\ worker[j] = w => recovery[w][j] # "none"
      /\ recovery[w][j] \in Reconciling \cup Verdicts => worker[j] = w

\* The claims table: every active or uncertain job's plan, none in conflict.
ClaimsKept ==
  /\ \A j \in Jobs : claims[j] = IF state[j] \in ACTIVE \cup {UNCERTAIN} THEN Wanted[j] ELSE {}
  /\ \A j, k \in Jobs : j # k => \A c \in claims[j], d \in claims[k] : ~Conflict(c, d)

\* All of it: what the steps of the queue, the workers and recovery preserve.
\* [operations/worker.py and jobs.py as a whole]
Inv ==
  /\ TypeOK /\ OneAlive /\ LoopsOnly /\ Unowned /\ ThreadOwns
  /\ WorkKnown /\ HolderKeeps /\ Attended /\ ClaimsKept

\* What the shares of the hosts rest on: a job starts, or is given a control task,
\* only where its hosts have room. [worker.py: _claim, run_control]
ShareInv ==
  \A w \in Workers :
    /\ IsFiniteSet(OwnJobs(w)) /\ IsFiniteSet(HostTasks(w))
    /\ \A c \in Computes : Cardinality(RunningOn(w, c)) <= PerHost
    /\ \A s, t \in ControlTasks(w) : s # t => HostsOf(s[2]) \cap HostsOf(t[2]) = {}
    /\ Cardinality(HostTasks(w)) < ControlThreads

Life == INSTANCE JobLifecycle WITH Jobs <- Jobs, Wanted <- Wanted, state <- state, claims <- claims

\* The queue with its workers implements the life of a job it promises.
ImplementsLifecycle == Life!LifeSpec

\* Every job the worker has to run ends (or waits for a superuser, uncertain),
\* whatever crashes, lost leases and errors meet it on the way, if libvirt's
\* work for it always ends.
\* [worker.py: Scheduler; instances/jobs.py: "waits for it, or for the job to end without it"]
JobsEnd ==
  \A j \in Jobs : []<>(work[j] # "busy") =>
    (state[j] \in ACTIVE /\ worker[j] # Request ~> state[j] \notin ACTIVE)

\* A cancel of a running job reaches libvirt, through the job's worker or
\* through the recovery of the next one, and ends the job even when its work
\* would never end by itself. [worker.py: _cancels, _inspect]
CancelEnds == \A j \in Jobs : state[j] = CANCELLING /\ worker[j] # Request ~> state[j] \notin ACTIVE

=============================================================================
