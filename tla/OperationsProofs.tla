-------------------------- MODULE OperationsProofs --------------------------
(***************************************************************************)
(* Proofs about the job queue, for any number of jobs, workers, hosts and  *)
(* resources. Inv (Operations) is inductive; the properties follow from it *)
(* without looking at the actions again.                                   *)
(***************************************************************************)
EXTENDS Operations, TLAPS, FiniteSetTheorems

USE DEF QUEUED, RUNNING, CANCELLING, SUCCEEDED, FAILED, CANCELLED, UNCERTAIN
USE DEF ACTIVE, STARTED, ENDED, TERMINAL, States, Modes, ThreadStates, Verdicts,
        Reconciling, RecoveryStates, Alive, ProcStates, Loops, Running, GivenAway

\* The job threads' steps that change nothing but the thread: those between
\* two transactions of worker.execute, and those whose transaction failed.
LEMMA ThreadMoves ==
  ASSUME Inv, NEW w \in Workers, NEW j \in Jobs,
         NEW to \in ThreadStates \ {"none", "effects", "precheck"},
         proc[w] \in Loops,
         thread[w][j] \in Running,
         thread' = [thread EXCEPT ![w][j] = to],
         to = "done" => ~(Fenced(w) /\ worker[j] = w),
         to = "returned" => work[j] # "busy",
         to = "cancelled" => work[j] # "busy" \/ (j \in AnyErrorCancels /\ cancelRequested[j]),
         to \in {"run", "raised"} => thread[w][j] \in {"precheck", "run"},
         UNCHANGED <<rows, lease, proc, recovery, hooks, sent, host>>
  PROVE  Inv'
<1> USE WorkersAssumption, PlansAssumption DEF Fenced, SameHost, Conflict, rows, host
<1>1. TypeOK' /\ OneAlive' /\ LoopsOnly' /\ Unowned' /\ ClaimsKept'
  BY DEF Inv, TypeOK, OneAlive, LoopsOnly, Unowned, ClaimsKept
<1>2. ThreadOwns'
  BY DEF Inv, TypeOK, ThreadOwns
<1>3. WorkKnown'
  BY DEF Inv, TypeOK, WorkKnown
<1>4. HolderKeeps' /\ Attended'
  BY DEF Inv, TypeOK, ThreadOwns, HolderKeeps, Attended
<1> QED BY <1>1, <1>2, <1>3, <1>4 DEF Inv

\* Scheduler's steps that change nothing but the place of a job in it (and the
\* cancel passed on to libvirt).
LEMMA RecoveryMoves ==
  ASSUME Inv, NEW w \in Workers, NEW j \in Jobs, NEW to \in RecoveryStates,
         proc[w] \in Loops,
         recovery[w][j] # "none",
         recovery' = [recovery EXCEPT ![w][j] = to],
         to = "none" => state[j] \notin STARTED \/ ~Fenced(w),
         to \in Reconciling \cup Verdicts => (Fenced(w) /\ state[j] \in STARTED => worker[j] = w),
         to \in ENDED => work[j] # "busy",
         UNCHANGED <<rows, lease, proc, thread, hooks, work>>,
         sent' \in [Workers -> SUBSET ({"job", "recovery"} \X Jobs)],
         told' \in [Jobs -> BOOLEAN]
  PROVE  Inv'
<1> USE WorkersAssumption, PlansAssumption DEF Fenced, SameHost, Conflict, rows
<1>1. TypeOK'
  BY DEF Inv, TypeOK
<1>2. OneAlive' /\ LoopsOnly' /\ ClaimsKept'
  BY DEF Inv, TypeOK, OneAlive, LoopsOnly, ClaimsKept
<1>3. Unowned'
  BY DEF Inv, TypeOK, Unowned
<1>4. ThreadOwns'
  BY DEF Inv, TypeOK, ThreadOwns
<1>5. WorkKnown'
  BY DEF Inv, TypeOK, WorkKnown
<1>6. HolderKeeps' /\ Attended'
  BY DEF Inv, TypeOK, HolderKeeps, Attended
<1> QED BY <1>1, <1>2, <1>3, <1>4, <1>5, <1>6 DEF Inv

\* The end of a job and what it does to the claims table: only rows go.
LEMMA OutcomeKeepsClaims ==
  ASSUME Inv, NEW j \in Jobs, NEW outcome \in TERMINAL,
         state[j] \in ACTIVE, WriteOutcome(j, outcome)
  PROVE  /\ ClaimsKept'
         /\ state' \in [Jobs -> States]
         /\ claims' \in [Jobs -> SUBSET (Resources \X Modes)]
<1>1. CASE outcome = UNCERTAIN
  BY <1>1 DEF Inv, TypeOK, ClaimsKept, WriteOutcome, Conflict
<1>2. CASE outcome # UNCERTAIN
  <2>1. claims' = [claims EXCEPT ![j] = {}] /\ state' = [state EXCEPT ![j] = outcome]
    BY <1>2 DEF WriteOutcome
  <2>2. \A k \in Jobs : claims'[k] = {} \/ claims'[k] = claims[k]
    BY <2>1 DEF Inv, TypeOK
  <2>3. \A i, k \in Jobs : i # k => \A c \in claims'[i], d \in claims'[k] : ~Conflict(c, d)
    BY <2>2 DEF Inv, ClaimsKept
  <2>4. \A k \in Jobs : claims'[k] = IF state'[k] \in ACTIVE \cup {UNCERTAIN} THEN Wanted[k] ELSE {}
    BY <2>1, <1>2 DEF Inv, TypeOK, ClaimsKept
  <2> QED BY <2>1, <2>3, <2>4, <1>2 DEF Inv, TypeOK, ClaimsKept, Conflict
<1> QED BY <1>1, <1>2

\* jobs.submit: the check is what keeps the claims apart.
LEMMA SubmitKeeps ==
  ASSUME Inv, NEW j \in Jobs, Submit(j)
  PROVE  Inv'
<1> USE WorkersAssumption, PlansAssumption DEF Fenced, SameHost, Submit, memory, host
<1>1. TypeOK'
  <2>1. worker' \in [Jobs -> Workers \cup {NoWorker, Request}]
    BY DEF Inv, TypeOK
  <2>2. state' \in [Jobs -> States] /\ claims' \in [Jobs -> SUBSET (Resources \X Modes)]
    BY DEF Inv, TypeOK
  <2> QED BY <2>1, <2>2 DEF Inv, TypeOK
<1>2. ClaimsKept'
  <2>1. \A k \in Jobs : claims'[k] = IF k = j THEN Wanted[j] ELSE claims[k]
    BY DEF Inv, TypeOK
  <2>2. \A k \in Jobs : \A c \in Wanted[j], d \in claims[k] : ~Conflict(c, d) /\ ~Conflict(d, c)
    BY DEF Admissible, Conflict
  <2>3. \A i, k \in Jobs : i # k => \A c \in claims'[i], d \in claims'[k] : ~Conflict(c, d)
    BY <2>1, <2>2 DEF Inv, ClaimsKept
  <2>4. \A k \in Jobs : claims'[k] = IF state'[k] \in ACTIVE \cup {UNCERTAIN} THEN Wanted[k] ELSE {}
    BY <2>1 DEF Inv, TypeOK, ClaimsKept
  <2> QED BY <2>3, <2>4 DEF ClaimsKept, Conflict
<1>3. OneAlive' /\ LoopsOnly' /\ Unowned' /\ ThreadOwns'
  BY DEF Inv, TypeOK, OneAlive, LoopsOnly, Unowned, ThreadOwns
<1>4. WorkKnown' /\ HolderKeeps' /\ Attended'
  BY DEF Inv, TypeOK, Unowned, WorkKnown, HolderKeeps, Attended
<1> QED BY <1>1, <1>2, <1>3, <1>4 DEF Inv

\* jobs.cancel of a queued job.
LEMMA CancelQueuedKeeps ==
  ASSUME Inv, NEW j \in Jobs, CancelQueued(j)
  PROVE  Inv'
<1> USE WorkersAssumption, PlansAssumption DEF Fenced, SameHost, CancelQueued, memory, host
<1>1. ClaimsKept'
  BY OutcomeKeepsClaims DEF WriteOutcome
<1>2. TypeOK' /\ OneAlive' /\ LoopsOnly' /\ Unowned' /\ ThreadOwns'
  BY DEF Inv, TypeOK, OneAlive, LoopsOnly, Unowned, ThreadOwns
<1>3. WorkKnown' /\ HolderKeeps' /\ Attended'
  BY DEF Inv, TypeOK, Unowned, WorkKnown, HolderKeeps, Attended
<1> QED BY <1>1, <1>2, <1>3 DEF Inv

\* A request ends its own job.
LEMMA FinishInRequestKeeps ==
  ASSUME Inv, NEW j \in Jobs, NEW outcome \in ENDED, FinishInRequest(j, outcome)
  PROVE  Inv'
<1> USE WorkersAssumption, PlansAssumption DEF Fenced, SameHost, FinishInRequest, memory, host
<1>1. ClaimsKept' /\ state' \in [Jobs -> States] /\ claims' \in [Jobs -> SUBSET (Resources \X Modes)]
  BY OutcomeKeepsClaims
<1>2. state' = [state EXCEPT ![j] = outcome]
  BY DEF WriteOutcome
<1>3. TypeOK' /\ OneAlive' /\ LoopsOnly' /\ Unowned' /\ ThreadOwns'
  BY <1>1, <1>2 DEF Inv, TypeOK, OneAlive, LoopsOnly, Unowned, ThreadOwns
<1>4. WorkKnown' /\ HolderKeeps' /\ Attended'
  BY <1>2 DEF Inv, TypeOK, Unowned, WorkKnown, HolderKeeps, Attended
<1> QED BY <1>1, <1>3, <1>4 DEF Inv

\* jobs.resolve: the claims go, and resolved records who let them go.
LEMMA ResolveKeeps ==
  ASSUME Inv, NEW j \in Jobs, NEW outcome \in {SUCCEEDED, FAILED}, Resolve(j, outcome)
  PROVE  Inv'
<1> USE WorkersAssumption, PlansAssumption DEF Fenced, SameHost, Resolve, memory, host
<1>1. ClaimsKept'
  <2>1. \A k \in Jobs : claims'[k] = {} \/ claims'[k] = claims[k]
    BY DEF Inv, TypeOK
  <2>2. \A i, k \in Jobs : i # k => \A c \in claims'[i], d \in claims'[k] : ~Conflict(c, d)
    BY <2>1 DEF Inv, ClaimsKept
  <2>3. \A k \in Jobs : claims'[k] = IF state'[k] \in ACTIVE \cup {UNCERTAIN} THEN Wanted[k] ELSE {}
    BY DEF Inv, TypeOK, ClaimsKept
  <2> QED BY <2>2, <2>3 DEF ClaimsKept, Conflict
<1>2. TypeOK' /\ OneAlive' /\ LoopsOnly' /\ Unowned' /\ ThreadOwns'
  BY DEF Inv, TypeOK, OneAlive, LoopsOnly, Unowned, ThreadOwns
<1>3. WorkKnown' /\ HolderKeeps' /\ Attended'
  BY DEF Inv, TypeOK, WorkKnown, HolderKeeps, Attended
<1> QED BY <1>1, <1>2, <1>3 DEF Inv

\* Scheduler.schedule_orphans: after it the new holder attends every started job.
LEMMA ScheduleOrphansKeeps ==
  ASSUME Inv, NEW w \in Workers, ScheduleOrphans(w)
  PROVE  Inv'
<1> USE WorkersAssumption, PlansAssumption DEF Fenced, SameHost, Conflict, ScheduleOrphans, rows, host
<1> DEFINE Orphan(j) == state[j] \in STARTED /\ worker[j] \notin {w, Request}
<1>1. \A v \in Workers, j \in Jobs :
        recovery'[v][j] = IF v = w /\ Orphan(j) THEN "due" ELSE recovery[v][j]
  BY DEF Inv, TypeOK
<1>2. recovery' \in [Workers -> [Jobs -> RecoveryStates]]
  BY DEF Inv, TypeOK
<1>3. proc' = [proc EXCEPT ![w] = "leading"] /\ proc[w] = "starting"
  OBVIOUS
<1> HIDE DEF Orphan
<1>4. TypeOK' /\ OneAlive' /\ ClaimsKept'
  BY <1>2, <1>3 DEF Inv, TypeOK, OneAlive, ClaimsKept
<1>5. LoopsOnly' /\ Unowned'
  BY <1>1, <1>3 DEF Inv, TypeOK, LoopsOnly, Unowned, Orphan
<1>6. ThreadOwns'
  <2>1. UNCHANGED <<state, worker, resolved, thread>> /\ \A j \in Jobs : thread[w][j] = "none"
    BY <1>3 DEF Inv, LoopsOnly
  <2>2. \A v \in Workers, j \in Jobs : v # w => recovery'[v][j] = recovery[v][j]
    BY <1>1
  <2> QED BY ONLY <2>1, <2>2, Inv DEF Inv, ThreadOwns
<1>7. WorkKnown' /\ HolderKeeps'
  BY <1>1, <1>3 DEF Inv, TypeOK, LoopsOnly, WorkKnown, HolderKeeps
<1>8. Attended'
  <2> SUFFICES ASSUME NEW v \in Workers, Fenced(v)', proc'[v] = "leading",
                      NEW j \in Jobs, state'[j] \in STARTED /\ worker'[j] # Request
               PROVE  (worker[j] = v /\ thread[v][j] # "none") \/ recovery'[v][j] # "none"
    BY DEF Attended
  <2>1. CASE v = w
    BY <2>1, <1>1 DEF Inv, LoopsOnly, Orphan
  <2>2. CASE v # w
    BY <2>2, <1>1, <1>3 DEF Inv, TypeOK, Attended
  <2> QED BY <2>1, <2>2
<1> QED BY <1>4, <1>5, <1>6, <1>7, <1>8 DEF Inv

\* Context.record_intent: from here on the job may change libvirt.
LEMMA RecordIntentKeeps ==
  ASSUME Inv, NEW w \in Workers, NEW j \in Jobs, RecordIntent(w, j)
  PROVE  Inv'
<1> USE WorkersAssumption, PlansAssumption DEF Fenced, SameHost, Conflict
<1>1. CASE Fenced(w) /\ worker[j] = w
  <2>1. /\ proc[w] \in Loops /\ thread[w][j] = "run"
        /\ thread' = [thread EXCEPT ![w][j] = "effects"]
        /\ effectsStarted' = [effectsStarted EXCEPT ![j] = TRUE]
        /\ UNCHANGED <<state, worker, cancelRequested, resolved, claims, lease, proc,
                       recovery, hooks, sent, work, told>>
    BY <1>1 DEF RecordIntent, Step, host
  <2>2. TypeOK' /\ OneAlive' /\ LoopsOnly' /\ ClaimsKept'
    BY <2>1 DEF Inv, TypeOK, OneAlive, LoopsOnly, ClaimsKept
  <2>3. Unowned' /\ ThreadOwns'
    BY <2>1 DEF Inv, TypeOK, Unowned, ThreadOwns
  <2>4. WorkKnown'
    BY <2>1 DEF Inv, TypeOK, WorkKnown
  <2>5. HolderKeeps' /\ Attended'
    BY <2>1 DEF Inv, TypeOK, HolderKeeps, Attended
  <2> QED BY <2>2, <2>3, <2>4, <2>5 DEF Inv
<1>2. CASE ~(Fenced(w) /\ worker[j] = w)
  BY <1>2, ThreadMoves DEF RecordIntent, Step, rows, host
<1> QED BY <1>1, <1>2

\* libvirt begins to work for a job whose thread is the only one.
LEMMA BeginWorkKeeps ==
  ASSUME Inv, NEW w \in Workers, NEW j \in Jobs, BeginWork(w, j)
  PROVE  Inv'
<1> USE WorkersAssumption, PlansAssumption DEF Fenced, SameHost, Conflict, BeginWork, Step, rows
<1>1. thread' = thread
  BY DEF Inv, TypeOK
<1>2. TypeOK' /\ OneAlive' /\ LoopsOnly' /\ ClaimsKept'
  BY <1>1 DEF Inv, TypeOK, OneAlive, LoopsOnly, ClaimsKept
<1>3. Unowned' /\ ThreadOwns' /\ HolderKeeps' /\ Attended'
  BY <1>1 DEF Inv, TypeOK, Unowned, ThreadOwns, HolderKeeps, Attended
<1>4. WorkKnown'
  <2>1. \A k \in Jobs : k # j => work'[k] = work[k]
    BY DEF Inv, TypeOK
  <2>2. (state[j] \in STARTED /\ worker[j] = w) \/ state[j] = UNCERTAIN \/ resolved[j]
    BY DEF Inv, ThreadOwns
  <2>3. \A v \in Workers : v # w => thread[v][j] \notin Running
    BY DEF Inv, ThreadOwns
  <2>4. recovery[w][j] = "none" /\ effectsStarted[j] /\ (resolved[j] => state[j] \notin STARTED)
    BY DEF Inv, ThreadOwns, WorkKnown, Unowned
  <2> QED BY <1>1, <2>1, <2>2, <2>3, <2>4 DEF Inv, TypeOK, WorkKnown
<1> QED BY <1>2, <1>3, <1>4 DEF Inv

\* jobs.finish by the job thread: libvirt has ended its work, but for a migration's
\* error taken for its cancel, and the claims go.
LEMMA ThreadFinishKeeps ==
  ASSUME Inv, NEW w \in Workers, NEW j \in Jobs, ThreadFinish(w, j)
  PROVE  Inv'
<1> USE WorkersAssumption, PlansAssumption DEF Fenced, SameHost, ThreadFinish, Step, Finishing, host
<1> DEFINE outcome == OutcomeOf(thread[w][j])
<1>1. /\ outcome \in ENDED
      /\ work[j] # "busy" \/ (outcome = CANCELLED /\ j \in AnyErrorCancels /\ cancelRequested[j])
  BY DEF Inv, WorkKnown, OutcomeOf
<1> HIDE DEF outcome
<1>2. CASE worker[j] = w /\ state[j] \in ACTIVE
  <2>1. WriteOutcome(j, outcome)
    BY <1>2 DEF outcome
  <2>2. ClaimsKept' /\ state' \in [Jobs -> States] /\ claims' \in [Jobs -> SUBSET (Resources \X Modes)]
    BY <2>1, <1>1, <1>2, OutcomeKeepsClaims
  <2>3. state' = [state EXCEPT ![j] = outcome]
    BY <2>1 DEF WriteOutcome
  <2>4. TypeOK' /\ OneAlive' /\ LoopsOnly'
    BY <2>2 DEF Inv, TypeOK, OneAlive, LoopsOnly
  <2>5. Unowned' /\ ThreadOwns'
    BY <2>3, <1>1, <1>2 DEF Inv, TypeOK, Unowned, ThreadOwns
  <2>6. WorkKnown'
    BY <2>3, <1>1, <1>2 DEF Inv, TypeOK, WorkKnown, GivenAway
  <2>7. HolderKeeps' /\ Attended'
    BY <2>3, <1>1, <1>2 DEF Inv, TypeOK, HolderKeeps, Attended
  <2> QED BY <2>2, <2>4, <2>5, <2>6, <2>7 DEF Inv
<1>3. CASE worker[j] # w
  BY <1>3, ThreadMoves DEF rows
<1>4. CASE worker[j] = w /\ state[j] \notin ACTIVE
  <2>1. TypeOK' /\ OneAlive' /\ LoopsOnly' /\ ClaimsKept'
    BY <1>4 DEF Inv, TypeOK, OneAlive, LoopsOnly, ClaimsKept, Conflict
  <2>2. Unowned' /\ ThreadOwns' /\ WorkKnown'
    BY <1>4 DEF Inv, TypeOK, Unowned, ThreadOwns, WorkKnown
  <2>3. HolderKeeps' /\ Attended'
    BY <1>4 DEF Inv, TypeOK, HolderKeeps, Attended
  <2> QED BY <2>1, <2>2, <2>3 DEF Inv
<1> QED BY <1>2, <1>3, <1>4

\* Scheduler._inspect up to the ownership: the flock proves that the previous
\* worker of this host is gone; another host's job is given up as uncertain.
LEMMA InspectKeeps ==
  ASSUME Inv, NEW w \in Workers, NEW j \in Jobs, Inspect(w, j)
  PROVE  Inv'
<1> USE WorkersAssumption, PlansAssumption DEF Fenced, SameHost, Conflict, Advance, Done, AfterOwnership, host
<1>1. CASE TakeOver(w, j) /\ Advance(w, j, {"inflight"}, AfterOwnership(j)) /\ UNCHANGED <<state, sent>>
  <2> USE <1>1 DEF Inspect, TakeOver, RanHere
  <2>1. thread[worker[j]][j] = "none"
    BY DEF Inv, OneAlive, LoopsOnly, TypeOK
  <2>2. UNCHANGED <<effectsStarted, cancelRequested, resolved, claims, lease, proc, thread, hooks, host>>
    OBVIOUS
  <2>3. TypeOK' /\ OneAlive' /\ LoopsOnly' /\ ClaimsKept'
    BY <2>2 DEF Inv, TypeOK, OneAlive, LoopsOnly, ClaimsKept
  <2>4. Unowned' /\ ThreadOwns'
    BY <2>1, <2>2 DEF Inv, TypeOK, Unowned, ThreadOwns
  <2>5. WorkKnown' /\ HolderKeeps' /\ Attended'
    BY <2>2 DEF Inv, TypeOK, WorkKnown, HolderKeeps, Attended
  <2> QED BY <2>3, <2>4, <2>5 DEF Inv
<1>2. CASE Abandoned(w, j) /\ Done(w, j, {"inflight"})
  <2> USE <1>2 DEF Inspect, Abandoned
  <2>1. UNCHANGED <<effectsStarted, cancelRequested, resolved, claims, lease, proc, thread, hooks, host>>
    OBVIOUS
  <2>2. TypeOK' /\ OneAlive' /\ LoopsOnly' /\ ClaimsKept'
    BY <2>1 DEF Inv, TypeOK, OneAlive, LoopsOnly, ClaimsKept
  <2>3. Unowned' /\ ThreadOwns'
    BY <2>1 DEF Inv, TypeOK, Unowned, ThreadOwns
  <2>4. WorkKnown' /\ HolderKeeps' /\ Attended'
    BY <2>1 DEF Inv, TypeOK, WorkKnown, HolderKeeps, Attended
  <2> QED BY <2>2, <2>3, <2>4 DEF Inv
<1>3. CASE /\ state[j] \notin STARTED \/ ~Fenced(w)
           /\ Done(w, j, {"inflight"}) /\ UNCHANGED <<state, worker>>
  <2>1. /\ proc[w] \in Loops /\ recovery[w][j] = "inflight"
        /\ recovery' = [recovery EXCEPT ![w][j] = "none"]
        /\ sent' = [sent EXCEPT ![w] = @ \ {<<"recovery", j>>}]
    BY <1>3
  <2>2. UNCHANGED <<rows, lease, proc, thread, hooks, work>> /\ told' = told
    BY <1>3 DEF Inspect, rows
  <2>3. sent' \in [Workers -> SUBSET ({"job", "recovery"} \X Jobs)] /\ told' \in [Jobs -> BOOLEAN]
    BY <2>1, <2>2 DEF Inv, TypeOK
  <2> QED BY <1>3, <2>1, <2>2, <2>3, RecoveryMoves
<1>4. CASE state[j] = "deleted" /\ Advance(w, j, {"inflight"}, "due") /\ UNCHANGED <<state, worker, sent>>
  BY <1>4, RecoveryMoves DEF Inspect, rows, Inv, TypeOK
<1>5. CASE /\ state[j] \in STARTED /\ worker[j] = w
           /\ Advance(w, j, {"inflight"}, AfterOwnership(j)) /\ UNCHANGED <<state, worker, sent>>
  <2>1. AfterOwnership(j) \in ENDED => work[j] # "busy"
    BY DEF Inv, WorkKnown
  <2> QED BY <1>5, <2>1, RecoveryMoves DEF Inspect, rows, Inv, TypeOK
<1> QED
  <2> HIDE DEF Done, Advance, AfterOwnership, Fenced
  <2> QED BY <1>1, <1>2, <1>3, <1>4, <1>5 DEF Inspect

\* Scheduler._finish with the verdict of an inspection.
LEMMA InspectFinishKeeps ==
  ASSUME Inv, NEW w \in Workers, NEW j \in Jobs, InspectFinish(w, j)
  PROVE  Inv'
<1> USE WorkersAssumption, PlansAssumption DEF Fenced, SameHost, InspectFinish, Done, Advance, host
<1> DEFINE outcome == recovery[w][j]
<1>1. outcome \in TERMINAL /\ sent' \in [Workers -> SUBSET ({"job", "recovery"} \X Jobs)]
  BY DEF Inv, TypeOK
<1>2. CASE Fenced(w) /\ worker[j] = w /\ state[j] \in ACTIVE
  <2>1. WriteOutcome(j, outcome)
    BY <1>2
  <2>2. state[j] \in STARTED /\ (outcome \in ENDED => work[j] # "busy")
    BY <1>2 DEF Inv, Unowned, WorkKnown
  <2>3. ClaimsKept' /\ state' \in [Jobs -> States] /\ claims' \in [Jobs -> SUBSET (Resources \X Modes)]
    BY <2>1, <1>1, <1>2, OutcomeKeepsClaims
  <2>4. state' = [state EXCEPT ![j] = outcome]
    BY <2>1 DEF WriteOutcome
  <2> HIDE DEF outcome
  <2>5. TypeOK' /\ OneAlive' /\ LoopsOnly'
    BY <2>3, <1>1 DEF Inv, TypeOK, OneAlive, LoopsOnly
  <2>6. Unowned' /\ ThreadOwns'
    <3>1. thread[w][j] \notin Running
      BY DEF Inv, ThreadOwns
    <3> QED BY <3>1, <2>4, <2>2, <1>1, <1>2 DEF Inv, TypeOK, Unowned, ThreadOwns
  <2>7. WorkKnown' /\ HolderKeeps' /\ Attended'
    BY <2>4, <2>2, <1>1, <1>2 DEF Inv, TypeOK, WorkKnown, HolderKeeps, Attended
  <2> QED BY <2>3, <2>5, <2>6, <2>7 DEF Inv
<1>3. CASE ~(Fenced(w) /\ worker[j] = w /\ state[j] \in ACTIVE)
  <2>1. state[j] \notin STARTED \/ ~Fenced(w)
    BY <1>3 DEF Inv, HolderKeeps
  <2> QED BY <1>3, <1>1, <2>1, RecoveryMoves DEF rows, Inv, TypeOK
<1> QED BY <1>2, <1>3

\* The rows' own steps: requests, superusers, housekeeping, libvirt.
LEMMA RowStepKeeps ==
  ASSUME Inv, NEW j \in Jobs, RowStep(j)
  PROVE  Inv'
<1> USE WorkersAssumption, PlansAssumption DEF Fenced, SameHost, Conflict, rows, memory, host
<1>1. CASE Submit(j)
  BY <1>1, SubmitKeeps
<1>2. CASE CancelQueued(j)
  BY <1>2, CancelQueuedKeeps
<1>3. CASE CancelRunning(j)
  BY <1>3 DEF CancelRunning, Inv, TypeOK, OneAlive, LoopsOnly,
         Unowned, ThreadOwns, WorkKnown, HolderKeeps, Attended, ClaimsKept
<1>4. CASE DeleteOld(j)
  BY <1>4 DEF DeleteOld, Inv, TypeOK, OneAlive, LoopsOnly,
         Unowned, ThreadOwns, WorkKnown, HolderKeeps, Attended, ClaimsKept
<1>5. CASE WorkEnds(j)
  BY <1>5 DEF WorkEnds, Inv, TypeOK, OneAlive, LoopsOnly,
         Unowned, ThreadOwns, WorkKnown, HolderKeeps, Attended, ClaimsKept
<1>6. CASE \E outcome \in ENDED : FinishInRequest(j, outcome)
  BY <1>6, FinishInRequestKeeps
<1>7. CASE \E outcome \in {SUCCEEDED, FAILED} : Resolve(j, outcome)
  BY <1>7, ResolveKeeps
<1> QED BY <1>1, <1>2, <1>3, <1>4, <1>5, <1>6, <1>7 DEF RowStep

\* A worker process starts, leads, drains, dies.
LEMMA ProcessStepKeeps ==
  ASSUME Inv, NEW w \in Workers, ProcessStep(w)
  PROVE  Inv'
<1> USE WorkersAssumption, PlansAssumption DEF Fenced, SameHost, Conflict, rows, memory, host
<1>1. CASE Start(w)
  BY <1>1 DEF Start, Inv, TypeOK, OneAlive, LoopsOnly,
         Unowned, ThreadOwns, WorkKnown, HolderKeeps, Attended, ClaimsKept
<1>2. CASE Acquire(w)
  <2>1. /\ lease' = [holder |-> w, fresh |-> TRUE] /\ proc[w] = "waiting"
        /\ proc' = [proc EXCEPT ![w] = "starting"]
        /\ UNCHANGED <<rows, memory, host>>
    BY <1>2 DEF Acquire
  <2>2. TypeOK' /\ OneAlive' /\ LoopsOnly' /\ Unowned' /\ ThreadOwns'
    BY <2>1 DEF Inv, TypeOK, OneAlive, LoopsOnly, Unowned, ThreadOwns
  <2>3. WorkKnown' /\ ClaimsKept'
    BY <2>1 DEF Inv, WorkKnown, ClaimsKept
  <2>4. \A j \in Jobs : thread[w][j] = "none" /\ recovery[w][j] = "none"
    BY <2>1 DEF Inv, LoopsOnly
  <2>5. lease'.holder = w /\ proc'[w] = "starting"
    BY <2>1 DEF Inv, TypeOK
  <2>6. HolderKeeps' /\ Attended'
    BY <2>1, <2>4, <2>5 DEF HolderKeeps, Attended
  <2> QED BY <2>2, <2>3, <2>6 DEF Inv
<1>3. CASE ScheduleOrphans(w)
  BY <1>3, ScheduleOrphansKeeps
<1>4. CASE Renew(w)
  <2>1. UNCHANGED <<rows, proc, memory, host>> /\ lease'.holder = lease.holder
    BY <1>4 DEF Renew, Inv, TypeOK
  <2>2. lease' \in [holder : Workers \cup {NoWorker}, fresh : BOOLEAN]
    BY <1>4 DEF Renew, Inv, TypeOK
  <2>3. TypeOK' /\ OneAlive' /\ LoopsOnly' /\ Unowned' /\ ThreadOwns'
    BY <2>1, <2>2 DEF Inv, TypeOK, OneAlive, LoopsOnly, Unowned, ThreadOwns
  <2>4. WorkKnown' /\ HolderKeeps' /\ Attended' /\ ClaimsKept'
    BY <2>1 DEF Inv, WorkKnown, HolderKeeps, Attended, ClaimsKept
  <2> QED BY <2>3, <2>4 DEF Inv
<1>5. CASE Stop(w)
  BY <1>5 DEF Stop, Inv, TypeOK, OneAlive, LoopsOnly,
         Unowned, ThreadOwns, WorkKnown, HolderKeeps, Attended, ClaimsKept
<1>6. CASE Die(w)
  BY <1>6 DEF Die, Forget, Inv, TypeOK, OneAlive, LoopsOnly,
         Unowned, ThreadOwns, WorkKnown, HolderKeeps, Attended, ClaimsKept
<1>7. CASE LoseLease(w)
  BY <1>7 DEF LoseLease, Forget, Inv, TypeOK, OneAlive, LoopsOnly,
         Unowned, ThreadOwns, WorkKnown, HolderKeeps, Attended, ClaimsKept
<1> QED BY <1>1, <1>2, <1>3, <1>4, <1>5, <1>6, <1>7 DEF ProcessStep

\* A tick of the manager loop, and the cancel hooks on the control threads.
LEMMA ManagerStepKeeps ==
  ASSUME Inv, NEW w \in Workers, NEW j \in Jobs, ManagerStep(w, j)
  PROVE  Inv'
<1> USE WorkersAssumption, PlansAssumption DEF Fenced, SameHost, Conflict, rows, memory, host
<1>1. CASE Claim(w, j)
  BY <1>1 DEF Claim, Inv, TypeOK, OneAlive, LoopsOnly,
         Unowned, ThreadOwns, WorkKnown, HolderKeeps, Attended, ClaimsKept
<1>2. CASE Reap(w, j)
  BY <1>2 DEF Reap, Inv, TypeOK, OneAlive, LoopsOnly,
         Unowned, ThreadOwns, WorkKnown, HolderKeeps, Attended, ClaimsKept
<1>3. CASE Limits(w, j)
  BY <1>3 DEF Limits, Inv, TypeOK, OneAlive, LoopsOnly,
         Unowned, ThreadOwns, WorkKnown, HolderKeeps, Attended, ClaimsKept
<1>4. CASE SignalCancel(w, j)
  BY <1>4 DEF SignalCancel, Inv, TypeOK, OneAlive, LoopsOnly,
         Unowned, ThreadOwns, WorkKnown, HolderKeeps, Attended, ClaimsKept
<1>5. CASE HookEnds(w, j)
  BY <1>5 DEF HookEnds, HookOver, Inv, TypeOK, OneAlive, LoopsOnly,
         Unowned, ThreadOwns, WorkKnown, HolderKeeps, Attended, ClaimsKept
<1>6. CASE HookFails(w, j)
  BY <1>6 DEF HookFails, Inv, TypeOK, OneAlive, LoopsOnly,
         Unowned, ThreadOwns, WorkKnown, HolderKeeps, Attended, ClaimsKept
<1> QED BY <1>1, <1>2, <1>3, <1>4, <1>5, <1>6 DEF ManagerStep

\* worker.execute.
LEMMA ThreadStepKeeps ==
  ASSUME Inv, NEW w \in Workers, NEW j \in Jobs, ThreadStep(w, j)
  PROVE  Inv'
<1> USE WorkersAssumption, PlansAssumption DEF Fenced, SameHost, Conflict, rows, host
<1>1. CASE Precheck(w, j)
  BY <1>1 DEF Precheck, Step, Inv, TypeOK, OneAlive, LoopsOnly,
         Unowned, ThreadOwns, WorkKnown, HolderKeeps, Attended, ClaimsKept
<1>2. CASE RecordIntent(w, j)
  BY <1>2, RecordIntentKeeps
<1>3. CASE WriteLosesLease(w, j)
  BY <1>3 DEF WriteLosesLease, Step, Inv, TypeOK, OneAlive, LoopsOnly,
         Unowned, ThreadOwns, WorkKnown, HolderKeeps, Attended, ClaimsKept
<1>4. CASE BeginWork(w, j)
  BY <1>4, BeginWorkKeeps
<1>5. CASE RunReturns(w, j)
  <2>1. CASE Step(w, j, {"effects"}, "returned")
    BY <1>5, <2>1, ThreadMoves DEF RunReturns, Step
  <2>2. CASE Step(w, j, {"effects"}, "cancelled")
    BY <1>5, <2>2, ThreadMoves DEF RunReturns, Step
  <2> QED BY <1>5, <2>1, <2>2 DEF RunReturns
<1>6. CASE RunRaises(w, j)
  <2>1. CASE Step(w, j, {"run"}, "raised")
    BY <1>6, <2>1, ThreadMoves DEF RunRaises, Step
  <2>2. CASE Step(w, j, {"effects"}, "raised_dirty")
    BY <1>6, <2>2, ThreadMoves DEF RunRaises, Step
  <2> QED BY <1>6, <2>1, <2>2 DEF RunRaises
<1>7. CASE ThreadFinish(w, j)
  BY <1>7, ThreadFinishKeeps
<1>8. CASE FinishLosesLease(w, j)
  <2>1. CASE Step(w, j, {"returned", "raised"}, "done")
    BY <1>8, <2>1, ThreadMoves DEF FinishLosesLease, Step
  <2>2. CASE Step(w, j, {"cancelled"}, "failed")
    BY <1>8, <2>2, ThreadMoves DEF FinishLosesLease, Step
  <2> QED BY <1>8, <2>1, <2>2 DEF FinishLosesLease
<1>9. CASE FinishDbError(w, j)
  <2>1. CASE Step(w, j, {"returned"}, "raised_dirty")
    BY <1>9, <2>1, ThreadMoves DEF FinishDbError, Step
  <2>2. CASE Step(w, j, {"cancelled", "raised"}, "failed")
    BY <1>9, <2>2, ThreadMoves DEF FinishDbError, Step
  <2> QED BY <1>9, <2>1, <2>2 DEF FinishDbError
<1>10. CASE ToInspection(w, j)
  BY <1>10 DEF ToInspection, Step, Inv, TypeOK, OneAlive, LoopsOnly,
         Unowned, ThreadOwns, WorkKnown, HolderKeeps, Attended, ClaimsKept
<1>11. CASE ErrorTakenForCancel(w, j)
  BY <1>11, ThreadMoves DEF ErrorTakenForCancel, Step
<1> QED BY <1>1, <1>2, <1>3, <1>4, <1>5, <1>6, <1>7, <1>8, <1>9, <1>10, <1>11 DEF ThreadStep

\* The inspections of Scheduler.
LEMMA RecoveryStepKeeps ==
  ASSUME Inv, NEW w \in Workers, NEW j \in Jobs, RecoveryStep(w, j)
  PROVE  Inv'
<1> USE WorkersAssumption, PlansAssumption DEF Fenced, SameHost, Conflict, rows, host
<1>1. CASE Due(w, j)
  <2>1. /\ proc[w] \in Loops /\ recovery[w][j] = "due"
        /\ UNCHANGED <<rows, lease, proc, thread, hooks, work, sent, told>>
        /\ sent' \in [Workers -> SUBSET ({"job", "recovery"} \X Jobs)] /\ told' \in [Jobs -> BOOLEAN]
    BY <1>1 DEF Due, Inv, TypeOK
  <2>2. CASE state[j] \in ENDED /\ recovery' = [recovery EXCEPT ![w][j] = "none"]
    BY <2>1, <2>2, RecoveryMoves
  <2>3. CASE recovery' = [recovery EXCEPT ![w][j] = "inflight"]
    BY <2>1, <2>3, RecoveryMoves
  <2> QED BY <1>1, <2>2, <2>3 DEF Due
<1>2. CASE Inspect(w, j)
  BY <1>2, InspectKeeps
<1>3. CASE Reconcile(w, j)
  <2>1. UNCHANGED <<rows, lease, proc, thread, hooks, work>> /\ told' = told
    BY <1>3 DEF Reconcile
  <2>2. sent' = sent \/ sent' = [sent EXCEPT ![w] = @ \cup {<<"recovery", j>>}]
    BY <1>3 DEF Reconcile
  <2>3. sent' \in [Workers -> SUBSET ({"job", "recovery"} \X Jobs)] /\ told' \in [Jobs -> BOOLEAN]
    <3>1. CASE sent' = sent
      BY <2>1, <3>1 DEF Inv, TypeOK
    <3>2. CASE sent' = [sent EXCEPT ![w] = @ \cup {<<"recovery", j>>}]
      BY <2>1, <3>2 DEF Inv, TypeOK
    <3> QED BY <2>2, <3>1, <3>2
  <2>4. PICK to \in {"due", "pass_cancel"} \cup Verdicts :
          /\ Advance(w, j, {"reconcile", "reconcile_cancel"}, to)
          /\ to \in ENDED => work[j] # "busy"
    BY <1>3 DEF Reconcile, Advance
  <2>5. /\ proc[w] \in Loops /\ recovery[w][j] \in Reconciling
        /\ recovery' = [recovery EXCEPT ![w][j] = to]
    BY <2>4 DEF Advance
  <2>6. Fenced(w) /\ state[j] \in STARTED => worker[j] = w
    BY <2>5 DEF Inv, HolderKeeps
  <2> QED BY <2>1, <2>3, <2>4, <2>5, <2>6, RecoveryMoves
<1>7. CASE PassCancel(w, j) \/ PassCancelFails(w, j)
  <2>1. UNCHANGED <<rows, lease, proc, thread, hooks, work, sent>>
    BY <1>7 DEF PassCancel, PassCancelFails
  <2>2. told' = told \/ told' = [told EXCEPT ![j] = @ \/ work[j] = "busy"]
    BY <1>7 DEF PassCancel, PassCancelFails, HookOver
  <2>3. sent' \in [Workers -> SUBSET ({"job", "recovery"} \X Jobs)] /\ told' \in [Jobs -> BOOLEAN]
    <3>1. sent' \in [Workers -> SUBSET ({"job", "recovery"} \X Jobs)]
      BY <2>1 DEF Inv, TypeOK
    <3>2. told \in [Jobs -> BOOLEAN] /\ (told[j] \/ work[j] = "busy") \in BOOLEAN
      BY DEF Inv, TypeOK
    <3> QED BY <2>2, <3>1, <3>2, Zenon
  <2>4. PICK to \in {"due", UNCERTAIN} : Advance(w, j, {"pass_cancel"}, to)
    BY <1>7 DEF PassCancel, PassCancelFails
  <2>5. /\ proc[w] \in Loops /\ recovery[w][j] = "pass_cancel"
        /\ recovery' = [recovery EXCEPT ![w][j] = to]
    BY <2>4 DEF Advance
  <2>6. Fenced(w) /\ state[j] \in STARTED => worker[j] = w
    BY <2>5 DEF Inv, HolderKeeps
  <2> QED BY <2>1, <2>3, <2>4, <2>5, <2>6, RecoveryMoves
<1>4. CASE ReconcileFails(w, j)
  BY <1>4 DEF ReconcileFails, Advance, Inv, TypeOK, OneAlive, LoopsOnly,
         Unowned, ThreadOwns, WorkKnown, HolderKeeps, Attended, ClaimsKept
<1>5. CASE InspectFinish(w, j)
  BY <1>5, InspectFinishKeeps
<1>6. CASE InspectDbError(w, j)
  BY <1>6 DEF InspectDbError, Advance, Inv, TypeOK, OneAlive, LoopsOnly,
         Unowned, ThreadOwns, WorkKnown, HolderKeeps, Attended, ClaimsKept
<1> QED BY <1>1, <1>2, <1>3, <1>4, <1>5, <1>6, <1>7 DEF RecoveryStep

LEMMA InvInit == Init => Inv
BY WorkersAssumption, PlansAssumption
   DEF Init, Fenced, SameHost, Conflict, Inv, TypeOK, OneAlive, LoopsOnly,
       Unowned, ThreadOwns, WorkKnown, HolderKeeps, Attended, ClaimsKept

LEMMA InvNext == Inv /\ [Next]_vars => Inv'
<1> SUFFICES ASSUME Inv, [Next]_vars PROVE Inv'
  OBVIOUS
<1>1. CASE LeaseAges
  <2>1. UNCHANGED <<rows, proc, memory, host>> /\ lease'.holder = lease.holder
    BY <1>1 DEF LeaseAges, Inv, TypeOK
  <2>2. lease' \in [holder : Workers \cup {NoWorker}, fresh : BOOLEAN]
    BY <1>1 DEF LeaseAges, Inv, TypeOK
  <2>3. TypeOK' /\ OneAlive' /\ LoopsOnly' /\ Unowned' /\ ThreadOwns'
    BY <2>1, <2>2 DEF Inv, TypeOK, OneAlive, SameHost, LoopsOnly, Unowned, ThreadOwns, rows, memory, host
  <2>4. WorkKnown' /\ HolderKeeps' /\ Attended' /\ ClaimsKept'
    BY <2>1 DEF Inv, WorkKnown, HolderKeeps, Attended, Fenced, ClaimsKept, Conflict, rows, memory, host
  <2> QED BY <2>3, <2>4 DEF Inv
<1>2. CASE \E j \in Jobs : RowStep(j)
  BY <1>2, RowStepKeeps
<1>3. CASE \E w \in Workers : ProcessStep(w)
  BY <1>3, ProcessStepKeeps
<1>4. CASE \E w \in Workers, j \in Jobs : ManagerStep(w, j) \/ ThreadStep(w, j) \/ RecoveryStep(w, j)
  BY <1>4, ManagerStepKeeps, ThreadStepKeeps, RecoveryStepKeeps
<1>5. CASE UNCHANGED vars
  BY <1>5 DEF vars, rows, memory, host, Inv, TypeOK, OneAlive, SameHost, LoopsOnly, Unowned,
              ThreadOwns, WorkKnown, HolderKeeps, Attended, Fenced, ClaimsKept, Conflict
<1> QED BY <1>1, <1>2, <1>3, <1>4, <1>5 DEF Next

\* Inv holds in every state of the queue, its workers and their recovery, for
\* any number of jobs, workers, installations and resources.
THEOREM InvHolds == Spec => []Inv
BY InvInit, InvNext, PTL DEF Spec

-----------------------------------------------------------------------------
(* What follows from Inv *)

\* The rows, the lease and the processes' memory keep their types.
THEOREM TypeCorrect == Spec => []TypeOK
BY InvHolds, PTL DEF Inv

LEMMA InvTouches == Inv => TouchingHolds
<1> SUFFICES ASSUME Inv, NEW j \in Jobs, Touching(j) PROVE claims[j] = Wanted[j] \/ GivenAway(j)
  BY DEF TouchingHolds
<1>1. CASE work[j] = "busy"
  BY <1>1 DEF Inv, WorkKnown, ClaimsKept
<1>2. CASE \E w \in Workers : thread[w][j] \in EffectThreads
  BY <1>2 DEF Inv, ThreadOwns, ClaimsKept, EffectThreads, GivenAway
<1> QED BY <1>1, <1>2 DEF Touching

\* A job that still changes libvirt holds its claims: neither a crash, nor a
\* take-over, nor an inspection of the job frees them before its work ended; a
\* superuser does, and a cancelled migration that takes an error for its cancel.
THEOREM TouchingJobsHold == Spec => []TouchingHolds
BY InvHolds, InvTouches, PTL

LEMMA InvExcludes == Inv => EffectsExclude
<1> SUFFICES ASSUME Inv, NEW j \in Jobs, NEW k \in Jobs, j # k, ConflictingPlans(j, k),
                    Touching(j), Touching(k), ~GivenAway(j), ~GivenAway(k)
             PROVE  FALSE
  BY DEF EffectsExclude
<1>1. claims[j] = Wanted[j] /\ claims[k] = Wanted[k]
  BY InvTouches DEF TouchingHolds
<1>2. \A c \in claims[j], d \in claims[k] : ~Conflict(c, d)
  BY DEF Inv, ClaimsKept
<1> QED BY <1>1, <1>2 DEF ConflictingPlans

\* Jobs in conflict never change libvirt together, however many workers crash,
\* lose the lease unknowingly or take over, unless one's claims were given away: by
\* a superuser, or by a migration that took an error for its cancel.
THEOREM ConflictingJobsExclude == Spec => []EffectsExclude
BY InvHolds, InvExcludes, PTL

\* Where no kind takes every error for its cancel, only a superuser's decision lets
\* two jobs in conflict change libvirt together.
THEOREM HoldsWithoutSuchErrors ==
  ASSUME AnyErrorCancels = {}
  PROVE  Spec => []HoldsWhatItChanges
<1>1. EffectsExclude => HoldsWhatItChanges
  BY DEF EffectsExclude, HoldsWhatItChanges, GivenAway
<1> QED BY <1>1, ConflictingJobsExclude, PTL

\* Steps of no worker's thread.
LEMMA IdleSteps ==
  ASSUME UNCHANGED <<worker, thread>>
  PROVE  BeginsOnce
BY DEF BeginsOnce, Begins, Early

\* A step that only ends threads, or moves them on past their beginning.
LEMMA OnwardSteps ==
  ASSUME Inv, UNCHANGED worker, NEW w \in Workers, NEW j \in Jobs, NEW to \in ThreadStates,
         thread' = [thread EXCEPT ![w][j] = to],
         to \in Early => thread[w][j] \in Early
  PROVE  BeginsOnce
BY DEF BeginsOnce, Begins, Inv, TypeOK

LEMMA RowStepBegins ==
  ASSUME Inv, NEW j \in Jobs, RowStep(j)
  PROVE  BeginsOnce
<1>1. CASE Submit(j)
  BY <1>1 DEF Submit, memory, BeginsOnce, Begins, Early, Inv, TypeOK, Unowned
<1>2. CASE \/ CancelQueued(j) \/ CancelRunning(j) \/ DeleteOld(j) \/ WorkEnds(j)
           \/ \E outcome \in ENDED : FinishInRequest(j, outcome)
           \/ \E outcome \in {SUCCEEDED, FAILED} : Resolve(j, outcome)
  BY <1>2, IdleSteps DEF CancelQueued, CancelRunning, DeleteOld, WorkEnds, FinishInRequest, Resolve, rows, memory
<1> QED BY <1>1, <1>2 DEF RowStep

\* A worker takes the job: no worker had it, and nothing of it began.
LEMMA ClaimBegins ==
  ASSUME Inv, NEW w \in Workers, NEW j \in Jobs, Claim(w, j)
  PROVE  BeginsOnce
<1>1. worker[j] = NoWorker /\ ~effectsStarted[j]
  BY DEF Claim, Inv, Unowned
<1>2. /\ worker' = [worker EXCEPT ![j] = w] /\ worker \in [Jobs -> Workers \cup {NoWorker, Request}]
      /\ thread' = [thread EXCEPT ![w][j] = "precheck"] /\ thread \in [Workers -> [Jobs -> ThreadStates]]
  BY DEF Claim, Inv, TypeOK
<1>3. \A k \in Jobs : worker[k] # NoWorker => worker'[k] # NoWorker
  BY <1>2, WorkersAssumption
<1>4. \A v \in Workers, k \in Jobs : Begins(v, k) => v = w /\ k = j
  BY <1>2 DEF Begins, Early
<1>5. worker'[j] = w
  BY <1>2
<1> QED BY <1>1, <1>3, <1>4, <1>5 DEF BeginsOnce

LEMMA ThreadStepBegins ==
  ASSUME Inv, NEW w \in Workers, NEW j \in Jobs, ThreadStep(w, j)
  PROVE  BeginsOnce
<1> USE DEF Step, Early, rows
<1>1. CASE Precheck(w, j)
  BY <1>1, OnwardSteps DEF Precheck
<1>2. CASE RecordIntent(w, j)
  BY <1>2, OnwardSteps DEF RecordIntent
<1>3. CASE WriteLosesLease(w, j) \/ BeginWork(w, j)
  BY <1>3, OnwardSteps DEF WriteLosesLease, BeginWork
<1>4. CASE RunReturns(w, j)
  BY <1>4, OnwardSteps DEF RunReturns
<1>5. CASE ErrorTakenForCancel(w, j) \/ RunRaises(w, j)
  BY <1>5, OnwardSteps DEF ErrorTakenForCancel, RunRaises
<1>6. CASE ThreadFinish(w, j) \/ ToInspection(w, j)
  BY <1>6, OnwardSteps DEF ThreadFinish, ToInspection
<1>7. CASE FinishLosesLease(w, j) \/ FinishDbError(w, j)
  BY <1>7, OnwardSteps DEF FinishLosesLease, FinishDbError
<1> QED BY <1>1, <1>2, <1>3, <1>4, <1>5, <1>6, <1>7 DEF ThreadStep

\* An inspection may take the job over; it never begins it.
LEMMA RecoveryStepBegins ==
  ASSUME Inv, NEW w \in Workers, NEW j \in Jobs, RecoveryStep(w, j)
  PROVE  BeginsOnce
<1> USE DEF rows
<1>1. CASE Inspect(w, j)
  <2>1. UNCHANGED thread /\ (worker' = worker \/ worker' = [worker EXCEPT ![j] = w])
    BY <1>1 DEF Inspect, TakeOver, Abandoned
  <2>2. \A k \in Jobs : worker[k] # NoWorker => worker'[k] # NoWorker
    BY <2>1, WorkersAssumption DEF Inv, TypeOK
  <2> QED BY <2>1, <2>2 DEF BeginsOnce, Begins
<1>2. CASE \/ Due(w, j) \/ Reconcile(w, j) \/ ReconcileFails(w, j) \/ PassCancel(w, j)
           \/ PassCancelFails(w, j) \/ InspectFinish(w, j) \/ InspectDbError(w, j)
  BY <1>2, IdleSteps DEF Due, Reconcile, ReconcileFails, PassCancel, PassCancelFails, InspectFinish, InspectDbError
<1> QED BY <1>1, <1>2 DEF RecoveryStep

LEMMA StepBegins == Inv /\ [Next]_vars => [BeginsOnce]_vars
<1> SUFFICES ASSUME Inv, Next PROVE BeginsOnce
  OBVIOUS
<1>1. CASE LeaseAges
  BY <1>1, IdleSteps DEF LeaseAges, rows, memory
<1>2. CASE \E j \in Jobs : RowStep(j)
  BY <1>2, RowStepBegins
<1>3. ASSUME NEW w \in Workers, ProcessStep(w) PROVE BeginsOnce
  <2>1. CASE Die(w) \/ LoseLease(w)
    <3>1. /\ UNCHANGED <<worker>> /\ thread \in [Workers -> [Jobs -> ThreadStates]]
          /\ thread' = [thread EXCEPT ![w] = [j \in Jobs |-> "none"]]
      BY <2>1 DEF Die, LoseLease, Forget, rows, Inv, TypeOK
    <3>2. \A v \in Workers, j \in Jobs : thread'[v][j] \in {thread[v][j], "none"}
      BY <3>1
    <3> QED BY <3>1, <3>2 DEF BeginsOnce, Begins, Early
  <2>2. CASE Start(w) \/ Acquire(w) \/ ScheduleOrphans(w) \/ Renew(w) \/ Stop(w)
    BY <2>2, IdleSteps DEF Start, Acquire, ScheduleOrphans, Renew, Stop, rows, memory
  <2> QED BY <1>3, <2>1, <2>2 DEF ProcessStep
<1>4. ASSUME NEW w \in Workers, NEW j \in Jobs, ManagerStep(w, j) PROVE BeginsOnce
  <2>1. CASE Claim(w, j)
    BY <2>1, ClaimBegins
  <2>2. CASE Reap(w, j)
    BY <2>2, OnwardSteps DEF Reap, rows, Early
  <2>3. CASE Limits(w, j) \/ SignalCancel(w, j) \/ HookEnds(w, j) \/ HookFails(w, j)
    BY <2>3, IdleSteps DEF Limits, SignalCancel, HookEnds, HookFails, rows, memory
  <2> QED BY <1>4, <2>1, <2>2, <2>3 DEF ManagerStep
<1> QED BY <1>1, <1>2, <1>3, <1>4, ThreadStepBegins, RecoveryStepBegins DEF Next

\* No job is begun twice, in all its life, for any number of workers, crashes,
\* take-overs, inspections and lost leases.
THEOREM JobsRunOnce == Spec => RunsOnce
BY StepBegins, InvHolds, PTL DEF Spec, RunsOnce

\* The leading worker attends every job a worker started.
THEOREM StartedJobsAttended == Spec => []Attended
BY InvHolds, PTL DEF Inv

-----------------------------------------------------------------------------
(* What a step does to the rows: only the holder of the lease writes, and    *)
(* every step is one of the life of a job, or changes nothing of it.         *)

LifeStep == Life!LifeNext \/ UNCHANGED <<state, claims>>

LEMMA QuietSteps ==
  ASSUME UNCHANGED <<state, worker, claims>>
  PROVE  HolderWrote /\ LifeStep
BY DEF HolderWrote, LifeStep

LEMMA RowStepWrites ==
  ASSUME Inv, NEW j \in Jobs, RowStep(j)
  PROVE  HolderWrote /\ LifeStep
<1> USE WorkersAssumption, PlansAssumption DEF HolderWrote, LifeStep, Life!LifeNext
<1>1. CASE Submit(j)
  <2>1. HolderWrote
    BY <1>1 DEF Submit, Inv, TypeOK, Unowned
  <2>2. Life!Admit(j)
    BY <1>1 DEF Submit, Admissible, Conflict, Life!Admit, Life!Clash
  <2> QED BY <2>1, <2>2
<1>2. CASE CancelQueued(j)
  <2>1. HolderWrote
    BY <1>2 DEF CancelQueued, Inv, TypeOK
  <2>2. Life!Ends(j)
    BY <1>2 DEF CancelQueued, Life!Ends
  <2> QED BY <2>1, <2>2
<1>3. CASE CancelRunning(j)
  <2>1. HolderWrote
    BY <1>3 DEF CancelRunning, Inv, TypeOK
  <2>2. Life!Advances(j)
    BY <1>3 DEF CancelRunning, Life!Advances
  <2> QED BY <2>1, <2>2
<1>4. CASE DeleteOld(j)
  <2>1. HolderWrote
    BY <1>4 DEF DeleteOld, Inv, TypeOK
  <2>2. Life!LeavesHistory(j)
    BY <1>4 DEF DeleteOld, Life!LeavesHistory
  <2> QED BY <2>1, <2>2
<1>5. CASE WorkEnds(j)
  BY <1>5, QuietSteps DEF WorkEnds, rows
<1>6. CASE \E outcome \in ENDED : FinishInRequest(j, outcome)
  <2>1. PICK outcome \in ENDED : FinishInRequest(j, outcome)
    BY <1>6
  <2>2. HolderWrote
    BY <2>1 DEF FinishInRequest, WriteOutcome, Inv, TypeOK
  <2>3. Life!Ends(j)
    BY <2>1 DEF FinishInRequest, WriteOutcome, Life!Ends
  <2> QED BY <2>2, <2>3
<1>7. CASE \E outcome \in {SUCCEEDED, FAILED} : Resolve(j, outcome)
  <2>1. PICK outcome \in {SUCCEEDED, FAILED} : Resolve(j, outcome)
    BY <1>7
  <2>2. HolderWrote
    BY <2>1 DEF Resolve, Inv, TypeOK
  <2>3. Life!Ends(j)
    BY <2>1 DEF Resolve, Life!Ends
  <2> QED BY <2>2, <2>3
<1> QED BY <1>1, <1>2, <1>3, <1>4, <1>5, <1>6, <1>7 DEF RowStep

\* jobs.finish by a worker, from its job thread or from an inspection.
LEMMA FinishWrites ==
  ASSUME Inv, NEW w \in Workers, NEW j \in Jobs, NEW outcome \in TERMINAL,
         Fenced(w), worker[j] = w, state[j] \in ACTIVE,
         WriteOutcome(j, outcome), UNCHANGED worker
  PROVE  HolderWrote /\ LifeStep
<1>1. state[j] \in STARTED
  BY WorkersAssumption DEF Inv, Unowned
<1>2. HolderWrote
  BY WorkersAssumption DEF HolderWrote, WriteOutcome, Inv, TypeOK
<1>3. CASE outcome = UNCERTAIN
  BY <1>1, <1>2, <1>3 DEF LifeStep, Life!LifeNext, Life!BecomesUncertain, WriteOutcome
<1>4. CASE outcome # UNCERTAIN
  BY <1>1, <1>2, <1>4 DEF LifeStep, Life!LifeNext, Life!Ends, WriteOutcome
<1> QED BY <1>3, <1>4

LEMMA InspectWrites ==
  ASSUME Inv, NEW w \in Workers, NEW j \in Jobs, Inspect(w, j)
  PROVE  HolderWrote /\ LifeStep
<1>1. CASE UNCHANGED <<state, worker>>
  BY <1>1, QuietSteps DEF Inspect
<1>2. CASE TakeOver(w, j) /\ UNCHANGED state
  <2>1. HolderWrote
    BY <1>2, WorkersAssumption DEF TakeOver, RanHere, HolderWrote, Inv, TypeOK
  <2> QED BY <1>2, <2>1 DEF Inspect, LifeStep
<1>3. CASE Abandoned(w, j)
  <2>1. recovery[w][j] # "none"
    BY <1>3 DEF Abandoned, Inspect, Done, Advance, TakeOver
  <2>2. worker[j] # Request
    BY <2>1 DEF Inv, Unowned
  <2>3. HolderWrote
    BY <1>3, <2>2, WorkersAssumption DEF Abandoned, HolderWrote, Inv, TypeOK
  <2>4. Life!BecomesUncertain(j)
    BY <1>3 DEF Abandoned, Inspect, Life!BecomesUncertain
  <2> QED BY <2>3, <2>4 DEF LifeStep, Life!LifeNext
<1> QED BY <1>1, <1>2, <1>3 DEF Inspect

LEMMA WorkerStepWrites ==
  ASSUME Inv, NEW w \in Workers, NEW j \in Jobs,
         ManagerStep(w, j) \/ ThreadStep(w, j) \/ RecoveryStep(w, j)
  PROVE  HolderWrote /\ LifeStep
<1> USE WorkersAssumption DEF rows
<1>1. CASE Claim(w, j)
  <2>1. HolderWrote
    BY <1>1 DEF Claim, HolderWrote, Inv, TypeOK, Unowned
  <2>2. Life!Advances(j)
    BY <1>1 DEF Claim, Life!Advances
  <2> QED BY <2>1, <2>2 DEF LifeStep, Life!LifeNext
<1>2. CASE Limits(w, j)
  <2>1. HolderWrote
    BY <1>2 DEF Limits, HolderWrote, Inv, TypeOK
  <2>2. Life!Advances(j) \/ UNCHANGED <<state, claims>>
    BY <1>2 DEF Limits, Life!Advances, Inv, TypeOK, Unowned
  <2> QED BY <2>1, <2>2 DEF LifeStep, Life!LifeNext
<1>3. CASE ThreadFinish(w, j)
  <2>1. CASE worker[j] = w /\ state[j] \in ACTIVE
    <3>1. OutcomeOf(thread[w][j]) \in TERMINAL
      BY <1>3 DEF ThreadFinish, Step, Finishing, OutcomeOf
    <3> QED BY <1>3, <2>1, <3>1, FinishWrites DEF ThreadFinish
  <2>2. CASE ~(worker[j] = w /\ state[j] \in ACTIVE)
    BY <1>3, <2>2, QuietSteps DEF ThreadFinish
  <2> QED BY <2>1, <2>2
<1>4. CASE Inspect(w, j)
  BY <1>4, InspectWrites
<1>5. CASE InspectFinish(w, j)
  <2>1. CASE Fenced(w) /\ worker[j] = w /\ state[j] \in ACTIVE
    <3>1. recovery[w][j] \in TERMINAL
      BY <1>5 DEF InspectFinish, Done, Advance
    <3> QED BY <1>5, <2>1, <3>1, FinishWrites DEF InspectFinish
  <2>2. CASE ~(Fenced(w) /\ worker[j] = w /\ state[j] \in ACTIVE)
    BY <1>5, <2>2, QuietSteps DEF InspectFinish
  <2> QED BY <2>1, <2>2
<1>6. CASE Reap(w, j) \/ SignalCancel(w, j) \/ HookEnds(w, j) \/ HookFails(w, j)
  BY <1>6, QuietSteps DEF Reap, SignalCancel, HookEnds, HookFails
<1>7. CASE \/ Precheck(w, j) \/ RecordIntent(w, j) \/ WriteLosesLease(w, j) \/ BeginWork(w, j)
           \/ RunReturns(w, j) \/ ErrorTakenForCancel(w, j) \/ RunRaises(w, j)
  BY <1>7, QuietSteps DEF Precheck, RecordIntent, WriteLosesLease, BeginWork, RunReturns, ErrorTakenForCancel, RunRaises
<1>8. CASE FinishLosesLease(w, j) \/ FinishDbError(w, j) \/ ToInspection(w, j)
  BY <1>8, QuietSteps DEF FinishLosesLease, FinishDbError, ToInspection
<1>9. CASE \/ Due(w, j) \/ Reconcile(w, j) \/ ReconcileFails(w, j) \/ InspectDbError(w, j)
           \/ PassCancel(w, j) \/ PassCancelFails(w, j)
  BY <1>9, QuietSteps DEF Due, Reconcile, ReconcileFails, InspectDbError, PassCancel, PassCancelFails
<1> QED BY <1>1, <1>2, <1>3, <1>4, <1>5, <1>6, <1>7, <1>8, <1>9
        DEF ManagerStep, ThreadStep, RecoveryStep

LEMMA StepRefines ==
  ASSUME Inv, [Next]_vars
  PROVE  (HolderWrote \/ UNCHANGED vars) /\ LifeStep
<1>1. CASE LeaseAges
  BY <1>1, QuietSteps DEF LeaseAges, rows
<1>2. CASE \E w \in Workers : ProcessStep(w)
  BY <1>2, QuietSteps DEF ProcessStep, Start, Acquire, ScheduleOrphans, Renew, Stop, Die, LoseLease, Forget, rows
<1>3. CASE UNCHANGED vars
  BY <1>3 DEF vars, rows, LifeStep
<1>4. CASE \E j \in Jobs : RowStep(j)
  BY <1>4, RowStepWrites
<1>5. CASE \E w \in Workers, j \in Jobs : ManagerStep(w, j) \/ ThreadStep(w, j) \/ RecoveryStep(w, j)
  BY <1>5, WorkerStepWrites
<1> QED BY <1>1, <1>2, <1>3, <1>4, <1>5 DEF Next

\* A started job of a worker ends, or changes hands, only by the holder of the
\* lease, and no worker ends or takes a job that a request runs.
THEOREM HolderAloneWrites == Spec => OnlyHolderWrites
<1>1. Inv /\ [Next]_vars => [HolderWrote]_vars
  BY StepRefines
<1> QED BY <1>1, InvHolds, PTL DEF Spec, OnlyHolderWrites

\* The queue with its workers, leases, threads and recovery implements the life
\* of a job: admitted with all its claims, ended and released in one step,
\* uncertain until a superuser decides.
THEOREM QueueImplementsLifecycle == Spec => ImplementsLifecycle
<1>1. Init => Life!LifeInit
  BY DEF Init, Life!LifeInit
<1>2. Inv /\ [Next]_vars => [Life!LifeNext]_(Life!lifeVars)
  BY StepRefines DEF LifeStep, Life!lifeVars
<1> QED BY <1>1, <1>2, InvHolds, PTL DEF Spec, ImplementsLifecycle, Life!LifeSpec
-----------------------------------------------------------------------------
(* The shares of the hosts. A second induction on top of Inv: a step of the *)
(* worker adds at most one job thread, where HasRoom let it, and at most    *)
(* one control task, where ControlFree did.                                 *)

\* A step gives v no thread but at most one, which its hosts have room for.
StartsInRoom(v) ==
  \/ \A k \in Jobs : thread'[v][k] # "none" => thread[v][k] # "none"
  \/ \E j \in Jobs : /\ HasRoom(v, j)
                     /\ \A k \in Jobs : thread'[v][k] # "none" => thread[v][k] # "none" \/ k = j

Inspected == {"inflight"} \cup Reconciling \cup Verdicts

\* A step gives v no control task but at most one, of hosts that have none.
TasksInTurn(v) ==
  \/ /\ hooks'[v] \subseteq hooks[v]
     /\ \A k \in Jobs : recovery'[v][k] \in Inspected => recovery[v][k] \in Inspected
  \/ \E j \in Jobs :
       /\ ControlFree(v, j)
       /\ hooks'[v] \subseteq hooks[v] \cup {j}
       /\ \A k \in Jobs : recovery'[v][k] \in Inspected => recovery[v][k] \in Inspected
  \/ \E j \in Jobs :
       /\ ControlFree(v, j)
       /\ hooks'[v] \subseteq hooks[v]
       /\ \A k \in Jobs : recovery'[v][k] \in Inspected => recovery[v][k] \in Inspected \/ k = j

\* worker.py: only _claim starts a job thread.
LEMMA StepStartsInRoom ==
  ASSUME Inv, [Next]_vars, NEW v \in Workers
  PROVE  StartsInRoom(v)
<1> USE DEF rows, memory, host
<1>1. CASE LeaseAges \/ UNCHANGED vars
  BY <1>1 DEF LeaseAges, vars, StartsInRoom
<1>2. CASE \E j \in Jobs : RowStep(j)
  BY <1>2 DEF RowStep, Submit, CancelQueued, CancelRunning, DeleteOld, WorkEnds, FinishInRequest, Resolve, StartsInRoom
<1>3. ASSUME NEW w \in Workers, ProcessStep(w) PROVE StartsInRoom(v)
  <2>1. thread' = thread \/ thread' = [thread EXCEPT ![w] = [j \in Jobs |-> "none"]]
    BY <1>3 DEF ProcessStep, Start, Acquire, ScheduleOrphans, Renew, Stop, Die, LoseLease, Forget
  <2>2. \A k \in Jobs : thread'[v][k] = thread[v][k] \/ thread'[v][k] = "none"
    <3>1. CASE thread' = thread
      BY <3>1
    <3>2. CASE thread' = [thread EXCEPT ![w] = [j \in Jobs |-> "none"]]
      BY <3>2 DEF Inv, TypeOK
    <3> QED BY <2>1, <3>1, <3>2
  <2> QED BY <2>2 DEF StartsInRoom
<1>4. ASSUME NEW w \in Workers, NEW j \in Jobs, ManagerStep(w, j) PROVE StartsInRoom(v)
  <2>1. CASE Claim(w, j)
    <3>1. thread' = [thread EXCEPT ![w][j] = "precheck"] /\ HasRoom(w, j)
      BY <2>1 DEF Claim
    <3>2. \A k \in Jobs : thread'[v][k] # "none" => thread[v][k] # "none" \/ (v = w /\ k = j)
      BY <3>1 DEF Inv, TypeOK
    <3> QED BY <3>1, <3>2 DEF StartsInRoom
  <2>2. CASE Reap(w, j) \/ Limits(w, j) \/ SignalCancel(w, j) \/ HookEnds(w, j) \/ HookFails(w, j)
    <3>1. thread' = thread \/ thread' = [thread EXCEPT ![w][j] = "none"]
      BY <2>2 DEF Reap, Limits, SignalCancel, HookEnds, HookFails
    <3>2. \A k \in Jobs : thread'[v][k] = thread[v][k] \/ thread'[v][k] = "none"
      <4>1. CASE thread' = thread
        BY <4>1
      <4>2. CASE thread' = [thread EXCEPT ![w][j] = "none"]
        BY <4>2 DEF Inv, TypeOK
      <4> QED BY <3>1, <4>1, <4>2
    <3> QED BY <3>2 DEF StartsInRoom
  <2> QED BY <1>4, <2>1, <2>2 DEF ManagerStep
<1>5. ASSUME NEW w \in Workers, NEW j \in Jobs, ThreadStep(w, j) PROVE StartsInRoom(v)
  <2>1. \E to \in ThreadStates : Step(w, j, ThreadStates \ {"none"}, to)
    BY <1>5 DEF ThreadStep, Precheck, RecordIntent, WriteLosesLease, BeginWork, RunReturns, ErrorTakenForCancel, RunRaises,
                ThreadFinish, Finishing, FinishLosesLease, FinishDbError, ToInspection, Step
  <2> QED BY <2>1 DEF Step, StartsInRoom, Inv, TypeOK
<1>6. ASSUME NEW w \in Workers, NEW j \in Jobs, RecoveryStep(w, j) PROVE StartsInRoom(v)
  BY <1>6 DEF RecoveryStep, Due, Inspect, Reconcile, ReconcileFails, PassCancel, PassCancelFails,
              InspectFinish, InspectDbError, StartsInRoom
<1> QED BY <1>1, <1>2, <1>3, <1>4, <1>5, <1>6 DEF Next

\* worker.py: only run_control submits a control task.
LEMMA StepTasksInTurn ==
  ASSUME Inv, [Next]_vars, NEW v \in Workers
  PROVE  TasksInTurn(v)
<1> USE DEF rows, memory, host
<1>1. CASE LeaseAges \/ UNCHANGED vars
  BY <1>1 DEF LeaseAges, vars, TasksInTurn
<1>2. CASE \E j \in Jobs : RowStep(j)
  BY <1>2 DEF RowStep, Submit, CancelQueued, CancelRunning, DeleteOld, WorkEnds, FinishInRequest, Resolve, TasksInTurn
<1>3. ASSUME NEW w \in Workers, ProcessStep(w) PROVE TasksInTurn(v)
  <2>1. CASE ScheduleOrphans(w)
    BY <2>1 DEF ScheduleOrphans, TasksInTurn, Inspected, Inv, TypeOK
  <2>2. CASE Die(w) \/ LoseLease(w)
    <3>1. /\ hooks' = [hooks EXCEPT ![w] = {}]
          /\ recovery' = [recovery EXCEPT ![w] = [j \in Jobs |-> "none"]]
      BY <2>2 DEF Die, LoseLease, Forget
    <3>2. hooks'[v] \subseteq hooks[v]
      BY <3>1 DEF Inv, TypeOK
    <3>3. \A k \in Jobs : recovery'[v][k] = recovery[v][k] \/ recovery'[v][k] = "none"
      BY <3>1 DEF Inv, TypeOK
    <3> QED BY <3>2, <3>3 DEF TasksInTurn, Inspected
  <2>3. CASE Start(w) \/ Acquire(w) \/ Renew(w) \/ Stop(w)
    BY <2>3 DEF Start, Acquire, Renew, Stop, TasksInTurn
  <2> QED BY <1>3, <2>1, <2>2, <2>3 DEF ProcessStep
<1>4. ASSUME NEW w \in Workers, NEW j \in Jobs, ManagerStep(w, j) PROVE TasksInTurn(v)
  <2>1. CASE SignalCancel(w, j)
    BY <2>1 DEF SignalCancel, TasksInTurn, Inv, TypeOK
  <2>2. CASE Reap(w, j)
    BY <2>2 DEF Reap, TasksInTurn, Inspected, Inv, TypeOK
  <2>3. CASE Claim(w, j) \/ Limits(w, j) \/ HookEnds(w, j) \/ HookFails(w, j)
    <3>1. recovery' = recovery /\ (hooks' = hooks \/ hooks' = [hooks EXCEPT ![w] = @ \ {j}])
      BY <2>3 DEF Claim, Limits, HookEnds, HookFails
    <3>2. hooks'[v] \subseteq hooks[v]
      <4>1. CASE hooks' = hooks
        BY <4>1
      <4>2. CASE hooks' = [hooks EXCEPT ![w] = @ \ {j}]
        BY <4>2 DEF Inv, TypeOK
      <4> QED BY <3>1, <4>1, <4>2
    <3> QED BY <3>1, <3>2 DEF TasksInTurn
  <2> QED BY <1>4, <2>1, <2>2, <2>3 DEF ManagerStep
<1>5. ASSUME NEW w \in Workers, NEW j \in Jobs, ThreadStep(w, j) PROVE TasksInTurn(v)
  <2>1. CASE ToInspection(w, j)
    BY <2>1 DEF ToInspection, TasksInTurn, Inspected, Inv, TypeOK
  <2>2. CASE ~ToInspection(w, j)
    BY <1>5, <2>2 DEF ThreadStep, Precheck, RecordIntent, WriteLosesLease, BeginWork, RunReturns, ErrorTakenForCancel, RunRaises,
                ThreadFinish, FinishLosesLease, FinishDbError, TasksInTurn
  <2> QED BY <2>1, <2>2
<1>6. ASSUME NEW w \in Workers, NEW j \in Jobs, RecoveryStep(w, j) PROVE TasksInTurn(v)
  <2>1. CASE Due(w, j)
    <3>1. CASE recovery' = [recovery EXCEPT ![w][j] = "none"]
      <4>1. \A k \in Jobs : recovery'[v][k] = recovery[v][k] \/ recovery'[v][k] = "none"
        BY <3>1 DEF Inv, TypeOK
      <4> QED BY <2>1, <4>1 DEF Due, TasksInTurn, Inspected
    <3>2. CASE recovery' = [recovery EXCEPT ![w][j] = "inflight"] /\ ControlFree(w, j)
      <4>1. \A k \in Jobs : recovery'[v][k] = recovery[v][k] \/ (v = w /\ k = j)
        BY <3>2 DEF Inv, TypeOK
      <4> QED BY <2>1, <3>2, <4>1 DEF Due, TasksInTurn
    <3> QED BY <2>1, <3>1, <3>2 DEF Due
  <2>2. CASE RecoveryStep(w, j) /\ ~Due(w, j)
    <3>1. hooks' = hooks
      BY <2>2 DEF RecoveryStep, Inspect, Reconcile, ReconcileFails, PassCancel, PassCancelFails,
                  InspectFinish, InspectDbError
    <3>2. \E to : recovery' = [recovery EXCEPT ![w][j] = to] /\ recovery[w][j] \in Inspected
      BY <2>2 DEF RecoveryStep, Inspect, Reconcile, ReconcileFails, PassCancel, PassCancelFails,
                  InspectFinish, InspectDbError, Advance, Done, Inspected
    <3> QED BY <3>1, <3>2 DEF TasksInTurn, Inv, TypeOK
  <2> QED BY <1>6, <2>1, <2>2
<1> QED BY <1>1, <1>2, <1>3, <1>4, <1>5, <1>6 DEF Next
\* A step that starts jobs only in room leaves a host at most its share.
LEMMA RoomKeepsSlots ==
  ASSUME NEW v \in Workers, StartsInRoom(v), IsFiniteSet(OwnJobs(v)),
         \A c \in Computes : Cardinality(RunningOn(v, c)) <= PerHost
  PROVE  /\ IsFiniteSet(OwnJobs(v)')
         /\ \A c \in Computes : Cardinality(RunningOn(v, c)') <= PerHost
<1>1. PerHost \in Nat
  BY SizesAssumption DEF PerHost
<1>2. \A c : RunningOn(v, c) \subseteq OwnJobs(v)
  BY DEF RunningOn
<1>3. \A c : IsFiniteSet(RunningOn(v, c)) /\ Cardinality(RunningOn(v, c)) \in Nat
  BY <1>2, FS_Subset, FS_CardinalityType
<1>4. CASE OwnJobs(v)' \subseteq OwnJobs(v)
  <2>1. IsFiniteSet(OwnJobs(v)')
    BY <1>4, FS_Subset
  <2> SUFFICES ASSUME NEW c \in Computes PROVE Cardinality(RunningOn(v, c)') <= PerHost
    BY <2>1
  <2>2. RunningOn(v, c)' \subseteq RunningOn(v, c)
    BY <1>4 DEF RunningOn
  <2>3. Cardinality(RunningOn(v, c)') \in Nat /\ Cardinality(RunningOn(v, c)') <= Cardinality(RunningOn(v, c))
    BY <1>3, <2>2, FS_Subset, FS_CardinalityType
  <2>4. Cardinality(RunningOn(v, c)) <= PerHost /\ Cardinality(RunningOn(v, c)) \in Nat
    BY <1>3
  <2> QED BY <1>1, <2>3, <2>4
<1>5. ASSUME NEW j \in Jobs, HasRoom(v, j), OwnJobs(v)' \subseteq OwnJobs(v) \cup {j}
      PROVE  /\ IsFiniteSet(OwnJobs(v)')
             /\ \A c \in Computes : Cardinality(RunningOn(v, c)') <= PerHost
  <2>1. IsFiniteSet(OwnJobs(v)')
    BY <1>5, FS_AddElement, FS_Subset
  <2> SUFFICES ASSUME NEW c \in Computes PROVE Cardinality(RunningOn(v, c)') <= PerHost
    BY <2>1
  <2>2. Cardinality(RunningOn(v, c)) <= PerHost /\ Cardinality(RunningOn(v, c)) \in Nat
    BY <1>3
  <2>3. CASE c \notin HostsOf(j)
    <3>1. RunningOn(v, c)' \subseteq RunningOn(v, c)
      BY <1>5, <2>3 DEF RunningOn
    <3>2. Cardinality(RunningOn(v, c)') \in Nat /\ Cardinality(RunningOn(v, c)') <= Cardinality(RunningOn(v, c))
      BY <1>3, <3>1, FS_Subset, FS_CardinalityType
    <3> QED BY <1>1, <2>2, <3>2
  <2>4. CASE c \in HostsOf(j)
    <3>1. RunningOn(v, c)' \subseteq RunningOn(v, c) \cup {j}
      BY <1>5 DEF RunningOn
    <3>2. /\ IsFiniteSet(RunningOn(v, c) \cup {j})
          /\ \/ Cardinality(RunningOn(v, c) \cup {j}) = Cardinality(RunningOn(v, c))
             \/ Cardinality(RunningOn(v, c) \cup {j}) = Cardinality(RunningOn(v, c)) + 1
      BY <1>3, FS_AddElement
    <3>3. /\ Cardinality(RunningOn(v, c)') \in Nat
          /\ Cardinality(RunningOn(v, c)') <= Cardinality(RunningOn(v, c) \cup {j})
      BY <3>1, <3>2, FS_Subset, FS_CardinalityType
    <3>4. Cardinality(RunningOn(v, c)) < PerHost
      BY <1>5, <2>4 DEF HasRoom
    <3> QED BY <1>1, <2>2, <3>2, <3>3, <3>4
  <2> QED BY <2>3, <2>4
<1> QED BY <1>4, <1>5 DEF StartsInRoom, OwnJobs

\* One more control task of hosts that have none, and of no more of them than
\* leave a thread to housekeeping.
LEMMA TurnKeepsTasks ==
  ASSUME NEW v \in Workers, NEW j \in Jobs, NEW task, ControlFree(v, j), task[2] = j,
         ControlTasks(v)' \subseteq ControlTasks(v) \cup {task},
         IsFiniteSet(HostTasks(v)), Cardinality(HostTasks(v)) < ControlThreads,
         \A s, t \in ControlTasks(v) : s # t => HostsOf(s[2]) \cap HostsOf(t[2]) = {}
  PROVE  /\ IsFiniteSet(HostTasks(v)') /\ Cardinality(HostTasks(v)') < ControlThreads
         /\ \A s, t \in ControlTasks(v)' : s # t => HostsOf(s[2]) \cap HostsOf(t[2]) = {}
<1>1. \A s, t \in ControlTasks(v)' : s # t => HostsOf(s[2]) \cap HostsOf(t[2]) = {}
  <2> SUFFICES ASSUME NEW s \in ControlTasks(v)', NEW t \in ControlTasks(v)', s # t
               PROVE  HostsOf(s[2]) \cap HostsOf(t[2]) = {}
    OBVIOUS
  <2>1. (s \in ControlTasks(v) \/ s[2] = j) /\ (t \in ControlTasks(v) \/ t[2] = j)
    OBVIOUS
  <2>2. s \in ControlTasks(v) \/ t \in ControlTasks(v)
    OBVIOUS
  <2>3. \A r \in ControlTasks(v) : HostsOf(r[2]) \cap HostsOf(j) = {}
    BY DEF ControlFree
  <2> QED BY <2>1, <2>2, <2>3
<1>2. Cardinality(HostTasks(v)) \in Nat
  BY FS_CardinalityType
<1>3. CASE HostsOf(j) = {}
  <2>1. HostTasks(v)' \subseteq HostTasks(v)
    BY <1>3 DEF HostTasks
  <2>2. /\ IsFiniteSet(HostTasks(v)') /\ Cardinality(HostTasks(v)') \in Nat
        /\ Cardinality(HostTasks(v)') <= Cardinality(HostTasks(v))
    BY <2>1, FS_Subset, FS_CardinalityType
  <2>3. Cardinality(HostTasks(v)') < ControlThreads
    BY <1>2, <2>2, SizesAssumption
  <2> QED BY <1>1, <2>2, <2>3
<1>4. CASE HostsOf(j) # {}
  <2>1. HostTasks(v)' \subseteq HostTasks(v) \cup {task}
    BY DEF HostTasks
  <2>2. /\ IsFiniteSet(HostTasks(v) \cup {task})
        /\ \/ Cardinality(HostTasks(v) \cup {task}) = Cardinality(HostTasks(v))
           \/ Cardinality(HostTasks(v) \cup {task}) = Cardinality(HostTasks(v)) + 1
    BY FS_AddElement
  <2>3. /\ IsFiniteSet(HostTasks(v)') /\ Cardinality(HostTasks(v)') \in Nat
        /\ Cardinality(HostTasks(v)') <= Cardinality(HostTasks(v) \cup {task})
    BY <2>1, <2>2, FS_Subset, FS_CardinalityType
  <2>4. Cardinality(HostTasks(v)) < ControlThreads - 1
    BY <1>4 DEF ControlFree
  <2>5. Cardinality(HostTasks(v)') < ControlThreads
    BY <1>2, <2>2, <2>3, <2>4, SizesAssumption
  <2> QED BY <1>1, <2>3, <2>5
<1> QED BY <1>3, <1>4

LEMMA ShareInit == Init => ShareInv
<1> SUFFICES ASSUME Init, NEW w \in Workers
             PROVE  /\ IsFiniteSet(OwnJobs(w)) /\ IsFiniteSet(HostTasks(w))
                    /\ \A c \in Computes : Cardinality(RunningOn(w, c)) <= PerHost
                    /\ \A s, t \in ControlTasks(w) : s # t => HostsOf(s[2]) \cap HostsOf(t[2]) = {}
                    /\ Cardinality(HostTasks(w)) < ControlThreads
  BY DEF ShareInv
<1>1. OwnJobs(w) = {} /\ \A c : RunningOn(w, c) = {}
  BY DEF Init, OwnJobs, RunningOn
<1>2. ControlTasks(w) = {} /\ HostTasks(w) = {}
  BY DEF Init, ControlTasks, HostTasks, Inspecting
<1>3. IsFiniteSet({}) /\ Cardinality({}) = 0
  BY FS_EmptySet
<1>4. 0 <= PerHost /\ 0 < ControlThreads
  BY SizesAssumption DEF PerHost
<1> QED BY <1>1, <1>2, <1>3, <1>4

LEMMA ShareNext == Inv /\ ShareInv /\ [Next]_vars => ShareInv'
<1> SUFFICES ASSUME Inv, ShareInv, [Next]_vars, NEW v \in Workers
             PROVE  /\ IsFiniteSet(OwnJobs(v)') /\ IsFiniteSet(HostTasks(v)')
                    /\ \A c \in Computes : Cardinality(RunningOn(v, c)') <= PerHost
                    /\ \A s, t \in ControlTasks(v)' : s # t => HostsOf(s[2]) \cap HostsOf(t[2]) = {}
                    /\ Cardinality(HostTasks(v)') < ControlThreads
  BY DEF ShareInv, PerHost, HostsOf
<1>1. StartsInRoom(v) /\ TasksInTurn(v)
  BY StepStartsInRoom, StepTasksInTurn
<1>2. /\ IsFiniteSet(OwnJobs(v)) /\ IsFiniteSet(HostTasks(v))
      /\ \A c \in Computes : Cardinality(RunningOn(v, c)) <= PerHost
      /\ \A s, t \in ControlTasks(v) : s # t => HostsOf(s[2]) \cap HostsOf(t[2]) = {}
      /\ Cardinality(HostTasks(v)) < ControlThreads
  BY DEF ShareInv
<1>3. /\ IsFiniteSet(OwnJobs(v)')
      /\ \A c \in Computes : Cardinality(RunningOn(v, c)') <= PerHost
  BY <1>1, <1>2, RoomKeepsSlots
<1>4. CASE /\ hooks'[v] \subseteq hooks[v]
           /\ \A k \in Jobs : recovery'[v][k] \in Inspected => recovery[v][k] \in Inspected
  <2>1. ControlTasks(v)' \subseteq ControlTasks(v)
    BY <1>4 DEF ControlTasks, Inspecting, Inspected
  <2>2. HostTasks(v)' \subseteq HostTasks(v)
    BY <2>1 DEF HostTasks
  <2>3. /\ IsFiniteSet(HostTasks(v)') /\ Cardinality(HostTasks(v)') \in Nat
        /\ Cardinality(HostTasks(v)') <= Cardinality(HostTasks(v)) /\ Cardinality(HostTasks(v)) \in Nat
    BY <1>2, <2>2, FS_Subset, FS_CardinalityType
  <2>4. Cardinality(HostTasks(v)') < ControlThreads
    BY <1>2, <2>3, SizesAssumption
  <2> QED BY <1>2, <1>3, <2>1, <2>3, <2>4
<1>5. ASSUME NEW j \in Jobs, ControlFree(v, j), hooks'[v] \subseteq hooks[v] \cup {j},
             \A k \in Jobs : recovery'[v][k] \in Inspected => recovery[v][k] \in Inspected
      PROVE  /\ IsFiniteSet(HostTasks(v)') /\ Cardinality(HostTasks(v)') < ControlThreads
             /\ \A s, t \in ControlTasks(v)' : s # t => HostsOf(s[2]) \cap HostsOf(t[2]) = {}
  <2>1. ControlTasks(v)' \subseteq ControlTasks(v) \cup {<<"cancel", j>>} /\ <<"cancel", j>>[2] = j
    BY <1>5 DEF ControlTasks, Inspecting, Inspected
  <2> QED BY <1>2, <1>5, <2>1, TurnKeepsTasks
<1>6. ASSUME NEW j \in Jobs, ControlFree(v, j), hooks'[v] \subseteq hooks[v],
             \A k \in Jobs : recovery'[v][k] \in Inspected => recovery[v][k] \in Inspected \/ k = j
      PROVE  /\ IsFiniteSet(HostTasks(v)') /\ Cardinality(HostTasks(v)') < ControlThreads
             /\ \A s, t \in ControlTasks(v)' : s # t => HostsOf(s[2]) \cap HostsOf(t[2]) = {}
  <2>1. ControlTasks(v)' \subseteq ControlTasks(v) \cup {<<"inspect", j>>} /\ <<"inspect", j>>[2] = j
    BY <1>6 DEF ControlTasks, Inspecting, Inspected
  <2> QED BY <1>2, <1>6, <2>1, TurnKeepsTasks
<1> QED BY <1>1, <1>3, <1>4, <1>5, <1>6 DEF TasksInTurn

\* The tasks of one host: two would share it.
LEMMA ShareShows == ShareInv => HostShare
<1> SUFFICES ASSUME ShareInv, NEW w \in Workers, NEW c \in Computes
             PROVE  Cardinality({t \in ControlTasks(w) : c \in HostsOf(t[2])}) <= 1
  BY DEF ShareInv, HostShare
<1> DEFINE here == {t \in ControlTasks(w) : c \in HostsOf(t[2])}
<1>1. \A s, t \in here : s = t
  BY DEF ShareInv
<1>2. CASE here = {}
  BY <1>2, FS_EmptySet
<1>3. CASE here # {}
  <2>1. PICK t \in here : TRUE
    BY <1>3
  <2>2. here = {t}
    BY <1>1
  <2>3. Cardinality({t}) = 1
    BY FS_Singleton
  <2> QED BY <2>2, <2>3
<1> QED BY <1>2, <1>3

\* No compute's jobs take more than their share of a worker's slots, its hosts
\* have one control task at a time and housekeeping always has a thread.
THEOREM HostsShareWorker == Spec => []HostShare
BY InvInit, InvNext, ShareInit, ShareNext, ShareShows, PTL DEF Spec
=============================================================================
