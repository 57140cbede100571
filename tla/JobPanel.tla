------------------------------ MODULE JobPanel ------------------------------
(***************************************************************************)
(* The job panel of a resource page (operations/static/operations/         *)
(* job_panel.js) on the page's poller (static/js/poll.js), and what may    *)
(* reload the page: the panel itself, the status poll of the VM page or of *)
(* a VM list, and the user.  Requests are read by the server and answered  *)
(* in steps of their own, in any order, or lost.                           *)
(***************************************************************************)
EXTENDS Poller, FiniteSets

CONSTANTS
  Jobs,         \* the resource's jobs
  Cancellable   \* those whose kind can be cancelled

ASSUME JobPanelAssumption == IsFiniteSet(Jobs) /\ Cancellable \subseteq Jobs

VARIABLES
  job,          \* Jobs -> its state on the server; "quiet": succeeded with nothing to read
  inUse,        \* pageInUse()
  shown, extra, \* the last list: its jobs, and whether it names others' work
  pending,      \* left the list, or just submitted: the outcome is not fetched yet
  inflight,     \* Jobs -> "none", "asked" or the answer about the job
  dismissed, outcomes, cancelling, notice,
  holding,      \* the panel set backgroundJobRunning
  background,   \* window.backgroundJobRunning
  known,        \* the jobs the page was given or has listed since the user loaded it
  refused       \* those the server no longer tells about

heldVars == <<holding, background>>
panelVars == <<job, inUse, pollVars, shown, extra, pending, inflight, dismissed,
               outcomes, cancelling, notice, heldVars, known, refused>>

Listed == {"active", "uncertain"}   \* queued, running or cancelling; or kept by its claims
Ended == {"quiet", "loud"}

Nothing == [j \in Jobs |-> "none"]
Told == {j \in Jobs : outcomes[j] # "none"}

\* The page as the server renders it for the remembered jobs: they hold the page
\* before the first list is there.
Loaded(ids) ==
  /\ timer' = TRUE /\ stopped' = FALSE /\ running' = FALSE /\ asks' = <<>> /\ hidden' = hidden
  /\ shown' = {} /\ extra' = FALSE /\ pending' = ids
  /\ inflight' = Nothing /\ outcomes' = Nothing
  /\ dismissed' = {} /\ cancelling' = {} /\ notice' = FALSE /\ refused' = {}
  /\ holding' = (ids # {}) /\ background' = (ids # {})
  /\ inUse' = FALSE

PanelInit ==
  /\ job = Nothing
  /\ PollInit /\ inUse = FALSE
  /\ shown = {} /\ extra = FALSE /\ pending = {}
  /\ inflight = Nothing /\ outcomes = Nothing
  /\ dismissed = {} /\ cancelling = {} /\ notice = FALSE /\ refused = {}
  /\ holding = FALSE /\ background = FALSE
  /\ known = {}

\* Mutant: a panel that only shows outcomes lets the page go.
RenderLoosely ==
  LET busy == shown' # {} \/ pending' # {}
  IN  /\ background' = (busy \/ (~holding /\ background))
      /\ holding' = busy

\* render: while the panel shows or awaits anything the page's status poll does
\* not reload it.
Render ==
  LET busy == \/ notice' \/ shown' # {} \/ extra' \/ pending' # {}
              \/ \E j \in Jobs : outcomes'[j] # "none"
  IN  /\ background' = (busy \/ (~holding /\ background))
      /\ holding' = busy

-----------------------------------------------------------------------------
(* The list of the resource's jobs *)

\* What the poller does by itself.
Polls ==
  /\ Fire \/ Hide \/ Show
  /\ UNCHANGED <<job, inUse, shown, extra, pending, inflight, dismissed, outcomes,
                 cancelling, notice, heldVars, known, refused>>

\* operation-resource: the active and uncertain jobs of the resource; others' jobs,
\* a short operation.
ReadList(i) ==
  /\ ~asks[i].read
  /\ \E more \in BOOLEAN :
       asks' = [asks EXCEPT ![i] =
         [read |-> TRUE, jobs |-> {j \in Jobs : job[j] \in Listed}, more |-> more]]
  /\ UNCHANGED <<job, hidden, inUse, timer, stopped, running, shown, extra, pending, inflight,
                 dismissed, outcomes, cancelling, notice, heldVars, known, refused>>

\* A job that left the list is asked for by id; one the list shows is not.
Awaited(now) == (pending \cup shown) \ now

\* onData
ListAnswer(i) ==
  /\ asks[i].read
  /\ LET now == asks[i].jobs
     IN  /\ Finished(i)
         /\ pending' = Awaited(now)
         /\ shown' = now /\ extra' = asks[i].more
         /\ inflight' = [j \in Jobs |-> IF j \in Awaited(now) /\ inflight[j] = "none"
                                        THEN "asked" ELSE inflight[j]]
         /\ known' = known \cup now
  /\ UNCHANGED <<outcomes, notice>>
  /\ Render
  /\ UNCHANGED <<job, inUse, dismissed, cancelling, refused>>

ListFails(i) ==
  /\ Finished(i)
  /\ UNCHANGED <<job, inUse, shown, extra, pending, inflight, dismissed,
                 outcomes, cancelling, notice, heldVars, known, refused>>

-----------------------------------------------------------------------------
(* The outcome of a job *)

\* operation-detail
ReadOutcome(j) ==
  /\ inflight[j] = "asked"
  /\ inflight' = [inflight EXCEPT ![j] = job[j]]
  /\ UNCHANGED <<job, inUse, pollVars, shown, extra, pending, dismissed,
                 outcomes, cancelling, notice, heldVars, known, refused>>

Answered(j) == inflight' = [inflight EXCEPT ![j] = "none"]

\* Mutant: a reload looks at the outcomes in the panel and not at the other jobs.
AloneInPanel(j) == Told = {}
\* A reload would lose the outcome of another job that is shown or awaited.
Alone(j) == Told = {} /\ pending \ {j} = {} /\ shown = {}

ReloadsFor(j) == inflight[j] = "quiet" /\ ~inUse /\ Alone(j)

\* fetchOutcome's answer, for a job that is dismissed or still active.
OutcomeIgnored(j) ==
  /\ inflight[j] \in Ended \cup Listed
  /\ j \in dismissed \/ inflight[j] = "active"
  /\ Answered(j)
  /\ pending' = IF j \in dismissed THEN pending \ {j} ELSE pending
  /\ UNCHANGED <<job, inUse, pollVars, shown, extra, dismissed, outcomes,
                 cancelling, notice, heldVars, known, refused>>

OutcomeShows(j) ==
  /\ inflight[j] \in Ended \cup {"uncertain"}
  /\ j \notin dismissed /\ ~ReloadsFor(j)
  /\ Answered(j)
  /\ pending' = pending \ {j}
  /\ outcomes' = [outcomes EXCEPT ![j] = inflight[j]]
  /\ UNCHANGED <<shown, extra, notice>>
  /\ Render
  /\ UNCHANGED <<job, inUse, pollVars, dismissed, cancelling, known, refused>>

\* The page reloads, or opens the page of the VM that was made.
OutcomeReloads(j) ==
  /\ j \notin dismissed /\ ReloadsFor(j)
  /\ Loaded({})
  /\ known' = known \ ({j} \cup dismissed \cup refused)
  /\ UNCHANGED job

\* 404: the job was deleted. 403 is answered alike.
OutcomeRefused(j) ==
  /\ inflight[j] = "gone"
  /\ Answered(j)
  /\ pending' = pending \ {j}
  /\ refused' = refused \cup {j}
  /\ UNCHANGED <<shown, extra, outcomes, notice>>
  /\ Render
  /\ UNCHANGED <<job, inUse, pollVars, dismissed, cancelling, known>>

\* Mutant: a failed request stays under way.
OutcomeFailsStuck(j) ==
  /\ inflight[j] # "none"
  /\ inflight' = [inflight EXCEPT ![j] = "stuck"]
  /\ UNCHANGED <<job, inUse, pollVars, shown, extra, pending, dismissed,
                 outcomes, cancelling, notice, heldVars, known, refused>>

\* A network error or a 5xx: the next list asks again.
OutcomeFails(j) ==
  /\ inflight[j] # "none"
  /\ Answered(j)
  /\ UNCHANGED <<job, inUse, pollVars, shown, extra, pending, dismissed,
                 outcomes, cancelling, notice, heldVars, known, refused>>

-----------------------------------------------------------------------------
(* The user *)

Dismiss(j) ==
  /\ outcomes[j] # "none"
  /\ dismissed' = dismissed \cup {j}
  /\ outcomes' = [outcomes EXCEPT ![j] = "none"]
  /\ UNCHANGED <<shown, extra, pending, notice>>
  /\ Render
  /\ UNCHANGED <<job, inUse, pollVars, inflight, cancelling, known, refused>>

DismissError ==
  /\ notice
  /\ notice' = FALSE
  /\ UNCHANGED <<shown, extra, pending, outcomes>>
  /\ Render
  /\ UNCHANGED <<job, inUse, pollVars, inflight, dismissed, cancelling, known, refused>>

Cancel(j) ==
  /\ j \in shown \cap Cancellable /\ j \notin cancelling
  /\ cancelling' = cancelling \cup {j}
  /\ notice' = FALSE
  /\ UNCHANGED <<shown, extra, pending, outcomes>>
  /\ Render
  /\ UNCHANGED <<job, inUse, pollVars, inflight, dismissed, known, refused>>

\* The request failed (the job ended or cannot be stopped any more), or it is on
\* its way to the worker.
CancelAnswer(j) ==
  /\ j \in cancelling
  /\ cancelling' = cancelling \ {j}
  /\ notice' \in {notice, TRUE}
  /\ UNCHANGED <<shown, extra, pending, outcomes>>
  /\ Render
  /\ StopStart
  /\ UNCHANGED <<job, inUse, inflight, dismissed, known, refused>>

\* poller.track: the page's upload made a job.
Track(j) ==
  /\ job[j] = "none"
  /\ job' = [job EXCEPT ![j] = "active"]
  /\ pending' = pending \cup {j}
  /\ known' = known \cup {j}
  /\ UNCHANGED <<shown, extra, outcomes, notice>>
  /\ Render
  /\ StopStart
  /\ UNCHANGED <<inUse, inflight, dismissed, cancelling, refused>>

\* A form of the page submits a job; its answer is the page again, which
\* remembers the job.
Submit(j) ==
  /\ job[j] = "none"
  /\ job' = [job EXCEPT ![j] = "active"]
  /\ Loaded({j})
  /\ known' = {j}

\* Refresh, or the browser's own.
Reload ==
  /\ Loaded({})
  /\ known' = {}
  /\ UNCHANGED job

\* A dialog opens, a field gets the focus, and back.
Use ==
  /\ inUse' = ~inUse
  /\ UNCHANGED <<job, pollVars, shown, extra, pending, inflight, dismissed,
                 outcomes, cancelling, notice, heldVars, known, refused>>

\* A form that takes long is sent: the please-wait dialog holds the page, too.
PleaseWait ==
  /\ background' = TRUE /\ inUse' = TRUE
  /\ UNCHANGED <<job, pollVars, shown, extra, pending, inflight, dismissed,
                 outcomes, cancelling, notice, holding, known, refused>>

\* The VM's state changed: the status poll's answer reloads the page.
StatusReload ==
  /\ ~background
  /\ Loaded({})
  /\ known' = known \ (dismissed \cup refused)
  /\ UNCHANGED job

-----------------------------------------------------------------------------
(* The jobs *)

\* Another page submits a job, the worker runs, ends or cannot tell it, and the
\* row of one that ended is deleted.
JobMoves(j) ==
  /\ job' \in {[job EXCEPT ![j] = to] : to \in
       CASE job[j] = "none" -> {"active"}
         [] job[j] = "active" -> Ended \cup {"uncertain"}
         [] job[j] = "uncertain" -> Ended
         [] job[j] \in Ended -> {"gone"}
         [] OTHER -> {}}
  /\ UNCHANGED <<inUse, pollVars, shown, extra, pending, inflight, dismissed,
                 outcomes, cancelling, notice, heldVars, known, refused>>

PanelNext ==
  \/ Polls \/ Use \/ PleaseWait \/ Reload \/ StatusReload \/ DismissError
  \/ \E i \in DOMAIN asks : ReadList(i) \/ ListAnswer(i) \/ ListFails(i)
  \/ \E j \in Jobs :
       \/ ReadOutcome(j) \/ OutcomeIgnored(j) \/ OutcomeShows(j) \/ OutcomeReloads(j)
       \/ OutcomeRefused(j) \/ OutcomeFails(j)
       \/ Dismiss(j) \/ Cancel(j) \/ CancelAnswer(j) \/ Track(j) \/ Submit(j) \/ JobMoves(j)

PanelSpec == PanelInit /\ [][PanelNext]_panelVars

\* Timers fire, the user comes back to the page, and of requests sent again and
\* again one is answered.
PanelFairness ==
  /\ WF_panelVars(Polls /\ hidden' = hidden) /\ WF_panelVars(Polls /\ hidden /\ ~hidden')
  /\ SF_panelVars(asks # <<>> /\ ReadList(1))
  /\ SF_panelVars(asks # <<>> /\ ListAnswer(1))
  /\ \A j \in Jobs :
       /\ SF_panelVars(ReadOutcome(j))
       /\ SF_panelVars(OutcomeIgnored(j) \/ OutcomeShows(j) \/ OutcomeReloads(j) \/ OutcomeRefused(j))

-----------------------------------------------------------------------------
(* Properties *)

\* A job the page was given or has listed is listed, awaited or told, or the
\* user dismissed it or the server refuses it: neither a list older than the
\* job, nor an outcome and a list that cross, nor a reload the panel or the
\* status poll makes loses it. [onData, fetchOutcome, render, "a reload would
\* lose its outcome"]
JobsKept == known \subseteq (shown \cup pending \cup Told \cup dismissed \cup refused)

\* A job that ended while the page followed it is told in the end, over failed
\* requests and while the page is shown only now and then. One that was
\* uncertain when its outcome was read, and was resolved before a list showed
\* it, stays told as uncertain. [fetchOutcome "the next poll asks for it again"]
OutcomeTold ==
  \A j \in Jobs :
    j \in known /\ job[j] \in Ended ~>
      j \notin known \/ outcomes[j] # "none" \/ j \in dismissed \cup refused
=============================================================================
