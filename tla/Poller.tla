------------------------------- MODULE Poller -------------------------------
(***************************************************************************)
(* pollWhileVisible (static/js/poll.js): a page repeats a request while it *)
(* is visible, one at a time.  The job panel uses it (JobPanel), and the   *)
(* Stats tab of the VM page, which pauses it while the tab is not shown.   *)
(***************************************************************************)
EXTENDS Naturals, Sequences

VARIABLES
  hidden,       \* document.hidden
  timer,        \* setTimeout will run it
  stopped, running,
  asks          \* the requests that are out, and what the server put into their answers

pollVars == <<hidden, timer, stopped, running, asks>>

PollInit ==
  /\ hidden = FALSE /\ timer = TRUE /\ stopped = FALSE /\ running = FALSE /\ asks = <<>>

Asked == [read |-> FALSE, jobs |-> {}, more |-> FALSE]

\* run: the timer is spent; a visible page asks.
Run ==
  /\ timer' = FALSE
  /\ running' = TRUE
  /\ asks' = Append(asks, Asked)

\* Mutant: a request that is still out is forgotten.
ResumesAnyway(seen, paused, set) == seen /\ ~paused /\ ~set
\* resume asks only when neither a timer nor a request will.
Resumes(seen, paused, set) == seen /\ ~paused /\ ~set /\ ~running

Resume(seen, paused, set) ==
  IF Resumes(seen, paused, set) THEN Run ELSE timer' = set /\ UNCHANGED <<running, asks>>

Fire ==
  /\ timer
  /\ IF stopped \/ hidden THEN timer' = FALSE /\ UNCHANGED <<running, asks>> ELSE Run
  /\ UNCHANGED <<hidden, stopped>>

Hide == ~hidden /\ hidden' = TRUE /\ UNCHANGED <<timer, stopped, running, asks>>

\* visibilitychange
Show ==
  /\ hidden /\ hidden' = FALSE
  /\ Resume(TRUE, stopped, timer)
  /\ UNCHANGED stopped

Stop == stopped' = TRUE /\ timer' = FALSE /\ UNCHANGED <<hidden, running, asks>>

Start ==
  /\ stopped' = FALSE
  /\ Resume(~hidden, FALSE, timer)
  /\ UNCHANGED hidden

\* Both in one handler: ask now, unless a request is out already.
StopStart ==
  /\ stopped' = FALSE
  /\ Resume(~hidden, FALSE, FALSE)
  /\ UNCHANGED hidden

\* The request's always-block, before its answer is used.
Finished(i) ==
  /\ running' = FALSE
  /\ timer' = (~stopped /\ ~hidden)
  /\ asks' = [k \in 1..Len(asks) - 1 |-> IF k < i THEN asks[k] ELSE asks[k + 1]]
  /\ UNCHANGED <<hidden, stopped>>

\* The Stats tab is left and shown again.
TabHidden == ~stopped /\ Stop
TabShown == stopped /\ Start

\* An answer or an error.
StatsAnswer == \E i \in DOMAIN asks : Finished(i)

StatsNext == Fire \/ Hide \/ Show \/ TabHidden \/ TabShown \/ StatsAnswer

StatsSpec == PollInit /\ [][StatsNext]_pollVars

-----------------------------------------------------------------------------

\* A visible page that is not paused waits for exactly one thing, its timer or
\* the answer to one request: the polling neither dies nor doubles, whatever
\* the order of hiding, showing, pausing and answers. [poll.js run, resume]
OnePoll ==
  /\ Len(asks) <= 1
  /\ ~hidden /\ ~stopped => (timer # (asks # <<>>))
=============================================================================
