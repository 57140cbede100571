------------------------------- MODULE MCJobs -------------------------------
(***************************************************************************)
(* The setups the safety of Operations is checked in.                      *)
(***************************************************************************)
EXTENDS MCOperations

\* The jobs that are submitted, in a row, and the workers that are started: a job
\* that is cancelled and limited, over a restart and over a take-over by another
\* installation; two jobs of one VM on two installations; two jobs of one compute;
\* a job beside a request's.
Setups == {[jobs |-> {{}, {1}}, workers |-> {a1, a2}],
           [jobs |-> {{}, {1}, {2}, {2, 3}}, workers |-> {a1, b1}],
           [jobs |-> {{}, {1}, {1, 2}, {1, 4}}, workers |-> {a1}]}

Submitted == {j \in Jobs : state[j] # "none"}
Started == {w \in Workers : proc[w] # "new"}
Ending == {w \in Workers : proc'[w] # proc[w] /\ proc'[w] \in {"draining", "dead"}}

\* Something of a job is still under way.
Remains(j) ==
  \/ state[j] \in ACTIVE \/ work[j] = "busy"
  \/ \E w \in Workers : thread[w][j] # "none" \/ recovery[w][j] # "none"

\* A worker ends only while another of the setup can still lead, or does. A second
\* job is submitted while the first remains; with two, none leaves the history and
\* a superuser resolves as failed.
Bounded ==
  LET jobs == Submitted'
      workers == Started'
      ending == Ending
  IN  /\ \A j \in jobs : state'[j] = "deleted" \/ (resolved'[j] /\ state'[j] # FAILED) => jobs = {j}
      /\ jobs # Submitted => \A j \in Submitted : Remains(j)
      /\ \E s \in Setups :
           /\ workers \subseteq s.workers /\ jobs \in s.jobs
           /\ \A w \in ending :
                \/ proc[w] \in Loops /\ ~Fenced(w)
                \/ \E v \in s.workers \ {w} : proc[v] \in {"new", "waiting"}
=============================================================================
