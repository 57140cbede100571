------------------------------- MODULE MCPages ------------------------------
(***************************************************************************)
(* The panel's pages: each behaviour runs one of them.  The job panel runs *)
(* with one job on a page that may be hidden and paused, and with two jobs *)
(* on a page that is in view.                                              *)
(***************************************************************************)
EXTENDS JobPanel, PageUpload, PageChoices

CONSTANT Second   \* the job only the page in view has

VARIABLE page

PagesInit ==
  /\ page \in {"stats", "panel", "two jobs", "upload", "migrate", "lists"}
  /\ PanelInit /\ UploadInit /\ ChoicesInit
  /\ page # "migrate" => compute = CHOOSE h \in Hosts : TRUE
  /\ page # "lists" => \A l \in Lists : loads[l] = {} /\ choice[l] = CHOOSE c \in Choices : TRUE
  /\ page # "upload" => file = CHOOSE f \in Files : TRUE

\* Bounds: the second job comes to a page in view that is not in use, names no
\* others' work and cancels nothing, and the job's row stays.
PanelBounds ==
  \/ page = "panel" /\ job'[Second] = "none"
  \/ page = "two jobs" /\ ~hidden' /\ ~inUse' /\ ~extra'
     /\ cancelling' = {} /\ job'[Second] # "gone"

PagesNext ==
  /\ UNCHANGED page
  /\ \/ /\ page = "stats" /\ StatsNext
        /\ UNCHANGED <<job, inUse, shown, extra, pending, inflight, dismissed, outcomes,
                       cancelling, notice, heldVars, known, refused, uploadVars, choiceVars>>
     \/ page \in {"panel", "two jobs"} /\ PanelNext /\ PanelBounds /\ UNCHANGED <<uploadVars, choiceVars>>
     \/ page = "upload" /\ UploadNext /\ UNCHANGED <<panelVars, choiceVars>>
     \/ page = "migrate" /\ MigrateNext /\ UNCHANGED <<panelVars, uploadVars>>
     \/ page = "lists" /\ ListsNext /\ UNCHANGED <<panelVars, uploadVars>>

pagesVars == <<page, panelVars, uploadVars, choiceVars>>

PagesSpec == PagesInit /\ [][PagesNext]_pagesVars /\ PanelFairness
=============================================================================
