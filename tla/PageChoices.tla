----------------------------- MODULE PageChoices ----------------------------
(***************************************************************************)
(* What a page loads for a choice of the user: the disks of a migration's  *)
(* destination (static/js/instance_page.js) and the lists that depend on a *)
(* choice in the VM create form (static/js/create_instance.js).  A newer   *)
(* choice aborts the load of the older one; the answers come in any order. *)
(***************************************************************************)
EXTENDS Naturals, FiniteSets

CONSTANTS
  Hosts,        \* options of #migrate_compute
  Lists,        \* dependent lists: volumes, templates, buses
  Pickers,      \* those whose chosen items stay when the choice changes: volumes
  Choices,      \* what each depends on: pools, device types
  None

ASSUME PageChoicesAssumption == IsFiniteSet(Hosts) /\ Pickers \subseteq Lists /\ None \notin Hosts \cup Choices

VARIABLES
  targets,      \* loadMigrateTargets: "none", "out", "done" or "failed"
  offered,      \* the options that are not disabled
  compute,      \* migrateCompute.value
  plans,        \* fetches of a plan: [host, aborted]
  plan,         \* what #migrate-plan shows: [of: a host, says: "checking", "ok", "refused", "failed"]
  submit,       \* the Migrate button is enabled
  choice,       \* Lists -> what the user chose
  loads,        \* Lists -> the loads that go on: [of, answered, aborted, restores]
  options,      \* Lists -> whose options it shows
  value         \* Lists -> what it has selected: "none", "own", or a refused form's: "sent", or
                \* "late", selected after the choice had changed

migrateVars == <<targets, offered, compute, plans, plan, submit>>
listVars == <<choice, loads, options, value>>
choiceVars == <<migrateVars, listVars>>

\* $.getJSON of a choice; restores: restore_submitted goes on after it.
Load(c, restores) == [of |-> c, answered |-> FALSE, aborted |-> FALSE, restores |-> restores]

NoPlan == [of |-> None, says |-> "nothing"]

\* A refused form comes back with its lists loading (restore_submitted); a new
\* one has empty lists.
ChoicesInit ==
  /\ targets = "none" /\ offered = Hosts /\ compute \in Hosts
  /\ plans = {} /\ plan = NoPlan /\ submit = FALSE
  /\ choice \in [Lists -> Choices]
  /\ \/ loads = [l \in Lists |-> {Load(choice[l], TRUE)}]
     \/ loads = [l \in Lists |-> {}]
  /\ options = [l \in Lists |-> None] /\ value = [l \in Lists |-> "none"]

-----------------------------------------------------------------------------
(* The Migrate tab *)

\* Mutant: the fetch of the destination chosen before goes on.
KeptLoading == plans
\* migrateLoading.abort()
AbortLoading == {[p EXCEPT !.aborted = TRUE] : p \in plans}

\* loadMigratePlan
LoadMigratePlan(h) ==
  /\ plans' = AbortLoading \cup {[host |-> h, aborted |-> FALSE]}
  /\ plan' = [of |-> h, says |-> "checking"]
  /\ submit' = FALSE

\* shown.bs.tab, the first time: loadMigrateTargets
TabOpens ==
  /\ targets = "none"
  /\ targets' = "out" /\ submit' = FALSE
  /\ UNCHANGED <<offered, compute, plans, plan, listVars>>

\* The unreachable hosts are marked; the disks of the first one left are checked.
TargetsAnswer(refused) ==
  /\ targets = "out"
  /\ targets' = "done"
  /\ offered' = Hosts \ refused
  /\ IF offered' = {} THEN UNCHANGED <<compute, plans, plan, submit>>
     ELSE /\ compute' \in IF compute \in offered' THEN {compute} ELSE offered'
          /\ LoadMigratePlan(compute')
  /\ UNCHANGED listVars

TargetsFail ==
  /\ targets = "out"
  /\ targets' = "failed"
  /\ UNCHANGED <<offered, compute, plans, plan, submit, listVars>>

ComputeChanges(h) ==
  /\ targets = "done" /\ h \in offered /\ h # compute
  /\ compute' = h
  /\ LoadMigratePlan(h)
  /\ UNCHANGED <<targets, offered, listVars>>

\* An aborted fetch ends in its catch, which returns.
PlanAborts(p) ==
  /\ p.aborted
  /\ plans' = plans \ {p}
  /\ UNCHANGED <<targets, offered, compute, plan, submit, listVars>>

\* Failed: "the migration checks them again".
PlanAnswer(p, says) ==
  /\ ~p.aborted
  /\ plans' = plans \ {p}
  /\ plan' = [of |-> p.host, says |-> says]
  /\ submit' = (says # "refused")
  /\ UNCHANGED <<targets, offered, compute, listVars>>

-----------------------------------------------------------------------------
(* The create form *)

\* Mutant: a newer load leaves the older one running.
KeptRequests(l) == loads[l]
\* list.request.abort(): it no longer stops what follows an answer.
AbortRequests(l) == {[r EXCEPT !.aborted = TRUE] : r \in loads[l]}

\* load_volumes, load_templates and load_buses: empty, then load_list.
ListChanges(l, c) ==
  /\ c # choice[l]
  /\ choice' = [choice EXCEPT ![l] = c]
  /\ options' = [options EXCEPT ![l] = None]
  /\ value' = [value EXCEPT ![l] = IF l \in Pickers THEN @ ELSE "none"]
  /\ loads' = [loads EXCEPT ![l] = AbortRequests(l) \cup {Load(c, FALSE)}]
  /\ UNCHANGED migrateVars

LoadEnds(l, r) == loads' = [loads EXCEPT ![l] = @ \ {r}]

\* jQuery calls neither fill nor the continuation of an aborted request.
LoadAborts(l, r) ==
  /\ r.aborted /\ ~r.answered
  /\ LoadEnds(l, r)
  /\ UNCHANGED <<choice, options, value, migrateVars>>

\* fill: the list's options. What .then has to do comes in a later task.
LoadAnswer(l, r) ==
  /\ ~r.aborted /\ ~r.answered
  /\ loads' = [loads EXCEPT ![l] = (@ \ {r}) \cup (IF r.restores THEN {[r EXCEPT !.answered = TRUE]} ELSE {})]
  /\ options' = [options EXCEPT ![l] = r.of]
  /\ value' = [value EXCEPT ![l] = IF l \in Pickers THEN @ ELSE "own"]
  /\ UNCHANGED <<choice, migrateVars>>

\* Mutant: the refused form's value is selected without its list.
RestoresEarly(l, r) ==
  /\ r.restores
  /\ LoadEnds(l, r)
  /\ value' = [value EXCEPT ![l] = IF r.aborted THEN "late" ELSE "sent"]
  /\ UNCHANGED <<choice, options, migrateVars>>

\* The continuation in restore_submitted, in a task of its own: select_value takes
\* what the refused form had, also where the list does not have it, and does not
\* look whether the choice has changed since the answer.
Restores(l, r) ==
  /\ r.answered
  /\ LoadEnds(l, r)
  /\ value' = [value EXCEPT ![l] = IF r.aborted THEN "late" ELSE "sent"]
  /\ UNCHANGED <<choice, options, migrateVars>>

\* showLoadError
LoadFails(l, r) ==
  /\ ~r.aborted /\ ~r.answered
  /\ LoadEnds(l, r)
  /\ UNCHANGED <<choice, options, value, migrateVars>>

MigrateNext ==
  \/ TabOpens \/ TargetsFail
  \/ \E refused \in SUBSET Hosts : TargetsAnswer(refused)
  \/ \E h \in Hosts : ComputeChanges(h)
  \/ \E p \in plans : PlanAborts(p) \/ \E says \in {"ok", "refused", "failed"} : PlanAnswer(p, says)

ListsNext ==
  \E l \in Lists :
    \/ \E c \in Choices : ListChanges(l, c)
    \/ \E r \in loads[l] : LoadAborts(l, r) \/ LoadAnswer(l, r) \/ Restores(l, r) \/ LoadFails(l, r)

ChoicesSpec == ChoicesInit /\ [][MigrateNext \/ ListsNext]_choiceVars

-----------------------------------------------------------------------------

\* The Migrate button is enabled only over the checked disks of the destination
\* that is chosen, and a list of the create form shows the options, or the
\* refused form's value, of the choice it depends on: also when answers
\* overtake each other and the choice changes while they are out. The code's one
\* exception is a value restored late: the choice changed between the answer and
\* its continuation, which selects the old value in the new list. ["the form is
\* not sent until the disks of the chosen destination are shown", load_list,
\* restore_submitted]
ShownForChoice ==
  /\ submit => plan.of = compute /\ plan.says \in {"ok", "failed"} /\ compute \in offered
  /\ \A l \in Lists :
       /\ options[l] \in {None, choice[l]}
       /\ l \notin Pickers /\ value[l] \in {"own", "sent"} => options[l] = choice[l]
=============================================================================
