---------------------------- MODULE JobLifecycle ----------------------------
(***************************************************************************)
(* What the Jobs page and the claims promise, without workers, leases or   *)
(* threads: the life of the Operation rows and of the claims they hold     *)
(* (operations/models.py: Operation, Claim). A job is admitted with all    *)
(* its claims or not at all; its end and the release of its claims are one *)
(* step; an uncertain job keeps them until a superuser decides.            *)
(***************************************************************************)
CONSTANTS Jobs, Wanted

VARIABLES state, claims

lifeVars == <<state, claims>>

Clash(c, d) == c[1] = d[1] /\ (c[2] = "exclusive" \/ d[2] = "exclusive")

LifeInit ==
  /\ state = [j \in Jobs |-> "none"]
  /\ claims = [j \in Jobs |-> {}]

Admit(j) ==
  /\ state[j] = "none"
  /\ \A k \in Jobs : \A c \in Wanted[j], d \in claims[k] : ~Clash(c, d)
  /\ \E s \in {"queued", "running"} : state' = [state EXCEPT ![j] = s]
  /\ claims' = [claims EXCEPT ![j] = Wanted[j]]

\* A worker takes it, or it is asked to stop.
Advances(j) ==
  /\ \/ state[j] = "queued" /\ state' = [state EXCEPT ![j] = "running"]
     \/ state[j] = "running" /\ state' = [state EXCEPT ![j] = "cancelling"]
  /\ UNCHANGED claims

\* A queued job ends only by being cancelled; no one but a superuser ends an
\* uncertain one.
Ends(j) ==
  /\ \/ state[j] = "queued" /\ state' = [state EXCEPT ![j] = "cancelled"]
     \/ /\ state[j] \in {"running", "cancelling"}
        /\ \E s \in {"succeeded", "failed", "cancelled"} : state' = [state EXCEPT ![j] = s]
     \/ /\ state[j] = "uncertain"
        /\ \E s \in {"succeeded", "failed"} : state' = [state EXCEPT ![j] = s]
  /\ claims' = [claims EXCEPT ![j] = {}]

BecomesUncertain(j) ==
  /\ state[j] \in {"running", "cancelling"}
  /\ state' = [state EXCEPT ![j] = "uncertain"]
  /\ UNCHANGED claims

LeavesHistory(j) ==
  /\ state[j] \in {"succeeded", "failed", "cancelled"}
  /\ state' = [state EXCEPT ![j] = "deleted"]
  /\ UNCHANGED claims

LifeNext ==
  \E j \in Jobs :
    Admit(j) \/ Advances(j) \/ Ends(j) \/ BecomesUncertain(j) \/ LeavesHistory(j)

LifeSpec == LifeInit /\ [][LifeNext]_lifeVars
=============================================================================
