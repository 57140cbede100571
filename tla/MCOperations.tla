---------------------------- MODULE MCOperations ----------------------------
(***************************************************************************)
(* Small instances of Operations. Two installations A and B share the      *)
(* database; the worker of A can be started again (a1, a2), B's once (b1). *)
(***************************************************************************)
EXTENDS Operations

CONSTANTS a1, a2, b1

MCHosts == {"A", "B"}
MCHostOf == [w \in Workers |-> IF w \in {a1, a2} THEN "A" ELSE "B"]
MCResources == {"compute:1", "compute:2", "instance:x", "instance:y", "instance:z"}
MCComputes == {"compute:1", "compute:2"}

\* Jobs 2 and 3 on one VM (instances.jobs._vm_plan), 1 on another VM of the
\* same compute, 4 on a VM of the other compute.
On(compute, vm) == {<<compute, "shared">>, <<vm, "exclusive">>}
MCWanted ==
  [j \in Jobs |-> CASE j = 1 -> On("compute:1", "instance:x")
                    [] j = 4 -> On("compute:2", "instance:z")
                    [] OTHER -> On("compute:1", "instance:y")]
=============================================================================
