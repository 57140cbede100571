------------------------------ MODULE MCClaims ------------------------------
(***************************************************************************)
(* Small instances of Claims: two web processes of one node that use one   *)
(* PID after each other, one of another node whose clock is ahead, and the *)
(* job worker's process, which has no request timeout.                     *)
(***************************************************************************)
EXTENDS Claims

MCProcs == {"web1", "web2", "other"}
MCNodeOf == [p \in Procs |-> IF p = "other" THEN "B" ELSE "A"]
MCPidOf == [p \in Procs |-> IF p = "worker" THEN 2 ELSE 1]
MCClock == [n \in Nodes |-> IF n = "B" THEN 1 ELSE 0]
MCThreads == {"t1", "t2", "t3"}
MCProcOf == [t \in Threads |-> CASE t = "t1" -> "web1" [] t = "t2" -> "web2" [] t = "t3" -> "other"]

\* libvirt_instance_lock, libvirt_compute_lock.
InstanceLock == {<<"compute", "shared">>, <<"instance", "exclusive">>}
SharedCompute == {<<"compute", "shared">>}
WholeCompute == {<<"compute", "exclusive">>}
MCWants == {InstanceLock, SharedCompute, WholeCompute}
MCJobWants == [j \in Jobs |-> InstanceLock]

\* An upload: a chunk request of the panel, and housekeeping that ends the idle upload.
SessionLock == {<<"upload", "exclusive">>}
UploadWants == {SessionLock}
UploadProcs == {"web1", "worker"}
UploadProcOf == [t \in Threads |-> IF t = "t1" THEN "web1" ELSE "worker"]
=============================================================================
