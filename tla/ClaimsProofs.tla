---------------------------- MODULE ClaimsProofs ----------------------------
(***************************************************************************)
(* Proofs about the claims of short requests, for any number of processes, *)
(* nodes, threads, jobs and resources and any times that TimesAssumption   *)
(* allows, when every process that holds claims runs under gunicorn's      *)
(* request timeout (WebProcs = Procs). Inv (Claims) is inductive.          *)
(***************************************************************************)
EXTENDS Claims, TLAPS

USE DEF Modes, Levels, Rows, Clash, Node, Running

\* A row of a block that runs is not expired on any node's clock, and its
\* process is found wherever it is looked for: nobody deletes it as stale.
LEMMA NotStale ==
  ASSUME Inv, WebProcs = Procs,
         NEW t \in Threads, NEW i \in Levels, NEW r \in got[t][i], NEW n \in Nodes
  PROVE  /\ r \in table /\ r.by = t
         /\ ~Expired(r, n) /\ ~Gone(r, n) /\ ~(r.exp < now + Clock[n])
<1> USE ProcsAssumption, TimesAssumption
<1>1. r \in Rows /\ r \in table /\ r.by = t /\ r.exp >= started[t] + Clock[Node(t)] + TTL
  BY DEF Inv, TypeOK, RowsStay
<1>2. busy[t] /\ ProcOf[t] \in up
  <2>1. i \in Nat /\ i >= 1 /\ depth[t] \in Nat
    BY DEF Inv, TypeOK
  <2>2. ~(i > depth[t])
    BY DEF Inv, InTime
  <2>3. depth[t] > 0
    BY <2>1, <2>2
  <2> QED BY <2>3 DEF Inv, InTime
<1>3. now <= started[t] + Timeout + Delay
  BY <1>2 DEF Inv, TypeOK, InTime
<1>4. Timeout + Delay + Clock[n] < TTL + Clock[Node(t)]
  OBVIOUS
<1>5. now + Clock[n] < r.exp
  <2>1. /\ now \in Nat /\ Clock[n] \in Nat /\ started[t] \in Nat /\ Clock[Node(t)] \in Nat
        /\ r.exp \in Nat
    BY <1>1 DEF Inv, TypeOK
  <2> QED BY <1>1, <1>3, <1>4, <2>1
<1>6. r.exp \in Nat /\ now \in Nat /\ Clock[n] \in Nat
  BY <1>1 DEF Inv, TypeOK
<1>7. ~Expired(r, n) /\ ~(r.exp < now + Clock[n])
  BY <1>5, <1>6 DEF Expired
<1>8. ~Gone(r, n)
  BY <1>1, <1>2 DEF Gone
<1> QED BY <1>1, <1>7, <1>8

\* What claims._check lets in conflicts with nothing it leaves in the table.
LEMMA AdmissionApart ==
  ASSUME NEW wanted \in SUBSET (Keys \X Modes), NEW n \in Nodes, Free(wanted, n),
         NEW r \in table \ Stale(wanted, n), NEW c \in wanted, c[1] = r.key
  PROVE  ~Clash(c[2], r.mode) /\ ~Clash(r.mode, c[2])
<1>1. Against(r, wanted) => FALSE
  BY DEF Free, Stale, Against
<1> QED BY <1>1 DEF Against

\* A step that only moves requests and time.
LEMMA RequestsMove ==
  ASSUME Inv, TypeOK', InTime',
         \A t \in Threads, i \in Levels : got[t][i] # {} => started'[t] = started[t],
         UNCHANGED <<want, got, table, jobState>>
  PROVE  Inv'
<1>1. RowsStay'
  BY DEF Inv, RowsStay
<1>2. Covered' /\ LevelsApart' /\ TableApart' /\ JobRows'
  BY DEF Inv, Covered, LevelsApart, TableApart, JobRows
<1> QED BY <1>1, <1>2 DEF Inv

LEMMA TickKeeps ==
  ASSUME Inv, Tick
  PROVE  Inv'
<1> USE ProcsAssumption, TimesAssumption DEF Tick
<1>1. TypeOK'
  BY DEF Inv, TypeOK
<1>2. InTime'
  BY DEF Inv, TypeOK, InTime
<1> QED BY <1>1, <1>2, RequestsMove

LEMMA ProcStartKeeps ==
  ASSUME Inv, WebProcs = Procs, NEW p \in Procs, ProcStart(p)
  PROVE  Inv'
<1> USE ProcsAssumption, TimesAssumption DEF ProcStart
<1>1. TypeOK'
  BY DEF Inv, TypeOK
<1>2. InTime'
  BY DEF Inv, TypeOK, InTime
<1> QED BY <1>1, <1>2, RequestsMove

LEMMA ProcEndsKeeps ==
  ASSUME Inv, NEW p \in Procs, ProcEnds(p)
  PROVE  Inv'
<1> USE ProcsAssumption, TimesAssumption DEF ProcEnds
<1>1. /\ now' = now /\ up' = up \ {p} /\ ended' = ended \cup {p} /\ table' = table /\ jobState' = jobState
      /\ \A t \in Threads : ProcOf[t] = p =>
           ~busy'[t] /\ started'[t] = 0 /\ depth'[t] = 0 /\ \A i \in Levels : want'[t][i] = {} /\ got'[t][i] = {}
      /\ \A t \in Threads : ProcOf[t] # p =>
           busy'[t] = busy[t] /\ started'[t] = started[t] /\ depth'[t] = depth[t] /\ want'[t] = want[t] /\ got'[t] = got[t]
  BY DEF Inv, TypeOK
<1>2. TypeOK'
  BY DEF Inv, TypeOK
<1>3. InTime'
  BY <1>1 DEF Inv, TypeOK, InTime
<1>4. RowsStay'
  BY <1>1 DEF Inv, RowsStay
<1>5. Covered'
  <2> SUFFICES ASSUME NEW t \in Threads, NEW i \in Levels, NEW c \in want'[t][i]
               PROVE  \E k \in Levels : k <= i /\ \E r \in got'[t][k] :
                        r.key = c[1] /\ (r.mode = "exclusive" \/ c[2] = "shared")
    BY DEF Covered
  <2>1. want'[t] = want[t] /\ got'[t] = got[t]
    BY <1>1
  <2> QED BY <2>1 DEF Inv, Covered
<1>6. LevelsApart'
  BY <1>1 DEF Inv, LevelsApart
<1>7. TableApart' /\ JobRows'
  BY <1>1 DEF Inv, TableApart, JobRows
<1> QED BY <1>2, <1>3, <1>4, <1>5, <1>6, <1>7 DEF Inv

LEMMA BeginKeeps ==
  ASSUME Inv, NEW t \in Threads, Begin(t)
  PROVE  Inv'
<1> USE ProcsAssumption, TimesAssumption DEF Begin
<1>1. TypeOK'
  BY DEF Inv, TypeOK
<1>2. InTime'
  BY DEF Inv, TypeOK, InTime
<1>3. \A i \in Levels : got[t][i] = {}
  <2>1. depth[t] = 0
    BY DEF Inv, TypeOK, InTime
  <2> QED BY <2>1 DEF Inv, InTime
<1>4. \A u \in Threads, i \in Levels : got[u][i] # {} => started'[u] = started[u]
  BY <1>3 DEF Inv, TypeOK
<1> QED BY <1>1, <1>2, <1>4, RequestsMove

LEMMA FinishKeeps ==
  ASSUME Inv, NEW t \in Threads, FinishRequest(t)
  PROVE  Inv'
<1> USE ProcsAssumption, TimesAssumption DEF FinishRequest
<1>1. TypeOK'
  BY DEF Inv, TypeOK
<1>2. InTime'
  BY DEF Inv, TypeOK, InTime
<1>3. \A i \in Levels : got[t][i] = {}
  BY DEF Inv, InTime
<1>4. \A u \in Threads, i \in Levels : got[u][i] # {} => started'[u] = started[u]
  BY <1>3 DEF Inv, TypeOK
<1> QED BY <1>1, <1>2, <1>4, RequestsMove

\* claims.hold: the rows of other blocks stay, the new ones conflict with none,
\* and every key of the block has a row of this thread.
LEMMA HoldKeeps ==
  ASSUME Inv, WebProcs = Procs, NEW t \in Threads, NEW wanted \in Wants, Hold(t, wanted)
  PROVE  Inv'
<1> USE ProcsAssumption, TimesAssumption, WantsAssumption
<1> DEFINE new == {c \in wanted : \A r \in Held(t) : r.key # c[1]}
           rowOf(c) == [by |-> t, key |-> c[1], mode |-> c[2], exp |-> now + Clock[Node(t)] + TTL]
           added == {rowOf(c) : c \in new}
           n == Node(t)
           d == depth[t] + 1
<1>1. /\ busy[t] /\ ProcOf[t] \in up /\ depth[t] < MaxDepth
      /\ \A c \in wanted, r \in Held(t) : r.key = c[1] => r.mode = "exclusive" \/ c[2] = "shared"
      /\ Free(new, n)
      /\ table' = (table \ Stale(new, n)) \cup added
      /\ depth' = [depth EXCEPT ![t] = @ + 1]
      /\ want' = [want EXCEPT ![t][d] = wanted]
      /\ got' = [got EXCEPT ![t][d] = added]
      /\ UNCHANGED <<now, up, ended, busy, started, jobState>>
  BY DEF Hold
<1>2. n \in Nodes /\ new \in SUBSET (Keys \X Modes) /\ wanted \in SUBSET (Keys \X Modes)
  OBVIOUS
<1>3. d \in Levels /\ d > depth[t] /\ depth[t] \in Nat /\ depth'[t] = d
  BY <1>1 DEF Inv, TypeOK
<1>4. added \subseteq Rows
  <2>1. now + Clock[n] + TTL \in Nat
    BY DEF Inv, TypeOK
  <2>2. \A c \in new : rowOf(c) \in Rows
    BY <2>1, <1>2
  <2> QED BY <2>2
<1>5. \A r \in added : /\ r.by = t /\ r.exp = now + Clock[n] + TTL
                       /\ \E c \in new : r = rowOf(c) /\ c[1] = r.key /\ c[2] = r.mode
  OBVIOUS
<1> HIDE DEF added, new
<1>6. /\ \A u \in Threads : u # t => want'[u] = want[u] /\ got'[u] = got[u] /\ depth'[u] = depth[u]
      /\ \A i \in Levels : i # d => want'[t][i] = want[t][i] /\ got'[t][i] = got[t][i]
      /\ want'[t][d] = wanted /\ got'[t][d] = added
  BY <1>1, <1>3 DEF Inv, TypeOK
<1>7. want[t][d] = {} /\ got[t][d] = {}
  BY <1>3 DEF Inv, InTime
<1>8. TypeOK'
  <2>1. table' \subseteq Rows
    BY <1>1, <1>4 DEF Inv, TypeOK
  <2>2. want' \in [Threads -> [Levels -> SUBSET (Keys \X Modes)]]
    BY <1>1, <1>2, <1>3 DEF Inv, TypeOK
  <2>3. got' \in [Threads -> [Levels -> SUBSET Rows]]
    BY <1>1, <1>3, <1>4 DEF Inv, TypeOK
  <2>4. depth' \in [Threads -> 0..MaxDepth]
    BY <1>1, <1>3 DEF Inv, TypeOK
  <2> QED BY <1>1, <2>1, <2>2, <2>3, <2>4 DEF Inv, TypeOK
<1>9. InTime'
  <2>1. \A i \in Levels : i > d => want'[t][i] = {} /\ got'[t][i] = {}
    BY <1>3, <1>6 DEF Inv, InTime
  <2> QED BY <1>1, <1>3, <1>6, <2>1 DEF Inv, InTime
<1>10. \A u \in Threads, i \in Levels : \A r \in got[u][i] : r \in table \ Stale(new, n) /\ r.by = u
  BY <1>2, NotStale DEF Stale
<1>11. RowsStay'
  <2>1. \A r \in added : r.exp >= started[t] + Clock[n] + TTL
    <3>1. now \in Nat /\ started[t] \in Nat /\ started[t] <= now /\ Clock[n] \in Nat
      BY <1>1 DEF Inv, TypeOK, InTime
    <3> QED BY <3>1, <1>5
  <2>2. \A u \in Threads, i \in Levels : \A r \in got'[u][i] :
          r \in got[u][i] \/ (u = t /\ r \in added)
    BY <1>6
  <2> QED BY <1>1, <1>5, <1>10, <2>1, <2>2 DEF Inv, RowsStay
<1>12. Covered'
  <2> SUFFICES ASSUME NEW u \in Threads, NEW i \in Levels, NEW c \in want'[u][i]
               PROVE  \E k \in Levels : k <= i /\ \E r \in got'[u][k] :
                        r.key = c[1] /\ (r.mode = "exclusive" \/ c[2] = "shared")
    BY DEF Covered
  <2>1. CASE u # t \/ i # d
    <3>1. c \in want[u][i]
      BY <2>1, <1>6
    <3>2. PICK k \in Levels : k <= i /\ \E r \in got[u][k] :
            r.key = c[1] /\ (r.mode = "exclusive" \/ c[2] = "shared")
      BY <3>1 DEF Inv, Covered
    <3>3. got'[u][k] = got[u][k]
      BY <3>2, <1>6, <1>7
    <3> QED BY <3>2, <3>3
  <2>2. CASE u = t /\ i = d /\ c \in new
    <3>1. rowOf(c) \in added
      BY <2>2 DEF added
    <3>2. rowOf(c).key = c[1] /\ rowOf(c).mode = c[2] /\ c[2] \in Modes
      BY <2>2, <1>2
    <3>3. rowOf(c).mode = "exclusive" \/ c[2] = "shared"
      BY <3>2
    <3>4. d <= i /\ got'[u][d] = added
      BY <2>2, <1>3, <1>6
    <3> HIDE DEF rowOf, d
    <3>5. \E r \in got'[u][d] : r.key = c[1] /\ (r.mode = "exclusive" \/ c[2] = "shared")
      BY <3>1, <3>2, <3>3, <3>4
    <3> QED BY <1>3, <3>4, <3>5
  <2>3. CASE u = t /\ i = d /\ c \notin new
    <3>1. c \in wanted
      BY <2>3, <1>6
    <3>2. PICK r \in Held(t) : r.key = c[1]
      BY <2>3, <3>1 DEF new
    <3>3. PICK k \in Levels : r \in got[t][k]
      BY <3>2 DEF Held
    <3>4. k <= depth[t]
      BY <3>3, <1>3 DEF Inv, InTime
    <3>5. r \in got'[t][k] /\ k <= d
      BY <3>3, <3>4, <1>3, <1>6
    <3>6. r.mode = "exclusive" \/ c[2] = "shared"
      BY <3>1, <3>2, <1>1
    <3> QED BY <2>3, <3>2, <3>5, <3>6
  <2> QED BY <2>1, <2>2, <2>3
<1>13. LevelsApart'
  <2>1. \A i \in Levels : \A r \in got[t][i] : \A s \in added : r.key # s.key
    <3>1. \A i \in Levels : \A r \in got[t][i] : r \in Held(t)
      BY DEF Held
    <3>2. \A c \in new : \A r \in Held(t) : r.key # c[1]
      BY DEF new
    <3> QED BY <3>1, <3>2, <1>5
  <2> SUFFICES ASSUME NEW u \in Threads, NEW i \in Levels, NEW k \in Levels, i # k,
                      NEW r \in got'[u][i], NEW s \in got'[u][k]
               PROVE  r.key # s.key
    BY DEF LevelsApart
  <2>2. CASE u # t \/ (i # d /\ k # d)
    <3>1. r \in got[u][i] /\ s \in got[u][k]
      BY <2>2, <1>6
    <3> QED BY <3>1 DEF Inv, LevelsApart
  <2>3. CASE u = t /\ i = d
    BY <2>1, <2>3, <1>6
  <2>4. CASE u = t /\ k = d
    BY SMTT(30), <2>1, <2>4, <1>6
  <2> QED BY <2>2, <2>3, <2>4
<1>14. TableApart'
  <2>1. \A r \in added, s \in table \ Stale(new, n) : r.key = s.key => ~Clash(r.mode, s.mode) /\ ~Clash(s.mode, r.mode)
    BY <1>1, <1>2, <1>5, AdmissionApart
  <2>2. \A r, s \in added : r.key = s.key => r = s
    <3>1. \A c, e \in new : c[1] = e[1] => c = e
      BY DEF new
    <3> QED BY <3>1, <1>5
  <2> QED BY <2>1, <2>2, <1>1 DEF Inv, TableApart
<1>15. JobRows'
  <2>1. \A r \in added : r.by \notin Jobs
    BY <1>5
  <2>2. \A r \in table : r.by \in Jobs => r \notin Stale(new, n)
    BY DEF Stale, Expired, Gone
  <2> QED BY <2>1, <2>2, <1>1 DEF Inv, JobRows
<1> QED BY <1>8, <1>9, <1>11, <1>12, <1>13, <1>14, <1>15 DEF Inv

\* The end of a block, whether or not its rows could be deleted.
LEMMA ReleaseKeeps ==
  ASSUME Inv, NEW t \in Threads, Release(t)
  PROVE  Inv'
<1> USE ProcsAssumption, TimesAssumption
<1> DEFINE d == depth[t]
<1>1. /\ busy[t] /\ ProcOf[t] \in up /\ d > 0
      /\ table' = table \ got[t][d] \/ table' = table
      /\ depth' = [depth EXCEPT ![t] = @ - 1]
      /\ want' = [want EXCEPT ![t][d] = {}]
      /\ got' = [got EXCEPT ![t][d] = {}]
      /\ UNCHANGED <<now, up, ended, busy, started, jobState>>
  BY DEF Release
<1>2. d \in Levels /\ d \in Nat /\ depth'[t] = d - 1
  BY <1>1 DEF Inv, TypeOK
<1>3. /\ \A u \in Threads : u # t => want'[u] = want[u] /\ got'[u] = got[u] /\ depth'[u] = depth[u]
      /\ \A i \in Levels : i # d => want'[t][i] = want[t][i] /\ got'[t][i] = got[t][i]
      /\ want'[t][d] = {} /\ got'[t][d] = {}
  BY <1>1, <1>2 DEF Inv, TypeOK
<1>4. TypeOK'
  BY <1>1, <1>2 DEF Inv, TypeOK
<1>5. InTime'
  <2>0. \A i \in Levels : i > d - 1 => i = d \/ i > d
    <3>1. d \in Nat /\ \A i \in Levels : i \in Nat
      BY <1>2
    <3> HIDE DEF d
    <3> QED BY <3>1
  <2>1. \A i \in Levels : i > d - 1 => want'[t][i] = {} /\ got'[t][i] = {}
    <3>1. \A i \in Levels : i > d => want[t][i] = {} /\ got[t][i] = {}
      BY DEF Inv, InTime
    <3> QED BY <2>0, <3>1, <1>3
  <2> QED BY <1>1, <1>2, <1>3, <2>1 DEF Inv, InTime
<1>6. \A u \in Threads, i \in Levels : \A r \in got'[u][i] : r \in got[u][i] /\ r \notin got[t][d]
  <2> SUFFICES ASSUME NEW u \in Threads, NEW i \in Levels, NEW r \in got'[u][i]
               PROVE  r \in got[u][i] /\ r \notin got[t][d]
    OBVIOUS
  <2>1. r \in got[u][i] /\ (u # t \/ i # d)
    BY <1>3
  <2>2. CASE u # t
    <3>1. r.by = u /\ \A s \in got[t][d] : s.by = t
      BY <2>1, <1>2 DEF Inv, RowsStay
    <3> QED BY <2>1, <2>2, <3>1
  <2>3. CASE u = t
    <3>1. \A s \in got[t][d] : r.key # s.key
      BY <2>1, <2>3, <1>2 DEF Inv, LevelsApart
    <3> QED BY <2>1, <3>1
  <2> QED BY <2>1, <2>2, <2>3
<1>7. RowsStay'
  BY <1>1, <1>6 DEF Inv, RowsStay
<1>8. Covered'
  <2> SUFFICES ASSUME NEW u \in Threads, NEW i \in Levels, NEW c \in want'[u][i]
               PROVE  \E k \in Levels : k <= i /\ \E r \in got'[u][k] :
                        r.key = c[1] /\ (r.mode = "exclusive" \/ c[2] = "shared")
    BY DEF Covered
  <2>1. c \in want[u][i] /\ (u # t \/ i # d)
    BY <1>3
  <2>2. PICK k \in Levels : k <= i /\ \E r \in got[u][k] :
          r.key = c[1] /\ (r.mode = "exclusive" \/ c[2] = "shared")
    BY <2>1 DEF Inv, Covered
  <2>3. u # t \/ i <= d
    BY <2>1, <1>2 DEF Inv, InTime
  <2>4. u # t \/ k # d
    <3>1. i \in Nat /\ k \in Nat /\ k <= i
      BY <2>2
    <3>2. d \in Nat
      BY <1>2
    <3> HIDE DEF d
    <3>3. i <= d /\ i # d => k # d
      BY <3>1, <3>2
    <3> QED BY <2>1, <2>3, <3>3
  <2>5. got'[u][k] = got[u][k]
    BY <2>4, <1>3
  <2> QED BY <2>2, <2>5
<1>9. LevelsApart'
  BY <1>6 DEF Inv, LevelsApart
<1>10. TableApart'
  BY <1>1 DEF Inv, TableApart
<1>11. JobRows'
  <2>1. \A r \in got[t][d] : r.by \notin Jobs
    BY <1>2, WantsAssumption DEF Inv, RowsStay
  <2>2. \A r \in table : r.by \in Jobs => r \in table'
    BY <1>1, <2>1
  <2>3. \A j \in Jobs, c \in Keys \X Modes :
          [by |-> j, key |-> c[1], mode |-> c[2], exp |-> 0] \in table
            => [by |-> j, key |-> c[1], mode |-> c[2], exp |-> 0] \in table'
    BY <2>2
  <2>4. \A j \in Jobs : JobWants[j] \subseteq Keys \X Modes
    BY WantsAssumption
  <2> QED BY <1>1, <2>3, <2>4 DEF Inv, JobRows
<1> QED BY <1>4, <1>5, <1>7, <1>8, <1>9, <1>10, <1>11 DEF Inv

\* claims.admit_job: rows without expiry, which only the job's end deletes.
LEMMA AdmitJobKeeps ==
  ASSUME Inv, WebProcs = Procs, NEW j \in Jobs, NEW n \in Nodes, AdmitJob(j, n)
  PROVE  Inv'
<1> USE ProcsAssumption, WantsAssumption
<1> DEFINE rowOf(i, c) == [by |-> i, key |-> c[1], mode |-> c[2], exp |-> 0]
           added == {rowOf(j, c) : c \in JobWants[j]}
<1>1. /\ Free(JobWants[j], n) /\ jobState[j] = "none"
      /\ table' = (table \ Stale(JobWants[j], n)) \cup added
      /\ jobState' = [jobState EXCEPT ![j] = "active"]
      /\ UNCHANGED <<now, up, ended, busy, started, depth, want, got>>
  BY DEF AdmitJob
<1>2. JobWants[j] \in SUBSET (Keys \X Modes) /\ \A c, e \in JobWants[j] : c[1] = e[1] => c = e
  OBVIOUS
<1>3. added \subseteq Rows
  BY <1>2
<1>4. \A r \in added : r.by = j /\ \E c \in JobWants[j] : r = rowOf(j, c) /\ c[1] = r.key /\ c[2] = r.mode
  OBVIOUS
<1>5. \A i \in Jobs : \A c \in JobWants[i] : rowOf(i, c).by = i
  OBVIOUS
<1>6. \A c \in JobWants[j] : rowOf(j, c) \in added
  OBVIOUS
<1> HIDE DEF added
<1>7. TypeOK' /\ InTime' /\ Covered' /\ LevelsApart'
  <2>1. TypeOK'
    BY <1>1, <1>3 DEF Inv, TypeOK
  <2>2. InTime'
    BY <1>1 DEF Inv, InTime
  <2>3. Covered' /\ LevelsApart'
    BY <1>1 DEF Inv, Covered, LevelsApart
  <2> QED BY <2>1, <2>2, <2>3
<1>8. RowsStay'
  <2>1. \A u \in Threads, i \in Levels : \A r \in got[u][i] : r \notin Stale(JobWants[j], n)
    BY NotStale DEF Stale
  <2> QED BY <1>1, <2>1 DEF Inv, RowsStay
<1>9. TableApart'
  <2>1. \A r \in added, s \in table \ Stale(JobWants[j], n) :
          r.key = s.key => ~Clash(r.mode, s.mode) /\ ~Clash(s.mode, r.mode)
    BY <1>1, <1>2, <1>4, AdmissionApart
  <2>2. \A r, s \in added : r.key = s.key => r = s
    BY <1>2, <1>4
  <2> QED BY <2>1, <2>2, <1>1 DEF Inv, TableApart
<1>10. JobRows'
  <2>1. \A r \in table : r.by \in Jobs => r \notin Stale(JobWants[j], n)
    BY DEF Stale, Expired, Gone
  <2>2. \A i \in Jobs : i # j => jobState'[i] = jobState[i]
    BY <1>1 DEF Inv, TypeOK
  <2>3. jobState'[j] = "active"
    BY <1>1 DEF Inv, TypeOK
  <2>4. \A i \in Jobs : jobState'[i] = "active" => \A c \in JobWants[i] : rowOf(i, c) \in table'
    <3>1. \A i \in Jobs : i # j /\ jobState[i] = "active" => \A c \in JobWants[i] : rowOf(i, c) \in table
      BY DEF Inv, JobRows
    <3> HIDE DEF rowOf
    <3> QED BY <1>1, <1>5, <1>6, <2>1, <2>2, <3>1
  <2>5. \A i \in Jobs : \A r \in table' : r.by = i => jobState'[i] = "active"
    BY <1>1, <1>4, <2>2, <2>3 DEF Inv, JobRows
  <2> QED BY <2>4, <2>5 DEF JobRows
<1> QED BY <1>7, <1>8, <1>9, <1>10 DEF Inv

\* The end of a job takes its own rows only.
LEMMA JobEndsKeeps ==
  ASSUME Inv, NEW j \in Jobs, JobEnds(j)
  PROVE  Inv'
<1> USE ProcsAssumption, WantsAssumption DEF JobEnds
<1>1. TypeOK' /\ InTime' /\ Covered' /\ LevelsApart' /\ TableApart'
  <2>1. TypeOK'
    BY DEF Inv, TypeOK
  <2>2. InTime'
    BY DEF Inv, InTime
  <2>3. Covered' /\ LevelsApart'
    BY DEF Inv, Covered, LevelsApart
  <2>4. TableApart'
    BY DEF Inv, TableApart
  <2> QED BY <2>1, <2>2, <2>3, <2>4
<1>2. RowsStay'
  BY DEF Inv, RowsStay
<1>3. JobRows'
  <2> DEFINE rowOf(i, c) == [by |-> i, key |-> c[1], mode |-> c[2], exp |-> 0]
  <2>1. \A i \in Jobs : i # j => jobState'[i] = jobState[i]
    BY DEF Inv, TypeOK
  <2>2. jobState'[j] = "ended"
    BY DEF Inv, TypeOK
  <2>3. \A i \in Jobs : \A c \in JobWants[i] : rowOf(i, c).by = i
    OBVIOUS
  <2>4. \A i \in Jobs : jobState'[i] = "active" => \A c \in JobWants[i] : rowOf(i, c) \in table'
    <3>1. \A i \in Jobs : jobState[i] = "active" => \A c \in JobWants[i] : rowOf(i, c) \in table
      BY DEF Inv, JobRows
    <3> HIDE DEF rowOf
    <3> QED BY <2>1, <2>2, <2>3, <3>1
  <2>5. \A i \in Jobs : \A r \in table' : r.by = i => jobState'[i] = "active"
    BY <2>1 DEF Inv, JobRows
  <2> QED BY <2>4, <2>5 DEF JobRows
<1> QED BY <1>1, <1>2, <1>3 DEF Inv

\* worker.housekeeping deletes no row of a block that runs and none of a job.
LEMMA HousekeepingKeeps ==
  ASSUME Inv, WebProcs = Procs, NEW n \in Nodes, Housekeeping(n)
  PROVE  Inv'
<1> USE ProcsAssumption, WantsAssumption DEF Housekeeping
<1>1. TypeOK' /\ InTime' /\ Covered' /\ LevelsApart' /\ TableApart'
  <2>1. TypeOK'
    BY DEF Inv, TypeOK
  <2>2. InTime'
    BY DEF Inv, InTime
  <2>3. Covered' /\ LevelsApart'
    BY DEF Inv, Covered, LevelsApart
  <2>4. TableApart'
    BY DEF Inv, TableApart
  <2> QED BY <2>1, <2>2, <2>3, <2>4
<1>2. RowsStay'
  <2>1. \A u \in Threads, i \in Levels : \A r \in got[u][i] : r \in table /\ ~(r.exp < now + Clock[n])
    BY NotStale
  <2>2. \A u \in Threads, i \in Levels : \A r \in got[u][i] : r \in table'
    BY <2>1
  <2> QED BY <2>2 DEF Inv, RowsStay
<1>3. JobRows'
  <2> DEFINE rowOf(i, c) == [by |-> i, key |-> c[1], mode |-> c[2], exp |-> 0]
  <2>1. \A i \in Jobs : \A c \in JobWants[i] : rowOf(i, c).by = i
    OBVIOUS
  <2>2. \A i \in Jobs : jobState[i] = "active" => \A c \in JobWants[i] : rowOf(i, c) \in table
    BY DEF Inv, JobRows
  <2>3. \A i \in Jobs : jobState[i] = "active" => \A c \in JobWants[i] : rowOf(i, c) \in table'
    <3> HIDE DEF rowOf
    <3> QED BY <2>1, <2>2
  <2>4. \A i \in Jobs : \A r \in table' : r.by = i => jobState[i] = "active"
    BY DEF Inv, JobRows
  <2> QED BY <2>3, <2>4 DEF JobRows
<1> QED BY <1>1, <1>2, <1>3 DEF Inv

LEMMA InitInv == ClaimsInit => Inv
<1> SUFFICES ASSUME ClaimsInit PROVE Inv
  OBVIOUS
<1> USE ProcsAssumption, WantsAssumption, TimesAssumption DEF ClaimsInit
<1>1. TypeOK
  BY DEF TypeOK
<1>2. InTime /\ RowsStay /\ Covered /\ LevelsApart /\ TableApart /\ JobRows
  BY DEF InTime, RowsStay, Covered, LevelsApart, TableApart, JobRows
<1> QED BY <1>1, <1>2 DEF Inv

LEMMA StutterKeeps == Inv /\ UNCHANGED claimsVars => Inv'
BY DEF claimsVars, Inv, TypeOK, InTime, RowsStay, Covered, LevelsApart, TableApart, JobRows

\* The invariant of the claims table and of the blocks behind it, when every
\* process with claims ends with its request's timeout. [operations/claims.py]
THEOREM InvHolds ==
  ASSUME WebProcs = Procs
  PROVE  ClaimsSpec => []Inv
<1>1. Inv /\ [ClaimsNext]_claimsVars => Inv'
  <2> SUFFICES ASSUME Inv, [ClaimsNext]_claimsVars PROVE Inv'
    OBVIOUS
  <2>1. CASE Tick
    BY <2>1, TickKeeps
  <2>2. ASSUME NEW p \in Procs, ProcStart(p) \/ ProcEnds(p) \/ Notify(p) PROVE Inv'
    BY <2>2, ProcStartKeeps, ProcEndsKeeps DEF Notify
  <2>3. ASSUME NEW t \in Threads, Begin(t) \/ FinishRequest(t) \/ Release(t) PROVE Inv'
    BY <2>3, BeginKeeps, FinishKeeps, ReleaseKeeps
  <2>4. ASSUME NEW t \in Threads, NEW wanted \in Wants, Hold(t, wanted) PROVE Inv'
    BY <2>4, HoldKeeps
  <2>5. ASSUME NEW j \in Jobs, JobEnds(j) PROVE Inv'
    BY <2>5, JobEndsKeeps
  <2>6. ASSUME NEW j \in Jobs, NEW n \in Nodes, AdmitJob(j, n) PROVE Inv'
    BY <2>6, AdmitJobKeeps
  <2>7. ASSUME NEW n \in Nodes, Housekeeping(n) PROVE Inv'
    BY <2>7, HousekeepingKeeps
  <2>8. CASE UNCHANGED claimsVars
    BY <2>8, StutterKeeps
  <2> QED BY <2>1, <2>2, <2>3, <2>4, <2>5, <2>6, <2>7, <2>8 DEF ClaimsNext
<1> QED BY <1>1, InitInv, PTL DEF ClaimsSpec

\* Blocks and jobs with conflicting wants exclude each other: each has its rows
\* in the table, and the table holds no conflict. [claims.hold, admit_job]
THEOREM ConflictingBlocksExclude ==
  ASSUME WebProcs = Procs
  PROVE  ClaimsSpec => []BlocksExclude
<1>1. Inv => BlocksExclude
  <2> SUFFICES ASSUME Inv PROVE BlocksExclude
    OBVIOUS
  <2>1. \A t \in Threads : \A c \in Blocks(t) :
          \E r \in table : r.by = t /\ r.key = c[1] /\ (r.mode = "exclusive" \/ c[2] = "shared")
    BY DEF Inv, Blocks, Covered, RowsStay
  <2>2. \A j \in Jobs : jobState[j] = "active" => \A c \in JobWants[j] :
          \E r \in table : r.by = j /\ r.key = c[1] /\ r.mode = c[2]
    BY DEF Inv, JobRows
  <2>3. \A t \in Threads : t \notin Jobs
    BY WantsAssumption
  <2>4. \A r, s \in table : r.by # s.by /\ r.key = s.key => ~Clash(r.mode, s.mode)
    BY DEF Inv, TableApart
  <2>5. \A t, u \in Threads : t # u =>
          \A c \in Blocks(t), d \in Blocks(u) : c[1] = d[1] => ~Clash(c[2], d[2])
    BY <2>1, <2>4
  <2>6. \A t \in Threads, j \in Jobs : jobState[j] = "active" =>
          \A c \in Blocks(t), d \in JobWants[j] : c[1] = d[1] => ~Clash(c[2], d[2])
    BY <2>1, <2>2, <2>3, <2>4
  <2>7. \A j, k \in Jobs : j # k /\ jobState[j] = "active" /\ jobState[k] = "active" =>
          \A c \in JobWants[j], d \in JobWants[k] : c[1] = d[1] => ~Clash(c[2], d[2])
    BY <2>2, <2>4
  <2> QED BY <2>5, <2>6, <2>7 DEF BlocksExclude
<1> QED BY <1>1, InvHolds, PTL
=============================================================================
