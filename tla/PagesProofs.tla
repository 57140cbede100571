----------------------------- MODULE PagesProofs ----------------------------
(***************************************************************************)
(* Proofs about the scripts of the pages, for any jobs, files, chunks,     *)
(* hosts, lists and choices: the poller asks one thing at a time, the job  *)
(* panel keeps every job it knows, an upload is one version of its file,   *)
(* and what is shown belongs to the choice that is made.                   *)
(***************************************************************************)
EXTENDS JobPanel, PageUpload, PageChoices, TLAPS, SequenceTheorems

-----------------------------------------------------------------------------
(* The poller *)

Replies == [read : BOOLEAN, jobs : SUBSET Jobs, more : BOOLEAN]

\* A request that is out is the one that runs, and there is no timer then; a
\* page that is visible and not paused has one or the other.
PollInv ==
  /\ hidden \in BOOLEAN /\ timer \in BOOLEAN /\ stopped \in BOOLEAN /\ running \in BOOLEAN
  /\ asks \in Seq(Replies) /\ Len(asks) = (IF running THEN 1 ELSE 0)
  /\ ~(timer /\ running)
  /\ ~hidden /\ ~stopped => timer \/ running

-----------------------------------------------------------------------------
(* The panel *)

States == {"none", "gone"} \cup Listed \cup Ended

\* A panel that lists, awaits or tells anything holds the page.
PanelHolds == shown # {} \/ pending # {} \/ Told # {} => background

PanelInv == PollInv /\ JobsKept /\ PanelHolds /\ outcomes \in [Jobs -> States]

-----------------------------------------------------------------------------
(* The upload *)

Signed == [signature : Files \cup {"none"}, chunkIndex : Nat, uploadId : Nat]
Packets == [u : Uploads, chunk : Files \X Nat]
Kept == [state : {"none", "active", "succeeded", "ended"}, chunks : Seq(Files \X Nat),
         dropped : BOOLEAN]
Stored(u) == Len(upload[u].chunks)

UploadTypes ==
  /\ file \in Files
  /\ pendingUpload \in Signed /\ sending \in Signed
  /\ uploadInProgress \in BOOLEAN /\ retryCount \in Nat
  /\ request \in {"none", "out", "ok", "refused", "lost", "delay"}
  /\ network \subseteq Packets
  /\ upload \in [Uploads -> Kept]
  /\ finished \subseteq Uploads

\* What is to be resumed is the submission as it stands.
Resumable ==
  /\ pendingUpload # NoUpload =>
       /\ pendingUpload = sending /\ sending.signature \in Files
       /\ sending.uploadId \in Uploads /\ sending.chunkIndex < TotalChunks
  /\ request # "none" => pendingUpload # NoUpload
  /\ request = "none" <=> ~uploadInProgress

\* One version of the file in every packet and every stored chunk of an upload.
OneVersion ==
  /\ \A u \in Uploads : \A k \in 1..Stored(u) : upload[u].chunks[k] = <<upload[u].chunks[1][1], k - 1>>
  /\ \A m \in network : Stored(m.u) > 0 => upload[m.u].chunks[1][1] = m.chunk[1]
  /\ \A m, n \in network : m.u = n.u => m.chunk[1] = n.chunk[1]
  /\ \A m \in network : m.u <= sending.uploadId /\ (m.u = sending.uploadId => m.chunk[1] = sending.signature)
  /\ \A u \in Uploads : u > sending.uploadId => upload[u].state = "none"
  /\ \A u \in Uploads : u = sending.uploadId /\ Stored(u) > 0 => upload[u].chunks[1][1] = sending.signature

\* How far the server is ahead of the page.
InStep ==
  /\ \A u \in Uploads :
       /\ Stored(u) <= TotalChunks
       /\ upload[u].state = "none" => Stored(u) = 0
       /\ upload[u].state = "succeeded" <=> Stored(u) = TotalChunks
  /\ \A m \in network : m.u = sending.uploadId => m.chunk[2] <= sending.chunkIndex
  /\ pendingUpload # NoUpload =>
       /\ Stored(sending.uploadId) <= sending.chunkIndex + 1
       /\ ~upload[sending.uploadId].dropped => Stored(sending.uploadId) >= sending.chunkIndex
       /\ request = "ok" /\ ~upload[sending.uploadId].dropped => Stored(sending.uploadId) = sending.chunkIndex + 1
  /\ \A u \in finished : upload[u].state = "succeeded" \/ upload[u].dropped

UploadInv == UploadTypes /\ Resumable /\ OneVersion /\ InStep

-----------------------------------------------------------------------------
(* The choices *)

Loads == [of : Choices, answered : BOOLEAN, aborted : BOOLEAN, restores : BOOLEAN]

\* A load that is not aborted is for the choice that is made, and once it was
\* answered the list has its options.
ChoicesInv ==
  /\ ShownForChoice
  /\ offered \subseteq Hosts /\ compute \in Hosts
  /\ choice \in [Lists -> Choices] /\ options \in [Lists -> Choices \cup {None}]
  /\ value \in [Lists -> {"none", "own", "sent", "late"}]
  /\ plans \subseteq [host : Hosts, aborted : BOOLEAN]
  /\ loads \in [Lists -> SUBSET Loads]
  /\ targets # "done" => plans = {} /\ ~submit
  /\ \A p \in plans : ~p.aborted => p.host = compute /\ compute \in offered
  /\ \A l \in Lists : \A r \in loads[l] : ~r.aborted => r.of = choice[l] /\ (r.answered => options[l] = r.of)
-----------------------------------------------------------------------------
(* Proofs: the poller *)

\* No request is out exactly when the list of them is empty.
LEMMA NoAsks ==
  ASSUME PollInv
  PROVE  (asks = <<>> <=> ~running) /\ DOMAIN asks = 1..Len(asks)
<1>1. asks \in Seq(Replies) /\ Len(asks) = (IF running THEN 1 ELSE 0) /\ running \in BOOLEAN
  BY DEF PollInv
<1>2. DOMAIN asks = 1..Len(asks)
  BY <1>1, LenProperties
<1>3. asks # <<>> => Len(asks) # 0
  BY <1>1, EmptySeq
<1>4. asks = <<>> => Len(asks) = 0
  BY EmptySeq
<1> QED BY <1>1, <1>2, <1>3, <1>4

LEMMA PollInitInv == PollInit => PollInv
BY EmptySeq DEF PollInit, PollInv

\* run asks when nothing is out.
LEMMA RunAsks ==
  ASSUME PollInv, ~running, Run
  PROVE  timer' = FALSE /\ running' = TRUE /\ asks' \in Seq(Replies) /\ Len(asks') = 1
<1>1. Asked \in Replies
  BY DEF Asked, Replies
<1>2. asks = <<>> /\ asks \in Seq(Replies)
  BY NoAsks DEF PollInv
<1>3. asks' = Append(asks, Asked)
  BY DEF Run
<1>4. asks' \in Seq(Replies) /\ Len(asks') = Len(asks) + 1
  BY <1>1, <1>2, <1>3, AppendProperties
<1>5. Len(asks) = 0
  BY <1>2, EmptySeq
<1> QED BY <1>4, <1>5 DEF Run

\* The answer to the request leaves none.
LEMMA FinishedKeeps ==
  ASSUME PollInv, NEW i \in DOMAIN asks, Finished(i)
  PROVE  PollInv'
<1>1. running /\ Len(asks) = 1
  <2>1. asks # <<>>
    OBVIOUS
  <2> QED BY <2>1, NoAsks DEF PollInv
<1>2. asks' = <<>>
  BY <1>1 DEF Finished
<1> QED BY <1>1, <1>2, EmptySeq DEF PollInv, Finished

\* What resume does to a poller of which no timer is lost.
LEMMA ResumeKeeps ==
  ASSUME PollInv, NEW seen \in BOOLEAN, NEW paused \in BOOLEAN, NEW set \in BOOLEAN,
         set => timer, Resume(seen, paused, set), hidden' \in BOOLEAN, stopped' \in BOOLEAN,
         ~hidden' /\ ~stopped' => seen /\ ~paused
  PROVE  PollInv'
<1>1. CASE Resumes(seen, paused, set)
  <2>1. ~running /\ Run
    BY <1>1 DEF Resume, Resumes
  <2> QED BY <2>1, RunAsks DEF PollInv
<1>2. CASE ~Resumes(seen, paused, set)
  BY <1>2 DEF Resume, Resumes, PollInv
<1> QED BY <1>1, <1>2

LEMMA FireKeeps ==
  ASSUME PollInv, Fire
  PROVE  PollInv'
<1>1. CASE stopped \/ hidden
  BY <1>1 DEF Fire, PollInv
<1>2. CASE ~(stopped \/ hidden)
  BY <1>2, RunAsks DEF Fire, PollInv
<1> QED BY <1>1, <1>2

LEMMA ShowKeeps ==
  ASSUME PollInv, Show
  PROVE  PollInv'
<1>1. /\ stopped \in BOOLEAN /\ timer \in BOOLEAN /\ Resume(TRUE, stopped, timer)
      /\ hidden' = FALSE /\ stopped' = stopped
  BY DEF Show, PollInv
<1> QED BY <1>1, ResumeKeeps

LEMMA StartKeeps ==
  ASSUME PollInv, Start \/ StopStart
  PROVE  PollInv'
<1>1. /\ hidden \in BOOLEAN /\ timer \in BOOLEAN /\ stopped' = FALSE /\ hidden' = hidden
      /\ Resume(~hidden, FALSE, timer) \/ Resume(~hidden, FALSE, FALSE)
  BY DEF Start, StopStart, PollInv
<1>2. (~hidden) \in BOOLEAN
  BY <1>1
<1>3. CASE Resume(~hidden, FALSE, timer)
  BY <1>1, <1>2, <1>3, ResumeKeeps
<1>4. CASE Resume(~hidden, FALSE, FALSE)
  BY <1>1, <1>2, <1>4, ResumeKeeps
<1> QED BY <1>1, <1>3, <1>4

LEMMA HideKeeps ==
  ASSUME PollInv, Hide \/ Stop \/ UNCHANGED pollVars
  PROVE  PollInv'
<1>1. CASE Hide
  BY <1>1 DEF Hide, PollInv
<1>2. CASE Stop
  BY <1>2 DEF Stop, PollInv
<1>3. CASE UNCHANGED pollVars
  BY <1>3 DEF pollVars, PollInv
<1> QED BY <1>1, <1>2, <1>3

LEMMA PollInvGives == PollInv => OnePoll
<1> SUFFICES ASSUME PollInv PROVE OnePoll
  OBVIOUS
<1>1. asks = <<>> <=> ~running
  BY NoAsks
<1> QED BY <1>1 DEF PollInv, OnePoll

\* The Stats tab waits for its timer or for one answer, never for both or
\* neither, in whatever order the tab is left, hidden and shown while an answer
\* is out. [poll.js run, resume, pause]
THEOREM StatsTheorem == StatsSpec => []OnePoll
<1>1. PollInit => PollInv
  BY PollInitInv
<1>2. PollInv /\ [StatsNext]_pollVars => PollInv'
  <2> SUFFICES ASSUME PollInv, [StatsNext]_pollVars PROVE PollInv'
    OBVIOUS
  <2>1. CASE Fire
    BY <2>1, FireKeeps
  <2>2. CASE Show
    BY <2>2, ShowKeeps
  <2>3. CASE TabShown
    BY <2>3, StartKeeps DEF TabShown
  <2>4. CASE StatsAnswer
    BY <2>4, FinishedKeeps DEF StatsAnswer
  <2>5. CASE Hide \/ TabHidden \/ UNCHANGED pollVars
    BY <2>5, HideKeeps DEF TabHidden
  <2> QED BY <2>1, <2>2, <2>3, <2>4, <2>5 DEF StatsNext
<1> QED BY <1>1, <1>2, PollInvGives, PTL DEF StatsSpec
-----------------------------------------------------------------------------
(* Proofs: the panel *)

LEMMA RenderHolds == Render => PanelHolds'
BY DEF Render, PanelHolds, Told

\* The server reads the list into a request that stays out.
LEMMA ReadListKeeps ==
  ASSUME PollInv, NEW i \in DOMAIN asks, ReadList(i)
  PROVE  PollInv'
<1>1. PICK more \in BOOLEAN : asks' = [asks EXCEPT ![i] =
         [read |-> TRUE, jobs |-> {j \in Jobs : job[j] \in Listed}, more |-> more]]
  BY DEF ReadList
<1> DEFINE r == [read |-> TRUE, jobs |-> {j \in Jobs : job[j] \in Listed}, more |-> more]
<1>2. r \in Replies
  BY DEF Replies
<1>3. asks \in Seq(Replies) /\ i \in 1..Len(asks)
  BY NoAsks DEF PollInv
<1> HIDE DEF r
<1>4. asks' \in Seq(Replies) /\ Len(asks') = Len(asks)
  BY <1>1, <1>2, <1>3, ExceptSeq DEF r
<1> QED BY <1>4 DEF PollInv, ReadList

\* A page that is loaded anew remembers only what it is given.
LEMMA LoadedKeeps ==
  ASSUME PanelInv, NEW ids, Loaded(ids), known' \subseteq ids
  PROVE  PanelInv'
<1>1. PollInv'
  BY EmptySeq DEF Loaded, PanelInv, PollInv
<1>2. outcomes' \in [Jobs -> States] /\ Told' = {}
  BY DEF Loaded, Nothing, States, Told
<1> QED BY <1>1, <1>2 DEF Loaded, PanelInv, JobsKept, PanelHolds

LEMMA UnchangedPanel ==
  ASSUME PanelInv, PollInv', UNCHANGED <<shown, pending, outcomes, dismissed, background, known, refused>>
  PROVE  PanelInv'
BY DEF PanelInv, JobsKept, PanelHolds, Told

\* What a rendered change leaves to be checked: nothing the page knows is dropped.
LEMMA RenderedPanel ==
  ASSUME PanelInv, PollInv', Render, outcomes' \in [Jobs -> States],
         known' \subseteq (shown' \cup pending' \cup Told' \cup dismissed' \cup refused')
  PROVE  PanelInv'
BY RenderHolds DEF PanelInv, JobsKept

LEMMA ListsKeepPanel ==
  ASSUME PanelInv, NEW i \in DOMAIN asks, ReadList(i) \/ ListAnswer(i) \/ ListFails(i)
  PROVE  PanelInv'
<1>0. PollInv
  BY DEF PanelInv
<1>1. CASE ReadList(i)
  <2>1. PollInv'
    BY <1>0, <1>1, ReadListKeeps
  <2> QED BY <1>1, <2>1, UnchangedPanel DEF ReadList, heldVars
<1>2. CASE ListFails(i)
  <2>1. PollInv'
    BY <1>0, <1>2, FinishedKeeps DEF ListFails
  <2> QED BY <1>2, <2>1, UnchangedPanel DEF ListFails, heldVars
<1>3. CASE ListAnswer(i)
  <2>1. PollInv'
    BY <1>0, <1>3, FinishedKeeps DEF ListAnswer
  <2>2. Told' = Told /\ outcomes' \in [Jobs -> States] /\ Render
    BY <1>3 DEF ListAnswer, Told, PanelInv
  <2>3. known' \subseteq (shown' \cup pending' \cup Told' \cup dismissed' \cup refused')
    BY <1>3, <2>2 DEF ListAnswer, Awaited, PanelInv, JobsKept
  <2> QED BY <2>1, <2>2, <2>3, RenderedPanel
<1> QED BY <1>1, <1>2, <1>3

LEMMA OutcomesKeepPanel ==
  ASSUME PanelInv, NEW j \in Jobs,
         \/ ReadOutcome(j) \/ OutcomeIgnored(j) \/ OutcomeShows(j) \/ OutcomeReloads(j)
         \/ OutcomeRefused(j) \/ OutcomeFails(j)
  PROVE  PanelInv'
<1>0. PollInv /\ JobsKept /\ outcomes \in [Jobs -> States]
  BY DEF PanelInv
<1>1. ASSUME UNCHANGED pollVars PROVE PollInv'
  BY <1>0, <1>1, HideKeeps
<1>2. CASE ReadOutcome(j) \/ OutcomeFails(j)
  BY <1>1, <1>2, UnchangedPanel DEF ReadOutcome, OutcomeFails, heldVars
<1>3. CASE OutcomeIgnored(j)
  <2>1. /\ PollInv' /\ UNCHANGED <<shown, outcomes, dismissed, background, known, refused>>
        /\ pending' \subseteq pending /\ pending \subseteq pending' \cup dismissed
    BY <1>1, <1>3 DEF OutcomeIgnored, heldVars
  <2>2. Told' = Told
    BY <2>1 DEF Told
  <2> QED BY <2>1, <2>2 DEF PanelInv, JobsKept, PanelHolds
<1>4. CASE OutcomeShows(j)
  <2>1. outcomes' \in [Jobs -> States]
    BY <1>0, <1>4 DEF OutcomeShows, States, Listed, Ended
  <2>2. Told \cup {j} \subseteq Told'
    BY <1>0, <1>4 DEF OutcomeShows, Told, Ended
  <2>3. known' \subseteq (shown' \cup pending' \cup Told' \cup dismissed' \cup refused')
    BY <1>0, <1>4, <2>2 DEF OutcomeShows, JobsKept
  <2> QED BY <1>1, <1>4, <2>1, <2>3, RenderedPanel DEF OutcomeShows
<1>5. CASE OutcomeReloads(j)
  <2>1. known' = {}
    BY <1>0, <1>5 DEF OutcomeReloads, ReloadsFor, Alone, JobsKept
  <2> QED BY <1>5, <2>1, LoadedKeeps DEF OutcomeReloads
<1>6. CASE OutcomeRefused(j)
  <2>1. Told' = Told
    BY <1>6 DEF OutcomeRefused, Told
  <2>2. known' \subseteq (shown' \cup pending' \cup Told' \cup dismissed' \cup refused')
    BY <1>0, <1>6, <2>1 DEF OutcomeRefused, JobsKept
  <2> QED BY <1>0, <1>1, <1>6, <2>2, RenderedPanel DEF OutcomeRefused
<1> QED BY <1>2, <1>3, <1>4, <1>5, <1>6

LEMMA UserKeepsPanel ==
  ASSUME PanelInv, NEW j \in Jobs,
         Dismiss(j) \/ Cancel(j) \/ CancelAnswer(j) \/ Track(j) \/ Submit(j) \/ JobMoves(j)
  PROVE  PanelInv'
<1>0. PollInv /\ JobsKept /\ outcomes \in [Jobs -> States]
  BY DEF PanelInv
<1>1. ASSUME UNCHANGED pollVars PROVE PollInv'
  BY <1>0, <1>1, HideKeeps
<1>2. CASE Dismiss(j)
  <2>1. outcomes' \in [Jobs -> States]
    BY <1>0, <1>2 DEF Dismiss, States
  <2>2. Told \subseteq Told' \cup {j}
    BY <1>0, <1>2 DEF Dismiss, Told
  <2>3. known' \subseteq (shown' \cup pending' \cup Told' \cup dismissed' \cup refused')
    BY <1>0, <1>2, <2>2 DEF Dismiss, JobsKept
  <2> QED BY <1>1, <1>2, <2>1, <2>3, RenderedPanel DEF Dismiss
<1>3. CASE Cancel(j) \/ CancelAnswer(j) \/ Track(j)
  <2>1. PollInv' /\ Render
    BY <1>0, <1>1, <1>3, StartKeeps DEF Cancel, CancelAnswer, Track
  <2>2. Told' = Told /\ outcomes' = outcomes
    BY <1>3 DEF Cancel, CancelAnswer, Track, Told
  <2>3. known' \subseteq (shown' \cup pending' \cup Told' \cup dismissed' \cup refused')
    BY <1>0, <1>3, <2>2 DEF Cancel, CancelAnswer, Track, JobsKept
  <2> QED BY <1>0, <2>1, <2>2, <2>3, RenderedPanel
<1>4. CASE Submit(j)
  BY <1>4, LoadedKeeps DEF Submit
<1>5. CASE JobMoves(j)
  BY <1>1, <1>5, UnchangedPanel DEF JobMoves, heldVars
<1> QED BY <1>2, <1>3, <1>4, <1>5

LEMMA PanelStep == PanelInv /\ [PanelNext]_panelVars => PanelInv'
<1> SUFFICES ASSUME PanelInv, [PanelNext]_panelVars PROVE PanelInv'
  OBVIOUS
<1>0. PollInv /\ JobsKept /\ outcomes \in [Jobs -> States]
  BY DEF PanelInv
<1>1. ASSUME UNCHANGED pollVars PROVE PollInv'
  BY <1>0, <1>1, HideKeeps
<1>2. CASE Polls
  <2>1. PollInv'
    BY <1>0, <1>2, FireKeeps, HideKeeps, ShowKeeps DEF Polls
  <2> QED BY <1>2, <2>1, UnchangedPanel DEF Polls, heldVars
<1>3. CASE Use \/ UNCHANGED panelVars
  BY <1>1, <1>3, UnchangedPanel DEF Use, panelVars, heldVars
<1>4. CASE PleaseWait
  <2>1. PollInv' /\ Told' = Told
    BY <1>1, <1>4 DEF PleaseWait, Told
  <2> QED BY <1>0, <1>4, <2>1 DEF PleaseWait, PanelInv, JobsKept, PanelHolds
<1>5. CASE Reload
  BY <1>5, LoadedKeeps DEF Reload
<1>6. CASE StatusReload
  <2>1. known' = {}
    BY <1>0, <1>6 DEF StatusReload, PanelInv, PanelHolds, JobsKept
  <2> QED BY <1>6, <2>1, LoadedKeeps DEF StatusReload
<1>7. CASE DismissError
  <2>1. PollInv' /\ Told' = Told
    BY <1>1, <1>7 DEF DismissError, Told
  <2> QED BY <1>0, <1>7, <2>1, RenderedPanel DEF DismissError, JobsKept
<1> QED BY <1>2, <1>3, <1>4, <1>5, <1>6, <1>7, ListsKeepPanel, OutcomesKeepPanel, UserKeepsPanel DEF PanelNext

LEMMA PanelInitInv == PanelInit => PanelInv
<1> SUFFICES ASSUME PanelInit PROVE PanelInv
  OBVIOUS
<1>1. PollInv
  BY PollInitInv DEF PanelInit
<1>2. outcomes \in [Jobs -> States] /\ Told = {}
  BY DEF PanelInit, Nothing, States, Told
<1> QED BY <1>1, <1>2 DEF PanelInit, PanelInv, JobsKept, PanelHolds

\* Whatever the order of lists, outcomes, cancels, submissions and reloads, of any
\* number of jobs, a job the page knows is listed, awaited or told unless the user
\* dismissed it or the server refuses it. [onData, fetchOutcome, render]
THEOREM PanelTheorem == PanelSpec => []JobsKept
<1>1. PanelInv => JobsKept
  BY DEF PanelInv
<1> QED BY <1>1, PanelInitInv, PanelStep, PTL DEF PanelSpec

\* The panel's poller, which cancels and submissions restart and reloads replace,
\* also waits for exactly one thing. [poll.js run, resume; poller.track]
THEOREM PanelPollTheorem == PanelSpec => []OnePoll
<1>1. PanelInv => OnePoll
  BY PollInvGives DEF PanelInv
<1> QED BY <1>1, PanelInitInv, PanelStep, PTL DEF PanelSpec
-----------------------------------------------------------------------------
(* Proofs: the upload *)

LEMMA NoUploadSigned ==
  /\ NoUpload \in Signed
  /\ NoUpload.signature = "none" /\ NoUpload.chunkIndex = 0 /\ NoUpload.uploadId = 0
BY DEF NoUpload, Signed

LEMMA StoredNat == ASSUME UploadTypes, NEW u \in Uploads PROVE Stored(u) \in Nat
<1>1. upload[u] \in Kept
  BY DEF UploadTypes
<1>2. upload[u].chunks \in Seq(Files \X Nat)
  BY <1>1 DEF Kept
<1> QED BY <1>2, LenProperties DEF Stored

LEMMA UploadInitInv == UploadInit => UploadInv
<1> SUFFICES ASSUME UploadInit PROVE UploadInv
  OBVIOUS
<1>1. <<>> \in Seq(Files \X Nat) /\ Len(<<>>) = 0
  BY EmptySeq
<1>2. [state |-> "none", chunks |-> <<>>, dropped |-> FALSE] \in Kept
  BY <1>1 DEF Kept
<1>3. \A u \in Uploads : upload[u].state = "none" /\ Stored(u) = 0
  BY <1>1 DEF UploadInit, Stored
<1>4. UploadTypes
  BY <1>2, NoUploadSigned DEF UploadInit, UploadTypes
<1>5. Resumable
  BY DEF UploadInit, Resumable
<1>6. OneVersion
  BY <1>3 DEF UploadInit, OneVersion
<1>7. InStep
  BY <1>3, PageUploadAssumption DEF UploadInit, InStep
<1> QED BY <1>4, <1>5, <1>6, <1>7 DEF UploadInv

\* The chunk that is sent is the submission's.
LEMMA SendsOwn ==
  ASSUME UploadInv, NEW s \in Signed, UploadChunk(s), s.signature \in Files, s.uploadId \in Uploads,
         NEW m \in network'
  PROVE  /\ m \in Packets
         /\ m \in network \/ (m.u = s.uploadId /\ m.chunk[1] = s.signature /\ m.chunk[2] = s.chunkIndex)
<1> DEFINE n == [u |-> s.uploadId, chunk |-> <<s.signature, s.chunkIndex>>]
<1>1. s.chunkIndex \in Nat
  BY DEF Signed
<1>2. n \in Packets /\ n.u = s.uploadId /\ n.chunk[1] = s.signature /\ n.chunk[2] = s.chunkIndex
  BY <1>1 DEF Packets
<1> QED BY <1>2 DEF UploadChunk, UploadInv, UploadTypes

LEMMA TypedUpload ==
  ASSUME UploadTypes
  PROVE  /\ sending.chunkIndex \in Nat /\ sending.uploadId \in Nat
         /\ \A u \in Uploads : u \in Nat
         /\ \A m \in network : m.u \in Uploads /\ m.chunk[1] \in Files /\ m.chunk[2] \in Nat
BY PageUploadAssumption DEF UploadTypes, Signed, Packets, Uploads

\* Sent again: the chunk of the submission as it stands.
LEMMA ResendKeeps ==
  ASSUME UploadInv, pendingUpload # NoUpload, UploadChunk(sending), request' = "out", uploadInProgress' = TRUE,
         retryCount' \in Nat, UNCHANGED <<file, pendingUpload, sending, finished, upload>>
  PROVE  UploadInv'
<1>0. UploadTypes /\ Resumable /\ OneVersion /\ InStep
  BY DEF UploadInv
<1>1. /\ request' = "out" /\ UploadChunk(sending) /\ sending' = sending /\ uploadInProgress' = TRUE
      /\ retryCount' \in Nat /\ UNCHANGED <<file, pendingUpload, finished, upload>>
  OBVIOUS
<1>2. pendingUpload # NoUpload /\ sending.signature \in Files /\ sending.uploadId \in Uploads /\ sending \in Signed
  BY <1>0, <1>1 DEF Resumable, UploadTypes
<1>3. \A m \in network' : m \in Packets /\ (m \in network \/
        (m.u = sending.uploadId /\ m.chunk[1] = sending.signature /\ m.chunk[2] = sending.chunkIndex))
  BY <1>1, <1>2, SendsOwn
<1>4. \A u \in Uploads : Stored(u)' = Stored(u) /\ upload'[u] = upload[u] /\ Stored(u) \in Nat
  BY <1>0, <1>1, StoredNat DEF Stored
<1>5. UploadTypes'
  BY <1>0, <1>1, <1>3 DEF UploadTypes
<1>6. Resumable'
  BY <1>0, <1>1, <1>2 DEF Resumable
<1>7. OneVersion'
  BY <1>0, <1>1, <1>2, <1>3, <1>4, TypedUpload DEF OneVersion
<1>8. InStep'
  BY <1>0, <1>1, <1>2, <1>3, <1>4, TypedUpload DEF InStep, Resumable
<1> QED BY <1>5, <1>6, <1>7, <1>8 DEF UploadInv

LEMMA AgainKeeps ==
  ASSUME UploadInv, Again
  PROVE  UploadInv'
<1>1. pendingUpload # NoUpload /\ uploadInProgress = TRUE /\ retryCount \in Nat
  BY DEF Again, UploadInv, Resumable, UploadTypes
<1> QED BY <1>1, ResendKeeps DEF Again, UploadChunk

LEMMA SubmittedKeeps ==
  ASSUME UploadInv, Submitted
  PROVE  UploadInv'
<1> USE PageUploadAssumption
<1>0. UploadTypes /\ Resumable /\ OneVersion /\ InStep
  BY DEF UploadInv
<1> DEFINE p == IF SameFile THEN pendingUpload
                ELSE [signature |-> file, chunkIndex |-> 0, uploadId |-> sending.uploadId + 1]
<1>1. p \in Signed /\ p.signature = file /\ p.uploadId \in Uploads /\ p.uploadId \in Nat /\ p.chunkIndex \in Nat
  <2>1. CASE SameFile
    BY <1>0, <2>1 DEF SameFile, UploadTypes, Submitted, Signed, Uploads
  <2>2. CASE ~SameFile
    BY <1>0, <2>2, TypedUpload DEF UploadTypes, Submitted, Signed, Uploads
  <2> QED BY <2>1, <2>2
<1>2. /\ pendingUpload' = p /\ retryCount' = 0 /\ uploadInProgress' = TRUE /\ request' = "out"
      /\ file' = file /\ finished' = finished /\ upload' = upload /\ UploadChunk(sending')
      /\ sending' = [p EXCEPT !.signature = file]
  BY DEF Submitted, UploadChunk
<1>3. SameFile => p = sending /\ sending.chunkIndex < TotalChunks
  BY <1>0 DEF SameFile, Resumable
<1>4. ~SameFile => p.chunkIndex = 0 /\ p.uploadId = sending.uploadId + 1
  OBVIOUS
<1>5. p # NoUpload
  BY <1>1, NoUploadSigned DEF Uploads
<1> HIDE DEF p
<1>6. sending' = p
  BY <1>1, <1>2 DEF Signed
<1>7. \A m \in network' : m \in Packets /\ (m \in network \/ (m.u = p.uploadId /\ m.chunk[1] = file /\ m.chunk[2] = p.chunkIndex))
  <2>1. file \in Files
    BY <1>0 DEF UploadTypes
  <2> QED BY <1>1, <1>2, <1>6, <2>1, SendsOwn
<1>8. UploadTypes'
  BY <1>0, <1>1, <1>2, <1>6, <1>7 DEF UploadTypes
<1>9. Resumable'
  BY <1>0, <1>1, <1>2, <1>3, <1>4, <1>5, <1>6 DEF Resumable, UploadTypes
<1>10. \A u \in Uploads : Stored(u)' = Stored(u) /\ upload'[u] = upload[u] /\ Stored(u) \in Nat
  BY <1>0, <1>2, StoredNat DEF Stored
<1>11. CASE SameFile
  <2>1. p = sending /\ pendingUpload = sending /\ pendingUpload # NoUpload
    BY <1>0, <1>3, <1>11 DEF SameFile, Resumable
  <2> QED BY <1>2, <1>6, <2>1, ResendKeeps
<1>12. CASE ~SameFile
  <2>1. p.chunkIndex = 0 /\ p.uploadId = sending.uploadId + 1
    BY <1>4, <1>12
  <2>2. Stored(p.uploadId) = 0 /\ upload[p.uploadId].state = "none"
    BY <1>0, <1>1, <2>1, TypedUpload DEF OneVersion, InStep
  <2>3. \A m \in network : m.u <= sending.uploadId /\ m.u # p.uploadId
    BY <1>0, <2>1, TypedUpload DEF OneVersion, Uploads
  <2>4. OneVersion'
    BY <1>0, <1>1, <1>2, <1>6, <1>7, <1>10, <2>1, <2>2, <2>3, TypedUpload DEF OneVersion
  <2>5. InStep'
    BY <1>0, <1>1, <1>2, <1>6, <1>7, <1>10, <2>1, <2>2, <2>3, TypedUpload DEF InStep
  <2> QED BY <1>8, <1>9, <2>4, <2>5 DEF UploadInv
<1> QED BY <1>11, <1>12

LEMMA SuccessKeeps ==
  ASSUME UploadInv, Success
  PROVE  UploadInv'
<1> USE PageUploadAssumption
<1>0. UploadTypes /\ Resumable /\ OneVersion /\ InStep
  BY DEF UploadInv
<1> DEFINE k == sending.chunkIndex + 1
<1>1. /\ request = "ok" /\ pendingUpload # NoUpload /\ pendingUpload = sending /\ sending.signature \in Files
      /\ sending.uploadId \in Uploads /\ sending.chunkIndex < TotalChunks /\ sending \in Signed
      /\ k \in Nat /\ k # 0 /\ k <= TotalChunks /\ Stored(sending.uploadId) <= k
      /\ ~upload[sending.uploadId].dropped => Stored(sending.uploadId) = k
  BY <1>0, TypedUpload DEF Success, Resumable, InStep, UploadTypes
<1>2. /\ sending' = [sending EXCEPT !.chunkIndex = k] /\ retryCount' = 0 /\ file' = file /\ upload' = upload
  BY DEF Success
<1>3. sending' \in Signed /\ sending'.signature = sending.signature /\ sending'.chunkIndex = k
      /\ sending'.uploadId = sending.uploadId
  BY <1>1, <1>2 DEF Signed
<1>4. \A u \in Uploads : Stored(u)' = Stored(u) /\ upload'[u] = upload[u] /\ Stored(u) \in Nat
  BY <1>0, <1>2, StoredNat DEF Stored
<1>5. CASE k < TotalChunks
  <2>1. pendingUpload' = sending' /\ UploadChunk(sending') /\ UNCHANGED <<uploadInProgress, finished>>
    BY <1>1, <1>2, <1>5 DEF Success
  <2>2. \A m \in network' : m \in Packets /\ (m \in network \/ (m.u = sending.uploadId /\ m.chunk[1] = sending.signature /\ m.chunk[2] = k))
    BY <1>1, <1>3, <2>1, SendsOwn
  <2> HIDE DEF k
  <2>3. UploadTypes'
    BY <1>0, <1>2, <1>3, <2>1, <2>2 DEF UploadTypes, UploadChunk
  <2>4. Resumable'
    <3>1. sending' # NoUpload /\ request' = "out"
      BY <1>1, <1>3, <2>1, NoUploadSigned DEF Uploads, UploadChunk
    <3> QED BY <1>0, <1>1, <1>3, <1>5, <2>1, <3>1 DEF Resumable, UploadTypes
  <2>5. OneVersion'
    BY <1>0, <1>1, <1>3, <1>4, <2>2, TypedUpload DEF OneVersion
  <2>6. \A m \in network' : m.u = sending.uploadId => m.chunk[2] <= k
    BY <1>0, <1>1, <2>2, TypedUpload DEF InStep, k
  <2>7. InStep'
    BY <1>0, <1>1, <1>2, <1>3, <1>4, <2>1, <2>6, TypedUpload DEF InStep, UploadChunk
  <2> QED BY <2>3, <2>4, <2>5, <2>7 DEF UploadInv
<1>6. CASE ~(k < TotalChunks)
  <2>1. /\ pendingUpload' = NoUpload /\ uploadInProgress' = FALSE /\ request' = "none"
        /\ finished' = finished \cup {sending.uploadId} /\ network' = network
    BY <1>6 DEF Success
  <2>2. k = TotalChunks
    BY <1>1, <1>6
  <2>3. upload[sending.uploadId].state = "succeeded" \/ upload[sending.uploadId].dropped
    BY <1>0, <1>1, <2>2 DEF InStep
  <2> HIDE DEF k
  <2>4. UploadTypes'
    BY <1>0, <1>1, <1>2, <1>3, <2>1, NoUploadSigned DEF UploadTypes
  <2>5. Resumable'
    BY <2>1 DEF Resumable
  <2>6. OneVersion'
    BY <1>0, <1>1, <1>3, <1>4, <2>1, TypedUpload DEF OneVersion
  <2>7. \A m \in network' : m.u = sending.uploadId => m.chunk[2] <= k
    BY <1>0, <1>1, <2>1, TypedUpload DEF InStep, k
  <2>8. InStep'
    BY <1>0, <1>1, <1>3, <1>4, <2>1, <2>3, <2>7 DEF InStep, UploadTypes
  <2> QED BY <2>4, <2>5, <2>6, <2>8 DEF UploadInv
<1> QED BY <1>5, <1>6

\* What neither sends nor stores anything.
LEMMA WaitsKeep ==
  ASSUME UploadInv, NEW m, NEW f \in Files,
         \/ Chosen(f) \/ Retry \/ GivenUp \/ Lost \/ Dropped(m) \/ UNCHANGED uploadVars
  PROVE  UploadInv'
<1>0. UploadTypes /\ Resumable /\ OneVersion /\ InStep
  BY DEF UploadInv
<1>1. network' \subseteq network /\ upload' = upload /\ finished' = finished /\ sending' = sending
      /\ pendingUpload' \in {pendingUpload, NoUpload}
  BY DEF Chosen, Retry, GivenUp, Lost, Dropped, uploadVars, browserVars, Unheard
<1>2. UploadTypes'
  <2>1. file' \in Files /\ uploadInProgress' \in BOOLEAN /\ retryCount' \in Nat
        /\ request' \in {"none", "out", "ok", "refused", "lost", "delay"}
    <3>1. CASE Chosen(f) \/ Dropped(m) \/ UNCHANGED uploadVars
      BY <1>0, <3>1 DEF Chosen, Dropped, uploadVars, browserVars, UploadTypes
    <3>2. CASE GivenUp \/ Lost
      BY <1>0, <3>2 DEF GivenUp, Lost, Unheard, UploadTypes
    <3>3. CASE Retry
      BY <1>0, <3>3 DEF Retry, UploadTypes
    <3> QED BY <3>1, <3>2, <3>3
  <2> QED BY <1>0, <1>1, <2>1, NoUploadSigned DEF UploadTypes
<1>3. Resumable'
  BY <1>0 DEF Chosen, Retry, GivenUp, Lost, Dropped, uploadVars, browserVars, Unheard, Resumable
<1>4. \A u \in Uploads : Stored(u)' = Stored(u)
  BY <1>1 DEF Stored
<1>5. OneVersion'
  BY <1>0, <1>1, <1>4, TypedUpload DEF OneVersion
<1>6. request' = "ok" => request = "ok"
  BY DEF Chosen, Retry, GivenUp, Lost, Dropped, uploadVars, browserVars, Unheard
<1>7. InStep'
  <2>1. pendingUpload' # NoUpload => pendingUpload # NoUpload
    BY <1>1
  <2>2. pendingUpload # NoUpload => Stored(sending.uploadId)' = Stored(sending.uploadId)
    BY <1>0, <1>1, <1>4 DEF Resumable
  <2> QED BY <1>0, <1>1, <1>4, <1>6, <2>1, <2>2 DEF InStep
<1> QED BY <1>2, <1>3, <1>5, <1>7 DEF UploadInv

\* The server's answer is heard only for the request that is out.
LEMMA HeardIs ==
  ASSUME UploadTypes, NEW m \in network, NEW answer \in {"ok", "refused"}, Heard(m, answer)
  PROVE  /\ request' \in {"none", "out", "ok", "refused", "lost", "delay"}
         /\ request' = "none" <=> request = "none"
         /\ request' = "ok" => \/ request = "ok"
                               \/ /\ request = "out" /\ answer = "ok" /\ m.u = sending.uploadId
                                  /\ m.chunk[2] = sending.chunkIndex
<1> DEFINE n == [u |-> sending.uploadId, chunk |-> <<sending.signature, sending.chunkIndex>>]
<1>1. n.u = sending.uploadId /\ n.chunk[2] = sending.chunkIndex
  OBVIOUS
<1>2. request' = IF request = "out" /\ m = n THEN answer ELSE request
  BY DEF Heard, Expected
<1> HIDE DEF n
<1> QED BY <1>1, <1>2 DEF UploadTypes

\* A chunk that is not committed changes at most what the browser hears.
LEMMA AnswerKeeps ==
  ASSUME UploadInv, NEW m \in network, NEW answer \in {"ok", "refused"}, Heard(m, answer),
         answer = "ok" => Repeats(m), network' = network \ {m}, upload' = upload, Unheard
  PROVE  UploadInv'
<1> USE PageUploadAssumption
<1>0. UploadTypes /\ Resumable /\ OneVersion /\ InStep
  BY DEF UploadInv
<1>1. /\ file' = file /\ pendingUpload' = pendingUpload /\ uploadInProgress' = uploadInProgress
      /\ retryCount' = retryCount /\ sending' = sending /\ finished' = finished
  BY DEF Unheard
<1>2. \A u \in Uploads : Stored(u)' = Stored(u) /\ Stored(u) \in Nat
  BY <1>0, StoredNat DEF Stored
<1>3. UploadTypes'
  BY <1>0, <1>1, HeardIs DEF UploadTypes
<1>4. Resumable'
  BY <1>0, <1>1, HeardIs DEF Resumable
<1>5. OneVersion'
  BY <1>0, <1>1, <1>2, TypedUpload DEF OneVersion
<1>6. pendingUpload # NoUpload /\ request' = "ok" /\ ~upload[sending.uploadId].dropped =>
        Stored(sending.uploadId) = sending.chunkIndex + 1
  <2> SUFFICES ASSUME pendingUpload # NoUpload, request' = "ok", ~upload[sending.uploadId].dropped
               PROVE  Stored(sending.uploadId) = sending.chunkIndex + 1
    OBVIOUS
  <2>1. CASE request = "ok"
    BY <1>0, <2>1 DEF InStep
  <2>2. CASE request # "ok"
    <3>1. m.u = sending.uploadId /\ m.chunk[2] = sending.chunkIndex /\ Repeats(m)
      BY <1>0, <2>2, HeardIs
    <3>2. m.u \in Uploads /\ sending.chunkIndex \in Nat
      BY <1>0, TypedUpload
    <3>3. CASE upload[m.u].state = "active" /\ m.chunk[2] < Stored(m.u)
      BY <1>0, <1>2, <3>1, <3>2, <3>3 DEF InStep
    <3>4. CASE upload[m.u].state = "succeeded" /\ m.chunk[2] = TotalChunks - 1
      BY <1>0, <3>1, <3>2, <3>4 DEF InStep
    <3> QED BY <3>1, <3>3, <3>4 DEF Repeats, Stored
  <2> QED BY <2>1, <2>2
<1>7. InStep'
  <2>1. pendingUpload # NoUpload => Stored(sending.uploadId)' = Stored(sending.uploadId)
    BY <1>0, <1>1, <1>2 DEF Resumable
  <2> QED BY <1>0, <1>1, <1>2, <1>6, <2>1 DEF InStep
<1> QED BY <1>3, <1>4, <1>5, <1>7 DEF UploadInv

\* What a commit changes of one upload.
LEMMA CommitIs ==
  ASSUME UploadInv, NEW m \in network, Commits(m),
         upload' = [upload EXCEPT ![m.u].chunks = Append(upload[m.u].chunks, m.chunk),
           ![m.u].state = IF Len(Append(upload[m.u].chunks, m.chunk)) = TotalChunks THEN "succeeded" ELSE "active"]
  PROVE  /\ upload' \in [Uploads -> Kept]
         /\ Stored(m.u)' = Stored(m.u) + 1 /\ Stored(m.u) = m.chunk[2] /\ Stored(m.u) < TotalChunks
         /\ upload[m.u].state \in {"none", "active"}
         /\ upload'[m.u].state = IF Stored(m.u)' = TotalChunks THEN "succeeded" ELSE "active"
         /\ \A k \in 1..Stored(m.u) : upload'[m.u].chunks[k] = upload[m.u].chunks[k]
         /\ upload'[m.u].chunks[Stored(m.u) + 1] = m.chunk
         /\ \A u \in Uploads : u # m.u => upload'[u] = upload[u] /\ Stored(u)' = Stored(u)
         /\ upload'[m.u].dropped = upload[m.u].dropped
<1> USE PageUploadAssumption
<1>0. UploadTypes /\ InStep
  BY DEF UploadInv
<1>1. m.u \in Uploads /\ m.chunk \in Files \X Nat /\ m.chunk[2] \in Nat
  BY <1>0 DEF UploadTypes, Packets
<1> DEFINE old == upload[m.u].chunks
           new == Append(upload[m.u].chunks, m.chunk)
           row == [upload[m.u] EXCEPT !.chunks = new, !.state = IF Len(new) = TotalChunks THEN "succeeded" ELSE "active"]
<1>2. old \in Seq(Files \X Nat) /\ upload[m.u] \in Kept
  BY <1>0, <1>1 DEF UploadTypes, Kept
<1>3. /\ new \in Seq(Files \X Nat) /\ Len(new) = Len(old) + 1 /\ Len(old) \in Nat
      /\ \A k \in 1..Len(old) : new[k] = old[k]
      /\ new[Len(old) + 1] = m.chunk
  BY <1>1, <1>2, AppendProperties, LenProperties
<1>4. row \in Kept /\ row.chunks = new /\ row.state = (IF Len(new) = TotalChunks THEN "succeeded" ELSE "active")
      /\ row.dropped = upload[m.u].dropped
  BY <1>2, <1>3 DEF Kept
<1>5. upload' = [upload EXCEPT ![m.u] = row]
  BY <1>0, <1>1 DEF UploadTypes
<1>6. Stored(m.u) = Len(old)
  BY DEF Stored
<1> HIDE DEF row, new, old
<1>7. upload' \in [Uploads -> Kept] /\ upload'[m.u] = row /\ \A u \in Uploads : u # m.u => upload'[u] = upload[u]
  BY <1>0, <1>1, <1>4, <1>5 DEF UploadTypes
<1>8. Stored(m.u)' = Len(new)
  <2>1. m.u \in Uploads /\ upload'[m.u].chunks = new
    BY <1>1, <1>4, <1>7
  <2> QED BY <2>1 DEF Stored
<1>9. Stored(m.u) = m.chunk[2] /\ upload[m.u].state \in {"none", "active"}
  BY DEF Commits, Stored
<1>10. Stored(m.u) < TotalChunks
  BY <1>0, <1>1, <1>3, <1>6, <1>9 DEF InStep
<1>11. \A u \in Uploads : u # m.u => Stored(u)' = Stored(u)
  BY <1>7 DEF Stored
<1>12. /\ \A k \in 1..Stored(m.u) : upload'[m.u].chunks[k] = upload[m.u].chunks[k]
       /\ upload'[m.u].chunks[Stored(m.u) + 1] = m.chunk
  BY <1>3, <1>4, <1>6, <1>7 DEF old
<1> QED BY <1>3, <1>4, <1>6, <1>7, <1>8, <1>9, <1>10, <1>11, <1>12

LEMMA CommitKeeps ==
  ASSUME UploadInv, NEW m \in network, Commits(m), Heard(m, "ok"), network' = network \ {m}, Unheard,
         upload' = [upload EXCEPT ![m.u].chunks = Append(upload[m.u].chunks, m.chunk),
           ![m.u].state = IF Len(Append(upload[m.u].chunks, m.chunk)) = TotalChunks THEN "succeeded" ELSE "active"]
  PROVE  UploadInv'
<1> USE PageUploadAssumption
<1>0. UploadTypes /\ Resumable /\ OneVersion /\ InStep
  BY DEF UploadInv
<1>c. /\ upload' \in [Uploads -> Kept]
      /\ Stored(m.u)' = Stored(m.u) + 1 /\ Stored(m.u) = m.chunk[2] /\ Stored(m.u) < TotalChunks
      /\ upload[m.u].state \in {"none", "active"}
      /\ upload'[m.u].state = IF Stored(m.u)' = TotalChunks THEN "succeeded" ELSE "active"
      /\ \A k \in 1..Stored(m.u) : upload'[m.u].chunks[k] = upload[m.u].chunks[k]
      /\ upload'[m.u].chunks[Stored(m.u) + 1] = m.chunk
      /\ \A u \in Uploads : u # m.u => upload'[u] = upload[u] /\ Stored(u)' = Stored(u)
      /\ upload'[m.u].dropped = upload[m.u].dropped
  BY CommitIs
<1>1. /\ file' = file /\ pendingUpload' = pendingUpload /\ uploadInProgress' = uploadInProgress
      /\ retryCount' = retryCount /\ sending' = sending /\ finished' = finished
  BY DEF Unheard
<1>2. \A u \in Uploads : Stored(u) \in Nat
  BY <1>0, StoredNat
<1>3. m.u \in Uploads /\ m.u \in Nat /\ m.chunk \in Files \X Nat /\ m.chunk[2] \in Nat /\ m.chunk[1] \in Files
      /\ m.chunk = <<m.chunk[1], m.chunk[2]>>
  BY <1>0 DEF UploadTypes, Packets, Uploads
<1>4. UploadTypes'
  BY <1>0, <1>1, HeardIs, <1>c DEF UploadTypes
<1>5. Resumable'
  BY <1>0, <1>1, HeardIs DEF Resumable
<1>6. upload'[m.u].chunks[1][1] = m.chunk[1]
  <2>1. CASE Stored(m.u) = 0
    BY <2>1, <1>c
  <2>2. CASE Stored(m.u) # 0
    <3>1. 1 \in 1..Stored(m.u) /\ Stored(m.u) > 0
      BY <1>2, <1>3, <2>2
    <3>2. upload[m.u].chunks[1][1] = m.chunk[1]
      BY <1>0, <3>1 DEF OneVersion
    <3> QED BY <3>1, <3>2, <1>c
  <2> QED BY <2>1, <2>2
<1>7. ASSUME NEW u \in Uploads, NEW k \in 1..Stored(u)'
      PROVE  upload'[u].chunks[k] = <<upload'[u].chunks[1][1], k - 1>>
  <2>1. CASE u # m.u
    <3>1. upload'[u] = upload[u] /\ k \in 1..Stored(u)
      BY <2>1, <1>c
    <3> QED BY <1>0, <3>1 DEF OneVersion
  <2>2. CASE u = m.u /\ k = Stored(u) + 1
    <3>1. Stored(u) \in Nat /\ Stored(u) = m.chunk[2]
      BY <1>2, <2>2, <1>c
    <3>2. k - 1 = m.chunk[2]
      BY <2>2, <3>1
    <3>3. upload'[u].chunks[k] = m.chunk
      BY <2>2, <1>c
    <3> QED BY <1>3, <1>6, <2>2, <3>2, <3>3
  <2>3. CASE u = m.u /\ k # Stored(u) + 1
    <3>1. k \in 1..Stored(u) /\ 1 \in 1..Stored(u)
      BY <1>2, <1>3, <2>3, <1>c
    <3>2. upload'[u].chunks[k] = upload[u].chunks[k] /\ upload'[u].chunks[1] = upload[u].chunks[1]
      BY <2>3, <3>1, <1>c
    <3> QED BY <1>0, <3>1, <3>2 DEF OneVersion
  <2> QED BY <2>1, <2>2, <2>3
<1>8. OneVersion'
  <2>1. \A n \in network : n.u = m.u => n.chunk[1] = m.chunk[1]
    BY <1>0 DEF OneVersion
  <2>2. \A n \in network' : n \in network /\ n.u \in Uploads
    BY <1>0, TypedUpload
  <2>3. \A n \in network' : Stored(n.u)' > 0 => upload'[n.u].chunks[1][1] = n.chunk[1]
    <3> SUFFICES ASSUME NEW n \in network', Stored(n.u)' > 0 PROVE upload'[n.u].chunks[1][1] = n.chunk[1]
      OBVIOUS
    <3>1. CASE n.u = m.u
      BY <1>6, <2>1, <2>2, <3>1
    <3>2. CASE n.u # m.u
      <4>1. Stored(n.u)' = Stored(n.u) /\ upload'[n.u] = upload[n.u]
        BY <2>2, <3>2, <1>c
      <4> QED BY <1>0, <2>2, <4>1 DEF OneVersion
    <3> QED BY <3>1, <3>2
  <2>4. \A u \in Uploads : u > sending.uploadId => upload'[u].state = "none"
    <3>1. m.u <= sending.uploadId
      BY <1>0 DEF OneVersion
    <3>2. \A u \in Uploads : u > sending.uploadId => u # m.u
      BY <1>0, <1>3, <3>1, TypedUpload
    <3> QED BY <1>0, <3>2, <1>c DEF OneVersion
  <2>5. \A u \in Uploads : u = sending.uploadId /\ Stored(u)' > 0 => upload'[u].chunks[1][1] = sending.signature
    <3> SUFFICES ASSUME NEW u \in Uploads, u = sending.uploadId, Stored(u)' > 0
                 PROVE  upload'[u].chunks[1][1] = sending.signature
      OBVIOUS
    <3>1. CASE u = m.u
      BY <1>0, <1>6, <3>1 DEF OneVersion
    <3>2. CASE u # m.u
      <4>1. Stored(u)' = Stored(u) /\ upload'[u] = upload[u]
        BY <3>2, <1>c
      <4> QED BY <1>0, <4>1 DEF OneVersion
    <3> QED BY <3>1, <3>2
  <2>6. \A n, o \in network' : n.u = o.u => n.chunk[1] = o.chunk[1]
    BY <1>0, <2>2 DEF OneVersion
  <2>7. \A n \in network' : n.u <= sending.uploadId /\ (n.u = sending.uploadId => n.chunk[1] = sending.signature)
    BY <1>0, <2>2 DEF OneVersion
  <2> QED BY <1>1, <1>7, <2>3, <2>4, <2>5, <2>6, <2>7 DEF OneVersion
<1>9. ASSUME NEW u \in Uploads
      PROVE  /\ Stored(u)' <= TotalChunks
             /\ upload'[u].state = "none" => Stored(u)' = 0
             /\ upload'[u].state = "succeeded" <=> Stored(u)' = TotalChunks
  <2>1. CASE u # m.u
    <3>1. Stored(u)' = Stored(u) /\ upload'[u] = upload[u]
      BY <2>1, <1>c
    <3> QED BY <1>0, <3>1 DEF InStep
  <2>2. CASE u = m.u
    <3>1. Stored(u)' <= TotalChunks
      BY <1>2, <1>3, <2>2, <1>c
    <3> QED BY <2>2, <3>1, <1>c
  <2> QED BY <2>1, <2>2
<1>10. ASSUME pendingUpload # NoUpload
       PROVE  /\ Stored(sending.uploadId)' <= sending.chunkIndex + 1
              /\ ~upload'[sending.uploadId].dropped => Stored(sending.uploadId)' >= sending.chunkIndex
              /\ request' = "ok" /\ ~upload'[sending.uploadId].dropped =>
                   Stored(sending.uploadId)' = sending.chunkIndex + 1
  <2>1. /\ sending.uploadId \in Uploads /\ sending.chunkIndex \in Nat
        /\ Stored(sending.uploadId) <= sending.chunkIndex + 1
        /\ ~upload[sending.uploadId].dropped => Stored(sending.uploadId) >= sending.chunkIndex
        /\ request = "ok" /\ ~upload[sending.uploadId].dropped => Stored(sending.uploadId) = sending.chunkIndex + 1
    BY <1>0, <1>10, TypedUpload DEF Resumable, InStep
  <2>2. CASE m.u # sending.uploadId
    <3>1. Stored(sending.uploadId)' = Stored(sending.uploadId) /\ upload'[sending.uploadId] = upload[sending.uploadId]
      BY <1>1, <2>1, <2>2, <1>c
    <3> QED BY <1>0, <2>1, <2>2, <3>1, HeardIs
  <2>3. CASE m.u = sending.uploadId
    <3>1. m.chunk[2] <= sending.chunkIndex
      BY <1>0, <2>3 DEF InStep
    <3>2. Stored(m.u) <= sending.chunkIndex /\ (~upload[m.u].dropped => Stored(m.u) = sending.chunkIndex)
      BY <1>2, <1>3, <2>1, <2>3, <3>1, <1>c
    <3>3. Stored(sending.uploadId)' = Stored(m.u)' /\ upload'[sending.uploadId] = upload'[m.u]
      BY <1>1, <2>3 DEF Stored
    <3>4. /\ Stored(sending.uploadId)' = Stored(m.u) + 1
          /\ upload'[sending.uploadId].dropped = upload[m.u].dropped
      BY <3>3, <1>c
    <3> QED BY <1>2, <1>3, <2>1, <3>2, <3>4
  <2> QED BY <2>2, <2>3
<1>11. \A u \in finished : upload'[u].state = "succeeded" \/ upload'[u].dropped
  <2>1. \A u \in finished : u \in Uploads /\ (u = m.u => upload[u].dropped)
    BY <1>0, <1>c DEF InStep, UploadTypes
  <2> QED BY <1>0, <2>1, <1>c DEF InStep
<1>12. InStep'
  BY <1>0, <1>1, <1>9, <1>10, <1>11 DEF InStep
<1> QED BY <1>4, <1>5, <1>8, <1>12 DEF UploadInv

LEMMA StopsKeeps ==
  ASSUME UploadInv, NEW u \in Uploads, UploadStops(u)
  PROVE  UploadInv'
<1>0. UploadTypes /\ Resumable /\ OneVersion /\ InStep
  BY DEF UploadInv
<1>1. UNCHANGED <<file, pendingUpload, uploadInProgress, retryCount, sending, request, finished, network>>
  BY DEF UploadStops, browserVars
<1>2. /\ upload' \in [Uploads -> Kept] /\ upload[u].state = "active" /\ upload'[u].state = "ended"
      /\ \A v \in Uploads : upload'[v].chunks = upload[v].chunks /\ upload'[v].dropped = upload[v].dropped /\ (v # u => upload'[v] = upload[v])
  BY <1>0 DEF UploadStops, UploadTypes, Kept
<1>3. \A v \in Uploads : Stored(v)' = Stored(v)
  BY <1>2 DEF Stored
<1>4. UploadTypes' /\ Resumable'
  BY <1>0, <1>1, <1>2 DEF UploadTypes, Resumable
<1>5. OneVersion'
  BY <1>0, <1>1, <1>2, <1>3, TypedUpload DEF OneVersion
<1>6. pendingUpload # NoUpload => Stored(sending.uploadId)' = Stored(sending.uploadId)
  BY <1>0, <1>1, <1>3 DEF Resumable
<1>7. \A v \in Uploads : /\ upload'[v].state = "succeeded" <=> upload[v].state = "succeeded"
                         /\ upload'[v].state = "none" <=> upload[v].state = "none"
                         /\ upload'[v].dropped = upload[v].dropped
  BY <1>2
<1>8. InStep'
  BY <1>0, <1>1, <1>3, <1>6, <1>7 DEF InStep, UploadTypes, Resumable
<1> QED BY <1>4, <1>5, <1>8 DEF UploadInv

\* The answer to a chunk that was dropped: the upload is marked, if it is heard.
LEMMA RedirectKeeps ==
  ASSUME UploadInv, NEW m \in network, Redirected(m)
  PROVE  UploadInv'
<1>0. UploadTypes /\ Resumable /\ OneVersion /\ InStep
  BY DEF UploadInv
<1>1. /\ file' = file /\ pendingUpload' = pendingUpload /\ uploadInProgress' = uploadInProgress
      /\ retryCount' = retryCount /\ sending' = sending /\ finished' = finished
      /\ network' = network \ {m} /\ Heard(m, "ok")
  BY DEF Redirected, Unheard
<1>2. m.u \in Uploads /\ Expected(m) \in BOOLEAN
  BY <1>0, TypedUpload DEF Expected
<1>3. /\ upload' \in [Uploads -> Kept]
      /\ \A v \in Uploads : /\ upload'[v].state = upload[v].state /\ upload'[v].chunks = upload[v].chunks
                            /\ upload'[v].dropped = (upload[v].dropped \/ (v = m.u /\ Expected(m)))
  BY <1>0, <1>2 DEF Redirected, UploadTypes, Kept
<1>4. \A v \in Uploads : Stored(v)' = Stored(v)
  BY <1>3 DEF Stored
<1>5. UploadTypes' /\ Resumable'
  BY <1>0, <1>1, <1>3, HeardIs DEF UploadTypes, Resumable
<1>6. OneVersion'
  BY <1>0, <1>1, <1>3, <1>4, TypedUpload DEF OneVersion
<1>7. request' = "ok" => request = "ok" \/ (Expected(m) /\ m.u = sending.uploadId)
  BY <1>1 DEF Heard, Expected
<1>8. pendingUpload # NoUpload => sending.uploadId \in Uploads
  BY <1>0 DEF Resumable
<1>9. ASSUME NEW u \in Uploads
      PROVE  /\ Stored(u)' <= TotalChunks
             /\ upload'[u].state = "none" => Stored(u)' = 0
             /\ upload'[u].state = "succeeded" <=> Stored(u)' = TotalChunks
  BY <1>0, <1>3, <1>4 DEF InStep
<1>10. ASSUME pendingUpload # NoUpload
       PROVE  /\ Stored(sending.uploadId)' <= sending.chunkIndex + 1
              /\ ~upload'[sending.uploadId].dropped => Stored(sending.uploadId)' >= sending.chunkIndex
              /\ request' = "ok" /\ ~upload'[sending.uploadId].dropped =>
                   Stored(sending.uploadId)' = sending.chunkIndex + 1
  <2>1. sending.uploadId \in Uploads
    BY <1>8, <1>10
  <2>2. Stored(sending.uploadId)' = Stored(sending.uploadId)
    BY <1>1, <1>3, <2>1 DEF Stored
  <2>3. ~upload'[sending.uploadId].dropped =>
          ~upload[sending.uploadId].dropped /\ ~(Expected(m) /\ m.u = sending.uploadId)
    BY <1>3, <2>1
  <2> QED BY <1>0, <1>7, <1>10, <2>2, <2>3 DEF InStep
<1>11. \A u \in finished : upload'[u].state = "succeeded" \/ upload'[u].dropped
  <2>1. \A u \in finished : u \in Uploads
    BY <1>0 DEF UploadTypes
  <2> QED BY <1>0, <1>3, <2>1 DEF InStep
<1>12. InStep'
  BY <1>0, <1>1, <1>9, <1>10, <1>11 DEF InStep
<1> QED BY <1>5, <1>6, <1>12 DEF UploadInv

LEMMA UploadStep == UploadInv /\ [UploadNext]_uploadVars => UploadInv'
<1> SUFFICES ASSUME UploadInv, [UploadNext]_uploadVars PROVE UploadInv'
  OBVIOUS
<1>1. file \in Files
  BY DEF UploadInv, UploadTypes
<1>2. CASE Retry \/ GivenUp \/ Lost \/ UNCHANGED uploadVars
  BY <1>1, <1>2, WaitsKeep
<1>3. ASSUME NEW f \in Files, Chosen(f) PROVE UploadInv'
  BY <1>3, WaitsKeep
<1>4. ASSUME NEW m \in network, Dropped(m) PROVE UploadInv'
  BY <1>1, <1>4, WaitsKeep
<1>5. ASSUME NEW m \in network, ServerTakes(m) PROVE UploadInv'
  <2>1. CASE Commits(m) /\ Heard(m, "ok") /\ upload' = [upload EXCEPT ![m.u].chunks = Append(upload[m.u].chunks, m.chunk),
           ![m.u].state = IF Len(Append(upload[m.u].chunks, m.chunk)) = TotalChunks THEN "succeeded" ELSE "active"]
    BY <1>5, <2>1, CommitKeeps DEF ServerTakes
  <2>2. CASE Repeats(m) /\ Heard(m, "ok") /\ upload' = upload
    BY <1>5, <2>2, AnswerKeeps DEF ServerTakes
  <2>3. CASE Heard(m, "refused") /\ upload' = upload
    BY <1>5, <2>3, AnswerKeeps DEF ServerTakes
  <2> QED BY <1>5, <2>1, <2>2, <2>3 DEF ServerTakes
<1> QED BY <1>2, <1>3, <1>4, <1>5, RedirectKeeps, SubmittedKeeps, SuccessKeeps, AgainKeeps, StopsKeeps DEF UploadNext

\* For any number of chunks, versions of the file and uploads: an upload is one
\* version from its first chunk to its last and the page is at most one chunk behind
\* the server; unless a chunk of the upload met a host that did not answer it is
\* never ahead, and calls finished only what succeeded, over any loss, retry, late
\* packet and resubmission. [storage_page.js]
THEOREM UploadPageTheorem == UploadSpec => []SentIsStored
<1>1. UploadInv => SentIsStored
  <2> SUFFICES ASSUME UploadInv PROVE SentIsStored
    OBVIOUS
  <2>0. UploadTypes /\ Resumable /\ OneVersion /\ InStep
    BY DEF UploadInv
  <2>1. \A u \in Uploads : DOMAIN upload[u].chunks = 1..Stored(u)
    <3> SUFFICES ASSUME NEW u \in Uploads PROVE DOMAIN upload[u].chunks = 1..Stored(u)
      OBVIOUS
    <3>1. upload[u].chunks \in Seq(Files \X Nat)
      BY <2>0 DEF UploadTypes, Kept
    <3> QED BY <3>1, LenProperties DEF Stored
  <2>2. pendingUpload # NoUpload =>
          /\ Len(upload[pendingUpload.uploadId].chunks) <= pendingUpload.chunkIndex + 1
          /\ ~upload[pendingUpload.uploadId].dropped =>
               pendingUpload.chunkIndex <= Len(upload[pendingUpload.uploadId].chunks)
    BY <2>0, TypedUpload DEF Resumable, InStep, Stored
  <2> QED BY <2>0, <2>1, <2>2 DEF SentIsStored, OneVersion, InStep
<1> QED BY <1>1, UploadInitInv, UploadStep, PTL DEF UploadSpec
-----------------------------------------------------------------------------
(* Proofs: the choices *)

LEMMA ChoicesInitInv == ChoicesInit => ChoicesInv
<1> SUFFICES ASSUME ChoicesInit PROVE ChoicesInv
  OBVIOUS
<1>1. \A l \in Lists : Load(choice[l], TRUE) \in Loads /\ Load(choice[l], TRUE).of = choice[l]
                         /\ ~Load(choice[l], TRUE).answered
  BY DEF ChoicesInit, Load, Loads
<1>2. /\ loads \in [Lists -> SUBSET Loads]
      /\ \A l \in Lists : \A r \in loads[l] : r.of = choice[l] /\ ~r.answered
  <2>1. CASE loads = [l \in Lists |-> {}]
    BY <2>1
  <2>2. CASE loads = [l \in Lists |-> {Load(choice[l], TRUE)}]
    BY <1>1, <2>2
  <2> QED BY <2>1, <2>2 DEF ChoicesInit
<1> QED BY <1>2, PageChoicesAssumption DEF ChoicesInit, ChoicesInv, ShownForChoice

\* A fetch that is started is the only one that is not aborted.
LEMMA LoadPlanKeeps ==
  ASSUME ChoicesInv, NEW h \in Hosts, LoadMigratePlan(h), compute' = h, h \in offered', targets' = "done",
         offered' \subseteq Hosts, UNCHANGED listVars
  PROVE  ChoicesInv'
<1>1. ASSUME NEW p \in plans'
      PROVE  p \in [host : Hosts, aborted : BOOLEAN] /\ (~p.aborted => p.host = h)
  <2>1. CASE p = [host |-> h, aborted |-> FALSE]
    BY <2>1
  <2>2. CASE p \in AbortLoading
    <3>1. PICK q \in plans : p = [q EXCEPT !.aborted = TRUE]
      BY <2>2 DEF AbortLoading
    <3>2. q \in [host : Hosts, aborted : BOOLEAN]
      BY DEF ChoicesInv
    <3> QED BY <3>1, <3>2
  <2> QED BY <1>1, <2>1, <2>2 DEF LoadMigratePlan
<1> QED BY <1>1 DEF ChoicesInv, ShownForChoice, LoadMigratePlan, listVars

LEMMA MigrateKeeps ==
  ASSUME ChoicesInv, MigrateNext
  PROVE  ChoicesInv'
<1>1. CASE TabOpens \/ TargetsFail
  BY <1>1 DEF TabOpens, TargetsFail, ChoicesInv, ShownForChoice, listVars
<1>2. ASSUME NEW full \in SUBSET Hosts, TargetsAnswer(full) PROVE ChoicesInv'
  <2>1. CASE offered' = {}
    BY <1>2, <2>1 DEF TargetsAnswer, ChoicesInv, ShownForChoice, listVars
  <2>2. CASE offered' # {}
    <3>1. compute' \in offered' /\ offered' \subseteq Hosts /\ targets' = "done" /\ LoadMigratePlan(compute')
          /\ UNCHANGED listVars
      BY <1>2, <2>2 DEF TargetsAnswer
    <3> QED BY <3>1, LoadPlanKeeps
  <2> QED BY <2>1, <2>2
<1>3. ASSUME NEW h \in Hosts, ComputeChanges(h) PROVE ChoicesInv'
  <2>1. /\ compute' = h /\ h \in offered' /\ targets' = "done" /\ offered' \subseteq Hosts /\ LoadMigratePlan(h)
        /\ UNCHANGED listVars
    BY <1>3 DEF ComputeChanges, ChoicesInv
  <2> QED BY <2>1, LoadPlanKeeps
<1>4. ASSUME NEW p \in plans, PlanAborts(p) PROVE ChoicesInv'
  BY <1>4 DEF PlanAborts, ChoicesInv, ShownForChoice, listVars
<1>5. ASSUME NEW p \in plans, NEW says \in {"ok", "refused", "failed"}, PlanAnswer(p, says) PROVE ChoicesInv'
  <2>1. p.host = compute /\ compute \in offered /\ targets = "done"
    BY <1>5 DEF PlanAnswer, ChoicesInv
  <2> QED BY <1>5, <2>1 DEF PlanAnswer, ChoicesInv, ShownForChoice, listVars
<1> QED BY <1>1, <1>2, <1>3, <1>4, <1>5 DEF MigrateNext

LEMMA ListsKeep ==
  ASSUME ChoicesInv, ListsNext
  PROVE  ChoicesInv'
<1> USE DEF migrateVars
<1>1. ASSUME NEW l \in Lists, NEW c \in Choices, ListChanges(l, c) PROVE ChoicesInv'
  <2> DEFINE r == Load(c, FALSE)
  <2>1. r \in Loads /\ r.of = c /\ ~r.answered
    BY DEF Load, Loads
  <2>2. /\ AbortRequests(l) \subseteq Loads
        /\ \A q \in AbortRequests(l) : q.aborted
    <3> SUFFICES ASSUME NEW q \in AbortRequests(l)
                 PROVE  q \in Loads /\ q.aborted
      OBVIOUS
    <3>1. PICK o \in loads[l] : q = [o EXCEPT !.aborted = TRUE]
      BY DEF AbortRequests
    <3>2. o \in Loads
      BY DEF ChoicesInv
    <3> QED BY <3>1, <3>2 DEF Loads
  <2>3. loads' = [loads EXCEPT ![l] = AbortRequests(l) \cup {r}]
    BY <1>1 DEF ListChanges
  <2> HIDE DEF r
  <2>4. /\ loads' \in [Lists -> SUBSET Loads]
        /\ \A q \in loads'[l] : ~q.aborted => q.of = c /\ ~q.answered
        /\ \A k \in Lists : k # l => loads'[k] = loads[k]
    BY <2>1, <2>2, <2>3 DEF ChoicesInv
  <2>5. /\ choice' \in [Lists -> Choices] /\ choice'[l] = c /\ (\A k \in Lists : k # l => choice'[k] = choice[k])
        /\ options' \in [Lists -> Choices \cup {None}] /\ options'[l] = None
        /\ \A k \in Lists : k # l => options'[k] = options[k]
    BY <1>1 DEF ListChanges, ChoicesInv
  <2>6. /\ value' \in [Lists -> {"none", "own", "sent", "late"}] /\ (l \notin Pickers => value'[l] = "none")
        /\ \A k \in Lists : k # l => value'[k] = value[k]
    BY <1>1 DEF ListChanges, ChoicesInv
  <2>7. ShownForChoice'
    BY <1>1, <2>5, <2>6 DEF ListChanges, ChoicesInv, ShownForChoice
  <2>8. \A k \in Lists : \A q \in loads'[k] :
          ~q.aborted => q.of = choice'[k] /\ (q.answered => options'[k] = q.of)
    BY <2>4, <2>5 DEF ChoicesInv
  <2> QED BY <1>1, <2>4, <2>5, <2>6, <2>7, <2>8 DEF ListChanges, ChoicesInv
<1>2. ASSUME NEW l \in Lists, NEW r \in loads[l], LoadEnds(l, r)
      PROVE  /\ loads' \in [Lists -> SUBSET Loads]
             /\ \A k \in Lists : loads'[k] \subseteq loads[k]
  BY <1>2 DEF LoadEnds, ChoicesInv
<1>3. ASSUME NEW l \in Lists, NEW r \in loads[l], LoadAborts(l, r) \/ LoadFails(l, r) PROVE ChoicesInv'
  <2>1. LoadEnds(l, r) /\ UNCHANGED <<choice, options, value, migrateVars>>
    BY <1>3 DEF LoadAborts, LoadFails
  <2> QED BY <1>2, <2>1 DEF ChoicesInv, ShownForChoice
<1>4. ASSUME NEW l \in Lists, NEW r \in loads[l], LoadAnswer(l, r) PROVE ChoicesInv'
  <2>1. /\ UNCHANGED <<choice, migrateVars>> /\ r.of = choice[l] /\ r.of \in Choices /\ r \in Loads
        /\ loads' = [loads EXCEPT ![l] = (@ \ {r}) \cup (IF r.restores THEN {[r EXCEPT !.answered = TRUE]} ELSE {})]
    BY <1>4 DEF LoadAnswer, ChoicesInv, Loads
  <2>2. /\ options' \in [Lists -> Choices \cup {None}] /\ options'[l] = choice[l]
        /\ \A k \in Lists : k # l => options'[k] = options[k]
    BY <1>4, <2>1 DEF LoadAnswer, ChoicesInv
  <2>3. /\ value' \in [Lists -> {"none", "own", "sent", "late"}] /\ \A k \in Lists : k # l => value'[k] = value[k]
    BY <1>4 DEF LoadAnswer, ChoicesInv
  <2>4. ShownForChoice'
    BY <2>1, <2>2, <2>3 DEF ChoicesInv, ShownForChoice
  <2>5. [r EXCEPT !.answered = TRUE] \in Loads /\ [r EXCEPT !.answered = TRUE].of = choice[l]
    BY <2>1 DEF Loads
  <2>6. /\ loads' \in [Lists -> SUBSET Loads]
        /\ \A k \in Lists : \A q \in loads'[k] : q \in loads[k] \/ (k = l /\ q.of = choice[l])
    BY <2>1, <2>5 DEF ChoicesInv
  <2>7. \A k \in Lists : \A q \in loads'[k] :
          ~q.aborted => q.of = choice'[k] /\ (q.answered => options'[k] = q.of)
    BY <2>1, <2>2, <2>6 DEF ChoicesInv
  <2> QED BY <2>1, <2>2, <2>3, <2>4, <2>6, <2>7 DEF ChoicesInv
<1>5. ASSUME NEW l \in Lists, NEW r \in loads[l], Restores(l, r) PROVE ChoicesInv'
  <2>1. LoadEnds(l, r) /\ UNCHANGED <<choice, options, migrateVars>> /\ (~r.aborted => options[l] = choice[l])
    BY <1>5 DEF Restores, ChoicesInv
  <2>2. /\ value' \in [Lists -> {"none", "own", "sent", "late"}] /\ \A k \in Lists : k # l => value'[k] = value[k]
        /\ value'[l] = IF r.aborted THEN "late" ELSE "sent"
    BY <1>5 DEF Restores, ChoicesInv
  <2>3. ShownForChoice'
    BY <2>1, <2>2 DEF ChoicesInv, ShownForChoice
  <2> QED BY <1>2, <2>1, <2>2, <2>3 DEF ChoicesInv
<1> QED BY <1>1, <1>3, <1>4, <1>5 DEF ListsNext

\* The Migrate button is enabled only over the checked disks of the chosen
\* destination, and a list shows options or a value only of the choice it depends
\* on, in whatever order the answers come; but for a value that is restored late.
\* [loadMigratePlan, load_list, restore_submitted]
THEOREM ChoicesTheorem == ChoicesSpec => []ShownForChoice
<1>1. ChoicesInit => ChoicesInv
  BY ChoicesInitInv
<1>2. ChoicesInv /\ [MigrateNext \/ ListsNext]_choiceVars => ChoicesInv'
  <2>1. ASSUME ChoicesInv, UNCHANGED choiceVars PROVE ChoicesInv'
    BY <2>1 DEF ChoicesInv, ShownForChoice, choiceVars, migrateVars, listVars
  <2> QED BY <2>1, MigrateKeeps, ListsKeep
<1>3. ChoicesInv => ShownForChoice
  BY DEF ChoicesInv
<1> QED BY <1>1, <1>2, <1>3, PTL DEF ChoicesSpec
=============================================================================
