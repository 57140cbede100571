----------------------------- MODULE PageUpload -----------------------------
(***************************************************************************)
(* The browser's side of an ISO upload (static/js/storage_page.js): chunks *)
(* in turn, retries with a growing delay, and a second submission of the   *)
(* form that goes on where the first one stopped.  The server's side is    *)
(* what Upload shows of it, one step per request: a chunk is committed     *)
(* once and in turn.  A request or its answer may be lost, and a request   *)
(* that the browser gave up may still reach the server.                    *)
(***************************************************************************)
EXTENDS Naturals, Sequences

CONSTANTS
  Files,        \* versions of one image: one name and size, different lastModified
  TotalChunks,
  MaxUploads    \* bound on the upload ids

ASSUME PageUploadAssumption == TotalChunks \in Nat \ {0} /\ MaxUploads \in Nat

VARIABLES
  file,             \* fileInput.files[0]
  pendingUpload,    \* its signature, chunkIndex and uploadId, or none
  uploadInProgress, retryCount,
  sending,          \* the submission's file, chunkIndex and uploadId
  request,          \* "none", "out", "delay", or the answer
  network,          \* chunks on their way to the server
  upload,           \* the server: uploadId -> its job's state and committed chunks;
                    \* dropped: a chunk the page was told is in met no host (a history)
  finished          \* the uploads whose last chunk the page was told is in

browserVars == <<file, pendingUpload, uploadInProgress, retryCount, sending, request, finished>>
uploadVars == <<browserVars, network, upload>>

Uploads == 1..MaxUploads
MaxRetries == 3
NoUpload == [signature |-> "none", chunkIndex |-> 0, uploadId |-> 0]

UploadInit ==
  /\ file \in Files
  /\ pendingUpload = NoUpload /\ sending = NoUpload
  /\ uploadInProgress = FALSE /\ retryCount = 0 /\ request = "none"
  /\ network = {}
  /\ upload = [u \in Uploads |-> [state |-> "none", chunks |-> <<>>, dropped |-> FALSE]]
  /\ finished = {}

\* Mutant: the signature of a file is its name and size.
SameNamed == pendingUpload # NoUpload
\* The form goes on with an upload that stopped: the same name, size and lastModified.
SameFile == pendingUpload # NoUpload /\ pendingUpload.signature = file

Chosen(f) ==
  /\ ~uploadInProgress /\ f # file
  /\ file' = f
  /\ UNCHANGED <<pendingUpload, uploadInProgress, retryCount, sending, request, finished, network, upload>>

\* uploadChunk
UploadChunk(s) ==
  /\ request' = "out"
  /\ network' = network \cup {[u |-> s.uploadId, chunk |-> <<s.signature, s.chunkIndex>>]}

\* The form's submit handler.
Submitted ==
  LET p == IF SameFile THEN pendingUpload
           ELSE [signature |-> file, chunkIndex |-> 0, uploadId |-> sending.uploadId + 1]
  IN  /\ ~uploadInProgress /\ p.uploadId \in Uploads
      /\ pendingUpload' = p
      /\ sending' = [p EXCEPT !.signature = file]
      /\ retryCount' = 0 /\ uploadInProgress' = TRUE
      /\ UploadChunk(sending')
      /\ UNCHANGED <<file, finished, upload>>

Success ==
  LET k == sending.chunkIndex + 1
  IN  /\ request = "ok"
      /\ retryCount' = 0
      /\ sending' = [sending EXCEPT !.chunkIndex = k]
      /\ IF k < TotalChunks
         THEN /\ pendingUpload' = [pendingUpload EXCEPT !.chunkIndex = k]
              /\ UploadChunk(sending')
              /\ UNCHANGED <<uploadInProgress, finished>>
         ELSE /\ pendingUpload' = NoUpload /\ uploadInProgress' = FALSE /\ request' = "none"
              /\ finished' = finished \cup {sending.uploadId}
              /\ UNCHANGED network
      /\ UNCHANGED <<file, upload>>

\* Status 0, 429 or 5xx: again after 1, 2 and 4 s.
Retry ==
  /\ request = "lost" /\ retryCount < MaxRetries
  /\ retryCount' = retryCount + 1
  /\ request' = "delay"
  /\ UNCHANGED <<file, pendingUpload, uploadInProgress, sending, finished, network, upload>>

Again ==
  /\ request = "delay"
  /\ UploadChunk(sending)
  /\ UNCHANGED <<file, pendingUpload, uploadInProgress, retryCount, sending, finished, upload>>

\* Given up; another 4xx ends what could be resumed.
GivenUp ==
  /\ request = "refused" \/ (request = "lost" /\ retryCount = MaxRetries)
  /\ uploadInProgress' = FALSE /\ request' = "none"
  /\ pendingUpload' = IF request = "refused" THEN NoUpload ELSE pendingUpload
  /\ UNCHANGED <<file, retryCount, sending, finished, network, upload>>

-----------------------------------------------------------------------------
(* The server and the network *)

\* Another upload of the name holds its claim, or the image is there.
NameTaken(u) == \E v \in Uploads \ {u} : upload[v].state \in {"active", "succeeded"}

\* The chunk is the next one: it is committed, and the last one ends the upload.
Commits(m) ==
  /\ IF upload[m.u].state = "none" THEN m.chunk[2] = 0 /\ ~NameTaken(m.u)
     ELSE upload[m.u].state = "active"
  /\ m.chunk[2] = Len(upload[m.u].chunks)

\* The answer to a chunk that is in.
Repeats(m) ==
  \/ upload[m.u].state = "active" /\ m.chunk[2] < Len(upload[m.u].chunks)
  \/ upload[m.u].state = "succeeded" /\ m.chunk[2] = TotalChunks - 1

\* The browser waits for the answer to this request, and hears it.
Expected(m) == request = "out" /\ m = [u |-> sending.uploadId, chunk |-> <<sending.signature, sending.chunkIndex>>]
Heard(m, answer) == request' = IF Expected(m) THEN answer ELSE request

Unheard == UNCHANGED <<file, pendingUpload, uploadInProgress, retryCount, sending, finished>>

\* Mutant: a chunk out of turn is acknowledged.
ServerTakesAny(m) ==
  /\ network' = network \ {m}
  /\ \/ /\ Commits(m)
        /\ LET chunks == Append(upload[m.u].chunks, m.chunk)
           IN  upload' = [upload EXCEPT ![m.u].chunks = chunks,
                 ![m.u].state = IF Len(chunks) = TotalChunks THEN "succeeded" ELSE "active"]
     \/ ~Commits(m) /\ UNCHANGED upload
  /\ Heard(m, "ok") /\ Unheard

\* _handle_iso_upload, write_chunk
ServerTakes(m) ==
  /\ network' = network \ {m}
  /\ \/ /\ Commits(m)
        /\ LET chunks == Append(upload[m.u].chunks, m.chunk)
           IN  upload' = [upload EXCEPT ![m.u].chunks = chunks,
                 ![m.u].state = IF Len(chunks) = TotalChunks THEN "succeeded" ELSE "active"]
        /\ Heard(m, "ok")
     \/ Repeats(m) /\ Heard(m, "ok") /\ UNCHANGED upload
     \/ ~Commits(m) /\ ~Repeats(m) /\ Heard(m, "refused") /\ UNCHANGED upload
  /\ Unheard

\* views.storage: the host does not answer, or has no such pool. The chunk is
\* dropped and the request redirected to the list of pools, which the browser
\* fetches: a page with status 200, a success to the handler.
Redirected(m) ==
  /\ network' = network \ {m}
  /\ Heard(m, "ok")
  /\ upload' = [upload EXCEPT ![m.u].dropped = @ \/ Expected(m)]
  /\ Unheard

\* The answer is 429 or a 5xx, or none comes; the chunk may still arrive.
Lost ==
  /\ request \in {"out", "ok", "refused"}
  /\ request' = "lost"
  /\ Unheard /\ UNCHANGED <<network, upload>>

Dropped(m) == network' = network \ {m} /\ UNCHANGED <<browserVars, upload>>

\* A cancel, or an hour without a chunk.
UploadStops(u) ==
  /\ upload[u].state = "active"
  /\ upload' = [upload EXCEPT ![u].state = "ended"]
  /\ UNCHANGED <<browserVars, network>>

UploadNext ==
  \/ \E f \in Files : Chosen(f)
  \/ Submitted \/ Success \/ Retry \/ Again \/ GivenUp \/ Lost
  \/ \E m \in network : ServerTakes(m) \/ Redirected(m) \/ Dropped(m)
  \/ \E u \in Uploads : UploadStops(u)

UploadSpec == UploadInit /\ [][UploadNext]_uploadVars

-----------------------------------------------------------------------------

\* An upload is one version of the file from its first chunk to its last, over
\* retries, resubmissions and another choice between them; the page sends at most
\* one chunk again. Of an upload no chunk of which met a host that does not answer
\* it never counts a chunk as sent that the server does not have, and calls it
\* finished only when it succeeded. One whose chunk was dropped by such a host is
\* the code's exception: the page takes the redirect for the chunk's receipt.
\* [storage_page.js pendingUpload, success, error; write_chunk]
SentIsStored ==
  /\ \A u \in Uploads : \A k \in DOMAIN upload[u].chunks :
       upload[u].chunks[k] = <<upload[u].chunks[1][1], k - 1>>
  /\ pendingUpload # NoUpload =>
       LET mine == upload[pendingUpload.uploadId]
       IN  /\ Len(mine.chunks) <= pendingUpload.chunkIndex + 1
           /\ ~mine.dropped => pendingUpload.chunkIndex <= Len(mine.chunks)
  /\ \A u \in finished : upload[u].state = "succeeded" \/ upload[u].dropped
=============================================================================
