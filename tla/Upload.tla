------------------------------- MODULE Upload -------------------------------
(***************************************************************************)
(* A chunked ISO upload (storages/upload.py): a job run by its chunk       *)
(* requests, ended by the last of them, by a cancel request or by the      *)
(* worker's housekeeping, on a local, SSH or libvirt-volume target. A      *)
(* request may fail or its process die between any two steps. The session  *)
(* claim excludes the others while a request runs (Claims).                *)
(***************************************************************************)
EXTENDS Naturals, Sequences

CONSTANTS
  Requests,    \* request slots of the panel
  Keeper,      \* the worker's housekeeping
  Setups,      \* pairs of a kind of target ("local", "ssh", "volume") and of what
               \* others may do to it once ("create", "lose", "compute", "nothing")
  Chunks,      \* params.chunks
  Size,        \* params.size
  Sizes,       \* chunk sizes a client may send
  MaxArrivals, \* bound on the chunk and cancel requests
  MaxFaults    \* bound on the failures of a request

Actors == Requests \cup {Keeper}
Nobody == "nobody"

ASSUME UploadAssumption ==
  /\ Chunks \in Nat \ {0} /\ Size \in Nat \ {0} /\ Sizes \subseteq Nat
  /\ MaxArrivals \in Nat /\ MaxFaults \in Nat
  /\ Setups \subseteq {"local", "ssh", "volume"} \X {"create", "lose", "compute", "nothing"}
  /\ Keeper \notin Requests /\ Nobody \notin Actors

VARIABLES
  setup,       \* the connection's type decides the target (_target)
  row,         \* the Operation row; idle: heartbeat_at is older than IDLE_SECONDS
  part, final, \* the part file, and the file or volume of the image's name
  compute,     \* the Compute row exists
  session,     \* who holds the session claim
  pc, arg,     \* Actors -> the step it is at, and its request
  op,          \* Actors -> the row as it last read or wrote it
  out,         \* Actors -> the outcome it is about to write
  fresh,       \* Actors -> the target is to be made
  sent,        \* the data of the committed chunks
  acked,       \* chunks the client was told are in
  meddled, arrivals, faults

files == <<setup, part, final, compute, meddled>>
local == <<pc, arg, op, out, fresh>>
vars == <<row, files, session, local, sent, acked, arrivals, faults>>

ACTIVE == {"running", "cancelling"}
TERMINAL == {"succeeded", "failed", "cancelled"}
NoFile == [by |-> "none", data |-> <<>>]
Foreign == [by |-> "other", data |-> <<>>]
NoRow == [state |-> "none", cancel |-> FALSE, chunk |-> 0, created |-> FALSE, done |-> 0, idle |-> FALSE]
NoArg == [kind |-> "none", i |-> 0, n |-> 0]

Target == setup[1]

Init ==
  /\ setup \in Setups
  /\ row = NoRow
  /\ part = NoFile /\ final = NoFile /\ compute = TRUE
  /\ session = Nobody
  /\ pc = [a \in Actors |-> "none"]
  /\ arg = [a \in Actors |-> NoArg]
  /\ op = [a \in Actors |-> NoRow]
  /\ out = [a \in Actors |-> "none"]
  /\ fresh = [a \in Actors |-> FALSE]
  /\ sent = <<>> /\ acked = {}
  /\ meddled = FALSE /\ arrivals = 0 /\ faults = 0

-----------------------------------------------------------------------------
(* Requests *)

Goto(a, to) == pc' = [pc EXCEPT ![a] = to]

\* The request answers or raises, and its block releases the session.
Leave(a) ==
  /\ pc' = [pc EXCEPT ![a] = "none"]
  /\ arg' = [arg EXCEPT ![a] = NoArg]
  /\ op' = [op EXCEPT ![a] = NoRow]
  /\ out' = [out EXCEPT ![a] = "none"]
  /\ fresh' = [fresh EXCEPT ![a] = FALSE]
  /\ session' = IF session = a THEN Nobody ELSE session

\* write_chunk until its block: the first chunk submits the job (UploadVolume.plan
\* refuses a name the pool has), or finds it.
ChunkArrives(a, i, n) ==
  /\ pc[a] = "none" /\ arrivals < MaxArrivals /\ compute
  /\ row.state = "none" => i = 0 /\ final = NoFile
  /\ row' = IF row.state = "none" THEN [NoRow EXCEPT !.state = "running"] ELSE row
  /\ arg' = [arg EXCEPT ![a] = [kind |-> "chunk", i |-> i, n |-> n]]
  /\ Goto(a, "hold")
  /\ arrivals' = arrivals + 1
  /\ UNCHANGED <<files, session, op, out, fresh, sent, acked, faults>>

\* jobs.cancel, which then calls UploadVolume.cancel.
CancelArrives(a) ==
  /\ pc[a] = "none" /\ arrivals < MaxArrivals
  /\ row.state \in ACTIVE
  /\ row' = [row EXCEPT !.state = "cancelling", !.cancel = TRUE]
  /\ arg' = [arg EXCEPT ![a] = [NoArg EXCEPT !.kind = "cancel"]]
  /\ Goto(a, "hold")
  /\ arrivals' = arrivals + 1
  /\ UNCHANGED <<files, session, op, out, fresh, sent, acked, faults>>

\* housekeeping calls UploadVolume.expire.
ExpireArrives ==
  /\ pc[Keeper] = "none"
  /\ row.state \in ACTIVE
  /\ arg' = [arg EXCEPT ![Keeper] = [NoArg EXCEPT !.kind = "expire"]]
  /\ Goto(Keeper, "hold")
  /\ UNCHANGED <<row, files, session, op, out, fresh, sent, acked, arrivals, faults>>

HoldSession(a) ==
  /\ pc[a] = "hold" /\ session = Nobody
  /\ session' = a
  /\ Goto(a, "refresh")
  /\ UNCHANGED <<row, files, arg, op, out, fresh, sent, acked, arrivals, faults>>

\* Busy: the client retries; end leaves it to whoever holds the session.
Busy(a) ==
  /\ pc[a] = "hold" /\ session # Nobody
  /\ Leave(a)
  /\ UNCHANGED <<row, files, sent, acked, arrivals, faults>>

Refresh(a) ==
  /\ pc[a] = "refresh"
  /\ op' = [op EXCEPT ![a] = row]
  /\ Goto(a, "decide")
  /\ UNCHANGED <<row, files, session, arg, out, fresh, sent, acked, arrivals, faults>>

Last(a) == arg[a].i = Chunks - 1

\* Mutant: the job ends and nothing is deleted.
EndWithout(a, outcome) ==
  /\ out' = [out EXCEPT ![a] = outcome]
  /\ Goto(a, "finish")
  /\ UNCHANGED <<row, files, session, arg, op, fresh, sent, acked, arrivals, faults>>

\* _end: what the upload created goes first.
EndWith(a, outcome) ==
  /\ out' = [out EXCEPT ![a] = outcome]
  /\ Goto(a, IF op[a].created THEN "remove" ELSE "finish")
  /\ UNCHANGED <<row, files, session, arg, op, fresh, sent, acked, arrivals, faults>>
-----------------------------------------------------------------------------
(* The chunk *)

\* A cancel comes too late once every chunk is in.
Cancelled(o) == o.cancel /\ o.chunk < Chunks

\* Mutant: a retry of the last chunk is answered like any other.
RepeatedLast(a) ==
  LET o == op[a]
  IN  /\ pc[a] = "decide" /\ arg[a].kind = "chunk"
      /\ \/ o.state = "succeeded" /\ Last(a)
         \/ o.state \in ACTIVE /\ ~Cancelled(o) /\ arg[a].i < o.chunk
      /\ acked' = acked \cup {arg[a].i}
      /\ Leave(a)
      /\ UNCHANGED <<row, files, sent, arrivals, faults>>

\* A retry of a committed chunk, or of one whose answer was lost.
Repeated(a) ==
  LET o == op[a]
  IN  /\ pc[a] = "decide" /\ arg[a].kind = "chunk"
      /\ \/ o.state = "succeeded" /\ Last(a)
         \/ /\ o.state \in ACTIVE /\ ~Cancelled(o)
            /\ arg[a].i < o.chunk
            /\ ~(Last(a) /\ o.chunk = Chunks)
      /\ acked' = acked \cup {arg[a].i}
      /\ Leave(a)
      /\ UNCHANGED <<row, files, sent, arrivals, faults>>

\* Mutant: the last chunk may leave the image short.
FitsLoosely(a) == arg[a].n > 0 /\ op[a].done + arg[a].n <= Size
\* A chunk is not empty, and the last one makes the declared size.
Fits(a) ==
  LET end == op[a].done + arg[a].n
  IN  arg[a].n > 0 /\ end <= Size /\ (Last(a) => end = Size)

\* The upload has ended, a chunk is missing before this one, or its size is wrong.
Refused(a) ==
  LET o == op[a]
  IN  /\ pc[a] = "decide" /\ arg[a].kind = "chunk"
      /\ \/ o.state \notin ACTIVE /\ ~(o.state = "succeeded" /\ Last(a))
         \/ /\ o.state \in ACTIVE /\ ~Cancelled(o)
            /\ \/ arg[a].i > o.chunk
               \/ arg[a].i = o.chunk /\ ~o.idle /\ ~Fits(a)
      /\ Leave(a)
      /\ UNCHANGED <<row, files, sent, acked, arrivals, faults>>

\* A cancel, or an upload idle for too long, ends with this chunk.
Stops(a) ==
  LET o == op[a]
  IN  /\ pc[a] = "decide" /\ arg[a].kind = "chunk" /\ o.state \in ACTIVE
      /\ \/ Cancelled(o) /\ EndWith(a, "cancelled")
         \/ ~Cancelled(o) /\ arg[a].i = o.chunk /\ o.idle /\ EndWith(a, "failed")

\* Every chunk is in: the last request died before the rename.
Resumes(a) ==
  LET o == op[a]
  IN  /\ pc[a] = "decide" /\ arg[a].kind = "chunk" /\ o.state \in ACTIVE
      /\ Last(a) /\ o.chunk = Chunks
      /\ Goto(a, "complete")
      /\ UNCHANGED <<row, files, session, arg, op, out, fresh, sent, acked, arrivals, faults>>

Present == IF Target = "volume" THEN final # NoFile ELSE part # NoFile

\* The target is new unless the row and the host agree that it is there.
Place(a) ==
  LET o == op[a]
      new == ~(o.created /\ Present)
  IN  /\ pc[a] = "decide" /\ arg[a].kind = "chunk" /\ o.state \in ACTIVE
      /\ ~Cancelled(o) /\ arg[a].i = o.chunk /\ ~o.idle /\ Fits(a)
      /\ fresh' = [fresh EXCEPT ![a] = new]
      /\ out' = [out EXCEPT ![a] = IF new /\ o.done > 0 THEN "failed" ELSE @]
      /\ Goto(a, IF new /\ o.done > 0 THEN "finish" ELSE "create")
      /\ UNCHANGED <<row, files, session, arg, op, sent, acked, arrivals, faults>>

\* Mutant: the row says that something was created only with the first commit.
CreateLate(a) ==
  /\ pc[a] = "create"
  /\ Goto(a, "write")
  /\ UNCHANGED <<row, files, session, arg, op, out, fresh, sent, acked, arrivals, faults>>

\* The row says so before anything is created on the host.
Create(a) ==
  /\ pc[a] = "create"
  /\ row' = [row EXCEPT !.created = TRUE]
  /\ op' = [op EXCEPT ![a].created = TRUE]
  /\ Goto(a, "write")
  /\ UNCHANGED <<files, session, arg, out, fresh, sent, acked, arrivals, faults>>

\* Mutant: a retry writes after what an interrupted write left.
WrittenAppending(a, m) ==
  LET piece == [k \in 1..m |-> arg[a].i]
      base == IF fresh[a] THEN <<>> ELSE part.data
  IN  [by |-> "us", data |-> base \o piece]

\* The file after m units of the chunk: cut to the committed offset, then written;
\* a volume has its size from the start.
Written(a, m) ==
  LET piece == [k \in 1..m |-> arg[a].i]
      offset == op[a].done
      old == IF fresh[a] THEN [k \in 1..Size |-> Chunks] ELSE final.data
      all == [k \in 1..Size |->
               IF k > offset /\ k <= offset + m THEN arg[a].i
               ELSE IF k <= Len(old) THEN old[k] ELSE Chunks]
  IN  IF Target = "volume" THEN [by |-> IF fresh[a] THEN "us" ELSE final.by, data |-> all]
      ELSE [by |-> "us", data |-> (IF fresh[a] THEN <<>> ELSE SubSeq(part.data, 1, offset)) \o piece]

\* createXML and O_EXCL refuse a name that is there; "r+b" one that is not.
Writable(a) ==
  /\ fresh[a] /\ Target # "ssh" => ~Present
  /\ ~fresh[a] => Present

PutFile(f) ==
  /\ part' = IF Target = "volume" THEN part ELSE f
  /\ final' = IF Target = "volume" THEN f ELSE final
  /\ UNCHANGED <<setup, compute, meddled>>

Write(a) ==
  /\ pc[a] = "write" /\ Writable(a)
  /\ PutFile(Written(a, arg[a].n))
  /\ Goto(a, "commit")
  /\ UNCHANGED <<row, session, arg, op, out, fresh, sent, acked, arrivals, faults>>

\* The write ends in the middle: an error, or the process dies.
WriteTorn(a, m) ==
  /\ pc[a] = "write" /\ Writable(a) /\ faults < MaxFaults
  /\ m < arg[a].n
  /\ PutFile(Written(a, m))
  /\ Leave(a)
  /\ faults' = faults + 1
  /\ UNCHANGED <<row, sent, acked, arrivals>>

WriteRefused(a) ==
  /\ pc[a] = "write" /\ ~Writable(a)
  /\ Leave(a)
  /\ UNCHANGED <<row, files, sent, acked, arrivals, faults>>

Commit(a) ==
  LET committed == [row EXCEPT !.chunk = op[a].chunk + 1, !.created = TRUE,
                               !.done = op[a].done + arg[a].n, !.idle = FALSE]
  IN  /\ pc[a] = "commit"
      /\ row' = committed
      /\ op' = [op EXCEPT ![a] = committed]
      /\ sent' = sent \o [k \in 1..arg[a].n |-> arg[a].i]
      /\ Goto(a, IF Last(a) THEN "complete" ELSE "recheck")
      /\ UNCHANGED <<files, session, arg, out, fresh, acked, arrivals, faults>>

\* A cancel that came during the write found this request holding the upload.
Recheck(a) ==
  /\ pc[a] = "recheck"
  /\ \/ row.cancel /\ EndWith(a, "cancelled")
     \/ /\ ~row.cancel
        /\ acked' = acked \cup {arg[a].i}
        /\ Leave(a)
        /\ UNCHANGED <<row, files, sent, arrivals, faults>>
-----------------------------------------------------------------------------
(* The end *)

\* Mutant: expiry looks only at the heartbeat of its list, not at the fresh row.
EndingAnyway(a) == op[a].state \in ACTIVE
\* Mutant: expiry leaves an upload that is being cancelled to its cancel request.
EndingRunning(a) == op[a].state = "running" /\ (arg[a].kind = "expire" => op[a].idle)
\* end goes on: the row is still active, and still idle if that is why.
Ending(a) == op[a].state \in ACTIVE /\ (arg[a].kind = "expire" => op[a].idle)

EndDecides(a) ==
  LET o == op[a]
      outcome == IF o.cancel \/ arg[a].kind = "cancel" THEN "cancelled" ELSE "failed"
  IN  /\ pc[a] = "decide" /\ arg[a].kind \in {"cancel", "expire"}
      /\ Ending(a)
      /\ out' = [out EXCEPT ![a] = IF o.created /\ ~compute THEN "failed" ELSE outcome]
      /\ Goto(a, IF ~o.created \/ ~compute THEN "finish"
                 ELSE IF o.chunk = Chunks THEN "complete" ELSE "remove")
      /\ UNCHANGED <<row, files, session, arg, op, fresh, sent, acked, arrivals, faults>>

EndLeaves(a) ==
  /\ pc[a] = "decide" /\ arg[a].kind \in {"cancel", "expire"}
  /\ ~Ending(a)
  /\ Leave(a)
  /\ UNCHANGED <<row, files, sent, acked, arrivals, faults>>

\* Mutant: the rename replaces what has the name.
TakenNever == FALSE
\* Another file has the image's name; for a local pool the part file's own link is not one.
Taken == final.by = "other" \/ (Target = "ssh" /\ final.by = "us")

\* _complete, and target.finalize: link and unlink, rename without replacing,
\* or nothing. Without a part file the image must be there.
Complete(a) ==
  /\ pc[a] = "complete"
  /\ \/ /\ Present /\ Target = "local" /\ ~Taken
        /\ final' = part
        /\ Goto(a, "unlink")
        /\ UNCHANGED <<part, out>>
     \/ /\ Present /\ Target = "ssh" /\ ~Taken
        /\ final' = part /\ part' = NoFile
        /\ out' = [out EXCEPT ![a] = "succeeded"]
        /\ Goto(a, "finish")
     \/ /\ Present /\ Target # "volume" /\ Taken
        /\ out' = [out EXCEPT ![a] = "failed"]
        /\ Goto(a, "remove")
        /\ UNCHANGED <<part, final>>
     \/ /\ Target = "volume" \/ ~Present
        /\ out' = [out EXCEPT ![a] = IF final # NoFile THEN "succeeded" ELSE "failed"]
        /\ Goto(a, "finish")
        /\ UNCHANGED <<part, final>>
  /\ UNCHANGED <<row, setup, compute, meddled, session, arg, op, fresh, sent, acked, arrivals, faults>>

\* The unlink of the part file may fail; the image is complete either way.
Unlink(a) ==
  /\ pc[a] = "unlink"
  /\ part' \in {part, NoFile}
  /\ out' = [out EXCEPT ![a] = "succeeded"]
  /\ Goto(a, "finish")
  /\ UNCHANGED <<row, setup, final, compute, meddled, session, arg, op, fresh, sent, acked, arrivals, faults>>

Remove(a) ==
  /\ pc[a] = "remove"
  /\ PutFile(NoFile)
  /\ Goto(a, "finish")
  /\ UNCHANGED <<row, session, arg, op, out, fresh, sent, acked, arrivals, faults>>

\* jobs.finish, and the answer.
Finish(a) ==
  /\ pc[a] = "finish"
  /\ row' = IF row.state \in ACTIVE THEN [row EXCEPT !.state = out[a]] ELSE row
  /\ acked' = IF arg[a].kind = "chunk" /\ out[a] = "succeeded" THEN acked \cup {arg[a].i} ELSE acked
  /\ Leave(a)
  /\ UNCHANGED <<files, sent, arrivals, faults>>

-----------------------------------------------------------------------------
(* Failures, and others *)

InBlock(a) == pc[a] \notin {"none", "hold"}

\* A database or host error ends the request.
Fail(a) ==
  /\ InBlock(a) /\ faults < MaxFaults
  /\ Leave(a)
  /\ faults' = faults + 1
  /\ UNCHANGED <<row, files, sent, acked, arrivals>>

\* Its process dies: the session claim stays until it is found gone or expires.
Die(a) ==
  /\ InBlock(a) /\ faults < MaxFaults
  /\ faults' = faults + 1
  /\ pc' = [pc EXCEPT ![a] = "none"]
  /\ arg' = [arg EXCEPT ![a] = NoArg]
  /\ op' = [op EXCEPT ![a] = NoRow]
  /\ out' = [out EXCEPT ![a] = "none"]
  /\ fresh' = [fresh EXCEPT ![a] = FALSE]
  /\ UNCHANGED <<row, files, session, sent, acked, arrivals>>

SessionEnds ==
  /\ session # Nobody
  /\ pc[session] \in {"none", "hold"}
  /\ session' = Nobody
  /\ UNCHANGED <<row, files, local, sent, acked, arrivals, faults>>

\* An hour without a chunk.
TurnIdle ==
  /\ row.state \in ACTIVE /\ ~row.idle
  /\ row' = [row EXCEPT !.idle = TRUE]
  /\ UNCHANGED <<files, session, local, sent, acked, arrivals, faults>>

\* Others put a file of the image's name into the pool, delete what the upload
\* wrote, or delete the compute's record.
Meddle ==
  /\ ~meddled /\ row.state \in ACTIVE
  /\ meddled' = TRUE
  /\ \/ setup[2] = "create" /\ final = NoFile /\ final' = Foreign /\ UNCHANGED <<part, compute>>
     \/ /\ setup[2] = "lose" /\ Present
        /\ Target = "volume" => row.chunk < Chunks
        /\ part' = NoFile /\ final' = IF Target = "volume" THEN NoFile ELSE final
        /\ compute' = compute
     \/ setup[2] = "compute" /\ compute' = FALSE /\ UNCHANGED <<part, final>>
  /\ UNCHANGED <<setup, row, session, local, sent, acked, arrivals, faults>>

Step(a) ==
  \/ HoldSession(a) \/ Busy(a) \/ Refresh(a)
  \/ Repeated(a) \/ Refused(a) \/ Stops(a) \/ Resumes(a) \/ Place(a) \/ Create(a)
  \/ Write(a) \/ WriteRefused(a) \/ Commit(a) \/ Recheck(a)
  \/ EndDecides(a) \/ EndLeaves(a) \/ Complete(a) \/ Unlink(a) \/ Remove(a) \/ Finish(a)

Next ==
  \/ \E a \in Requests : CancelArrives(a) \/ \E i \in 0..Chunks - 1, n \in Sizes : ChunkArrives(a, i, n)
  \/ ExpireArrives
  \/ \E a \in Actors : Step(a) \/ Fail(a) \/ Die(a) \/ \E m \in 0..Size : WriteTorn(a, m)
  \/ SessionEnds \/ TurnIdle \/ Meddle

Spec == Init /\ [][Next]_vars

\* Requests run on, housekeeping comes back, a dead request's claim expires and
\* an hour passes.
Fairness ==
  /\ \A a \in Actors : WF_vars(Step(a))
  /\ WF_vars(ExpireArrives) /\ WF_vars(SessionEnds) /\ WF_vars(TurnIdle)
LiveSpec == Spec /\ Fairness

-----------------------------------------------------------------------------
(* Properties *)

\* An upload that succeeded stored the chunks it committed, each once, in
\* order, of the declared size: over retries, torn writes, failures between any
\* two steps, cancels and expiry. An image of others that it takes for its own is
\* OwnImage's matter. [write_chunk, _complete, target.write]
StoredIsSent ==
  row.state = "succeeded" /\ final.by # "other" =>
    /\ final.by = "us" /\ final.data = sent
    /\ Len(sent) = Size

\* An upload whose name was taken meanwhile fails: what it reports as stored is
\* its own. [_complete: "a name taken meanwhile, or an image gone, fails the upload"]
OwnImage == row.state = "succeeded" => final.by # "other"

\* What the client was told is in stays in: no later retry or crash takes a
\* committed chunk back, and the answer to the last one means success. [write_chunk]
AckedIsKept ==
  \A i \in acked : i < row.chunk /\ (i = Chunks - 1 => row.state = "succeeded")

\* A failed or cancelled upload leaves nothing of its own on the host, whoever
\* ended it and wherever its requests died, unless the compute's record is gone
\* and nobody can look. [end, _end, intent "created" before the write]
NothingLeft ==
  row.state \in {"failed", "cancelled"} /\ compute => part = NoFile /\ final.by # "us"

\* An image that others put under the name is neither overwritten nor deleted.
\* [_complete, "Delete what the upload made" of end]
ForeignKept == [][final.by = "other" => final' = final]_vars

\* An upload whose every chunk is in is never cancelled, and one that is not
\* idle any more never expires. [end, write_chunk]
EndsForCause ==
  [][row.state \in ACTIVE /\ row'.state # row.state =>
       /\ row'.state = "cancelled" => row.chunk < Chunks /\ row.cancel
       /\ row'.state = "succeeded" => row.chunk = Chunks
       /\ pc[Keeper] = "finish" /\ pc'[Keeper] # "finish" => row.idle]_vars

\* Every upload ends, also one whose client went away or whose requests died.
\* [worker.housekeeping, UploadVolume.expire]
UploadEnds == row.state \in ACTIVE ~> row.state \in TERMINAL
=============================================================================
