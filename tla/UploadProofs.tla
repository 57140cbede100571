---------------------------- MODULE UploadProofs ----------------------------
(***************************************************************************)
(* Proofs about the chunked upload, for any number of request slots, any   *)
(* kind of target, any size and number of chunks and any bounds. Inv is    *)
(* inductive: only the holder of the session claim is inside its block, so *)
(* what it read stays true of the row, and the file on the host begins     *)
(* with the committed chunks whatever was torn after them.                 *)
(***************************************************************************)
EXTENDS Upload, TLAPS, SequenceTheorems

Steps == {"none", "hold", "refresh", "decide", "create", "write", "commit", "recheck",
          "complete", "unlink", "remove", "finish"}
Kinds == {"none", "chunk", "cancel", "expire"}
States == {"none"} \cup ACTIVE \cup TERMINAL
Rows == [state : States, cancel : BOOLEAN, chunk : Nat, created : BOOLEAN, done : Nat, idle : BOOLEAN]
Args == [kind : Kinds, i : Nat, n : Nat]
Files == [by : {"none", "us", "other"}, data : Seq(Nat)]

TypeOK ==
  /\ setup \in Setups
  /\ row \in Rows
  /\ part \in Files /\ final \in Files
  /\ compute \in BOOLEAN /\ meddled \in BOOLEAN
  /\ session \in Actors \cup {Nobody}
  /\ pc \in [Actors -> Steps]
  /\ arg \in [Actors -> Args]
  /\ op \in [Actors -> Rows]
  /\ out \in [Actors -> {"none"} \cup TERMINAL]
  /\ fresh \in [Actors -> BOOLEAN]
  /\ sent \in Seq(Nat)
  /\ acked \subseteq Nat
  /\ arrivals \in Nat /\ faults \in Nat

\* Only the holder of the session claim is inside its block.
Held == \A a \in Actors : InBlock(a) => session = a

\* Before its first chunk there is no job, no request and no file.
Begun ==
  row.state = "none" =>
    /\ row = NoRow /\ part = NoFile /\ final = NoFile /\ sent = <<>> /\ acked = {}
    /\ \A a \in Actors : pc[a] = "none"

\* What an actor came for, and the steps that only a chunk takes.
Errand(a) ==
  /\ pc[a] # "none" => arg[a].kind # "none"
  /\ arg[a].i < Chunks
  /\ arg[a].kind = "cancel" => row.cancel
  /\ arg[a].kind = "expire" <=> a = Keeper /\ pc[a] # "none"
  /\ pc[a] \in {"create", "write", "commit", "recheck"} => arg[a].kind = "chunk"

\* After its refresh an actor's row differs from the table's only by a cancel or
\* an hour that came since.
Informed(a) ==
  pc[a] \notin {"none", "hold", "refresh"} =>
    /\ op[a].chunk = row.chunk /\ op[a].done = row.done /\ (op[a].created <=> row.created)
    /\ op[a].state \in ACTIVE <=> row.state \in ACTIVE
    /\ op[a].state \notin ACTIVE => op[a].state = row.state
    /\ op[a].cancel => row.cancel
    /\ op[a].idle => row.idle

\* The steps of a request and the row they are taken on.
Working(a) ==
  /\ pc[a] \notin {"none", "hold", "refresh", "decide"} => row.state \in ACTIVE
  /\ pc[a] \in {"create", "write", "commit"} =>
       /\ arg[a].i = row.chunk /\ Fits(a)
       /\ fresh[a] => row.done = 0
  /\ pc[a] \in {"write", "commit"} => row.created
  /\ pc[a] = "recheck" => arg[a].i + 1 = row.chunk /\ row.chunk < Chunks
  /\ pc[a] \in {"complete", "unlink"} => row.chunk = Chunks
  /\ a = Keeper /\ pc[a] \in {"complete", "unlink", "remove", "finish"} => row.idle

\* The committed chunks and the row's counters.
Counted ==
  /\ Len(sent) = row.done /\ row.done <= Size /\ row.chunk <= Chunks
  /\ row.chunk = Chunks => row.done = Size
  /\ row.done > 0 => row.created
  /\ row.chunk > 0 => row.done > 0

Begins(data, prefix) ==
  Len(prefix) <= Len(data) /\ \A k \in 1..Len(prefix) : data[k] = prefix[k]

\* The file that the upload writes to.
Own == IF Target = "volume" THEN final ELSE part
Piece(a) == [k \in 1..arg[a].n |-> arg[a].i]

\* What the upload wrote begins with the committed chunks, is nothing else once
\* they are all in, and is there only after the row says so.
Kept ==
  /\ part.by \in {"none", "us"}
  /\ part.by = "none" => part = NoFile
  /\ final.by = "none" => final = NoFile
  /\ Target = "volume" => part = NoFile
  /\ Own.by = "us" => row.created /\ Begins(Own.data, sent)
  /\ Own.by = "us" /\ row.chunk = Chunks => Own.data = sent
  /\ Target = "volume" /\ final.by = "us" => Len(final.data) = Size
  /\ Target # "volume" /\ final.by = "us" =>
       row.chunk = Chunks /\ final.data = sent /\ (Target = "ssh" => part = NoFile)
  /\ final.by = "other" => setup[2] = "create"

\* The chunk that is about to be committed is in the file.
Committing(a) ==
  pc[a] = "commit" /\ Own.by = "us" =>
    /\ Begins(Own.data, sent \o Piece(a))
    /\ Last(a) => Own.data = sent \o Piece(a)

\* The outcome that an actor is about to write, and what it left on the host.
Outcome(a) ==
  /\ pc[a] = "unlink" => Target = "local" /\ final.by = "us"
  /\ pc[a] = "remove" => out[a] \in {"failed", "cancelled"} /\ (Target # "volume" => final.by # "us")
  /\ pc[a] = "finish" => out[a] \in TERMINAL
  /\ pc[a] \in {"remove", "finish"} /\ out[a] = "cancelled" => row.cancel /\ row.chunk < Chunks
  /\ pc[a] = "finish" /\ out[a] = "succeeded" => row.chunk = Chunks /\ final # NoFile
  /\ pc[a] = "finish" /\ out[a] # "succeeded" /\ compute => part = NoFile /\ final.by # "us"

\* What an upload that has ended has stored or left.
Ended ==
  /\ row.state = "succeeded" => row.chunk = Chunks /\ final # NoFile
  /\ NothingLeft

Inv ==
  /\ TypeOK /\ Held /\ Begun /\ Counted /\ Kept /\ Ended /\ AckedIsKept
  /\ \A a \in Actors : Errand(a) /\ Informed(a) /\ Working(a) /\ Committing(a) /\ Outcome(a)

USE UploadAssumption DEF Actors, Steps, ACTIVE, TERMINAL, NoFile, Foreign

\* The values a row, a request and a file start from.
LEMMA Blank ==
  /\ NoRow \in Rows /\ NoRow.state = "none" /\ ~NoRow.cancel /\ NoRow.chunk = 0
  /\ ~NoRow.created /\ NoRow.done = 0 /\ ~NoRow.idle
  /\ NoArg \in Args /\ NoArg.kind = "none" /\ NoArg.i = 0 /\ NoArg.n = 0
  /\ NoFile \in Files /\ Foreign \in Files
BY DEF NoRow, NoArg, Rows, States, Args, Kinds, Files

\* The requests an actor comes with.
LEMMA RequestsTyped ==
  /\ \A i \in 0..Chunks - 1, n \in Sizes : [kind |-> "chunk", i |-> i, n |-> n] \in Args
  /\ \A k \in Kinds : [NoArg EXCEPT !.kind = k] \in Args
<1>1. ASSUME NEW i \in 0..Chunks - 1, NEW n \in Sizes
      PROVE  [kind |-> "chunk", i |-> i, n |-> n] \in Args
  <2>1. i \in Nat /\ n \in Nat
    BY <1>1
  <2> QED BY <2>1 DEF Args, Kinds
<1>2. ASSUME NEW k \in Kinds
      PROVE  [NoArg EXCEPT !.kind = k] \in Args
  BY <1>2, Blank DEF Args
<1> QED BY <1>1, <1>2

\* What the updates of a row make of it.
LEMMA RowUpdates ==
  ASSUME NEW r \in Rows
  PROVE  /\ r.state \in States /\ r.cancel \in BOOLEAN /\ r.chunk \in Nat
         /\ r.created \in BOOLEAN /\ r.done \in Nat /\ r.idle \in BOOLEAN
         /\ LET q == [r EXCEPT !.state = "cancelling", !.cancel = TRUE]
            IN  /\ q \in Rows /\ q.state = "cancelling" /\ q.cancel /\ q.chunk = r.chunk
                /\ q.created = r.created /\ q.done = r.done /\ q.idle = r.idle
         /\ LET q == [r EXCEPT !.idle = TRUE]
            IN  /\ q \in Rows /\ q.state = r.state /\ q.cancel = r.cancel /\ q.chunk = r.chunk
                /\ q.created = r.created /\ q.done = r.done /\ q.idle
BY DEF Rows, States

\* The row of a job that starts or ends.
LEMMA StateUpdate ==
  ASSUME NEW r \in Rows, NEW s \in States, NEW q, q = [r EXCEPT !.state = s]
  PROVE  /\ q \in Rows /\ q.state = s /\ q.cancel = r.cancel /\ q.chunk = r.chunk
         /\ q.created = r.created /\ q.done = r.done /\ q.idle = r.idle
BY DEF Rows, States

\* The row that announces the file.
LEMMA CreatedUpdate ==
  ASSUME NEW r \in Rows, NEW q, q = [r EXCEPT !.created = TRUE]
  PROVE  /\ q \in Rows /\ q.state = r.state /\ q.cancel = r.cancel /\ q.chunk = r.chunk
         /\ q.created /\ q.done = r.done /\ q.idle = r.idle
BY DEF Rows, States

-----------------------------------------------------------------------------
(* Shapes of steps *)

\* The types of what the row and a request say.
LEMMA Typed ==
  ASSUME TypeOK, NEW a \in Actors
  PROVE  /\ row \in Rows /\ row.chunk \in Nat /\ row.done \in Nat /\ row.state \in States
         /\ row.created \in BOOLEAN /\ row.cancel \in BOOLEAN /\ row.idle \in BOOLEAN
         /\ op[a].chunk \in Nat /\ op[a].done \in Nat
         /\ arg[a].i \in Nat /\ arg[a].n \in Nat
<1>1. row \in Rows /\ op[a] \in Rows /\ arg[a] \in Args
  BY DEF TypeOK
<1> QED BY <1>1 DEF Rows, Args

LEMMA InitInv == Init => Inv
<1> SUFFICES ASSUME Init PROVE Inv
  OBVIOUS
<1> USE Blank DEF Init
<1>1. <<>> \in Seq(Nat) /\ Len(<<>>) = 0
  OBVIOUS
<1>2. TypeOK
  BY <1>1 DEF TypeOK
<1>3. Held /\ Begun /\ Counted /\ Ended /\ AckedIsKept
  BY <1>1 DEF Held, InBlock, Begun, Counted, Ended, NothingLeft, AckedIsKept
<1>4. Kept
  BY <1>1 DEF Kept, Own, Target
<1>5. ASSUME NEW a \in Actors
      PROVE  Errand(a) /\ Informed(a) /\ Working(a) /\ Committing(a) /\ Outcome(a)
  BY <1>5 DEF Errand, Informed, Working, Committing, Outcome
<1> QED BY <1>2, <1>3, <1>4, <1>5 DEF Inv

\* While an actor is in its block the others wait outside: its steps leave their
\* parts of the invariant alone.
LEMMA OthersKeep ==
  ASSUME Inv, NEW a \in Actors, InBlock(a), NEW b \in Actors, b # a,
         pc'[b] = pc[b], arg'[b] = arg[b], row.cancel => row'.cancel
  PROVE  Errand(b)' /\ Informed(b)' /\ Working(b)' /\ Committing(b)' /\ Outcome(b)'
<1>1. pc[b] \in {"none", "hold"}
  BY DEF Inv, Held, InBlock
<1>2. Errand(b)'
  BY <1>1 DEF Inv, Errand
<1>3. Informed(b)' /\ Working(b)' /\ Committing(b)' /\ Outcome(b)'
  BY <1>1 DEF Informed, Working, Committing, Outcome
<1> QED BY <1>2, <1>3

\* A step of the holder that only decides where to go on.
LEMMA DecisionKeeps ==
  ASSUME Inv, NEW a \in Actors, InBlock(a), TypeOK',
         UNCHANGED <<row, files, session, arg, sent, acked>>,
         \A b \in Actors : b # a => pc'[b] = pc[b],
         Errand(a)', Informed(a)', Working(a)', Committing(a)', Outcome(a)'
  PROVE  Inv'
<1>1. Held'
  BY DEF Inv, Held, InBlock
<1>2. Begun'
  BY DEF Inv, Begun, files, InBlock
<1>3. Counted' /\ Kept' /\ Ended' /\ AckedIsKept'
  BY DEF Inv, Counted, Kept, Own, Target, Begins, Ended, NothingLeft, AckedIsKept, files
<1>4. ASSUME NEW b \in Actors
      PROVE  Errand(b)' /\ Informed(b)' /\ Working(b)' /\ Committing(b)' /\ Outcome(b)'
  BY <1>4, OthersKeep
<1> QED BY <1>1, <1>2, <1>3, <1>4 DEF Inv

\* The chunk stays in the file, or the file is gone.
LEMMA CommittingStays ==
  ASSUME NEW b \in Actors, Committing(b), pc'[b] = pc[b], arg'[b] = arg[b], sent' = sent,
         Own' = Own \/ Own'.by # "us"
  PROVE  Committing(b)'
<1>1. Piece(b)' = Piece(b) /\ (Last(b)' <=> Last(b))
  BY DEF Piece, Last
<1>2. CASE Own' = Own
  <2>1. Begins(Own.data, sent \o Piece(b))' <=> Begins(Own.data, sent \o Piece(b))
    BY <1>1, <1>2 DEF Begins
  <2> QED BY <1>1, <1>2, <2>1 DEF Committing
<1>3. CASE Own'.by # "us"
  BY <1>3 DEF Committing
<1> QED BY <1>2, <1>3

\* A request that answers, raises or dies, and has changed nothing in this step.
LEMMA LeavingKeeps ==
  ASSUME Inv, NEW a \in Actors, pc[a] # "none",
         Leave(a) \/ (UNCHANGED session /\ pc' = [pc EXCEPT ![a] = "none"]
                       /\ arg' = [arg EXCEPT ![a] = NoArg] /\ op' = [op EXCEPT ![a] = NoRow]
                       /\ out' = [out EXCEPT ![a] = "none"] /\ fresh' = [fresh EXCEPT ![a] = FALSE]),
         UNCHANGED <<row, files, sent>>, acked' \subseteq Nat, arrivals' \in Nat, faults' \in Nat,
         AckedIsKept'
  PROVE  Inv'
<1>1. /\ pc' = [pc EXCEPT ![a] = "none"] /\ arg' = [arg EXCEPT ![a] = NoArg]
      /\ op' = [op EXCEPT ![a] = NoRow] /\ out' = [out EXCEPT ![a] = "none"]
      /\ fresh' = [fresh EXCEPT ![a] = FALSE]
      /\ session' \in {session, Nobody} /\ (session # a => session' = session)
  BY DEF Leave
<1>2. TypeOK'
  <2>1. NoRow \in Rows /\ NoArg \in Args
    BY Blank
  <2>2. /\ pc' \in [Actors -> Steps] /\ out' \in [Actors -> {"none"} \cup TERMINAL]
        /\ fresh' \in [Actors -> BOOLEAN] /\ session' \in Actors \cup {Nobody}
    BY <1>1 DEF Inv, TypeOK
  <2>3. arg' \in [Actors -> Args] /\ op' \in [Actors -> Rows]
    BY <1>1, <2>1 DEF Inv, TypeOK
  <2> QED BY <2>2, <2>3 DEF Inv, TypeOK, files
<1>3. Held'
  BY <1>1 DEF Inv, Held, InBlock, TypeOK
<1>4. Begun' /\ Counted' /\ Kept' /\ Ended'
  BY DEF Inv, Begun, Counted, Kept, Own, Target, Begins, Ended, NothingLeft, files
<1>5. ASSUME NEW b \in Actors
      PROVE  Errand(b)' /\ Informed(b)' /\ Working(b)' /\ Committing(b)' /\ Outcome(b)'
  <2>1. CASE b = a
    BY <1>1, <2>1, Blank DEF Inv, TypeOK, Errand, Informed, Working, Committing, Outcome
  <2>2. CASE b # a
    <3>1. pc'[b] = pc[b] /\ arg'[b] = arg[b] /\ op'[b] = op[b] /\ out'[b] = out[b] /\ fresh'[b] = fresh[b]
      BY <1>1, <2>2 DEF Inv, TypeOK
    <3>2. Errand(b)' /\ Informed(b)' /\ Working(b)'
      BY <3>1 DEF Inv, Errand, Informed, Working, Fits, Last
    <3>3. Committing(b)'
      BY <3>1, CommittingStays DEF Inv, Own, Target, files
    <3>4. Outcome(b)'
      BY <3>1 DEF Inv, Outcome, Target, files
    <3> QED BY <3>2, <3>3, <3>4
  <2> QED BY <2>1, <2>2
<1> QED BY <1>2, <1>3, <1>4, <1>5 DEF Inv
-----------------------------------------------------------------------------
(* Arrivals, the session and the outside world *)

\* A step outside every block that leaves the files and the counters alone.
LEMMA OutsideKeeps ==
  ASSUME Inv, TypeOK', Held', Begun', UNCHANGED <<files, sent, acked, op, out, fresh>>,
         \A b \in Actors : InBlock(b) \/ InBlock(b)' => pc'[b] = pc[b] /\ arg'[b] = arg[b],
         \A b \in Actors : Errand(b)',
         row'.chunk = row.chunk, row'.done = row.done, row'.created = row.created,
         row.cancel => row'.cancel, row.idle => row'.idle,
         row.state \in ACTIVE => row'.state \in ACTIVE,
         row.state \notin ACTIVE => row'.state = row.state \/ (row.state = "none" /\ row'.state \in ACTIVE)
  PROVE  Inv'
<1>1. Counted' /\ AckedIsKept'
  BY DEF Inv, TypeOK, Counted, Begun, AckedIsKept
<1>2. Kept' /\ Ended'
  BY DEF Inv, TypeOK, Kept, Own, Target, Begins, Ended, NothingLeft, files
<1>3. ASSUME NEW b \in Actors
      PROVE  Errand(b)' /\ Informed(b)' /\ Working(b)' /\ Committing(b)' /\ Outcome(b)'
  <2>1. CASE ~InBlock(b)'
    <3>1. pc'[b] \in {"none", "hold"}
      BY <2>1 DEF InBlock
    <3> QED BY <3>1 DEF Informed, Working, Committing, Outcome
  <2>2. CASE InBlock(b)'
    <3>1. pc'[b] = pc[b] /\ arg'[b] = arg[b] /\ row.state # "none"
      BY <2>2 DEF Inv, Begun, InBlock
    <3>2. Informed(b)'
      BY <3>1 DEF Inv, Informed
    <3>3. Committing(b)'
      BY <3>1, CommittingStays DEF Inv, Own, Target, files
    <3>4. Outcome(b)'
      BY <3>1 DEF Inv, Outcome, Target, files
    <3>5. Working(b)'
      <4>1. Fits(b)' <=> Fits(b)
        BY <3>1 DEF Fits, Last
      <4> QED BY <3>1, <4>1 DEF Inv, Working
    <3> QED BY <3>2, <3>3, <3>4, <3>5
  <2> QED BY <2>1, <2>2
<1> QED BY <1>1, <1>2, <1>3 DEF Inv

\* One actor comes, or nobody moves: the requirements of the others stay.
LEMMA ComingKeeps ==
  ASSUME Inv, NEW a \in Actors, pc[a] = "none", NEW r \in Args, r.kind # "none", r.i < Chunks,
         r.kind = "cancel" => row'.cancel, r.kind = "expire" <=> a = Keeper,
         pc' = [pc EXCEPT ![a] = "hold"], arg' = [arg EXCEPT ![a] = r],
         UNCHANGED <<files, session, op, out, fresh, sent, acked, faults>>, arrivals' \in Nat,
         row' \in Rows, row'.chunk = row.chunk, row'.done = row.done, row'.created = row.created,
         row.cancel => row'.cancel, row.idle => row'.idle, row'.state # "none",
         row' = row \/ (row.state \in ACTIVE \cup {"none"} /\ row'.state \in ACTIVE)
  PROVE  Inv'
<1>1. TypeOK'
  BY DEF Inv, TypeOK, files
<1>2. Held'
  BY DEF Inv, Held, InBlock, TypeOK
<1>3. Begun'
  BY DEF Begun
<1>4. ASSUME NEW b \in Actors
      PROVE  Errand(b)'
  <2>1. CASE b = a
    BY <2>1 DEF Inv, TypeOK, Errand
  <2>2. CASE b # a
    BY <2>2 DEF Inv, TypeOK, Errand
  <2> QED BY <2>1, <2>2
<1>5. \A b \in Actors : InBlock(b) \/ InBlock(b)' => pc'[b] = pc[b] /\ arg'[b] = arg[b]
  BY DEF Inv, TypeOK, InBlock
<1> QED BY <1>1, <1>2, <1>3, <1>4, <1>5, OutsideKeeps

LEMMA ChunkArrivesKeeps ==
  ASSUME Inv, NEW a \in Requests, NEW i \in 0..Chunks - 1, NEW n \in Sizes, ChunkArrives(a, i, n)
  PROVE  Inv'
<1> DEFINE r == [kind |-> "chunk", i |-> i, n |-> n]
<1>1. r \in Args /\ r.kind = "chunk" /\ r.i = i /\ i < Chunks
  BY RequestsTyped
<1>2. arrivals' \in Nat
  BY DEF ChunkArrives, Inv, TypeOK
<1>3. /\ pc[a] = "none" /\ pc' = [pc EXCEPT ![a] = "hold"] /\ arg' = [arg EXCEPT ![a] = r]
      /\ a # Keeper /\ UNCHANGED <<files, session, op, out, fresh, sent, acked, faults>>
  BY DEF ChunkArrives, Goto
<1> HIDE DEF r
<1>4. CASE row.state = "none"
  <2>1. row = NoRow /\ row' = [NoRow EXCEPT !.state = "running"]
    BY <1>4 DEF ChunkArrives, Inv, Begun
  <2>2. row \in Rows /\ row' = [row EXCEPT !.state = "running"] /\ "running" \in States
    BY <2>1, Blank DEF States
  <2>3. /\ row' \in Rows /\ row'.state = "running" /\ row'.chunk = row.chunk /\ row'.done = row.done
        /\ row'.created = row.created /\ row'.cancel = row.cancel /\ row'.idle = row.idle
    BY <2>2, StateUpdate
  <2> QED BY <1>1, <1>2, <1>3, <1>4, <2>3, ComingKeeps
<1>5. CASE row.state # "none"
  <2>1. row' = row /\ row \in Rows
    BY <1>5 DEF ChunkArrives, Inv, TypeOK
  <2> QED BY <1>1, <1>2, <1>5, <2>1, <1>3, ComingKeeps
<1> QED BY <1>4, <1>5

LEMMA CancelArrivesKeeps ==
  ASSUME Inv, NEW a \in Requests, CancelArrives(a)
  PROVE  Inv'
<1> DEFINE r == [NoArg EXCEPT !.kind = "cancel"]
<1>1. r \in Args /\ r.kind = "cancel" /\ r.i < Chunks
  BY RequestsTyped, Blank DEF Kinds, Args
<1>2. /\ row' \in Rows /\ row'.state = "cancelling" /\ row'.chunk = row.chunk /\ row'.done = row.done
      /\ row'.created = row.created /\ row'.cancel /\ row'.idle = row.idle
  BY RowUpdates DEF Inv, TypeOK, CancelArrives
<1>3. arrivals' \in Nat
  BY DEF CancelArrives, Inv, TypeOK
<1>4. arg' = [arg EXCEPT ![a] = r]
  BY DEF CancelArrives
<1> HIDE DEF r
<1> QED BY <1>1, <1>2, <1>3, <1>4, ComingKeeps DEF CancelArrives, Goto

LEMMA ExpireArrivesKeeps ==
  ASSUME Inv, ExpireArrives
  PROVE  Inv'
<1> DEFINE r == [NoArg EXCEPT !.kind = "expire"]
<1>1. r \in Args /\ r.kind = "expire" /\ r.i < Chunks
  BY RequestsTyped, Blank DEF Kinds, Args
<1>2. arg' = [arg EXCEPT ![Keeper] = r]
  BY DEF ExpireArrives
<1>3. row \in Rows /\ row' = row /\ arrivals' \in Nat
  BY DEF ExpireArrives, Inv, TypeOK
<1> HIDE DEF r
<1> QED BY <1>1, <1>2, <1>3, ComingKeeps DEF ExpireArrives, Goto

LEMMA SessionEndsKeeps ==
  ASSUME Inv, SessionEnds
  PROVE  Inv'
<1> USE DEF SessionEnds, local
<1>1. TypeOK' /\ Held' /\ Begun'
  BY DEF Inv, TypeOK, Held, InBlock, Begun, files
<1>2. \A b \in Actors : Errand(b)'
  BY DEF Inv, Errand
<1> QED BY <1>1, <1>2, OutsideKeeps

LEMMA TurnIdleKeeps ==
  ASSUME Inv, TurnIdle
  PROVE  Inv'
<1>1. /\ row' \in Rows /\ row'.state = row.state /\ row'.chunk = row.chunk /\ row'.done = row.done
      /\ row'.created = row.created /\ row'.cancel = row.cancel /\ row'.idle
  BY RowUpdates DEF Inv, TypeOK, TurnIdle
<1>2. row.state \in ACTIVE /\ UNCHANGED <<files, session, local, sent, acked, arrivals, faults>>
  BY DEF TurnIdle
<1>3. TypeOK' /\ Held'
  BY <1>1, <1>2 DEF Inv, TypeOK, Held, InBlock, files, local
<1>4. Begun' /\ \A b \in Actors : Errand(b)'
  BY <1>1, <1>2 DEF Inv, Errand, Begun, local
<1> QED BY <1>1, <1>2, <1>3, <1>4, OutsideKeeps DEF local

LEMMA HoldKeeps ==
  ASSUME Inv, NEW a \in Actors, HoldSession(a)
  PROVE  Inv'
<1> USE DEF HoldSession, Goto
<1>1. TypeOK'
  BY DEF Inv, TypeOK, files
<1>2. \A b \in Actors : ~InBlock(b)
  BY DEF Inv, TypeOK, Held
<1>3. Held'
  BY <1>2 DEF Inv, Held, InBlock, TypeOK
<1>4. Begun'
  BY DEF Inv, Begun, TypeOK
<1>5. Counted' /\ AckedIsKept' /\ Kept' /\ Ended'
  BY DEF Inv, TypeOK, Counted, AckedIsKept, Kept, Own, Target, Begins, Ended, NothingLeft, files
<1>6. ASSUME NEW b \in Actors
      PROVE  Errand(b)' /\ Informed(b)' /\ Working(b)' /\ Committing(b)' /\ Outcome(b)'
  <2>1. pc'[b] \in {"none", "hold", "refresh"}
    BY <1>2 DEF Inv, TypeOK, InBlock
  <2>2. Errand(b)'
    BY <2>1 DEF Inv, TypeOK, Errand
  <2> QED BY <2>1, <2>2 DEF Informed, Working, Committing, Outcome
<1> QED BY <1>1, <1>3, <1>4, <1>5, <1>6 DEF Inv
-----------------------------------------------------------------------------
(* Requests that leave *)

LEMMA BusyKeeps ==
  ASSUME Inv, NEW a \in Actors, Busy(a)
  PROVE  Inv'
<1>1. AckedIsKept' /\ acked' \subseteq Nat /\ arrivals' \in Nat /\ faults' \in Nat
  BY DEF Busy, Inv, TypeOK, AckedIsKept
<1> QED BY <1>1, LeavingKeeps DEF Busy

\* The chunk that is answered again is among the committed ones, and the last one
\* only when the upload succeeded.
LEMMA RepeatedKeeps ==
  ASSUME Inv, NEW a \in Actors, Repeated(a)
  PROVE  Inv'
<1>1. /\ pc[a] = "decide" /\ arg[a].kind = "chunk" /\ acked' = acked \cup {arg[a].i} /\ Leave(a)
      /\ UNCHANGED <<row, files, sent, arrivals, faults>>
      /\ \/ op[a].state = "succeeded" /\ Last(a)
         \/ arg[a].i < op[a].chunk /\ ~(Last(a) /\ op[a].chunk = Chunks)
  BY DEF Repeated
<1>2. arg[a].i \in Nat /\ arg[a].i < Chunks /\ row.chunk \in Nat /\ row.chunk <= Chunks
  BY Typed DEF Inv, Errand, Counted
<1>3. op[a].chunk = row.chunk /\ (op[a].state = "succeeded" => row.state = "succeeded")
  BY <1>1 DEF Inv, Informed
<1>4. row.state = "succeeded" => row.chunk = Chunks
  BY DEF Inv, Ended
<1>5. arg[a].i < row.chunk /\ (arg[a].i = Chunks - 1 => row.state = "succeeded")
  BY <1>1, <1>2, <1>3, <1>4 DEF Last
<1>6. AckedIsKept'
  BY <1>1, <1>5 DEF Inv, AckedIsKept
<1>7. acked' \subseteq Nat /\ arrivals' \in Nat /\ faults' \in Nat
  BY <1>1, <1>2 DEF Inv, TypeOK
<1> QED BY <1>1, <1>6, <1>7, LeavingKeeps

LEMMA RefusedKeeps ==
  ASSUME Inv, NEW a \in Actors, Refused(a)
  PROVE  Inv'
<1>1. AckedIsKept' /\ acked' \subseteq Nat /\ arrivals' \in Nat /\ faults' \in Nat
  BY DEF Refused, Inv, TypeOK, AckedIsKept
<1> QED BY <1>1, LeavingKeeps DEF Refused

LEMMA WriteRefusedKeeps ==
  ASSUME Inv, NEW a \in Actors, WriteRefused(a)
  PROVE  Inv'
<1>1. AckedIsKept' /\ acked' \subseteq Nat /\ arrivals' \in Nat /\ faults' \in Nat
  BY DEF WriteRefused, Inv, TypeOK, AckedIsKept
<1> QED BY <1>1, LeavingKeeps DEF WriteRefused

LEMMA EndLeavesKeeps ==
  ASSUME Inv, NEW a \in Actors, EndLeaves(a)
  PROVE  Inv'
<1>1. AckedIsKept' /\ acked' \subseteq Nat /\ arrivals' \in Nat /\ faults' \in Nat
  BY DEF EndLeaves, Inv, TypeOK, AckedIsKept
<1> QED BY <1>1, LeavingKeeps DEF EndLeaves

LEMMA FailKeeps ==
  ASSUME Inv, NEW a \in Actors, Fail(a) \/ Die(a)
  PROVE  Inv'
<1>1. AckedIsKept'
  BY DEF Fail, Die, Inv, AckedIsKept
<1>2. pc[a] # "none" /\ acked' \subseteq Nat /\ arrivals' \in Nat /\ faults' \in Nat
  <2>1. faults' = faults + 1 /\ acked' = acked /\ arrivals' = arrivals /\ pc[a] # "none"
    BY DEF Fail, Die, InBlock
  <2> QED BY <2>1 DEF Inv, TypeOK
<1> QED BY <1>1, <1>2, LeavingKeeps DEF Fail, Die

-----------------------------------------------------------------------------
(* Decisions *)

LEMMA RefreshKeeps ==
  ASSUME Inv, NEW a \in Actors, Refresh(a)
  PROVE  Inv'
<1> USE DEF Refresh, Goto
<1>1. TypeOK'
  BY DEF Inv, TypeOK, files
<1>2. InBlock(a) /\ \A b \in Actors : b # a => pc'[b] = pc[b]
  BY DEF Inv, TypeOK, InBlock
<1>3. pc'[a] = "decide" /\ op'[a] = row
  BY DEF Inv, TypeOK
<1>4. Errand(a)'
  BY <1>3 DEF Inv, Errand
<1>5. Informed(a)' /\ Working(a)' /\ Committing(a)' /\ Outcome(a)'
  BY <1>3 DEF Informed, Working, Committing, Outcome
<1> QED BY <1>1, <1>2, <1>4, <1>5, DecisionKeeps

\* The end of an upload that is not complete: what its outcome may be.
LEMMA EndWithKeeps ==
  ASSUME Inv, NEW a \in Actors, NEW o \in {"failed", "cancelled"}, EndWith(a, o),
         pc[a] \in {"decide", "recheck"}, arg[a].kind = "chunk", op[a].state \in ACTIVE, row.chunk < Chunks,
         o = "cancelled" => row.cancel
  PROVE  Inv'
<1>1. /\ (op[a].created <=> row.created) /\ row.state \in ACTIVE /\ row.chunk \in Nat
      /\ a # Keeper
  BY Typed DEF Inv, Informed, Errand
<1>2. TypeOK'
  BY DEF EndWith, Goto, Inv, TypeOK, files
<1>3. /\ InBlock(a) /\ \A b \in Actors : b # a => pc'[b] = pc[b]
      /\ UNCHANGED <<row, files, session, arg, op, fresh, sent, acked>>
  BY DEF EndWith, Goto, Inv, TypeOK, InBlock
<1>4. out'[a] = o /\ pc'[a] = IF row.created THEN "remove" ELSE "finish"
  BY <1>1 DEF EndWith, Goto, Inv, TypeOK
<1>5. Errand(a)' /\ Informed(a)'
  BY <1>3, <1>4 DEF Inv, Errand, Informed
<1>6. Working(a)' /\ Committing(a)'
  BY <1>1, <1>3, <1>4 DEF Working, Committing
<1>7. /\ Target # "volume" => final.by # "us"
      /\ ~row.created => part = NoFile /\ final.by # "us"
  BY <1>1 DEF Inv, Kept, Own
<1>8. Outcome(a)'
  BY <1>1, <1>3, <1>4, <1>7 DEF Outcome, files, Target
<1> QED BY <1>2, <1>3, <1>5, <1>6, <1>8, DecisionKeeps

LEMMA StopsKeeps ==
  ASSUME Inv, NEW a \in Actors, Stops(a)
  PROVE  Inv'
<1>1. /\ op[a].chunk = row.chunk /\ (op[a].cancel => row.cancel) /\ arg[a].i < Chunks
  BY DEF Stops, Inv, Informed, Errand
<1>2. CASE Cancelled(op[a]) /\ EndWith(a, "cancelled")
  BY <1>1, <1>2, EndWithKeeps DEF Stops, Cancelled
<1>3. CASE arg[a].i = op[a].chunk /\ EndWith(a, "failed")
  BY <1>1, <1>3, EndWithKeeps DEF Stops
<1> QED BY <1>2, <1>3 DEF Stops

LEMMA RecheckKeeps ==
  ASSUME Inv, NEW a \in Actors, Recheck(a)
  PROVE  Inv'
<1>1. /\ pc[a] = "recheck" /\ arg[a].kind = "chunk" /\ row.state \in ACTIVE /\ op[a].state \in ACTIVE
      /\ arg[a].i + 1 = row.chunk /\ row.chunk < Chunks
  BY DEF Recheck, Inv, Errand, Informed, Working
<1>2. CASE row.cancel /\ EndWith(a, "cancelled")
  BY <1>1, <1>2, EndWithKeeps
<1>3. CASE /\ acked' = acked \cup {arg[a].i} /\ Leave(a)
           /\ UNCHANGED <<row, files, sent, arrivals, faults>>
  <2>1. arg[a].i \in Nat
    BY DEF Inv, TypeOK, Args
  <2>2. acked' \subseteq Nat /\ arrivals' \in Nat /\ faults' \in Nat
    BY <1>3, <2>1 DEF Inv, TypeOK
  <2>3. AckedIsKept'
    BY <1>1, <1>3, <2>1 DEF Inv, AckedIsKept
  <2> QED BY <1>1, <1>3, <2>2, <2>3, LeavingKeeps
<1> QED BY <1>2, <1>3 DEF Recheck

LEMMA ResumesKeeps ==
  ASSUME Inv, NEW a \in Actors, Resumes(a)
  PROVE  Inv'
<1>1. /\ op[a].chunk = row.chunk /\ row.state \in ACTIVE /\ row.chunk = Chunks /\ a # Keeper
  BY DEF Resumes, Inv, Informed, Errand
<1>2. TypeOK'
  BY DEF Resumes, Goto, Inv, TypeOK, files
<1>3. /\ InBlock(a) /\ \A b \in Actors : b # a => pc'[b] = pc[b]
      /\ pc[a] = "decide" /\ pc'[a] = "complete"
      /\ UNCHANGED <<row, files, session, arg, op, fresh, sent, acked>>
  BY DEF Resumes, Goto, Inv, TypeOK, InBlock
<1>4. Errand(a)' /\ Informed(a)'
  BY <1>3 DEF Inv, Errand, Informed
<1>5. Working(a)' /\ Committing(a)' /\ Outcome(a)'
  BY <1>1, <1>3 DEF Working, Committing, Outcome
<1> QED BY <1>2, <1>3, <1>4, <1>5, DecisionKeeps

\* A target that is gone with chunks in it ends the upload; a new one is begun
\* only before the first commit.
LEMMA PlaceKeeps ==
  ASSUME Inv, NEW a \in Actors, Place(a)
  PROVE  Inv'
<1> DEFINE new == ~(op[a].created /\ Present)
           lost == new /\ op[a].done > 0
<1>1. /\ pc[a] = "decide" /\ arg[a].kind = "chunk" /\ op[a].state \in ACTIVE
      /\ arg[a].i = op[a].chunk /\ Fits(a)
      /\ fresh' = [fresh EXCEPT ![a] = new]
      /\ out' = [out EXCEPT ![a] = IF lost THEN "failed" ELSE @]
      /\ pc' = [pc EXCEPT ![a] = IF lost THEN "finish" ELSE "create"]
      /\ UNCHANGED <<row, files, session, arg, op, sent, acked, arrivals, faults>>
  BY DEF Place, Goto
<1>2. /\ op[a].chunk = row.chunk /\ op[a].done = row.done /\ (op[a].created <=> row.created)
      /\ row.state \in ACTIVE /\ a # Keeper /\ row.done \in Nat /\ row.chunk < Chunks /\ row.chunk \in Nat
      /\ row.done > 0 => row.created
  <2>1. row.done \in Nat /\ row.chunk \in Nat
    BY Typed DEF Inv
  <2>2. op[a].chunk = row.chunk /\ op[a].done = row.done /\ (op[a].created <=> row.created) /\ row.state \in ACTIVE
    BY <1>1 DEF Inv, Informed
  <2>3. a # Keeper /\ arg[a].i < Chunks
    BY <1>1 DEF Inv, Errand
  <2> QED BY <1>1, <2>1, <2>2, <2>3 DEF Inv, Counted
<1>3. new \in BOOLEAN /\ lost \in BOOLEAN /\ (lost => ~Present)
  BY <1>2
<1>4. lost => part = NoFile /\ final.by # "us"
  BY <1>2, <1>3 DEF Inv, Kept, Own, Present
<1>5. new /\ ~lost => row.done = 0
  BY <1>2
<1> HIDE DEF new, lost
<1>6. TypeOK'
  BY <1>1, <1>3 DEF Inv, TypeOK, files
<1>7. /\ InBlock(a) /\ \A b \in Actors : b # a => pc'[b] = pc[b]
      /\ pc'[a] = (IF lost THEN "finish" ELSE "create")
      /\ lost => out'[a] = "failed"
      /\ fresh'[a] = new
  BY <1>1 DEF Inv, TypeOK, InBlock
<1>8. Errand(a)' /\ Informed(a)'
  BY <1>1, <1>7 DEF Inv, Errand, Informed
<1>9. Working(a)'
  <2>1. Fits(a)' <=> Fits(a)
    BY <1>1 DEF Fits, Last
  <2> QED BY <1>1, <1>2, <1>5, <1>7, <2>1 DEF Working
<1>10. Committing(a)' /\ Outcome(a)'
  BY <1>1, <1>4, <1>7 DEF Committing, Outcome, files
<1> QED BY <1>1, <1>6, <1>7, <1>8, <1>9, <1>10, DecisionKeeps

LEMMA EndDecidesKeeps ==
  ASSUME Inv, NEW a \in Actors, EndDecides(a)
  PROVE  Inv'
<1> DEFINE dest == IF ~op[a].created \/ ~compute THEN "finish"
                   ELSE IF op[a].chunk = Chunks THEN "complete" ELSE "remove"
           plain == IF op[a].cancel \/ arg[a].kind = "cancel" THEN "cancelled" ELSE "failed"
           outcome == IF op[a].created /\ ~compute THEN "failed" ELSE plain
<1>1. /\ pc[a] = "decide" /\ arg[a].kind \in {"cancel", "expire"} /\ Ending(a)
      /\ out' = [out EXCEPT ![a] = outcome] /\ pc' = [pc EXCEPT ![a] = dest]
      /\ UNCHANGED <<row, files, session, arg, op, fresh, sent, acked, arrivals, faults>>
  BY DEF EndDecides, Goto
<1>2. /\ op[a].chunk = row.chunk /\ (op[a].created <=> row.created) /\ row.state \in ACTIVE
      /\ (op[a].cancel => row.cancel) /\ (arg[a].kind = "cancel" => row.cancel)
      /\ (a = Keeper => row.idle) /\ row.chunk \in Nat /\ row.chunk <= Chunks
      /\ ~row.created => row.chunk = 0
  <2>1. row.done \in Nat /\ row.chunk \in Nat
    BY Typed DEF Inv
  <2>2. /\ op[a].chunk = row.chunk /\ (op[a].created <=> row.created) /\ row.state \in ACTIVE
        /\ (op[a].cancel => row.cancel) /\ (op[a].idle => row.idle)
    BY <1>1 DEF Inv, Informed, Ending
  <2>3. (arg[a].kind = "cancel" => row.cancel) /\ (a = Keeper => row.idle)
    BY <1>1, <2>2 DEF Inv, Errand, Ending
  <2> QED BY <2>1, <2>2, <2>3 DEF Inv, Counted
<1>3. /\ dest \in {"finish", "complete", "remove"} /\ outcome \in {"failed", "cancelled"}
      /\ outcome = "cancelled" => row.cancel
      /\ outcome = "cancelled" /\ dest # "complete" => row.chunk < Chunks
      /\ dest = "complete" => row.chunk = Chunks
      /\ dest = "remove" => row.chunk # Chunks
      /\ dest = "finish" /\ compute => ~row.created
  BY <1>2
<1>4. /\ dest = "remove" /\ Target # "volume" => final.by # "us"
      /\ dest = "finish" /\ compute => part = NoFile /\ final.by # "us"
  BY <1>3, <1>2 DEF Inv, Kept, Own
<1> HIDE DEF dest, plain, outcome
<1>5. TypeOK'
  BY <1>1, <1>3 DEF Inv, TypeOK, files
<1>6. /\ InBlock(a) /\ \A b \in Actors : b # a => pc'[b] = pc[b]
      /\ pc'[a] = dest /\ out'[a] = outcome
  BY <1>1 DEF Inv, TypeOK, InBlock
<1>7. Errand(a)' /\ Informed(a)'
  BY <1>1, <1>3, <1>6 DEF Inv, Errand, Informed
<1>8. Working(a)' /\ Committing(a)'
  BY <1>1, <1>2, <1>3, <1>6 DEF Working, Committing
<1>9. Outcome(a)'
  BY <1>1, <1>3, <1>4, <1>6 DEF Outcome, files, Target
<1> QED BY <1>1, <1>5, <1>6, <1>7, <1>8, <1>9, DecisionKeeps
-----------------------------------------------------------------------------
(* The data of the file *)

\* A piece of a chunk is a sequence of its units.
LEMMA PieceIs ==
  ASSUME NEW m \in Nat, NEW i \in Nat, NEW p, p = [k \in 1..m |-> i]
  PROVE  p \in Seq(Nat) /\ Len(p) = m /\ \A k \in 1..m : p[k] = i
OBVIOUS

\* Appending keeps what was there.
LEMMA AppendedBegins ==
  ASSUME NEW s \in Seq(Nat), NEW p \in Seq(Nat)
  PROVE  s \o p \in Seq(Nat) /\ Len(s \o p) = Len(s) + Len(p) /\ Begins(s \o p, s)
<1>1. /\ s \o p \in Seq(Nat) /\ Len(s \o p) = Len(s) + Len(p)
      /\ \A k \in 1..(Len(s) + Len(p)) : (s \o p)[k] = IF k <= Len(s) THEN s[k] ELSE p[k - Len(s)]
  BY ConcatProperties
<1>2. Len(s) \in Nat /\ Len(p) \in Nat
  BY LenProperties
<1> QED BY <1>1, <1>2 DEF Begins

\* Cutting a file to the committed offset leaves the committed chunks.
LEMMA CutIsPrefix ==
  ASSUME NEW d \in Seq(Nat), NEW s \in Seq(Nat), Begins(d, s)
  PROVE  SubSeq(d, 1, Len(s)) = s
<1>1. Len(s) \in Nat /\ Len(d) \in Nat /\ Len(s) <= Len(d)
  BY LenProperties DEF Begins
<1> DEFINE c == SubSeq(d, 1, Len(s))
<1>2. c \in Seq(Nat) /\ Len(c) = Len(s) /\ \A k \in 1..Len(s) : c[k] = d[k]
  <2>1. Len(s) \in 0..Len(d) /\ 1 \in 1..Len(d) + 1 /\ Len(s) - 1 + 1 = Len(s)
    BY <1>1
  <2> QED BY <1>1, <2>1, SubSeqProperties
<1>3. \A k \in 1..Len(c) : c[k] = s[k]
  BY <1>2 DEF Begins
<1> HIDE DEF c
<1>4. c = s
  BY <1>2, <1>3, SeqEqual
<1> QED BY <1>4 DEF c

\* A file no longer than what it begins with is that.
LEMMA BeginsWhole ==
  ASSUME NEW d \in Seq(Nat), NEW s \in Seq(Nat), Begins(d, s), Len(d) = Len(s)
  PROVE  d = s
BY SeqEqual DEF Begins

\* What begins with a longer sequence begins with the shorter one.
LEMMA BeginsLess ==
  ASSUME NEW d \in Seq(Nat), NEW s \in Seq(Nat), NEW p \in Seq(Nat), Begins(d, s \o p)
  PROVE  Begins(d, s)
<1>1. /\ Len(s \o p) = Len(s) + Len(p)
      /\ \A k \in 1..(Len(s) + Len(p)) : (s \o p)[k] = IF k <= Len(s) THEN s[k] ELSE p[k - Len(s)]
  BY ConcatProperties
<1>2. Len(s) \in Nat /\ Len(p) \in Nat /\ Len(d) \in Nat
  BY LenProperties
<1>3. Len(s) <= Len(d) /\ \A k \in 1..(Len(s) + Len(p)) : d[k] = (s \o p)[k]
  BY <1>1, <1>2 DEF Begins
<1>4. ASSUME NEW k \in 1..Len(s)
      PROVE  d[k] = s[k]
  <2>1. k \in 1..(Len(s) + Len(p)) /\ k <= Len(s)
    BY <1>2
  <2> QED BY <1>1, <1>3, <2>1
<1> QED BY <1>3, <1>4 DEF Begins

\* What target.write leaves in a file: the committed chunks, then the units of
\* this one that were written; a volume keeps its size.
LEMMA WrittenIs ==
  ASSUME Inv, NEW a \in Actors, pc[a] = "write", Writable(a), NEW m \in Nat, m <= arg[a].n,
         NEW p, p = [k \in 1..m |-> arg[a].i], NEW w, w = Written(a, m)
  PROVE  /\ w \in Files /\ p \in Seq(Nat) /\ Len(p) = m
         /\ Target # "volume" => w.by = "us" /\ w.data = sent \o p
         /\ Target = "volume" =>
              /\ w.by = "us" \/ (w.by = "other" /\ final.by = "other")
              /\ Len(w.data) = Size /\ (w.by = "us" => Begins(w.data, sent \o p))
<1>1. /\ row.done \in Nat /\ row.chunk \in Nat /\ op[a].done = row.done /\ Len(sent) = row.done
      /\ arg[a].i \in Nat /\ arg[a].n \in Nat /\ op[a].done + arg[a].n <= Size
      /\ fresh[a] => row.done = 0
      /\ sent \in Seq(Nat)
  <2>1. /\ row.done \in Nat /\ row.chunk \in Nat /\ arg[a].i \in Nat /\ arg[a].n \in Nat /\ sent \in Seq(Nat)
    BY Typed DEF Inv, TypeOK
  <2>2. op[a].done = row.done
    BY DEF Inv, Informed
  <2>3. Fits(a) /\ (fresh[a] => row.done = 0)
    BY DEF Inv, Working
  <2>4. Len(sent) = row.done
    BY DEF Inv, Counted
  <2>5. op[a].done + arg[a].n <= Size
    BY <2>3 DEF Fits
  <2> QED BY <2>1, <2>2, <2>3, <2>4, <2>5
<1>2. p \in Seq(Nat) /\ Len(p) = m /\ \A k \in 1..m : p[k] = arg[a].i
  <2>1. arg[a].i \in Nat
    BY <1>1
  <2> QED BY <2>1, PieceIs
<1>3. sent \o p \in Seq(Nat) /\ Len(sent \o p) = row.done + m
  BY <1>1, <1>2, AppendedBegins
<1>4. CASE Target # "volume"
  <2>1. w = [by |-> "us", data |-> (IF fresh[a] THEN <<>> ELSE SubSeq(part.data, 1, op[a].done)) \o p]
    BY <1>4 DEF Written
  <2>2. CASE fresh[a]
    <3>1. sent = <<>>
      BY <1>1, <2>2, EmptySeq
    <3>2. w = [by |-> "us", data |-> sent \o p]
      BY <2>1, <2>2, <3>1
    <3> QED BY <1>2, <1>3, <1>4, <3>2 DEF Files
  <2>3. CASE ~fresh[a]
    <3>1. part # NoFile
      BY <1>4, <2>3 DEF Writable, Present
    <3>2. Begins(part.data, sent) /\ part.data \in Seq(Nat)
      <4>1. part.by = "us"
        BY <3>1 DEF Inv, Kept
      <4>2. part.data \in Seq(Nat)
        BY DEF Inv, TypeOK, Files
      <4> QED BY <1>4, <4>1, <4>2 DEF Inv, Kept, Own
    <3>3. SubSeq(part.data, 1, op[a].done) = sent
      BY <1>1, <3>2, CutIsPrefix
    <3>4. w = [by |-> "us", data |-> sent \o p]
      BY <2>1, <2>3, <3>3
    <3> QED BY <1>2, <1>3, <1>4, <3>4 DEF Files
  <2> QED BY <2>2, <2>3
<1>5. CASE Target = "volume"
  <2> DEFINE old == IF fresh[a] THEN [k \in 1..Size |-> Chunks] ELSE final.data
             all == [k \in 1..Size |->
                      IF k > op[a].done /\ k <= op[a].done + m THEN arg[a].i
                      ELSE IF k <= Len(old) THEN old[k] ELSE Chunks]
             who == IF fresh[a] THEN "us" ELSE final.by
  <2>1. w = [by |-> who, data |-> all]
    BY <1>5 DEF Written
  <2>2. old \in Seq(Nat)
    <3>1. final.data \in Seq(Nat)
      BY DEF Inv, TypeOK, Files
    <3>2. [k \in 1..Size |-> Chunks] \in Seq(Nat)
      BY PieceIs
    <3> QED BY <3>1, <3>2
  <2>3. who \in {"us", "other"} /\ (who = "other" => final.by = "other")
    <3>1. ~fresh[a] => final # NoFile
      BY <1>5 DEF Writable, Present
    <3>2. final.by \in {"none", "us", "other"} /\ (final.by = "none" => final = NoFile)
      BY DEF Inv, TypeOK, Files, Kept
    <3> QED BY <3>1, <3>2
  <2>4. fresh[a] \/ (who = "us" => Begins(old, sent))
    BY <1>5 DEF Inv, Kept, Own
  <2> HIDE DEF old, who
  <2>5. all \in Seq(Nat) /\ Len(all) = Size
    <3>1. \A k \in 1..Size : k <= Len(old) => old[k] \in Nat
      BY <2>2, ElementOfSeq, LenProperties
    <3>2. \A k \in 1..Size : all[k] \in Nat
      BY <3>1, <1>1
    <3> QED BY <3>2
  <2>6. who = "us" => Begins(all, sent \o p)
    <3> SUFFICES ASSUME who = "us" PROVE Begins(all, sent \o p)
      OBVIOUS
    <3>1. row.done + m <= Size
      BY <1>1
    <3>2. \A k \in 1..(row.done + m) : (sent \o p)[k] = IF k <= row.done THEN sent[k] ELSE p[k - row.done]
      BY <1>1, <1>2, ConcatProperties
    <3>3. ASSUME NEW k \in 1..(row.done + m)
          PROVE  all[k] = (sent \o p)[k]
      <4>1. CASE k <= row.done
        <5>1. ~fresh[a]
          BY <1>1, <4>1
        <5>2. k <= Len(old) /\ old[k] = sent[k]
          BY <1>1, <2>2, <2>4, <4>1, <5>1, LenProperties DEF Begins
        <5>3. all[k] = old[k]
          BY <1>1, <3>1, <4>1, <5>2
        <5> QED BY <3>2, <4>1, <5>2, <5>3
      <4>2. CASE k > row.done
        <5>1. k - row.done \in 1..m
          BY <1>1, <4>2
        <5> QED BY <1>1, <1>2, <3>1, <3>2, <4>2, <5>1
      <4> QED BY <1>1, <4>1, <4>2
    <3>4. \A k \in 1..Len(sent \o p) : all[k] = (sent \o p)[k]
      BY <1>3, <3>3
    <3> QED BY <1>3, <2>5, <3>1, <3>4 DEF Begins
  <2> HIDE DEF all
  <2> QED BY <1>2, <1>5, <2>1, <2>3, <2>5, <2>6 DEF Files
<1> QED BY <1>4, <1>5
-----------------------------------------------------------------------------
(* Steps that change the row or a file *)

\* A step of the holder, who stays in its block or leaves it.
LEMMA HolderKeeps ==
  ASSUME Inv, NEW a \in Actors, InBlock(a), TypeOK',
         \A b \in Actors : b # a => pc'[b] = pc[b] /\ arg'[b] = arg[b],
         row'.state # "none", row.cancel => row'.cancel,
         session' = a \/ ~InBlock(a)',
         Counted', Kept', Ended', AckedIsKept',
         Errand(a)', Informed(a)', Working(a)', Committing(a)', Outcome(a)'
  PROVE  Inv'
<1>1. Held'
  <2> SUFFICES ASSUME NEW b \in Actors, InBlock(b)'
               PROVE  session' = b
    BY DEF Held
  <2>1. CASE b = a
    BY <2>1
  <2>2. CASE b # a
    <3>1. InBlock(b)
      BY <2>2 DEF InBlock
    <3> QED BY <2>2, <3>1 DEF Inv, Held
  <2> QED BY <2>1, <2>2
<1>2. Begun'
  BY DEF Begun
<1>3. ASSUME NEW b \in Actors
      PROVE  Errand(b)' /\ Informed(b)' /\ Working(b)' /\ Committing(b)' /\ Outcome(b)'
  BY <1>3, OthersKeep
<1> QED BY <1>1, <1>2, <1>3 DEF Inv

\* The intent is recorded before the file exists.
LEMMA CreateKeeps ==
  ASSUME Inv, NEW a \in Actors, Create(a)
  PROVE  Inv'
<1>1. /\ pc[a] = "create" /\ row' = [row EXCEPT !.created = TRUE]
      /\ op' = [op EXCEPT ![a].created = TRUE] /\ pc' = [pc EXCEPT ![a] = "write"]
      /\ UNCHANGED <<files, session, arg, out, fresh, sent, acked, arrivals, faults>>
  BY DEF Create, Goto
<1>2. /\ row' \in Rows /\ row'.state = row.state /\ row'.cancel = row.cancel /\ row'.chunk = row.chunk
      /\ row'.created /\ row'.done = row.done /\ row'.idle = row.idle
  BY <1>1, CreatedUpdate DEF Inv, TypeOK
<1>3. /\ op' = [op EXCEPT ![a] = [op[a] EXCEPT !.created = TRUE]]
      /\ op'[a] = [op[a] EXCEPT !.created = TRUE] /\ op[a] \in Rows
  BY <1>1 DEF Inv, TypeOK
<1>4. /\ op'[a] \in Rows /\ op'[a].state = op[a].state /\ op'[a].cancel = op[a].cancel
      /\ op'[a].chunk = op[a].chunk /\ op'[a].created /\ op'[a].done = op[a].done
      /\ op'[a].idle = op[a].idle
  BY <1>3, CreatedUpdate
<1>5. TypeOK'
  <2>1. op' \in [Actors -> Rows]
    BY <1>3, <1>4 DEF Inv, TypeOK
  <2> QED BY <1>1, <1>2, <2>1 DEF Inv, TypeOK, files
<1>6. /\ InBlock(a) /\ session = a /\ pc'[a] = "write"
      /\ \A b \in Actors : b # a => pc'[b] = pc[b] /\ arg'[b] = arg[b]
  BY <1>1 DEF Inv, TypeOK, InBlock, Held
<1>7. row.state \in ACTIVE
  BY <1>1 DEF Inv, Working
<1>8. Counted' /\ AckedIsKept'
  BY <1>1, <1>2 DEF Inv, Counted, AckedIsKept
<1>9. Kept' /\ Ended'
  BY <1>1, <1>2, <1>7 DEF Inv, Kept, Own, Target, Begins, Ended, NothingLeft, files
<1>10. Errand(a)' /\ Informed(a)'
  BY <1>1, <1>2, <1>4, <1>6 DEF Inv, Errand, Informed
<1>11. Working(a)'
  <2>1. Fits(a)' <=> Fits(a)
    BY <1>1, <1>4 DEF Fits, Last
  <2> QED BY <1>1, <1>2, <1>6, <2>1 DEF Inv, Working
<1>12. Committing(a)' /\ Outcome(a)'
  BY <1>6 DEF Committing, Outcome
<1> QED BY <1>1, <1>2, <1>5, <1>6, <1>7, <1>8, <1>9, <1>10, <1>11, <1>12, HolderKeeps

\* A file that begins with the committed chunks may be put in place of the old one.
LEMMA PutKeeps ==
  ASSUME Inv, NEW w \in Files, PutFile(w), row.state \in ACTIVE, row.created, row.chunk < Chunks,
         UNCHANGED <<row, sent>>,
         Target # "volume" => w.by = "us",
         Target = "volume" => Len(w.data) = Size /\ (w.by = "us" \/ (w.by = "other" /\ final.by = "other")),
         w.by = "us" => Begins(w.data, sent)
  PROVE  Kept' /\ Ended' /\ part' \in Files /\ final' \in Files /\ Own' = w
<1>1. /\ part' = (IF Target = "volume" THEN part ELSE w) /\ final' = (IF Target = "volume" THEN w ELSE final)
      /\ Target' = Target /\ setup' = setup
  BY DEF PutFile, Target
<1>2. part' \in Files /\ final' \in Files
  BY <1>1 DEF Inv, TypeOK
<1>3. Ended'
  BY DEF Ended, NothingLeft
<1>4. row.chunk \in Nat /\ row.chunk # Chunks
  <2>1. row.chunk \in Nat
    BY Typed DEF Inv
  <2> QED BY <2>1
<1>5. Own' = w
  BY <1>1 DEF Own
<1>6. Begins(Own.data, sent)' <=> Begins(w.data, sent)
  BY <1>5 DEF Begins
<1>7. Own'.by = "us" => row'.created /\ Begins(Own.data, sent)'
  BY <1>5, <1>6
<1>8. CASE Target = "volume"
  <2>1. part' = part /\ final' = w /\ part = NoFile /\ (final.by = "other" => setup[2] = "create")
    BY <1>1, <1>8 DEF Inv, Kept
  <2>2. w.by \in {"us", "other"} /\ Len(w.data) = Size
    BY <1>8
  <2> QED BY <1>1, <1>2, <1>3, <1>4, <1>5, <1>7, <1>8, <2>1, <2>2 DEF Kept
<1>9. CASE Target # "volume"
  <2>1. part' = w /\ final' = final /\ final.by # "us" /\ (final.by = "none" => final = NoFile)
        /\ (final.by = "other" => setup[2] = "create")
    BY <1>1, <1>4, <1>9 DEF Inv, Kept
  <2>2. w.by = "us"
    BY <1>9
  <2> QED BY <1>1, <1>2, <1>3, <1>4, <1>5, <1>7, <1>9, <2>1, <2>2 DEF Kept
<1> QED BY <1>8, <1>9

LEMMA WriteKeeps ==
  ASSUME Inv, NEW a \in Actors, Write(a)
  PROVE  Inv'
<1> DEFINE w == Written(a, arg[a].n)
<1>1. /\ pc[a] = "write" /\ Writable(a) /\ PutFile(w) /\ pc' = [pc EXCEPT ![a] = "commit"]
      /\ UNCHANGED <<row, session, arg, op, out, fresh, sent, acked, arrivals, faults>>
  BY DEF Write, Goto
<1>2. arg[a].n \in Nat /\ sent \in Seq(Nat) /\ arg[a].n <= arg[a].n
  BY Typed DEF Inv, TypeOK
<1>3. /\ w \in Files /\ Piece(a) \in Seq(Nat) /\ Len(Piece(a)) = arg[a].n
      /\ Target # "volume" => w.by = "us" /\ w.data = sent \o Piece(a)
      /\ Target = "volume" =>
           /\ w.by = "us" \/ (w.by = "other" /\ final.by = "other")
           /\ Len(w.data) = Size /\ (w.by = "us" => Begins(w.data, sent \o Piece(a)))
  BY <1>1, <1>2, WrittenIs DEF Piece
<1> HIDE DEF w
<1>4. w.data \in Seq(Nat)
  BY <1>3 DEF Files
<1>5. sent \o Piece(a) \in Seq(Nat) /\ Len(sent \o Piece(a)) = Len(sent) + arg[a].n
  BY <1>2, <1>3, AppendedBegins
<1>6. w.by = "us" => Begins(w.data, sent \o Piece(a))
  <2>1. Begins(sent \o Piece(a), sent \o Piece(a))
    BY <1>5, LenProperties DEF Begins
  <2> QED BY <1>3, <2>1
<1>7. w.by = "us" => Begins(w.data, sent)
  BY <1>2, <1>3, <1>4, <1>6, BeginsLess
<1>8. row.state \in ACTIVE /\ row.created /\ row.chunk < Chunks /\ arg[a].i = row.chunk /\ Fits(a)
  BY <1>1 DEF Inv, Working, Errand
<1>9. Kept' /\ Ended' /\ part' \in Files /\ final' \in Files /\ Own' = w
  BY <1>1, <1>3, <1>7, <1>8, PutKeeps
<1>10. TypeOK'
  BY <1>1, <1>9 DEF Inv, TypeOK, PutFile
<1>11. /\ InBlock(a) /\ session = a /\ pc'[a] = "commit"
       /\ \A b \in Actors : b # a => pc'[b] = pc[b] /\ arg'[b] = arg[b]
  BY <1>1 DEF Inv, TypeOK, InBlock, Held
<1>12. Counted' /\ AckedIsKept'
  BY <1>1 DEF Inv, Counted, AckedIsKept
<1>13. Errand(a)' /\ Informed(a)' /\ Outcome(a)'
  BY <1>1, <1>11 DEF Inv, Errand, Informed, Outcome
<1>14. Working(a)'
  <2>1. Fits(a)' <=> Fits(a)
    BY <1>1 DEF Fits, Last
  <2> QED BY <1>1, <1>11, <2>1 DEF Inv, Working
<1>15. Committing(a)'
  <2>1. Piece(a)' = Piece(a) /\ (Last(a)' <=> Last(a))
    BY <1>1 DEF Piece, Last
  <2>2. Begins(Own.data, sent \o Piece(a))' <=> Begins(w.data, sent \o Piece(a))
    BY <1>1, <1>9, <2>1 DEF Begins
  <2>3. Last(a) /\ w.by = "us" => w.data = sent \o Piece(a)
    <3> SUFFICES ASSUME Last(a), w.by = "us", Target = "volume" PROVE w.data = sent \o Piece(a)
      BY <1>3
    <3>1. Len(sent) + arg[a].n = Size
      <4>1. op[a].done + arg[a].n = Size
        BY <1>8 DEF Fits
      <4>2. op[a].done = row.done /\ Len(sent) = row.done
        BY <1>1 DEF Inv, Informed, Counted
      <4> QED BY <4>1, <4>2
    <3> QED BY <1>3, <1>4, <1>5, <1>6, <3>1, BeginsWhole
  <2>4. (sent \o Piece(a))' = sent \o Piece(a)
    BY <1>1, <2>1
  <2> QED BY <1>6, <1>9, <2>1, <2>2, <2>3, <2>4 DEF Committing
<1> QED BY <1>1, <1>8, <1>9, <1>10, <1>11, <1>12, <1>13, <1>14, <1>15, HolderKeeps

\* A write that ends in the middle leaves the committed chunks in front.
LEMMA WriteTornKeeps ==
  ASSUME Inv, NEW a \in Actors, NEW m \in 0..Size, WriteTorn(a, m)
  PROVE  Inv'
<1> DEFINE w == Written(a, m)
           p == [k \in 1..m |-> arg[a].i]
<1>1. /\ pc[a] = "write" /\ Writable(a) /\ PutFile(w) /\ m < arg[a].n /\ Leave(a) /\ faults' = faults + 1
      /\ UNCHANGED <<row, sent, acked, arrivals>>
  BY DEF WriteTorn
<1>2. arg[a].n \in Nat /\ sent \in Seq(Nat) /\ m \in Nat /\ m <= arg[a].n
  <2>1. arg[a].n \in Nat /\ sent \in Seq(Nat)
    BY Typed DEF Inv, TypeOK
  <2> QED BY <1>1, <2>1
<1>3. /\ w \in Files /\ p \in Seq(Nat) /\ Len(p) = m
      /\ Target # "volume" => w.by = "us" /\ w.data = sent \o p
      /\ Target = "volume" =>
           /\ w.by = "us" \/ (w.by = "other" /\ final.by = "other")
           /\ Len(w.data) = Size /\ (w.by = "us" => Begins(w.data, sent \o p))
  BY <1>1, <1>2, WrittenIs
<1> HIDE DEF w, p
<1>4. w.data \in Seq(Nat)
  BY <1>3 DEF Files
<1>5. w.by = "us" => Begins(w.data, sent)
  <2>1. Begins(sent \o p, sent)
    BY <1>2, <1>3, AppendedBegins
  <2>2. Target = "volume" /\ w.by = "us" => Begins(w.data, sent)
    BY <1>2, <1>3, <1>4, BeginsLess
  <2> QED BY <1>3, <2>1, <2>2
<1>6. row.state \in ACTIVE /\ row.created /\ row.chunk < Chunks
  BY <1>1 DEF Inv, Working, Errand
<1>7. Kept' /\ Ended' /\ part' \in Files /\ final' \in Files
  BY <1>1, <1>3, <1>5, <1>6, PutKeeps
<1>8. /\ pc' = [pc EXCEPT ![a] = "none"] /\ arg' = [arg EXCEPT ![a] = NoArg]
      /\ op' = [op EXCEPT ![a] = NoRow] /\ out' = [out EXCEPT ![a] = "none"]
      /\ fresh' = [fresh EXCEPT ![a] = FALSE] /\ session' = (IF session = a THEN Nobody ELSE session)
  BY <1>1 DEF Leave
<1>9. TypeOK'
  <2>1. arg' \in [Actors -> Args] /\ op' \in [Actors -> Rows]
    BY <1>8, Blank DEF Inv, TypeOK
  <2>2. faults' \in Nat /\ session' \in Actors \cup {Nobody}
    BY <1>1, <1>8 DEF Inv, TypeOK
  <2> QED BY <1>1, <1>7, <1>8, <2>1, <2>2 DEF Inv, TypeOK, PutFile
<1>10. /\ InBlock(a) /\ pc'[a] = "none" /\ arg'[a] = NoArg
       /\ \A b \in Actors : b # a => pc'[b] = pc[b] /\ arg'[b] = arg[b]
  BY <1>1, <1>8 DEF Inv, TypeOK, InBlock
<1>11. Counted' /\ AckedIsKept'
  BY <1>1 DEF Inv, Counted, AckedIsKept
<1>12. Errand(a)' /\ Informed(a)' /\ Working(a)' /\ Committing(a)' /\ Outcome(a)'
  BY <1>10, Blank DEF Errand, Informed, Working, Committing, Outcome
<1>13. ~InBlock(a)'
  BY <1>10 DEF InBlock
<1> QED BY <1>1, <1>6, <1>7, <1>9, <1>10, <1>11, <1>12, <1>13, HolderKeeps
LEMMA CommitKeeps ==
  ASSUME Inv, NEW a \in Actors, Commit(a)
  PROVE  Inv'
<1> DEFINE c == op[a].chunk + 1
           d == op[a].done + arg[a].n
<1>1. /\ pc[a] = "commit"
      /\ row' = [row EXCEPT !.chunk = c, !.created = TRUE, !.done = d, !.idle = FALSE]
      /\ op' = [op EXCEPT ![a] = row'] /\ sent' = sent \o Piece(a)
      /\ pc' = [pc EXCEPT ![a] = IF Last(a) THEN "complete" ELSE "recheck"]
      /\ UNCHANGED <<files, session, arg, out, fresh, acked, arrivals, faults>>
  BY DEF Commit, Goto, Piece
<1>2. /\ row \in Rows /\ row.chunk \in Nat /\ row.done \in Nat /\ arg[a].i \in Nat /\ arg[a].n \in Nat
      /\ sent \in Seq(Nat)
  BY Typed DEF Inv, TypeOK
<1>3. /\ row.state \in ACTIVE /\ arg[a].i = row.chunk /\ arg[a].i < Chunks /\ a # Keeper
      /\ arg[a].kind = "chunk" /\ op[a].chunk = row.chunk /\ op[a].done = row.done /\ Fits(a)
  BY <1>1 DEF Inv, Working, Errand, Informed
<1>4. c = row.chunk + 1 /\ d = row.done + arg[a].n /\ c \in Nat /\ d \in Nat
  <2>1. op[a].chunk = row.chunk /\ op[a].done = row.done
    BY <1>3
  <2>2. row.chunk \in Nat /\ row.done \in Nat /\ arg[a].n \in Nat
    BY <1>2
  <2> QED BY <2>1, <2>2
<1>5. d <= Size /\ d > 0 /\ (Last(a) => d = Size) /\ c <= Chunks /\ (c = Chunks <=> Last(a))
  <2>1. arg[a].n > 0 /\ d <= Size /\ (Last(a) => d = Size)
    BY <1>3 DEF Fits
  <2>2. c = arg[a].i + 1 /\ arg[a].i \in Nat /\ arg[a].i < Chunks
    BY <1>2, <1>3, <1>4
  <2>3. Last(a) <=> arg[a].i = Chunks - 1
    BY DEF Last
  <2>4. c <= Chunks /\ (c = Chunks <=> Last(a))
    BY <2>2, <2>3
  <2>5. d > 0
    BY <1>2, <1>4, <2>1
  <2> QED BY <2>1, <2>4, <2>5
<1> HIDE DEF c, d
<1>6. /\ row' \in Rows /\ row'.state = row.state /\ row'.cancel = row.cancel /\ row'.chunk = c
      /\ row'.created /\ row'.done = d /\ ~row'.idle
  <2>1. row' = [row EXCEPT !.chunk = c, !.created = TRUE, !.done = d, !.idle = FALSE]
    BY <1>1
  <2>2. row \in Rows /\ c \in Nat /\ d \in Nat
    BY <1>2, <1>4
  <2> QED BY <2>1, <2>2 DEF Rows
<1>7. Piece(a) \in Seq(Nat) /\ Len(Piece(a)) = arg[a].n
  <2>1. arg[a].n \in Nat /\ arg[a].i \in Nat
    BY <1>2
  <2> QED BY SMTT(30), <2>1, PieceIs DEF Piece
<1>8. sent' \in Seq(Nat) /\ Len(sent') = d
  <2>1. Len(sent) = row.done
    BY DEF Inv, Counted
  <2> QED BY <1>1, <1>2, <1>4, <1>7, <2>1, AppendedBegins
<1>9. TypeOK'
  BY <1>1, <1>6, <1>8 DEF Inv, TypeOK, files
<1>10. /\ InBlock(a) /\ session = a /\ op'[a] = row'
       /\ pc'[a] = (IF Last(a) THEN "complete" ELSE "recheck")
       /\ \A b \in Actors : b # a => pc'[b] = pc[b] /\ arg'[b] = arg[b]
  BY <1>1 DEF Inv, TypeOK, InBlock, Held
<1>11. Counted'
  BY <1>5, <1>6, <1>8 DEF Counted
<1>12. AckedIsKept'
  <2>1. ASSUME NEW i \in acked
        PROVE  i < c /\ (i = Chunks - 1 => FALSE)
    <3>1. i \in Nat /\ i < row.chunk /\ i # Chunks - 1
      BY <1>3 DEF Inv, TypeOK, AckedIsKept
    <3> QED BY <1>2, <1>4, <3>1
  <2> QED BY <1>1, <1>6, <2>1 DEF AckedIsKept
<1>13. Kept'
  <2>1. /\ part' = part /\ final' = final /\ setup' = setup /\ Target' = Target /\ Own' = Own
    BY <1>1 DEF files, Own, Target
  <2>2. Own.by = "us" => Begins(Own.data, sent') /\ (Last(a) => Own.data = sent')
    BY <1>1 DEF Inv, Committing
  <2>3. Begins(Own.data, sent)' <=> Begins(Own.data, sent')
    BY <2>1 DEF Begins
  <2>4. Target # "volume" => final.by # "us"
    BY <1>2, <1>3 DEF Inv, Kept
  <2> QED BY <1>5, <1>6, <2>1, <2>2, <2>3, <2>4 DEF Inv, Kept
<1>14. Ended'
  BY <1>3, <1>6 DEF Ended, NothingLeft
<1>15. Errand(a)' /\ Informed(a)'
  BY <1>1, <1>3, <1>6, <1>10 DEF Inv, Errand, Informed
<1>16. Working(a)'
  BY <1>1, <1>2, <1>3, <1>4, <1>5, <1>6, <1>10 DEF Working
<1>17. Committing(a)' /\ Outcome(a)'
  BY <1>10 DEF Committing, Outcome
<1> QED BY <1>3, <1>6, <1>9, <1>10, <1>11, <1>12, <1>13, <1>14, <1>15, <1>16, <1>17, <1>1, HolderKeeps

\* Another file of the image's name is that of others: over SSH the rename that
\* makes the image ours takes the part file away.
LEMMA TakenIsForeign ==
  ASSUME Inv, Present, Target # "volume", Taken
  PROVE  final.by = "other"
BY DEF Inv, Kept, Present, Taken

LEMMA CompleteKeeps ==
  ASSUME Inv, NEW a \in Actors, Complete(a)
  PROVE  Inv'
<1>1. /\ pc[a] = "complete" /\ UNCHANGED <<row, setup, compute, meddled, session, arg, op, fresh, sent, acked, arrivals, faults>>
      /\ row.state \in ACTIVE /\ row.chunk = Chunks /\ (a = Keeper => row.idle) /\ Target' = Target
  BY DEF Complete, Inv, Working, Target
<1>2. /\ InBlock(a) /\ session = a
  BY <1>1 DEF Inv, InBlock, Held
<1>3. Counted' /\ AckedIsKept' /\ Ended'
  BY <1>1 DEF Inv, Counted, AckedIsKept, Ended, NothingLeft
<1>4. ASSUME NEW to \in {"unlink", "remove", "finish"}, pc' = [pc EXCEPT ![a] = to],
             out' \in [Actors -> {"none"} \cup TERMINAL], part' \in Files, final' \in Files,
             Kept', Outcome(a)'
      PROVE  Inv'
  <2>1. TypeOK'
    BY <1>1, <1>4 DEF Inv, TypeOK
  <2>2. pc'[a] = to /\ \A b \in Actors : b # a => pc'[b] = pc[b] /\ arg'[b] = arg[b]
    BY <1>1, <1>4 DEF Inv, TypeOK
  <2>3. Errand(a)' /\ Informed(a)'
    BY <1>1, <1>4, <2>2 DEF Inv, Errand, Informed
  <2>4. Working(a)' /\ Committing(a)'
    BY <1>1, <1>4, <2>2 DEF Working, Committing
  <2> QED BY <1>1, <1>2, <1>3, <1>4, <2>1, <2>2, <2>3, <2>4, HolderKeeps
<1>5. part \in Files /\ final \in Files /\ NoFile \in Files /\ out \in [Actors -> {"none"} \cup TERMINAL] /\ pc \in [Actors -> Steps]
  BY Blank DEF Inv, TypeOK
<1>6. part # NoFile => part.by = "us"
  BY DEF Inv, Kept
<1>7. CASE Present /\ Target = "local" /\ ~Taken /\ final' = part /\ Goto(a, "unlink") /\ UNCHANGED <<part, out>>
  <2>1. part.by = "us" /\ part.data = sent
    BY <1>1, <1>6, <1>7 DEF Inv, Kept, Own, Present
  <2>2. Kept'
    <3>1. Own' = Own
      BY <1>1, <1>7 DEF Own
    <3>2. Begins(Own.data, sent)' <=> Begins(Own.data, sent)
      BY <1>1, <3>1 DEF Begins
    <3> QED BY <1>1, <1>7, <2>1, <3>1, <3>2 DEF Inv, Kept
  <2>3. Outcome(a)'
    BY <1>1, <1>5, <1>7, <2>1 DEF Outcome, Goto
  <2> QED BY <1>4, <1>5, <1>7, <2>2, <2>3 DEF Goto
<1>8. CASE /\ Present /\ Target = "ssh" /\ ~Taken /\ final' = part /\ part' = NoFile
           /\ out' = [out EXCEPT ![a] = "succeeded"] /\ Goto(a, "finish")
  <2>1. part.by = "us" /\ part.data = sent
    BY <1>1, <1>6, <1>8 DEF Inv, Kept, Own, Present
  <2>2. Own' = NoFile
    BY <1>1, <1>8 DEF Own
  <2>3. Kept'
    BY <1>1, <1>8, <2>1, <2>2 DEF Kept
  <2>4. Outcome(a)'
    BY <1>1, <1>5, <1>8, <2>1 DEF Outcome, Goto
  <2> QED BY <1>4, <1>5, <1>8, <2>3, <2>4 DEF Goto
<1>9. ASSUME part' = part, final' = final
      PROVE  Kept'
  <2>1. Own' = Own
    BY <1>1, <1>9 DEF Own
  <2>2. Begins(Own.data, sent)' <=> Begins(Own.data, sent)
    BY <1>1, <2>1 DEF Begins
  <2> QED BY <1>1, <1>9, <2>1, <2>2 DEF Inv, Kept
<1>10. CASE /\ Present /\ Target # "volume" /\ Taken /\ out' = [out EXCEPT ![a] = "failed"]
            /\ Goto(a, "remove") /\ UNCHANGED <<part, final>>
  <2>1. final.by = "other"
    BY <1>10, TakenIsForeign
  <2>2. Outcome(a)'
    BY <1>1, <1>5, <1>10, <2>1 DEF Outcome, Goto
  <2> QED BY <1>4, <1>5, <1>9, <1>10, <2>2 DEF Goto
<1>11. CASE /\ Target = "volume" \/ ~Present
            /\ out' = [out EXCEPT ![a] = IF final # NoFile THEN "succeeded" ELSE "failed"]
            /\ Goto(a, "finish") /\ UNCHANGED <<part, final>>
  <2>1. part = NoFile
    BY <1>11 DEF Inv, Kept, Present
  <2>2. Outcome(a)'
    <3>1. pc'[a] = "finish" /\ out'[a] = (IF final # NoFile THEN "succeeded" ELSE "failed")
      BY <1>5, <1>11 DEF Goto
    <3> QED BY <1>1, <1>11, <2>1, <3>1 DEF Outcome
  <2>3. out' \in [Actors -> {"none"} \cup TERMINAL]
    BY <1>5, <1>11
  <2> QED BY <1>4, <1>5, <1>9, <1>11, <2>2, <2>3 DEF Goto
<1> QED BY <1>7, <1>8, <1>10, <1>11 DEF Complete

LEMMA UnlinkKeeps ==
  ASSUME Inv, NEW a \in Actors, Unlink(a)
  PROVE  Inv'
<1>1. /\ pc[a] = "unlink" /\ part' \in {part, NoFile} /\ out' = [out EXCEPT ![a] = "succeeded"]
      /\ pc' = [pc EXCEPT ![a] = "finish"]
      /\ UNCHANGED <<row, setup, final, compute, meddled, session, arg, op, fresh, sent, acked, arrivals, faults>>
      /\ row.state \in ACTIVE /\ row.chunk = Chunks /\ (a = Keeper => row.idle) /\ Target' = Target
      /\ Target = "local" /\ final.by = "us"
  BY DEF Unlink, Goto, Inv, Working, Outcome, Target
<1>2. TypeOK'
  BY <1>1, Blank DEF Inv, TypeOK
<1>3. /\ InBlock(a) /\ session = a /\ pc'[a] = "finish" /\ out'[a] = "succeeded"
      /\ \A b \in Actors : b # a => pc'[b] = pc[b] /\ arg'[b] = arg[b]
  BY <1>1 DEF Inv, TypeOK, InBlock, Held
<1>4. Counted' /\ AckedIsKept' /\ Ended'
  BY <1>1 DEF Inv, Counted, AckedIsKept, Ended, NothingLeft
<1>5. Kept'
  <2>1. part' = part \/ part' = NoFile
    BY <1>1
  <2>2. Own' = part' /\ Own = part
    BY <1>1 DEF Own
  <2>3. part' = part => (Begins(Own.data, sent)' <=> Begins(Own.data, sent))
    BY <1>1, <2>2 DEF Begins
  <2> QED BY <1>1, <2>1, <2>2, <2>3 DEF Inv, Kept
<1>6. Errand(a)' /\ Informed(a)'
  BY <1>1, <1>3 DEF Inv, Errand, Informed
<1>7. Working(a)' /\ Committing(a)' /\ Outcome(a)'
  BY <1>1, <1>3 DEF Working, Committing, Outcome
<1> QED BY <1>1, <1>2, <1>3, <1>4, <1>5, <1>6, <1>7, HolderKeeps

LEMMA RemoveKeeps ==
  ASSUME Inv, NEW a \in Actors, Remove(a)
  PROVE  Inv'
<1>1. /\ pc[a] = "remove" /\ pc' = [pc EXCEPT ![a] = "finish"]
      /\ UNCHANGED <<row, setup, compute, meddled, session, arg, op, out, fresh, sent, acked, arrivals, faults>>
      /\ row.state \in ACTIVE /\ (a = Keeper => row.idle) /\ Target' = Target
      /\ out[a] \in {"failed", "cancelled"} /\ (Target # "volume" => final.by # "us")
      /\ out[a] = "cancelled" => row.cancel /\ row.chunk < Chunks
      /\ part' = (IF Target = "volume" THEN part ELSE NoFile) /\ final' = (IF Target = "volume" THEN NoFile ELSE final)
  BY DEF Remove, PutFile, Goto, Inv, Working, Outcome, Target
<1>2. part' \in Files /\ final' \in Files
  BY <1>1, Blank DEF Inv, TypeOK
<1>3. TypeOK'
  BY <1>1, <1>2 DEF Inv, TypeOK
<1>4. /\ InBlock(a) /\ session = a /\ pc'[a] = "finish"
      /\ \A b \in Actors : b # a => pc'[b] = pc[b] /\ arg'[b] = arg[b]
  BY <1>1 DEF Inv, TypeOK, InBlock, Held
<1>5. Counted' /\ AckedIsKept' /\ Ended'
  BY <1>1 DEF Inv, Counted, AckedIsKept, Ended, NothingLeft
<1>6. Own' = NoFile /\ part' = NoFile /\ final'.by # "us"
  BY <1>1 DEF Inv, Kept, Own
<1>7. Kept'
  BY <1>1, <1>6 DEF Inv, Kept
<1>8. Errand(a)' /\ Informed(a)'
  BY <1>1, <1>4 DEF Inv, Errand, Informed
<1>9. Working(a)' /\ Committing(a)'
  BY <1>1, <1>4 DEF Working, Committing
<1>10. Outcome(a)'
  BY <1>1, <1>4, <1>6 DEF Outcome
<1> QED BY <1>1, <1>3, <1>4, <1>5, <1>7, <1>8, <1>9, <1>10, HolderKeeps

\* jobs.finish writes the outcome on a row that is still active.
LEMMA FinishKeeps ==
  ASSUME Inv, NEW a \in Actors, Finish(a)
  PROVE  Inv'
<1>1. /\ pc[a] = "finish" /\ row.state \in ACTIVE /\ row' = [row EXCEPT !.state = out[a]] /\ Leave(a)
      /\ acked' = (IF arg[a].kind = "chunk" /\ out[a] = "succeeded" THEN acked \cup {arg[a].i} ELSE acked)
      /\ UNCHANGED <<files, sent, arrivals, faults>>
  BY DEF Finish, Inv, Working
<1>2. /\ out[a] \in TERMINAL
      /\ out[a] = "succeeded" => row.chunk = Chunks /\ final # NoFile
      /\ out[a] # "succeeded" /\ compute => part = NoFile /\ final.by # "us"
  BY <1>1 DEF Inv, Outcome
<1>3. /\ row \in Rows /\ arg[a].i \in Nat /\ row.chunk \in Nat /\ arg[a].i < Chunks /\ out[a] \in States
  BY <1>2, Typed DEF Inv, Errand, States
<1>4. /\ row' \in Rows /\ row'.state = out[a] /\ row'.cancel = row.cancel /\ row'.chunk = row.chunk
      /\ row'.created = row.created /\ row'.done = row.done /\ row'.idle = row.idle
  BY <1>1, <1>3, StateUpdate
<1>5. /\ pc' = [pc EXCEPT ![a] = "none"] /\ arg' = [arg EXCEPT ![a] = NoArg]
      /\ op' = [op EXCEPT ![a] = NoRow] /\ out' = [out EXCEPT ![a] = "none"]
      /\ fresh' = [fresh EXCEPT ![a] = FALSE] /\ session' = (IF session = a THEN Nobody ELSE session)
  BY <1>1 DEF Leave
<1>6. TypeOK'
  <2>1. arg' \in [Actors -> Args] /\ op' \in [Actors -> Rows]
    BY <1>5, Blank DEF Inv, TypeOK
  <2>2. acked' \subseteq Nat /\ session' \in Actors \cup {Nobody}
    BY <1>1, <1>3, <1>5 DEF Inv, TypeOK
  <2> QED BY <1>1, <1>4, <1>5, <2>1, <2>2 DEF Inv, TypeOK, files
<1>7. /\ InBlock(a) /\ pc'[a] = "none" /\ arg'[a] = NoArg
      /\ \A b \in Actors : b # a => pc'[b] = pc[b] /\ arg'[b] = arg[b]
  BY <1>1, <1>5 DEF Inv, TypeOK, InBlock
<1>8. Counted'
  BY <1>1, <1>4 DEF Inv, Counted
<1>9. Kept'
  <2>1. part' = part /\ final' = final /\ setup' = setup /\ Own' = Own /\ Target' = Target /\ sent' = sent
    BY <1>1 DEF files, Own, Target
  <2>2. Begins(Own.data, sent)' <=> Begins(Own.data, sent)
    BY <2>1 DEF Begins
  <2> QED BY <1>4, <2>1, <2>2 DEF Inv, Kept
<1>10. Ended'
  BY <1>1, <1>2, <1>4 DEF Ended, NothingLeft, files
<1>11. AckedIsKept'
  <2>1. \A i \in acked : i < row.chunk /\ i # Chunks - 1
    BY <1>1 DEF Inv, AckedIsKept
  <2>2. out[a] = "succeeded" => arg[a].i < row'.chunk
    BY <1>2, <1>3, <1>4
  <2> QED BY <1>1, <1>4, <2>1, <2>2 DEF AckedIsKept
<1>12. Errand(a)' /\ Informed(a)' /\ Working(a)' /\ Committing(a)' /\ Outcome(a)'
  BY <1>7, Blank DEF Errand, Informed, Working, Committing, Outcome
<1>13. ~InBlock(a)' /\ row'.state # "none"
  BY <1>2, <1>4, <1>7 DEF InBlock
<1> QED BY <1>4, <1>6, <1>7, <1>8, <1>9, <1>10, <1>11, <1>12, <1>13, HolderKeeps

\* Others may put a file of the name, delete the upload's file or the compute.
LEMMA MeddleKeeps ==
  ASSUME Inv, Meddle
  PROVE  Inv'
<1>1. /\ row.state \in ACTIVE /\ meddled' = TRUE /\ Target' = Target
      /\ UNCHANGED <<setup, row, session, local, sent, acked, arrivals, faults>>
      /\ UNCHANGED <<pc, arg, op, out, fresh>>
  BY DEF Meddle, local, Target
<1>2. /\ compute' \in BOOLEAN /\ (compute' => compute)
      /\ \/ part' = part /\ (final' = final \/ (final = NoFile /\ final' = Foreign /\ setup[2] = "create"))
         \/ part' = NoFile /\ Target # "volume" /\ final' = final
         \/ part' = NoFile /\ final' = NoFile /\ Target = "volume" /\ row.chunk < Chunks
  <2>1. compute \in BOOLEAN
    BY DEF Inv, TypeOK
  <2>2. CASE setup[2] = "create" /\ final = NoFile /\ final' = Foreign /\ UNCHANGED <<part, compute>>
    BY <2>1, <2>2
  <2>3. CASE /\ Target = "volume" => row.chunk < Chunks
             /\ part' = NoFile /\ final' = (IF Target = "volume" THEN NoFile ELSE final) /\ compute' = compute
    BY <2>1, <2>3
  <2>4. CASE compute' = FALSE /\ UNCHANGED <<part, final>>
    BY <2>1, <2>4
  <2> QED BY <2>2, <2>3, <2>4 DEF Meddle
<1>3. TypeOK'
  BY <1>1, <1>2, Blank DEF Inv, TypeOK
<1>4. Held' /\ Begun' /\ Counted' /\ AckedIsKept' /\ Ended'
  BY <1>1 DEF Inv, Held, InBlock, Begun, Counted, AckedIsKept, Ended, NothingLeft
<1>5. Own' = Own \/ Own'.by # "us"
  BY <1>1, <1>2 DEF Own
<1>6. Kept'
  <2>1. Own' = Own => (Begins(Own.data, sent)' <=> Begins(Own.data, sent))
    BY <1>1 DEF Begins
  <2>2. row.chunk \in Nat
    BY Typed DEF Inv
  <2> QED BY <1>1, <1>2, <1>5, <2>1, <2>2 DEF Inv, Kept
<1>7. ASSUME NEW b \in Actors
      PROVE  Errand(b)' /\ Informed(b)' /\ Working(b)' /\ Committing(b)' /\ Outcome(b)'
  <2>1. Errand(b)' /\ Informed(b)'
    BY <1>1 DEF Inv, Errand, Informed
  <2>2. Working(b)'
    BY <1>1 DEF Inv, Working, Fits, Last
  <2>3. Committing(b)'
    BY <1>1, <1>5, CommittingStays DEF Inv
  <2>4. Outcome(b)'
    <3>1. row.chunk \in Nat
      BY Typed DEF Inv
    <3> QED BY <1>1, <1>2, <3>1 DEF Inv, Outcome
  <2> QED BY <2>1, <2>2, <2>3, <2>4
<1> QED BY <1>3, <1>4, <1>6, <1>7 DEF Inv
-----------------------------------------------------------------------------
(* The theorems *)

LEMMA StepInv ==
  ASSUME Inv, Next
  PROVE  Inv'
<1>1. ASSUME NEW a \in Requests, CancelArrives(a) PROVE Inv'
  BY <1>1, CancelArrivesKeeps
<1>2. ASSUME NEW a \in Requests, NEW i \in 0..Chunks - 1, NEW n \in Sizes, ChunkArrives(a, i, n) PROVE Inv'
  BY <1>2, ChunkArrivesKeeps
<1>3. CASE ExpireArrives
  BY <1>3, ExpireArrivesKeeps
<1>4. ASSUME NEW a \in Actors, HoldSession(a) \/ Busy(a) \/ Refresh(a) PROVE Inv'
  BY <1>4, HoldKeeps, BusyKeeps, RefreshKeeps
<1>5. ASSUME NEW a \in Actors,
             Repeated(a) \/ Refused(a) \/ Stops(a) \/ Resumes(a) \/ Place(a) \/ Create(a) PROVE Inv'
  BY <1>5, RepeatedKeeps, RefusedKeeps, StopsKeeps, ResumesKeeps, PlaceKeeps, CreateKeeps
<1>6. ASSUME NEW a \in Actors, Write(a) \/ WriteRefused(a) \/ Commit(a) \/ Recheck(a) PROVE Inv'
  BY <1>6, WriteKeeps, WriteRefusedKeeps, CommitKeeps, RecheckKeeps
<1>7. ASSUME NEW a \in Actors,
             EndDecides(a) \/ EndLeaves(a) \/ Complete(a) \/ Unlink(a) \/ Remove(a) \/ Finish(a) PROVE Inv'
  BY <1>7, EndDecidesKeeps, EndLeavesKeeps, CompleteKeeps, UnlinkKeeps, RemoveKeeps, FinishKeeps
<1>8. ASSUME NEW a \in Actors, Fail(a) \/ Die(a) PROVE Inv'
  BY <1>8, FailKeeps
<1>9. ASSUME NEW a \in Actors, NEW m \in 0..Size, WriteTorn(a, m) PROVE Inv'
  BY <1>9, WriteTornKeeps
<1>10. CASE SessionEnds \/ TurnIdle \/ Meddle
  BY <1>10, SessionEndsKeeps, TurnIdleKeeps, MeddleKeeps
<1> QED BY <1>1, <1>2, <1>3, <1>4, <1>5, <1>6, <1>7, <1>8, <1>9, <1>10 DEF Next, Step

LEMMA StutterInv ==
  ASSUME Inv, UNCHANGED vars
  PROVE  Inv'
<1>1. TypeOK' /\ Held' /\ Begun' /\ Counted' /\ AckedIsKept' /\ Ended'
  BY DEF Inv, TypeOK, Held, InBlock, Begun, Counted, AckedIsKept, Ended, NothingLeft, vars, files, local
<1>2. Own' = Own /\ Target' = Target
  BY DEF Own, Target, vars, files
<1>3. Begins(Own.data, sent)' <=> Begins(Own.data, sent)
  BY <1>2 DEF Begins, vars
<1>4. Kept'
  BY <1>2, <1>3 DEF Inv, Kept, vars, files
<1>5. ASSUME NEW b \in Actors
      PROVE  Errand(b)' /\ Informed(b)' /\ Working(b)' /\ Committing(b)' /\ Outcome(b)'
  <2>1. Errand(b)' /\ Informed(b)'
    BY DEF Inv, Errand, Informed, vars, local
  <2>2. Working(b)'
    BY DEF Inv, Working, Fits, Last, vars, local
  <2>3. Committing(b)'
    BY <1>2, CommittingStays DEF Inv, vars, local
  <2>4. Outcome(b)'
    BY <1>2 DEF Inv, Outcome, vars, files, local
  <2> QED BY <2>1, <2>2, <2>3, <2>4
<1> QED BY <1>1, <1>4, <1>5 DEF Inv

\* Inv is an invariant of the upload.
THEOREM UploadInv == Spec => []Inv
<1>1. Init => Inv
  BY InitInv
<1>2. Inv /\ [Next]_vars => Inv'
  BY StepInv, StutterInv
<1> QED BY <1>1, <1>2, PTL DEF Spec

\* An upload that succeeded stored the committed chunks, each once, in order
\* and of the declared size, over any retries, torn writes, deaths, cancels and
\* expiries. [write_chunk, _complete, target.write]
THEOREM StoredTheorem == Spec => []StoredIsSent
<1>1. Inv => StoredIsSent
  <2> SUFFICES ASSUME Inv, row.state = "succeeded", final.by # "other"
               PROVE  final.by = "us" /\ final.data = sent /\ Len(sent) = Size
    BY DEF StoredIsSent
  <2>1. row.chunk = Chunks /\ final # NoFile
    BY DEF Inv, Ended
  <2>2. final.by = "us"
    BY <2>1 DEF Inv, TypeOK, Files, Kept
  <2>3. final.data = sent
    BY <2>1, <2>2 DEF Inv, Kept, Own
  <2>4. Len(sent) = Size
    BY <2>1 DEF Inv, Counted
  <2> QED BY <2>2, <2>3, <2>4
<1> QED BY <1>1, UploadInv, PTL

\* A chunk whose receipt was acknowledged stays committed, and the last one is
\* acknowledged only by an upload that succeeded. [write_chunk]
THEOREM AckedTheorem == Spec => []AckedIsKept
<1>1. Inv => AckedIsKept
  BY DEF Inv
<1> QED BY <1>1, UploadInv, PTL

\* A failed or cancelled upload leaves nothing of its own on the host, whoever
\* ended it, while the compute's record is there. [end, _end]
THEOREM NothingLeftTheorem == Spec => []NothingLeft
<1>1. Inv => NothingLeft
  BY DEF Inv, Ended
<1> QED BY <1>1, UploadInv, PTL

\* Where nobody creates a volume of the image's name, an image of others is
\* neither overwritten nor deleted: a part file never has the image's name, and
\* it is linked or renamed to a name that is free. [_complete, end]
THEOREM ForeignTheorem ==
  ASSUME <<"volume", "create">> \notin Setups
  PROVE  Spec => ForeignKept
<1>1. Inv /\ [Next]_vars => (final.by = "other" => final' = final)
  <2> SUFFICES ASSUME Inv, [Next]_vars, final.by = "other"
               PROVE  final' = final
    OBVIOUS
  <2>1. Target # "volume"
    <3>1. setup \in Setups /\ setup[2] = "create"
      BY DEF Inv, TypeOK, Kept
    <3>2. setup = <<setup[1], setup[2]>>
      BY <3>1
    <3> QED BY <3>1, <3>2 DEF Target
  <2>2. \A f : PutFile(f) => final' = final
    BY <2>1 DEF PutFile
  <2>3. ASSUME NEW a \in Actors, Complete(a) PROVE final' = final
    <3>1. Taken
      BY DEF Taken
    <3> QED BY <2>3, <3>1 DEF Complete
  <2>4. CASE Meddle
    BY <2>1, <2>4 DEF Meddle
  <2>5. CASE UNCHANGED vars
    BY <2>5 DEF vars, files
  <2>6. ASSUME NEW a \in Actors, Write(a) \/ Remove(a) \/ \E m \in 0..Size : WriteTorn(a, m) PROVE final' = final
    BY <2>2, <2>6 DEF Write, Remove, WriteTorn
  <2>7. CASE UNCHANGED files
    BY <2>7 DEF files
  <2>8. ASSUME NEW a \in Actors, Step(a), ~Complete(a), ~Write(a), ~Remove(a) PROVE final' = final
    <3>1. CASE Unlink(a)
      BY <3>1 DEF Unlink
    <3>2. CASE ~Unlink(a)
      <4>1. UNCHANGED files
        BY <2>8, <3>2 DEF Step, HoldSession, Busy, Refresh, Repeated, Refused, Stops, EndWith, Resumes, Place, Create,
             WriteRefused, Commit, Recheck, EndDecides, EndLeaves, Finish
      <4> QED BY <4>1, <2>7
    <3> QED BY <3>1, <3>2
  <2>9. ASSUME NEW a \in Actors, Fail(a) \/ Die(a) PROVE final' = final
    BY <2>7, <2>9 DEF Fail, Die
  <2>10. CASE SessionEnds \/ TurnIdle \/ ExpireArrives
    BY <2>7, <2>10 DEF SessionEnds, TurnIdle, ExpireArrives
  <2>11. ASSUME NEW a \in Requests, CancelArrives(a) \/ \E i \in 0..Chunks - 1, n \in Sizes : ChunkArrives(a, i, n)
         PROVE  final' = final
    BY <2>7, <2>11 DEF CancelArrives, ChunkArrives
  <2> QED BY <2>3, <2>4, <2>5, <2>6, <2>8, <2>9, <2>10, <2>11 DEF Next
<1> QED BY <1>1, UploadInv, PTL DEF Spec, ForeignKept

\* A row that ends is written by jobs.finish of an actor in its last step.
LEMMA EndingStep ==
  ASSUME Inv, Next, row.state \in ACTIVE, row'.state # row.state, row'.state \notin ACTIVE
  PROVE  \E a \in Actors : Finish(a)
<1> SUFFICES ASSUME \A a \in Actors : ~Finish(a) PROVE row'.state \in ACTIVE
  OBVIOUS
<1>0. row \in Rows
  BY DEF Inv, TypeOK
<1>1. CASE row' = row
  BY <1>1
<1>2. ASSUME NEW a \in Requests, CancelArrives(a) PROVE row'.state \in ACTIVE
  BY <1>0, <1>2 DEF CancelArrives, Rows
<1>3. ASSUME NEW a \in Actors, Create(a) PROVE row'.state \in ACTIVE
  BY <1>0, <1>3 DEF Create, Rows
<1>4. ASSUME NEW a \in Actors, Commit(a) PROVE row'.state \in ACTIVE
  BY <1>0, <1>4 DEF Commit, Rows
<1>5. CASE TurnIdle
  BY <1>0, <1>5 DEF TurnIdle, Rows
<1>6. ASSUME NEW a \in Actors, Step(a), ~Create(a), ~Commit(a) PROVE row' = row
  BY <1>6 DEF Step, HoldSession, Busy, Refresh, Repeated, Refused, Stops, EndWith, Resumes, Place, Write, WriteRefused,
       Recheck, EndDecides, EndLeaves, Complete, Unlink, Remove
<1>7. ASSUME NEW a \in Actors, Fail(a) \/ Die(a) \/ \E m \in 0..Size : WriteTorn(a, m) PROVE row' = row
  BY <1>7 DEF Fail, Die, WriteTorn
<1>8. CASE SessionEnds \/ ExpireArrives \/ Meddle
  BY <1>8 DEF SessionEnds, ExpireArrives, Meddle
<1>9. ASSUME NEW a \in Requests, \E i \in 0..Chunks - 1, n \in Sizes : ChunkArrives(a, i, n) PROVE row' = row
  BY <1>9 DEF ChunkArrives
<1> QED BY <1>1, <1>2, <1>3, <1>4, <1>5, <1>6, <1>7, <1>8, <1>9 DEF Next

\* Only an upload with a chunk missing and a cancel asked for ends cancelled,
\* only one with every chunk in succeeds, and housekeeping ends only one that is
\* idle when it does. [end, write_chunk, UploadVolume.expire]
THEOREM CauseTheorem == Spec => EndsForCause
<1> DEFINE Cause == row.state \in ACTIVE /\ row'.state # row.state =>
                      /\ row'.state = "cancelled" => row.chunk < Chunks /\ row.cancel
                      /\ row'.state = "succeeded" => row.chunk = Chunks
                      /\ pc[Keeper] = "finish" /\ pc'[Keeper] # "finish" => row.idle
<1>1. Inv /\ [Next]_vars => Cause
  <2> SUFFICES ASSUME Inv, [Next]_vars, row.state \in ACTIVE, row'.state # row.state
               PROVE  /\ row'.state = "cancelled" => row.chunk < Chunks /\ row.cancel
                      /\ row'.state = "succeeded" => row.chunk = Chunks
                      /\ pc[Keeper] = "finish" /\ pc'[Keeper] # "finish" => row.idle
    OBVIOUS
  <2>1. Next
    BY DEF vars
  <2>2. pc[Keeper] = "finish" => row.idle
    BY DEF Inv, Working
  <2>3. CASE row'.state \in ACTIVE
    BY <2>2, <2>3
  <2>4. CASE row'.state \notin ACTIVE
    <3>1. PICK a \in Actors : Finish(a)
      BY <2>1, <2>4, EndingStep
    <3>2. row' = [row EXCEPT !.state = out[a]] /\ row \in Rows /\ pc[a] = "finish"
      BY <3>1 DEF Finish, Inv, TypeOK
    <3>3. row'.state = out[a]
      BY <3>2 DEF Rows
    <3>4. /\ out[a] = "cancelled" => row.cancel /\ row.chunk < Chunks
          /\ out[a] = "succeeded" => row.chunk = Chunks
      BY <3>2 DEF Inv, Outcome
    <3> QED BY <2>2, <3>3, <3>4
  <2> QED BY <2>3, <2>4
<1> QED BY <1>1, UploadInv, PTL DEF Spec, EndsForCause
=============================================================================
