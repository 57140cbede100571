------------------------------ MODULE MCUpload ------------------------------
(***************************************************************************)
(* Small instances of Upload: two requests and housekeeping on an image of *)
(* three units in two chunks.                                              *)
(***************************************************************************)
EXTENDS Upload

\* A part file or volume that is lost; over SSH nobody interferes.
LosingSetups == {<<"local", "lose">>, <<"ssh", "nothing">>, <<"volume", "lose">>}

\* A taken name, and a compute whose record is deleted.
OthersSetups == {<<"local", "create">>, <<"ssh", "create">>, <<"volume", "compute">>}

UploadSetups == LosingSetups \cup OthersSetups

\* Bound: one fault where others interfere.
Bounded == setup \in OthersSetups => faults' <= 1

TakenSetups == {<<"local", "create">>}
VolumeTakenSetups == {<<"volume", "create">>}
=============================================================================
