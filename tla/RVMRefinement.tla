--------------------------- MODULE RVMRefinement ---------------------------
(***************************************************************************)
(* librvm implements RecoverableMemory.  A segment's image is its memory   *)
(* while rvm_map has an entry for it, unmapped or not; a transaction owns  *)
(* a segment if it runs (an aborted one may have left its tid behind); the *)
(* segment of a destroy in progress is doomed.                             *)
(***************************************************************************)
EXTENDS RVM

Image == [s \in Segs |-> IF table[s] = "none" THEN None ELSE NormAll(mem[s])]
LiveOwner == [s \in Segs |-> IF owner[s] \in running THEN owner[s] ELSE 0]
Doomed == IF pc \in {"scan", "remove"} THEN {arg} ELSE {}

Promise == INSTANCE RecoverableMemory WITH
    Contents <- Vals \cup {Blank}, Fresh <- Blank, NoTid <- 0, NoImage <- None,
    image <- Image, owner <- LiveOwner, doomed <- Doomed

\* Seen from its caller librvm is a recoverable memory: rvm_map returns the
\* last committed content, rvm_commit_trans fixes all the segments of the
\* transaction at once, rvm_abort_trans and a crash undo everything since.
Refines == Promise!Spec
=============================================================================
