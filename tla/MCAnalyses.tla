----------------------------- MODULE MCAnalyses -----------------------------
(***************************************************************************)
(* Instances of Analyses for TLC: three documents, pages of one document. *)
(***************************************************************************)
EXTENDS Analyses

=============================================================================
