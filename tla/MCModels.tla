------------------------------ MODULE MCModels ------------------------------
(***************************************************************************)
(* Instances of Models for TLC.                                            *)
(***************************************************************************)
EXTENDS Models, TLC

Symmetry == Permutations(Symbols) \cup Permutations(Operators)

=============================================================================
