------------------------------ MODULE MCAgent ------------------------------
(***************************************************************************)
(* Instances of Agent for TLC: two documents of the stock and one of       *)
(* another, one document per answer of the tool, two rounds.               *)
(***************************************************************************)
EXTENDS Agent

=============================================================================
