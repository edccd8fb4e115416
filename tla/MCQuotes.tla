------------------------------- MODULE MCQuotes -------------------------------
(* Instances of Quotes: requests are interchangeable.                      *)
EXTENDS Quotes, TLC

Symmetry == Permutations(Requests)

=============================================================================
