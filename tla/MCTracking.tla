------------------------------ MODULE MCTracking ------------------------------
(* Instances of Tracking: requests are interchangeable.                    *)
EXTENDS Tracking, TLC

Symmetry == Permutations(Clients)

=============================================================================
