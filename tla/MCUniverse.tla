----------------------------- MODULE MCUniverse -----------------------------
(* Memberships for Universe: an exchange, a return, and a day of rest.      *)
EXTENDS Universe

CONSTANTS a, b, c

MCHistories ==
  {[t \in 0..LastDay |-> CASE t = 0 -> {b, c} [] t \in 1..2 -> {a, b} [] OTHER -> {a, c}],
   [t \in 0..LastDay |-> CASE t = 0 -> {b, c} [] t = 1 -> {a, b} [] t \in 2..3 -> {a, c} [] OTHER -> {b, c}],
   [t \in 0..LastDay |-> CASE t = 0 -> {b, c} [] t = 1 -> {a, b} [] t = 2 -> {b, c} [] t = 3 -> {a, b} [] OTHER -> {a, c}]}

=============================================================================
