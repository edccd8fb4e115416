----------------------------- MODULE MCJobQueue -----------------------------
(***************************************************************************)
(* An instance of JobQueue for TLC: two analysis rows compete for one      *)
(* place, a backfill has three steps, a quote row has a cooldown.          *)
(***************************************************************************)
EXTENDS JobQueue

CONSTANTS b1, q1, a1, a2

MCTypeOf ==
  [j \in Jobs |-> CASE j = b1 -> "instrument_backfill"
                    [] j = q1 -> "quote_refresh"
                    [] j \in {a1, a2} -> "analysis_refresh"]

MixedPlaces == [type \in JobTypes |-> IF type = "analysis_refresh" THEN 1 ELSE 2]

MCTogether == {{b1}, {q1, a1}, {a1, a2}}

=============================================================================
