---------------------------- MODULE MCJobRunner ----------------------------
(***************************************************************************)
(* Instances of JobRunner for TLC: one provider with two jobs, of which    *)
(* one has a single attempt, and a second provider without jobs.           *)
(***************************************************************************)
EXTENDS JobRunner

CONSTANTS quotes, news, akshare, csi300

MCProviderOf == [j \in Jobs |-> akshare]
TwoAttempts == [j \in Jobs |-> IF j = quotes THEN 2 ELSE 1]
DisabledOrNot == {{}, {akshare}}
NothingDisabled == {{}}

=============================================================================
