---------------------------- MODULE JobLifecycle ----------------------------
(***************************************************************************)
(* What the jobs table promises to the callers of the API, without queue,  *)
(* dispatcher or task: a row is submitted, is taken up by at most one run, *)
(* ends by that run, and goes back to the queue only when a restarted      *)
(* worker takes all interrupted rows back (docstrings of                   *)
(* repositories/jobs.py and scheduler.py).  A row that is submitted while  *)
(* a run has it is contested: nothing is promised about it until a run     *)
(* takes it up alone.                                                      *)
(***************************************************************************)
CONSTANT Jobs

VARIABLES
  status,     \* the row's status
  working,    \* the running rows that some run will end
  up,         \* is the worker running?
  contested   \* rows submitted while a run has them

vars == <<status, working, up, contested>>

Active == {"queued", "running"}

Ended == {"succeeded", "failed"}

Init ==
  /\ status = [j \in Jobs |-> "absent"]
  /\ working = {}
  /\ up = TRUE
  /\ contested = {}

\* A request queues a row that no run has.
Submit(j) ==
  /\ j \notin working
  /\ status' = [status EXCEPT ![j] = "queued"]
  /\ UNCHANGED <<working, up, contested>>

\* A request queues a row that a run has not let go of.
SubmitOver(j) ==
  /\ up
  /\ status' = [status EXCEPT ![j] = "queued"]
  /\ working' = working \ {j}
  /\ contested' = contested \cup {j}
  /\ UNCHANGED up

\* The worker takes up queued rows; a run that is alone with its row settles it.
TakeUp(claim, alone) ==
  /\ up
  /\ alone \subseteq claim
  /\ \A j \in claim : status[j] = "queued"
  /\ status' = [j \in Jobs |-> IF j \in claim THEN "running" ELSE status[j]]
  /\ working' = working \cup claim
  /\ contested' = contested \ alone
  /\ UNCHANGED up

\* The run of a row ends it.
End(j, outcome) ==
  /\ up
  /\ j \in working
  /\ status' = [status EXCEPT ![j] = outcome]
  /\ working' = working \ {j}
  /\ UNCHANGED <<up, contested>>

\* Several runs write to one contested row.
Interfere(j) ==
  /\ up
  /\ j \in contested
  /\ \E s \in Active \cup Ended : status' = [status EXCEPT ![j] = s]
  /\ working' \in {working \cup {j}, working \ {j}}
  /\ UNCHANGED <<up, contested>>

\* A fault takes runs away; their rows stay as they are.
Lose(lost) ==
  /\ working' = working \ lost
  /\ UNCHANGED <<status, up, contested>>

\* The worker stops, and with it every run.
Stop ==
  /\ up
  /\ up' = FALSE
  /\ working' = {}
  /\ UNCHANGED <<status, contested>>

\* The worker starts, and takes every interrupted row back or none.
Recover ==
  /\ ~up
  /\ up' = TRUE
  /\ status' \in {status,
                  [j \in Jobs |-> IF status[j] = "running" THEN "queued" ELSE status[j]]}
  /\ UNCHANGED <<working, contested>>

Next ==
  \/ \E j \in Jobs : Submit(j) \/ SubmitOver(j) \/ Interfere(j)
  \/ \E claim \in SUBSET Jobs : \E alone \in SUBSET claim : TakeUp(claim, alone)
  \/ \E j \in Jobs, outcome \in Ended : End(j, outcome)
  \/ \E lost \in SUBSET working : Lose(lost)
  \/ Stop
  \/ Recover

Spec == Init /\ [][Next]_vars

=============================================================================
