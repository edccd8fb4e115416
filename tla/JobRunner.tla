----------------------------- MODULE JobRunner -----------------------------
(***************************************************************************)
(* How the worker runs a scheduled job (services/worker/runner.py): job    *)
(* lock, attempts with back-off, accounting of outcomes, the degraded state *)
(* with its cooldown, and the health file through which the API sees it    *)
(* (apps/api/app/services/system_status.py).  Everything between two awaits *)
(* of JobRunner.run is one action.                                         *)
(***************************************************************************)
EXTENDS Naturals, Functions

CONSTANTS
  Jobs,          \* scheduled jobs
  Providers,     \* data sources
  ProviderOf,    \* JobSpec.provider of each job
  MaxAttempts,   \* RetryPolicy.max_attempts of each job
  Ticks,         \* names of the calls of run that may be under way for one job
  DisabledSets,  \* what DISABLED_PROVIDERS may be when the worker starts
  Faults         \* which of FaultKinds happen

FaultKinds == {"crash", "persist_fails", "job_fails"}

DegradeAfter == 3  \* DEGRADE_AFTER_CONSECUTIVE_FAILURES

ASSUME RunnerAssumption ==
  /\ ProviderOf \in [Jobs -> Providers]
  /\ MaxAttempts \in [Jobs -> Nat \ {0}]
  /\ DisabledSets \subseteq SUBSET Providers
  /\ Faults \subseteq FaultKinds

VARIABLES
  enabled,    \* JobHealth.enabled
  fails,      \* JobHealth.consecutive_failures, counted up to DegradeAfter
  ran,        \* has the job a finished run since the worker started?
  succeeded,  \* is JobHealth.last_success_at set?
  cooling,    \* is JobHealth.last_failure_at less than 300 s ago?
  lock,       \* is the job's asyncio.Lock held?
  phase,      \* where each call of run stands
  attempt,    \* its attempt number, 0 outside the retry loop
  up,         \* is the worker process running?
  file,       \* worker_health.json
  stale       \* history: did the last write of the file fail?

healthVars == <<enabled, fails, ran, succeeded, cooling>>
runVars == <<lock, phase, attempt>>
vars == <<healthVars, runVars, up, file, stale>>

Calls == Jobs \X Ticks

Missing == [written |-> FALSE]

-----------------------------------------------------------------------------
(***************************************************************************)
(* JobHealth and the health file.                                          *)
(***************************************************************************)

Degraded(j) == enabled[j] /\ fails[j] >= DegradeAfter

\* JobHealth.status
StatusOf(on, count, has) ==
  CASE ~on -> "disabled"
    [] on /\ count >= DegradeAfter -> "degraded"
    [] on /\ count \in 1..(DegradeAfter - 1) -> "failing"
    [] on /\ count = 0 /\ ~has -> "never_run"
    [] on /\ count = 0 /\ has -> "healthy"

\* The statuses, the best first.
Ranked(order) == [status \in Range(order) |-> CHOOSE i \in DOMAIN order : order[i] = status]

\* Defect: a job that has not run yet hides the failures of its provider.
NeverRunWorstSeverity ==
  Ranked(<<"healthy", "failing", "degraded", "never_run", "disabled">>)

\* _SEVERITY
Severity == Ranked(<<"healthy", "never_run", "failing", "degraded", "disabled">>)

\* HealthRegistry.snapshot
Snapshot(on, count, has, good) ==
  [written |-> TRUE,
   status |-> [j \in Jobs |-> StatusOf(on[j], count[j], has[j])],
   success |-> good]

\* persist: an OSError is logged and the old file stays.
PersistState(on, count, has, good) ==
  \/ file' = Snapshot(on, count, has, good) /\ stale' = FALSE
  \/ "persist_fails" \in Faults /\ stale' = TRUE /\ UNCHANGED file

Persist == PersistState(enabled', fails', ran', succeeded')

JobsOf(p) == {j \in Jobs : ProviderOf[j] = p}

\* HealthRegistry.providers: the worst status of the provider's jobs.
WorstStatus(p) ==
  CHOOSE s \in DOMAIN Severity :
    /\ \E j \in JobsOf(p) : file.status[j] = s
    /\ \A j \in JobsOf(p) : Severity[file.status[j]] <= Severity[s]

\* read_data_sources and _data_source_status: what the API says of a provider.
Reported(p) ==
  IF ~file.written \/ JobsOf(p) = {} THEN "failed"
  ELSE LET worst == WorstStatus(p)
           worked == \E j \in JobsOf(p) : file.success[j] IN
    CASE worst = "healthy" \/ (worst = "never_run" /\ worked) -> "ok"
      [] worst = "never_run" /\ ~worked -> "pending"
      [] worst \in {"degraded", "failing"} -> "degraded"
      [] worst = "disabled" -> "failed"

-----------------------------------------------------------------------------

\* The worker has not been started yet, and no file has ever been written.
Init ==
  /\ enabled = [j \in Jobs |-> TRUE]
  /\ fails = [j \in Jobs |-> 0]
  /\ ran = [j \in Jobs |-> FALSE]
  /\ succeeded = [j \in Jobs |-> FALSE]
  /\ cooling = [j \in Jobs |-> FALSE]
  /\ lock = [j \in Jobs |-> FALSE]
  /\ phase = [c \in Calls |-> "idle"]
  /\ attempt = [c \in Calls |-> 0]
  /\ up = FALSE
  /\ file = Missing
  /\ stale = FALSE

\* A registry without any run yet.
NothingRecorded ==
  /\ fails' = [j \in Jobs |-> 0]
  /\ ran' = [j \in Jobs |-> FALSE]
  /\ succeeded' = [j \in Jobs |-> FALSE]
  /\ cooling' = [j \in Jobs |-> FALSE]

NoCalls ==
  /\ lock' = [j \in Jobs |-> FALSE]
  /\ phase' = [c \in Calls |-> "idle"]
  /\ attempt' = [c \in Calls |-> 0]

\* WorkerScheduler.__init__ and start: the registry is built anew.
Start ==
  /\ ~up
  /\ up' = TRUE
  /\ \E disabled \in DisabledSets :
       enabled' = [j \in Jobs |-> ProviderOf[j] \notin disabled]
  /\ NothingRecorded
  /\ NoCalls
  /\ Persist

\* The process ends: its registry is gone, and calls under way are not counted.
Ends ==
  /\ up
  /\ up' = FALSE
  /\ enabled' = [j \in Jobs |-> TRUE]
  /\ NothingRecorded
  /\ NoCalls

\* shutdown: one last persist.
Shutdown ==
  /\ Ends
  /\ PersistState(enabled, fails, ran, succeeded)

Crash ==
  /\ "crash" \in Faults
  /\ Ends
  /\ UNCHANGED <<file, stale>>

Heartbeat ==
  /\ up
  /\ UNCHANGED <<healthVars, runVars, up>>
  /\ Persist

-----------------------------------------------------------------------------
(***************************************************************************)
(* JobRunner.run, called by WorkerScheduler.dispatch.                      *)
(***************************************************************************)

\* A disabled job is not scheduled.  A tick of a trading_day_only job on another
\* day is dropped by dispatch, and an overlapping one by max_instances or by the
\* lock (record_skip alone): as if it had not come.
Due(c) ==
  /\ up
  /\ enabled[c[1]]
  /\ phase[c] = "idle"

InCooldown(j) == Degraded(j) /\ cooling[j]

\* The tick is skipped: degraded_cooldown persists, already_running does not.
SkipInCooldown(c) ==
  /\ Due(c)
  /\ InCooldown(c[1])
  /\ UNCHANGED <<healthVars, runVars, up>>
  /\ Persist

\* Defect: an overlapping tick is not skipped.
BeginRunWithoutLock(c) ==
  /\ Due(c)
  /\ ~InCooldown(c[1])
  /\ lock' = [lock EXCEPT ![c[1]] = TRUE]
  /\ phase' = [phase EXCEPT ![c] = "trying"]
  /\ attempt' = [attempt EXCEPT ![c] = 1]
  /\ UNCHANGED <<healthVars, up, file, stale>>

\* The lock is free: it is taken and the first attempt starts.
BeginRun(c) ==
  /\ Due(c)
  /\ ~InCooldown(c[1])
  /\ ~lock[c[1]]
  /\ lock' = [lock EXCEPT ![c[1]] = TRUE]
  /\ phase' = [phase EXCEPT ![c] = "trying"]
  /\ attempt' = [attempt EXCEPT ![c] = 1]
  /\ UNCHANGED <<healthVars, up, file, stale>>

EndRun(c) ==
  /\ lock' = [lock EXCEPT ![c[1]] = FALSE]
  /\ phase' = [phase EXCEPT ![c] = "idle"]
  /\ attempt' = [attempt EXCEPT ![c] = 0]

\* Defect: a success does not end the series of failures.
SucceedKeepingFailures(c) ==
  /\ phase[c] = "trying"
  /\ EndRun(c)
  /\ ran' = [ran EXCEPT ![c[1]] = TRUE]
  /\ succeeded' = [succeeded EXCEPT ![c[1]] = TRUE]
  /\ UNCHANGED <<enabled, fails, cooling, up>>
  /\ Persist

\* record_success
Succeed(c) ==
  /\ phase[c] = "trying"
  /\ EndRun(c)
  /\ fails' = [fails EXCEPT ![c[1]] = 0]
  /\ ran' = [ran EXCEPT ![c[1]] = TRUE]
  /\ succeeded' = [succeeded EXCEPT ![c[1]] = TRUE]
  /\ UNCHANGED <<enabled, cooling, up>>
  /\ Persist

\* Defect: one attempt too many.
AttemptFailsOffByOne(c) ==
  /\ "job_fails" \in Faults
  /\ phase[c] = "trying"
  /\ attempt[c] <= MaxAttempts[c[1]]
  /\ phase' = [phase EXCEPT ![c] = "backoff"]
  /\ UNCHANGED <<healthVars, lock, attempt, up, file, stale>>

\* The attempt raises or times out, and another one is left.
AttemptFails(c) ==
  /\ "job_fails" \in Faults
  /\ phase[c] = "trying"
  /\ attempt[c] < MaxAttempts[c[1]]
  /\ phase' = [phase EXCEPT ![c] = "backoff"]
  /\ UNCHANGED <<healthVars, lock, attempt, up, file, stale>>

\* The sleep of delay_for is over.
Retry(c) ==
  /\ phase[c] = "backoff"
  /\ phase' = [phase EXCEPT ![c] = "trying"]
  /\ attempt' = [attempt EXCEPT ![c] = @ + 1]
  /\ UNCHANGED <<healthVars, lock, up, file, stale>>

\* The last attempt fails: record_failure, once for the whole run.
Fail(c) ==
  /\ "job_fails" \in Faults
  /\ phase[c] = "trying"
  /\ attempt[c] = MaxAttempts[c[1]]
  /\ EndRun(c)
  /\ fails' = [fails EXCEPT ![c[1]] = IF @ < DegradeAfter THEN @ + 1 ELSE @]
  /\ ran' = [ran EXCEPT ![c[1]] = TRUE]
  /\ cooling' = [cooling EXCEPT ![c[1]] = TRUE]
  /\ UNCHANGED <<enabled, succeeded, up>>
  /\ Persist

\* 300 s have passed since the last failure.
CooldownElapses(j) ==
  /\ cooling[j]
  /\ cooling' = [cooling EXCEPT ![j] = FALSE]
  /\ UNCHANGED <<enabled, fails, ran, succeeded, runVars, up, file, stale>>

CallStep(c) == Succeed(c) \/ AttemptFails(c) \/ Retry(c) \/ Fail(c)

Next ==
  \/ Start \/ Shutdown \/ Crash \/ Heartbeat
  \/ \E c \in Calls : SkipInCooldown(c) \/ BeginRun(c) \/ CallStep(c)
  \/ \E j \in Jobs : CooldownElapses(j)

Spec == Init /\ [][Next]_vars

\* Triggers fire for ever and find their job due (trading days recur); an attempt
\* is ended by its timeout, a back-off by its delay; the clock runs; the container
\* is restarted.
Fairness ==
  /\ WF_vars(Start)
  /\ \A j \in Jobs : WF_vars(\E t \in Ticks : BeginRun(<<j, t>>))
  /\ \A c \in Calls : WF_vars(CallStep(c))
  /\ \A j \in Jobs : WF_vars(CooldownElapses(j))

FairSpec == Spec /\ Fairness

-----------------------------------------------------------------------------
(***************************************************************************)
(* Properties.                                                             *)
(***************************************************************************)

\* Every variable keeps its type.
TypeOK ==
  /\ enabled \in [Jobs -> BOOLEAN]
  /\ fails \in [Jobs -> 0..DegradeAfter]
  /\ ran \in [Jobs -> BOOLEAN]
  /\ succeeded \in [Jobs -> BOOLEAN]
  /\ cooling \in [Jobs -> BOOLEAN]
  /\ lock \in [Jobs -> BOOLEAN]
  /\ phase \in [Calls -> {"idle", "trying", "backoff"}]
  /\ attempt \in [Calls -> Nat]
  /\ \A c \in Calls : attempt[c] <= MaxAttempts[c[1]]
  /\ up \in BOOLEAN
  /\ file \in {Missing} \cup
       [written : {TRUE}, status : [Jobs -> DOMAIN Severity], success : [Jobs -> BOOLEAN]]
  /\ stale \in BOOLEAN

\* "同一作业不并发运行" (runner.py:373): ticks of one job never run it twice at
\* once, through retries, back-offs and restarts.
OneRunPerJob ==
  \A j \in Jobs : \A s, t \in Ticks :
    phase[<<j, s>>] # "idle" /\ phase[<<j, t>>] # "idle" => s = t

\* "降级后不再按原始高频调度持续轰击上游" (runner.py:41): while a degraded job
\* cools down, no attempt of it is under way and none waits in a back-off.
NoRunInCooldown ==
  \A c \in Calls : InCooldown(c[1]) => phase[c] = "idle"

\* "绝不谎报 ok" (system_status.py:6): while the worker runs and its last write of
\* the file did not fail, the API says ok of a source only if some job of it
\* succeeded since the worker started and no job of it has failed since its own
\* last success.
OkIsEarned ==
  up /\ ~stale =>
    \A p \in Providers :
      Reported(p) = "ok" =>
        /\ \E j \in JobsOf(p) : succeeded[j]
        /\ \A j \in JobsOf(p) : fails[j] = 0

\* A degraded job comes back by itself: if the worker stays up and from some
\* point on the job never fails, it does not stay degraded.
DegradedJobRecovers ==
  \A j \in Jobs :
    <>[][up' /\ ~\E t \in Ticks : AttemptFails(<<j, t>>) \/ Fail(<<j, t>>)]_vars =>
      (Degraded(j) ~> ~Degraded(j))

=============================================================================
