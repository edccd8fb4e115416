------------------------------ MODULE JobQueue ------------------------------
(***************************************************************************)
(* The jobs table as a queue between the API and the worker.               *)
(*                                                                         *)
(* The API only registers rows (apps/api/app/repositories/jobs.py); the    *)
(* worker's dispatchers claim queued rows of their type, spawn one asyncio *)
(* task per row and let the task write the row's end                       *)
(* (services/worker/scheduler.py, services/worker/jobs/                    *)
(* market_data_jobs.py).  Rows live in Postgres under READ COMMITTED: each *)
(* action below is one committed transaction, or one step of an asyncio    *)
(* task between two awaits.  A request reads the row and writes it in two  *)
(* actions, because no lock is taken by the read.                          *)
(***************************************************************************)
EXTENDS Naturals, FiniteSets

CONSTANTS
  Jobs,           \* idempotency keys: one row per (job_type, symbol)
  TypeOf,         \* the job_type of each key
  MaxConcurrent,  \* MAX_CONCURRENT_* of each job_type
  Slots,          \* names for the tasks that may be alive for one row at once
  Requests,       \* API requests in flight at once; each slot is reused
  Together,       \* bound: which sets of rows are ever inserted together
  Faults          \* which infrastructure failures happen

JobTypes == {"instrument_backfill", "quote_refresh", "analysis_refresh"}

FaultKinds == {"crash", "dispatch_lost", "finish_lost", "requeue_fails"}

ASSUME QueueAssumption ==
  /\ TypeOf \in [Jobs -> JobTypes]
  /\ MaxConcurrent \in [JobTypes -> Nat \ {0}]
  /\ IsFiniteSet(Jobs)
  /\ IsFiniteSet(Slots)
  /\ Together \subseteq SUBSET Jobs
  /\ Faults \subseteq FaultKinds

VARIABLES
  status,     \* jobs.status, "absent" before the row is inserted
  steps,      \* jobs.completed_steps
  recent,     \* is jobs.updated_at less than the 30 s cooldown ago?
  created,    \* the rank of jobs.created_at in its type, 0 before the insert
  task,       \* where the task of each run of a row stands, "none" if no task
  completed,  \* the local `completed` of run_instrument_backfill, 0 once unread
  owner,      \* history: the slot of the row's last claim, until its task ends
  request,    \* what each request in flight has read
  up,         \* is the worker process running?
  orphan,     \* history: rows whose task was lost to a fault other than a crash
  contested   \* history: rows that a request, having read their end, has reset
              \* while a task was alive, until a claim finds them without a task

rowVars == <<status, steps, recent, created>>
taskVars == <<task, completed>>
vars == <<rowVars, taskVars, owner, request, up, orphan, contested>>

\* Definitions marked "Defect" are wrong on purpose: each is a slip someone could
\* make in the definition that follows it, and no specification uses it.

\* Defect: a running row counts as one that may be submitted again.
ActiveWithoutRunning == {"queued"}

Active == {"queued", "running"}

Terminal == {"succeeded", "failed"}

\* A run of a row: the asyncio task created for one claim of it.
Runs == Jobs \X Slots

TaskStates == {"none", "claimed", "start", "work", "error",
               "finish_ok", "finish_fail"}

\* run_* has returned or raised; only _finish_backfill is left to do.
Finishing == {"finish_ok", "finish_fail"}

TypeOfRun(k) == TypeOf[k[1]]

\* Defect: one step more than run_instrument_backfill has.
FullStepsOffByOne(type) == IF type = "instrument_backfill" THEN 4 ELSE 1

\* completed_steps of a row whose run of this type succeeded.
FullSteps(type) ==
  CASE type = "instrument_backfill" -> 3
    [] type = "quote_refresh" -> 1
    [] type = "analysis_refresh" -> 0

HasTask(j) == \E s \in Slots : task[<<j, s>>] # "none"

LiveRuns(type) == {k \in Runs : TypeOfRun(k) = type /\ task[k] # "none"}

Idle == [state |-> "idle"]
Seen(j) == [state |-> "seen", job |-> j, reset |-> steps[j] # 0,
            read |-> IF status[j] \in Terminal THEN "ended" ELSE status[j]]
SeenRecords == [state : {"seen"}, job : Jobs, reset : BOOLEAN, read : {"absent", "ended"}]

\* A request has read the row of j and has not committed its write yet.
InFlight(r, j) == request[r].state = "seen" /\ request[r].job = j

-----------------------------------------------------------------------------

Init ==
  /\ status = [j \in Jobs |-> "absent"]
  /\ steps = [j \in Jobs |-> 0]
  /\ recent = [j \in Jobs |-> FALSE]
  /\ created = [j \in Jobs |-> 0]
  /\ task = [k \in Runs |-> "none"]
  /\ completed = [k \in Runs |-> 0]
  /\ owner = [j \in Jobs |-> "nobody"]
  /\ request = [r \in Requests |-> Idle]
  /\ up = TRUE
  /\ orphan = {}
  /\ contested = {}

-----------------------------------------------------------------------------
(***************************************************************************)
(* The API: repositories/jobs.py, called by one transaction per request.   *)
(***************************************************************************)

\* A first request for j stays within the bound.
MayInsert(j) == \E rows \in Together : {i \in Jobs : status[i] # "absent"} \cup {j} \subseteq rows

\* enqueue and enqueue_quote_refresh read the row.  An active row, or a quote
\* row still cooling down, is returned as it is and the request ends there.
EnqueueRead(r, j) ==
  /\ request[r] = Idle
  /\ status[j] \notin Active
  /\ status[j] = "absent" => MayInsert(j)
  /\ ~(TypeOf[j] = "quote_refresh" /\ status[j] \in Terminal /\ recent[j])
  /\ request' = [request EXCEPT ![r] = Seen(j)]
  /\ UNCHANGED <<rowVars, taskVars, owner, up, orphan, contested>>

Inserted(type) == {i \in Jobs : TypeOf[i] = type /\ created[i] # 0}

\* The row is written and committed from what was read: a new row, or the
\* reset of one that had ended.  The ORM writes only the columns it changed.
EnqueueCommit(r, j) ==
  /\ InFlight(r, j)
  /\ request[r].read = "absent" => status[j] = "absent" /\ MayInsert(j)
  /\ request' = [request EXCEPT ![r] = Idle]
  /\ status' = [status EXCEPT ![j] = "queued"]
  /\ steps' = IF request[r].reset THEN [steps EXCEPT ![j] = 0] ELSE steps
  /\ recent' = [recent EXCEPT ![j] = TRUE]
  /\ created' = IF request[r].read = "absent"
                THEN [created EXCEPT
                        ![j] = Cardinality(Inserted(TypeOf[j])) + 1]
                ELSE created
  /\ contested' = IF request[r].read = "ended" /\ HasTask(j)
                  THEN contested \cup {j} ELSE contested
  /\ UNCHANGED <<taskVars, owner, up, orphan>>

\* The request ends without an effect: it failed before its commit, or another
\* request inserted the row first and UNIQUE(idempotency_key) refuses this one.
EnqueueAbort(r, j) ==
  /\ InFlight(r, j)
  /\ request' = [request EXCEPT ![r] = Idle]
  /\ UNCHANGED <<rowVars, taskVars, owner, up, orphan, contested>>

\* The 30 s cooldown of a quote row that has ended runs out.
CooldownElapses(j) ==
  /\ TypeOf[j] = "quote_refresh"
  /\ status[j] \in Terminal
  /\ recent[j]
  /\ recent' = [recent EXCEPT ![j] = FALSE]
  /\ UNCHANGED <<status, steps, created, taskVars, owner, request, up, orphan, contested>>

-----------------------------------------------------------------------------
(***************************************************************************)
(* The dispatchers of services/worker/scheduler.py, one per job_type.      *)
(***************************************************************************)

\* Defect: the claim looks at the type alone, not at the status.
BacklogOfAnyActive(type) == {j \in Jobs : TypeOf[j] = type /\ status[j] \in Active}

Backlog(type) == {j \in Jobs : TypeOf[j] = type /\ status[j] = "queued"}

\* ORDER BY created_at LIMIT limit.
OldestQueued(type, limit) ==
  {j \in Backlog(type) :
     Cardinality({i \in Backlog(type) : created[i] < created[j]}) < limit}

\* Defect: every tick claims as if no task were alive.
FreeIgnoringTasks(type) == MaxConcurrent[type]

\* MAX_CONCURRENT_* - len(tasks): what a dispatcher may still claim.
Free(type) == MaxConcurrent[type] - Cardinality(LiveRuns(type))

\* Runs of a row are told apart by name only: the next one takes a free name.
FreeSlot(j) ==
  CHOOSE s \in Slots : task[<<j, s>>] = "none" \/ \A t \in Slots : task[<<j, t>>] # "none"

\* The rows of a claim become running; slot names the run of each.
Claim(claim, slot) ==
  /\ \A j \in claim : task[<<j, slot[j]>>] = "none"
  /\ task' = [k \in Runs |-> IF k[1] \in claim /\ slot[k[1]] = k[2]
                              THEN "claimed" ELSE task[k]]
  /\ owner' = [j \in Jobs |-> IF j \in claim THEN slot[j] ELSE owner[j]]
  /\ status' = [j \in Jobs |-> IF j \in claim THEN "running" ELSE status[j]]
  /\ recent' = [j \in Jobs |-> IF j \in claim THEN TRUE ELSE recent[j]]
  /\ orphan' = orphan \ claim
  /\ contested' = {j \in contested : j \in claim => HasTask(j)}
  /\ UNCHANGED <<steps, created, completed, request, up>>

\* The claim of one tick is committed; its tasks do not exist yet.  A tick
\* starts only when the previous one has returned.  SKIP LOCKED may leave out
\* rows, so a claim can be smaller than the limit.
DispatchClaim(type) ==
  /\ up
  /\ \A k \in LiveRuns(type) : task[k] # "claimed"
  /\ \E limit \in 1..Free(type) :
       LET claim == OldestQueued(type, limit) IN
         /\ claim # {}
         /\ \E slot \in [claim -> Slots] :
              (\A j \in claim : slot[j] = FreeSlot(j)) /\ Claim(claim, slot)

\* create_task for every claimed row, without an await in between.
DispatchSpawn(type) ==
  /\ \E k \in LiveRuns(type) : task[k] = "claimed"
  /\ task' = [k \in Runs |->
                IF TypeOfRun(k) = type /\ task[k] = "claimed"
                THEN "start" ELSE task[k]]
  /\ UNCHANGED <<rowVars, completed, owner, request, up, orphan, contested>>

\* The 30 s timeout of the tick, or an error while the session closes, ends the
\* tick after the commit and before the tasks exist.
DispatchLost(type) ==
  /\ "dispatch_lost" \in Faults
  /\ \E k \in LiveRuns(type) : task[k] = "claimed"
  /\ task' = [k \in Runs |->
                IF TypeOfRun(k) = type /\ task[k] = "claimed"
                THEN "none" ELSE task[k]]
  /\ orphan' = orphan \cup {k[1] : k \in {l \in LiveRuns(type) : task[l] = "claimed"}}
  /\ UNCHANGED <<rowVars, completed, owner, request, up, contested>>

-----------------------------------------------------------------------------
(***************************************************************************)
(* A task: _run_backfill, _run_quote_refresh_task and                      *)
(* _run_analysis_refresh_task around run_instrument_backfill,              *)
(* run_quote_refresh and run_analysis_refresh.                             *)
(***************************************************************************)

\* Defect: the progress of the interrupted run is not reset.
BackfillStartKeepingSteps(k) ==
  /\ task[k] = "start"
  /\ TypeOfRun(k) = "instrument_backfill"
  /\ task' = [task EXCEPT ![k] = "work"]
  /\ completed' = [completed EXCEPT ![k] = 0]
  /\ status' = [status EXCEPT ![k[1]] = "running"]
  /\ recent' = [recent EXCEPT ![k[1]] = TRUE]
  /\ UNCHANGED <<steps, created, owner, request, up, orphan, contested>>

\* The first transaction of run_instrument_backfill.
BackfillStart(k) ==
  /\ task[k] = "start"
  /\ TypeOfRun(k) = "instrument_backfill"
  /\ task' = [task EXCEPT ![k] = "work"]
  /\ completed' = [completed EXCEPT ![k] = 0]
  /\ status' = [status EXCEPT ![k[1]] = "running"]
  /\ steps' = [steps EXCEPT ![k[1]] = 0]
  /\ recent' = [recent EXCEPT ![k[1]] = TRUE]
  /\ UNCHANGED <<created, owner, request, up, orphan, contested>>

\* One of the three steps is fetched, stored and recorded in one transaction;
\* the last one also writes SUCCEEDED.  A missing minute bar is such a step.
BackfillStep(k) ==
  /\ task[k] = "work"
  /\ steps' = [steps EXCEPT ![k[1]] = completed[k] + 1]
  /\ recent' = [recent EXCEPT ![k[1]] = TRUE]
  /\ IF completed[k] + 1 = FullSteps("instrument_backfill")
     THEN /\ status' = [status EXCEPT ![k[1]] = "succeeded"]
          /\ task' = [task EXCEPT ![k] = "finish_ok"]
          /\ completed' = [completed EXCEPT ![k] = 0]
     ELSE /\ completed' = [completed EXCEPT ![k] = @ + 1]
          /\ UNCHANGED <<status, task>>
  /\ UNCHANGED <<created, owner, request, up, orphan, contested>>

\* run_quote_refresh stores the quote and writes SUCCEEDED in one transaction.
QuoteSucceeds(k) ==
  /\ task[k] = "start"
  /\ TypeOfRun(k) = "quote_refresh"
  /\ task' = [task EXCEPT ![k] = "finish_ok"]
  /\ status' = [status EXCEPT ![k[1]] = "succeeded"]
  /\ steps' = [steps EXCEPT ![k[1]] = 1]
  /\ recent' = [recent EXCEPT ![k[1]] = TRUE]
  /\ UNCHANGED <<created, completed, owner, request, up, orphan, contested>>

\* run_analysis_refresh leaves the row to _finish_backfill.
AnalysisReturns(k) ==
  /\ task[k] = "start"
  /\ TypeOfRun(k) = "analysis_refresh"
  /\ \E end \in Finishing : task' = [task EXCEPT ![k] = end]
  /\ UNCHANGED <<rowVars, completed, owner, request, up, orphan, contested>>

\* The provider or the database fails inside the try of run_*.  A backfill counts
\* a step before the step's transaction commits, so a step whose commit fails is
\* counted too.
RunFails(k) ==
  /\ \/ /\ task[k] = "work"
        /\ \E counted \in 0..1 :
             completed' = [completed EXCEPT ![k] = @ + counted]
     \/ /\ task[k] = "start"
        /\ TypeOfRun(k) = "quote_refresh"
        /\ UNCHANGED completed
  /\ task' = [task EXCEPT ![k] = "error"]
  /\ UNCHANGED <<rowVars, owner, request, up, orphan, contested>>

\* The except branch writes FAILED in a transaction of its own and raises.
ErrorWrite(k) ==
  /\ task[k] = "error"
  /\ task' = [task EXCEPT ![k] = "finish_fail"]
  /\ status' = [status EXCEPT ![k[1]] = "failed"]
  /\ steps' = IF TypeOfRun(k) = "instrument_backfill"
              THEN [steps EXCEPT ![k[1]] = completed[k]] ELSE steps
  /\ completed' = [completed EXCEPT ![k] = 0]
  /\ recent' = [recent EXCEPT ![k[1]] = TRUE]
  /\ UNCHANGED <<created, owner, request, up, orphan, contested>>

\* run_* raises without having written the row: the first transaction of a
\* backfill is rolled back, or the except branch's own write fails.
RaisesUnwritten(k) ==
  /\ \/ task[k] = "error"
     \/ task[k] = "start" /\ TypeOfRun(k) = "instrument_backfill"
  /\ task' = [task EXCEPT ![k] = "finish_fail"]
  /\ completed' = [completed EXCEPT ![k] = 0]
  /\ UNCHANGED <<rowVars, owner, request, up, orphan, contested>>

\* What the end of a task leaves behind, apart from its row.
EndTask(k) ==
  /\ task' = [task EXCEPT ![k] = "none"]
  /\ owner' = [owner EXCEPT ![k[1]] = IF @ = k[2] THEN "nobody" ELSE @]

\* Defect: _run_backfill reports success whether or not the job raised.
FinishReportingSuccess(k) ==
  /\ task[k] \in Finishing
  /\ EndTask(k)
  /\ status' = [status EXCEPT ![k[1]] = IF @ = "running" THEN "succeeded" ELSE @]
  /\ UNCHANGED <<steps, recent, created, completed, request, up, orphan, contested>>

\* Defect: a task just ends, and the row is left to the job itself.
FinishWithoutWrite(k) ==
  /\ task[k] \in Finishing
  /\ EndTask(k)
  /\ UNCHANGED <<rowVars, completed, request, up, orphan, contested>>

\* _finish_backfill writes the end only WHERE status = 'running'; the task ends.
Finish(k) ==
  /\ task[k] \in Finishing
  /\ EndTask(k)
  /\ IF status[k[1]] = "running"
     THEN /\ status' = [status EXCEPT ![k[1]] =
                          IF task[k] = "finish_ok" THEN "succeeded" ELSE "failed"]
          /\ recent' = [recent EXCEPT ![k[1]] = TRUE]
     ELSE UNCHANGED <<status, recent>>
  /\ UNCHANGED <<steps, created, completed, request, up, orphan, contested>>

\* The write of _finish_backfill fails and is only logged; the task ends.
FinishLost(k) ==
  /\ "finish_lost" \in Faults
  /\ task[k] \in Finishing
  /\ EndTask(k)
  /\ orphan' = IF status[k[1]] = "running" THEN orphan \cup {k[1]} ELSE orphan
  /\ UNCHANGED <<rowVars, completed, request, up, contested>>

-----------------------------------------------------------------------------
(***************************************************************************)
(* The worker process.                                                     *)
(***************************************************************************)

\* The process dies, or shutdown gives up on its tasks: they vanish unwritten.
Crash ==
  /\ "crash" \in Faults
  /\ up
  /\ up' = FALSE
  /\ task' = [k \in Runs |-> "none"]
  /\ completed' = [k \in Runs |-> 0]
  /\ owner' = [j \in Jobs |-> "nobody"]
  /\ UNCHANGED <<rowVars, request, orphan, contested>>

\* Defect: the requeue still names the one job_type the queue began with.
RunningBackfillRows ==
  {j \in Jobs : status[j] = "running" /\ TypeOf[j] = "instrument_backfill"}

RunningRows == {j \in Jobs : status[j] = "running"}

\* main: requeue_orphan_backfills commits before the scheduler starts.
Restart ==
  /\ ~up
  /\ up' = TRUE
  /\ status' = [j \in Jobs |-> IF j \in RunningRows THEN "queued" ELSE status[j]]
  /\ recent' = [j \in Jobs |-> IF j \in RunningRows THEN TRUE ELSE recent[j]]
  /\ orphan' = {}
  /\ UNCHANGED <<steps, created, taskVars, owner, request, contested>>

\* main: the requeue fails, is logged, and the scheduler starts all the same.
RestartWithoutRequeue ==
  /\ "requeue_fails" \in Faults
  /\ ~up
  /\ up' = TRUE
  /\ orphan' = RunningRows
  /\ UNCHANGED <<rowVars, taskVars, owner, request, contested>>

-----------------------------------------------------------------------------

RequestStep(r) ==
  \E j \in Jobs : EnqueueRead(r, j) \/ EnqueueCommit(r, j) \/ EnqueueAbort(r, j)

RunStep(k) ==
  \/ BackfillStart(k)
  \/ BackfillStep(k)
  \/ QuoteSucceeds(k)
  \/ AnalysisReturns(k)
  \/ RunFails(k)
  \/ ErrorWrite(k)
  \/ RaisesUnwritten(k)
  \/ Finish(k)

Next ==
  \/ \E r \in Requests : RequestStep(r)
  \/ \E j \in Jobs : CooldownElapses(j)
  \/ \E type \in JobTypes :
       DispatchClaim(type) \/ DispatchSpawn(type) \/ DispatchLost(type)
  \/ \E k \in Runs : RunStep(k) \/ FinishLost(k)
  \/ Crash
  \/ Restart
  \/ RestartWithoutRequeue

Spec == Init /\ [][Next]_vars

\* The scheduler's interval triggers fire for ever, every fetch of a task has a
\* timeout, and the container is restarted after an exit.  Nothing makes a user
\* send or finish a request.
Fairness ==
  /\ \A type \in JobTypes : WF_vars(DispatchClaim(type)) /\ WF_vars(DispatchSpawn(type))
  /\ \A k \in Runs : WF_vars(RunStep(k))
  /\ WF_vars(Restart \/ RestartWithoutRequeue)

FairSpec == Spec /\ Fairness

-----------------------------------------------------------------------------
(***************************************************************************)
(* Properties.                                                             *)
(***************************************************************************)

\* Every variable keeps the type its columns and fields have in the code.
TypeOK ==
  /\ status \in [Jobs -> {"absent"} \cup Active \cup Terminal]
  /\ steps \in [Jobs -> 0..3]
  /\ recent \in [Jobs -> BOOLEAN]
  /\ created \in [Jobs -> Nat]
  /\ task \in [Runs -> TaskStates]
  /\ completed \in [Runs -> 0..3]
  /\ owner \in [Jobs -> Slots \cup {"nobody"}]
  /\ request \in [Requests -> {Idle} \cup SeenRecords]
  /\ up \in BOOLEAN
  /\ orphan \subseteq Jobs
  /\ contested \subseteq Jobs

\* MAX_CONCURRENT_* (scheduler.py:99-105): rows claimed and tasks alive of one
\* job_type never exceed its limit, whatever ends or crashes between the count
\* of the tasks, the claim and the spawn.
CapacityRespected ==
  \A type \in JobTypes : Cardinality(LiveRuns(type)) <= MaxConcurrent[type]

\* enqueue returns a running row as it is, so a running row nobody works on is
\* a job that no retry can start again.  While the worker is up, every running
\* row has a task or sits in a dispatcher's claim, unless one of the named
\* losses hit it (scheduler.py:465-485, 597-614, 749-753).
RunningRowIsBacked ==
  up => \A j \in Jobs :
          status[j] = "running" =>
            j \in orphan \/ HasTask(j)

\* "幂等键保证不会创建重复并行任务" (research_service.py:103): a row has one task at
\* a time, with one way out: a request whose read was overtaken by another one,
\* or that fell between a task's own end and its fallback, has reset the row
\* while its task was alive.  No order of claims, losses and restarts does it.
NoParallelRun ==
  \A j \in Jobs \ contested : \A s, t \in Slots :
    task[<<j, s>>] # "none" /\ task[<<j, t>>] # "none" => s = t

\* succeeded_backfill (repositories/jobs.py:64-75) decides by the status alone
\* that a stock needs no backfill: a row says succeeded only after every step
\* of its last run was stored, and a row that was reset under a task says so
\* again as soon as a run has taken it alone.
SucceededIsComplete ==
  \A j \in Jobs \ contested : status[j] = "succeeded" => steps[j] = FullSteps(TypeOf[j])

\* The progress GET /jobs shows of a backfill at work is what this task has
\* stored, not what an earlier run left behind (market_data_jobs.py:509), unless
\* a request has reset the row under it.
ProgressIsOfTheRun ==
  \A k \in Runs :
    task[k] = "work" /\ k[1] \notin contested =>
      status[k[1]] = "running" /\ steps[k[1]] = completed[k]

\* "作业自身若已写终态（status != running），这里不覆盖" (scheduler.py:598): a task
\* that ends changes the row only if the row still belongs to its own claim.
\* The WHERE of the fallback cannot tell its own run from the next one; the next
\* one exists only if a request reset the row before this task had ended.
FallbackKeepsOtherRuns ==
  [][\A k \in Runs :
       task[k] \in Finishing /\ task'[k] = "none" /\ up' /\ k[1] \notin contested =>
         status'[k[1]] = status[k[1]] \/ owner[k[1]] = k[2]]_vars

\* What the queue promises to its callers: see JobLifecycle.
Lifecycle ==
  INSTANCE JobLifecycle WITH
    working <- {j \in Jobs : status[j] = "running" /\ HasTask(j)}

\* Every step of the queue is a step of the lifecycle or leaves it alone.
ImplementsLifecycle == Lifecycle!Spec

\* A queued job ends ("jobs 表就是队列", repositories/jobs.py:3): if from some point
\* on the worker stays up, no fault takes a task away and nobody submits any
\* more (an older row is claimed first however often it is resubmitted), then
\* in the end every row has reached succeeded or failed for good.
Quiet == <>[][\A r \in Requests, j \in Jobs : ~EnqueueCommit(r, j)]_vars
SubmittedJobEnds ==
  (<>[](up /\ orphan = {}) /\ Quiet) => <>[](\A j \in Jobs : status[j] \notin Active)

=============================================================================
