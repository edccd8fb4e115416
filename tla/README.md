# A verification of the A-share research assistant

TLA+ models of the parts of this repository in which steps of several actors,
failures and time meet: the job queue between the API and the worker, the job
runner and its health report, the research analyses and the agent that writes
them, the prediction ledger, the model registry and the prediction batch, what
training may look at, the quotes from the source to the reader, the membership
of the index, and the lists a user keeps. TLC checks each model on small
instances; TLAPS proves every safety property that the passing runs check, for every
instance.

## 1. Inventory

Four processes share one Postgres database (READ COMMITTED, no explicit locks
except `FOR UPDATE SKIP LOCKED` in the claim of a job): `api` (FastAPI), which
only registers jobs; `worker` (one process, one asyncio event loop,
APScheduler); `openbb`, the data providers; and `web`, the frontend. The
training command and the operators' scripts are processes of their own. A
`session_scope` commits at its end and rolls back when an exception leaves it.

| component | state it keeps | operations | interacts with |
|---|---|---|---|
| job queue | table `jobs`; the worker's sets of live tasks | enqueue, claim, spawn, task steps, fallback end, requeue at start | API requests, dispatchers, tasks |
| job runner, health | `JobHealth` in memory, one lock per job, `worker_health.json` | run with retries and back-off, degrade and cool down, persist, report | scheduler, status page |
| research analyses | `analyses`, and as a watermark their largest `data_cutoff` | page through new documents, detect anomalies, commit | ingestion, agent |
| research agent, evidence checks | the conversation of one attempt | rules, tool rounds, retries, checks, composition, template | language model, documents, bars |
| prediction ledger | `predictions`, `prediction_outcomes` | reference price, settlement, adjustment basis | bars, quotes, models |
| model registry, drift gate, batch | `model_versions`, artifacts, drift report, caches of the worker | train, register, activate, roll back, compute drift, predict | training command, operators, worker |
| training and features | none at run time | samples, folds, calibration, gate | registry, database |
| market data ingestion | `bars`, `quotes`, `documents` | fetch through the gateway, validate, upsert | providers, all readers |
| quotes for readers, refresh | `latest_quotes`, freshness | poll, refresh with a cooldown, read | AKShare client, queue, API |
| AKShare client | cache and shared tasks | fetch once for all who wait, time out, cancel | provider, jobs |
| universe | membership intervals, archived tables, backfill jobs | synchronise, rebuild from adjustments, members at a date | predictions, training, queue |
| watchlist, research pool | `watchlist_items` and their order; the quote cursor | add, remove, reorder, page, poll | API, worker |
| trading calendar, schedule | configuration | sessions, targets, windows of jobs | everything |
| analogs, scorecard | none | read-only numeric code | API |
| API layer, web, migrations, scripts | none | I/O | |

What is hard, component by component, and what makes each correct:

* **Queue.** A row is reused by every later run of the same stock, requests
  read and write without a lock, the claim commits before its tasks exist, and
  a task that has already written its end is followed by a fallback write. It
  is correct when no row has two tasks, a success means that all steps were
  stored, the progress shown is that of the run, the fallback never ends
  another run, limits hold, a running row has a task that will end it, and a
  submitted job ends.
* **Runner.** Ticks overlap with retries and back-offs of the run before them;
  the health of several jobs is folded into one status per source and read by
  another process from a file. It is correct when a job runs once at a time, a
  degraded job leaves its upstream alone while it cools down and recovers
  afterwards, and the page says ok only of what has succeeded.
* **Analyses.** The watermark is derived from earlier results, pages end
  between documents of the same moment, rounds are capped and rolled back, and
  two kinds of runs visit one stock. It is correct when no document is left
  out or analysed twice.
* **Agent.** A model may reply anything, tools read a database that changes
  between two calls, and checks at the end decide over what was shown earlier.
  It is correct when what is stored was shown, known at the cutoff and can be
  displayed, honest answers are not refused, facts survive a useless answer, a
  rule gets one analysis a day, and an attempt ends.
* **Ledger.** Stored prices are forward adjusted: an ex-rights day changes the
  whole past, but only of what is fetched again. Quotes are raw. Settlement
  comes days later. It is correct when an outcome is the return of the stock
  from the recorded reference, nothing comes from the future, and what is due
  is settled.
* **Models.** A version passes through files, a database row and two caches;
  the feature file may be edited in place; activations are read-then-write; a
  batch runs many stocks in one transaction. It is correct when what serves is
  complete, has passed its gate, is the one activated last, sees the features
  it was trained on, and labels and counts say no more than was established.
* **Training.** The same panels are built in two ways, by replay and by
  inference; labels reach into the future of their sample; suspensions, gaps
  and missing bars shift windows. It is correct when both ways see the same,
  nothing is fitted on labels unknown to what it is judged on, and the coverage
  the gate asks for is real.
* **Quotes.** A cache, a request shared by many, time limits, cancellation,
  and writers that end in any order stand between the source and a reader. It
  is correct when a price is never older than its label says by more than the
  life of a cache entry.
* **Universe.** Membership intervals are derived from two downloads that may
  be of different days, and rebuilt from the official adjustments. It is
  correct when they give the members of any past day, and each member's bars
  have been asked for.
* **Tracking.** Places in a list are computed from what a request has read;
  pages and the quote poll go through lists that change. It is correct when a
  reader of all pages sees each item once, and the poll asks for each stock
  once a round.

`PROJECT.json` lists the components with their files, and under "hazards" each
of these dangers at its line with the property that watches it.

## 2. Modules

| module | models | checked by |
|---|---|---|
| `JobLifecycle` | abstract: what a submitter may rely on | refinement in run `JobQueue` |
| `JobQueue` | `repositories/jobs.py`, dispatchers and tasks of `scheduler.py`, bodies of the three job types | `JobQueue` |
| `JobRunner` | `runner.py`, ticks and heartbeat of `scheduler.py`, `system_status.py` | `JobRunner` |
| `Analyses` | `analysis_jobs.py` and the paging query: which documents are analysed | `Analyses` |
| `Agent` | `anomaly.py`, `analyst.py`, `runner.py` and `tools.py` of the agents, evidence checks: how one analysis is made | `Agent` |
| `Ledger` | reference prices, settlement, bars and quotes | `Ledger`, `LedgerAfterClose`, `LedgerExRights` |
| `Models` | `pipeline.py`, `registry.py`, `rollback_model.sh`, `loader.py`, `prediction_jobs.py`, drift | `Models` |
| `Training` | samples, panels, splits, folds, calibration, release gate | `Training` |
| `Quotes` | `client.py`, the quote jobs, `latest_quotes`, `freshness.py` | `Quotes` |
| `Universe` | `csi300_provider`, the synchronisation, `csi300_history.py` | `Universe` |
| `Tracking` | `repositories/watchlist.py`, research pool, `tracking_scope.py`, the poll | `Tracking` |
| `JobQueueProof`, `JobRunnerProof`, `AnalysesProof`, `AgentProof`, `LedgerProof`, `ModelsProof` | theorems about the module of that name | TLAPS |
| `QuotesProof` | theorems about `Quotes`, and about `Tracking`, the stocks that quotes are asked for | TLAPS |
| `TrainingProof` | theorems about `Training`, and about `Universe`, the stocks that are trained on | TLAPS |
| `MC*` | instances for TLC: symmetry sets, functions given to constants | |

The modules meet at their boundaries rather than in one product. `JobQueue`
leaves what a step fetches to the others; `Analyses` decides which documents
are due and `Agent` how one is analysed; `Training` decides what a version has
learnt from and `Models` what becomes of it; `Models` decides whether a
prediction is made and `Ledger` what it starts from and how it ends; `Quotes`
ends at the row of `latest_quotes`, and the poll that asks for it is in
`Tracking`.

Definitions marked "Defect" are wrong on purpose. Each is a slip one could make
in the definition after it; no specification uses it. Replacing the right
definition by it must break the property that is there to notice the slip
("mutants" in `PROJECT.json`).

### JobQueue

`status`, `steps`, `recent` and `created` are columns of `jobs`, one row for
each idempotency key. `task[<<row, slot>>]` is where an asyncio task stands;
a row may have several slots, because nothing but the code's discipline keeps a
row from having several tasks; a new task takes the first free slot, as slots
are only names. `created` is the rank among the rows of a type, all that
`ORDER BY created_at` of a claim can tell. `completed` is a task's local counter. An API
request is two actions, `EnqueueRead` and `EnqueueCommit`, because it takes no
lock; `EnqueueAbort` is a rollback. `DispatchClaim` is one poll of a dispatcher
up to its commit, `DispatchSpawn` creates the tasks, `DispatchLost` stands for
a timeout or lost connection between the two. A backfill has three steps, each
one committed transaction that also writes the progress; then the task's own
final write, then `Finish`, the fallback. `Crash` drops all tasks, `Restart`
puts running rows back, unless the requeue fails (the code logs and goes on).

Two requests overlap, and a request may fall between a task's own end and its
fallback. Both races are in the code, and after either nothing keeps a row from
having two tasks. `contested` is history and names those rows: a request that
had read the row's end has reset it while a task was alive, and no claim has
found it without a task since. The properties speak of all other rows. In
`JobLifecycle`, what may happen to a contested row are the actions `SubmitOver`
and `Interfere`. `Faults` names the losses that happen, `Together` bounds which
rows occur together.

### JobRunner

One action for each stretch between two awaits of `JobRunner.run`. A call is a
job and one of its overlapping ticks. Time is abstracted to one bit per job,
whether its cooldown still runs. `file` is the snapshot on disk, and `stale`
is history: the last attempt to write it failed. `Reported` is what the API
makes of the file for a source, and `OkIsEarned` relates it to history
variables that the code does not keep.

### Analyses

One stock. Documents are numbered by id; `observed` is the moment of the
fetch, `visible` the documents whose transaction has committed. A run reads its
lower bound, pages through what is after the last (time, id), and commits all
drafts in one transaction, the watermark with them. The scheduled and the manual
refresh overlap, and documents may be committed long after their moment. Two
histories name what the code then loses or does twice: `missed` has each
document, with its moment, that was on its way to a commit when a run whose
analyses are stored read a page; `shared` has the documents of each run in whose
time another one stored analyses.

### Agent

One stock on one trading day, one attempt at a time. `run` is the attempt with
its `as_of`, the facts it is about, and `served`, what tools have shown. Bars
have no value: a rule fires or not, chosen freely, but only if the sources it
needs are visible at `as_of` (`observed_at <= as_of`), which is where the
interesting failures are. The reply of the model is any reply: tool calls,
something malformed, or an answer that cites any documents, shown or not. Other
jobs fetch bars of the stock, and documents, between any two steps; no job
fetches those of the index. The label test by which
the code knows that a rule was covered is a test on the text of a stored
summary here, too.

### Ledger

One stock. A price is its logarithm, so the factor between two prices is a
difference, and a return is one as well; the multiplicative rescaling of the
code becomes additive, and rounding is left out. `close` and `cuts` are the
truth about the market, `bars` is the table, on whatever basis each row was
fetched. A reference records the session and raw price it stands for as
history (`of`, `worth`), and `SettledRight` compares the outcome with the
return computed from the truth, less the cuts between the sessions in which the
two bars were last fetched (`fetched`, history). That difference is real: a
daily fetch looks back ten calendar days and no further, and its window begins
at the time of day of the run, so it leaves out the bar of ten days ago, which
is where the anchor of an ordinary Monday lies. `SettledInWindow` says when the
difference is nothing, and the run `LedgerExRights` shows that the code's claim,
which makes no exception, fails. `DueLimit` is the size of a settlement batch.
The branch of `resolve_reference_price` for
minute bars is not reached by `generate_prediction`: it loads minute bars only
for `today_close`, whose reference is always the last close. A daily run may
end after any stock because the fetch of the next one fails; then old quotes
stay.

### Models

The versions of one model key. `content` is the feature set file as a number
(its checksum is the content itself), `files` the artifact directory, `status`
the column of `model_versions`. Training takes a step for each file and
commit, and may die between any two. An activation reads and then writes, and
several may be under way; as an `UPDATE` under READ COMMITTED it waits for rows
that another transaction has written (`Locked`). rollback_model.sh:8 and :36
speak of an atomic switch; the transaction is one, but it retires what its own
statement saw as active, so two versions can be active in the end. History says
where: `clashed` is true when another activation was committed during the last
one, `overtaken` marks a drift report since whose reading of the version an
activation was committed. A statement that fails takes the transaction of a
batch with it (`broken`), and its moment is in `aborted`. `AtOnce` bounds how
many things are under way; `DriftLevels`, `BestLabels` and `Degraded` bound the
inputs of a label (the run has only calm reports and the best labels, where the
question is of which version a report is; the proof has all). The worker keeps the feature set and the bundles it
has read until it restarts. A batch reads the version once and then takes one
stock after the other in a single transaction; `counted` is what its log says.

### Training

The only sequential module: `train_model` as a chain of steps over a history
that TLC chooses. What a sample, a fold, the calibrator and the final model
were given is recorded, and the properties speak of that. A price is the
moment at which it becomes known, so "the same data" and "no future data" are
comparisons of sets of moments. `ServedOpen` and `ReplayedOpen` are the two
sources of the session's open: the first minute bar or a raw quote, and the
daily bar. `DocumentDays` is the look-back that inference applies and a replay
does not: a document older than that gives a training sample the
hours since the last document, where inference has none, against
config/features/v1.yaml:291. `ReplayIsServing` names this case and three more in
which the two paths differ.

### Quotes

A request is a job and the handler that it calls in the provider's process.
`flight` is the shared task of `_quote_inflight`, which a request may find,
leave, or be cancelled in; a task outlives its time limit only as far as the
code lets it. A price is the moment at which the source answered, so its age
is a difference. Of a batch of quotes the stocks that failed are left out; it is
an error only when nothing is left (`Fail`). The provider restarts at any moment. `Orphans` allows that the
only handler of a task is cancelled and a later request finds the task.

### Universe

`official` is the truth for each day, chosen among histories with exchanges and
returns. A synchronisation downloads two tables, which may be of different
days, checks that they fit, and writes; the import of adjustments rewrites all
intervals. `Offered` are the days whose table may be shown: that of today, on
the day of a change still the one before, and on the day before it already the
new one. `DatesOf` are the dates it may carry: that of its change, that of its
publication, or none, for which the code takes the day of the download. Nothing in the
repository says which, and docs/data-sources.md:408, whose snapshots begin on a
day that is none of a change, speaks for one of the last two. `MembersOf` may leave out members as
far as `LeastSize` admits. `faults` counts the tables that are incomplete or
dated after their day and the lists of adjustments that lack a change, and
`dated` says that all tables carried the date of their change. The names
`UniverseSpec`, and `TrackingSpec` below, are long because a module of theorems
extends each of these together with another specification.

### Tracking

Requests read, compute a place, and commit later. Either a client turns pages
(`observer = "client"`) or the worker polls (`"worker"`); they do not affect
each other, and so they need not be explored together. `waited` counts the
batches since a stock was asked for. A restart of the worker sets the cursor
back to the first stock (`Restart`) and begins the count anew.

## 3. Runs

| run | question | instance |
|---|---|---|
| `JobQueue` | do all promises hold for rows that are not contested, under racing requests, crashes and faults, is `JobLifecycle` implemented, and does a submitted job end? | a backfill row; a quote row with an analysis row; two analysis rows for one place; two requests |
| `JobRunner` | locks, cooldown, report, recovery | two jobs of one source, one with two attempts, and a source without jobs; two overlapping ticks |
| `Analyses` | is a document left out or analysed twice? | two overlapping runs, three documents, pages of one, a cap of two, seven moments |
| `Agent` | are claims backed, what was shown citable, rules covered once, and does an attempt end? | three documents, one of another stock, two tool rounds, one retry, five moments |
| `Ledger` | what is an outcome worth, no foresight, nothing pending | two weeks with holidays: four sessions on days 1, 4, 8 and 11, ex-rights days anywhere, any fetch may be missed, two predictions, batches of one |
| `LedgerAfterClose` | reference of the 15:20 prediction? off by the day's return | the same sessions, one prediction |
| `LedgerExRights` | do ex-rights days never matter? they do for an ordinary Monday | two ordinary weeks, one prediction |
| `Models` | what may serve, and do labels and counts tell the truth? | two versions, two stocks, two operators, two batches, one edit of the features, any two things at once |
| `Training` | is replay the same as serving, and is anything fitted on the future? | histories of 9, 17 and 22 sessions with suspensions, gaps, a session missing altogether, three memberships |
| `Quotes` | how old is what a job or a reader is given? | two requests, six units of time of some ten seconds |
| `Universe` | are the intervals right for every day? | three symbols, an index of two, four days, one faulty table or list |
| `Tracking` | complete pages, fair rounds? | three stocks, batches of two, pages of one, two writing requests, restarts of the worker |

`LedgerAfterClose` and `LedgerExRights` find a counterexample, each against a
sentence of the repository's code or docs that `PROJECT.json` quotes under
"findings". The other ten runs pass.

**Bounds.** In the queue, each type of row occurs, two rows compete for one
place, and a row may get a second task while the first one ends; two requests
are what a race needs. `Together` lets a backfill row be alone, a quote and an
analysis row occur together, and two analysis rows: types meet only in the
requests and the crash, which two of them show. In the other modules each race
needs two actors; a third one meets nothing that two do not.
Three consecutive failures degrade a job, and two ticks can overlap. Three
documents, of which several may share a moment, put a page boundary between
documents of the same moment, exceed the cap of two and leave one for the next
round; seven moments allow two runs of each kind, overlapping or one after
another, with documents fetched in between. For the agent, two documents of the
stock are more than the one that a tool shows at once, and five moments put a
fetch before, during and after an attempt. In the ledger, four sessions contain
an anchor, an ex-rights day on either side of the prediction, a target, and a
session after it in which a late bar arrives; the last lies ten calendar days
after the first, where a daily fetch does not reach. Two predictions compete for
a batch of one. Two versions are what an activation and a rollback
choose between, two operators are what overlaps; two stocks let one fail and the
other succeed in a batch, and a second batch follows another version's report. The
lengths of the training histories are just too short, just long enough for two
folds, and longer; two documents fit into a replay, two mornings lack the first
minute bars, on one the stock has a quote only. Six units of time exceed the life of a cache entry, the
fetch limit and both ages of a quote; each limit is scaled down, and their
order is kept. Four days of membership allow a member to leave, return, and
leave again while tables come late, early, undated or, once, incomplete. Three stocks in batches of two let the
cursor wrap in the middle of a batch. The retention of quotes is scaled down
from 30 days to 2 in `Ledger`, so that it is met. `LastMoment`, `LastDay`,
`LastId`, `MaxChanges`, `LastContent`, `MaxPredictions`, `AtOnce`, `Together` and
`MaxFaults` end time or growth,
which is why deadlock is not checked; in the queue and runner models, the
system rests when nobody submits anything.

**Fairness.** Every task that waits is resumed by the event loop, its fetches
have timeouts, the triggers of dispatchers and scheduled jobs fire at fixed
intervals, and a worker that stopped is restarted by its container: weak
fairness of these steps. An attempt of the agent goes on because each call of
its client has a timeout (`AttemptStep` in `Agent`). Requests, faults, crashes,
ingestion and the market get no fairness, and an attempt may succeed or fail.
`SubmittedJobEnds` and `DegradedJobRecovers` are conditional on faults and
failures ending, and `SubmittedJobEnds` also on submissions ending: rows are
claimed in the order of `created_at`, which a row keeps when it is submitted
again, so a newer row can be passed for ever. `NothingStaysPending` needs only
that settlement, triggered twice a day, runs again.

### What the properties except

Where the code does lose, double or mix something, the case is in the model and
the run, a history variable names it, and the property says what holds for all
others:

| property | excepts | what the code does there |
|---|---|---|
| those of `JobQueue` about rows | `contested` | a request that read an ended row resets it after the next task has begun, or between a task's own end and `_finish_backfill`: two tasks, or a run that is ended by the fallback of the one before |
| `NothingPassedOver` | `missed` | a document is committed after a later `as_of` has become the watermark, and is never looked at |
| `AnalysedOnce` | `shared` | both runs read the same lower bound and draft the same documents |
| `LastActivationServes` | `clashed` | each activation retires what it has seen as active, and both stay |
| `HighIsReported` | `overtaken` | a report, kept by model key, judges the version activated after it |
| `CountedIsStored` | `aborted` | the transaction is aborted, the batch goes on counting, and nothing is stored |
| `SettledRight` | cuts between the two fetches | the table has two bases; see `LedgerExRights` |
| `NothingStaysPending` | a batch full of `Waiting` predictions | predictions of a suspended stock keep the places of others |
| `PointInTime` | `faults`, and undated tables for the days in between | a short table ends memberships, one that is dated ahead begins them early |
| `ReplayIsServing` | four cases, see Training | replay and inference see different values |

One constant still excludes a behaviour: with `Orphans = TRUE` in `Quotes`,
`AnswersAreRecent` fails, because a task without a handler keeps its old failure
or answer for a later request. That takes a provider that cancels the only
handler of a request, which a plain uvicorn does not.

Other observations made while reading, which no run shows: after a cooldown a
degraded job makes all attempts of its policy, not a single probe
(`runner.py:386`, against docs/data-sources.md:157); a rule that was skipped
for lack of bars is taken for covered (`anomaly.py:496`); minute bars that are
fetched again while a detection waits for the model are hidden from it
(`ingest.py:416`); the skipped rules are
lost from a stored analysis when the model answers or its evidence is refused
(`anomaly.py:121`); an error of a tool's query in the database leaves the
transaction of the whole attempt aborted (`runner.py:172`); news are told apart
by their URL without a unique constraint (`ingest.py:462`); one malformed row
fails a whole batch of quotes (`transform.py:243`); the intraday spike rule
looks at the last bar only; the research pool breaks ties of places by the code
of the stock alone (`research_pool_service.py:39`).

## 4. Proofs

All proofs hold for any finite sets of actors and data and any values of the
constants that satisfy the `ASSUME` of the module, which TLC evaluates in every
run. Except for `Attended` in the theorems about quotes, no theorem assumes more.

* **JobQueueProof.** `TypeCorrect` (the inductive form adds that a task between
  steps has a step left); `ConcurrencyLimits` (a claim takes at most the free
  places; `RankInv` adds that the ranks of `created_at` are distinct, without
  which "the first n" could be more than n rows); `RunningRowsAreBacked`;
  `NoParallelRuns`, `SucceededRowsAreComplete`, `ProgressIsOwn`,
  `FallbackIsHarmless`, and `QueueImplementsLifecycle`, all with every race and
  fault. `NoParallelRun` is not inductive: a queued row might still have a
  task. `HoldInv` adds that a row with a task is running or ended, unless it is
  contested; `StoreInv` adds what a task has stored and whose the row is.
* **JobRunnerProof.** `TypeCorrect`, `OneRun`, `CooldownIsQuiet` (a call holds
  its job's lock from its first attempt to its record), and `OkReportsAreEarned`
  (unless the write failed, the file is the snapshot of the registry; the
  maximum of the severities then shows that no job of the source fails).
* **LedgerProof.** `TypeCorrect` and `Foresight`. `OutcomesAreRight` proves
  `SettledRight` for any calendar and fetch window, `OutcomesInWindow` proves
  `SettledInWindow`. These say nothing of how the right number comes about;
  `ExactInv` does: each stored bar is on the basis of the session in which it
  was last fetched (`OnBasis`), a later bar was never fetched in an earlier
  session than one that its fetch reached (`FetchedTogether`), the previous
  close of the quote is that of the session before, and a reference stands to
  its anchor as its raw price stands to the anchor's close.
* **AnalysesProof.** `NoDocumentTwice` and `NoDocumentPassedOver`. `RangeInv` is
  about each run: its drafts lie between its lower bound and its cursor, and
  while it is alone the lower bound is not before the watermark, so what it
  drafts has not been analysed (`Past` and `Behind` say what lies on which side
  of the watermark). `CoverInv` adds that for everything up to the cursor there
  is a draft, or the document was on its way (`Covers`), and that nothing on its
  way at a stored run is forgotten (`Settled`). What a page is, is proved from
  its definition by the number of documents before each one: a page is an
  initial part of what is pending (`PageIsInitial`), and a page that is not full
  is all of it (`ShortPageIsAll`).
* **AgentProof.** `TypeCorrect`; `ClaimsStayBacked` and `ShownStaysCitable` (a
  document that a tool has shown was visible at `as_of`, and documents are
  neither removed nor observed anew); `RulesOnce` (the labels in the stored texts
  cover at least the rules of the stored facts).
* **ModelsProof.** `RegisteredAreComplete` (rows are written after files).
  `LastServes`: an activation that no other came between knows all that is
  active (`AloneKnows`), so it leaves only its own version. `OnlyPassedServe`,
  `FeaturesStayAsTrained` and `HighHasReport` follow from `ServingInv`: a cached
  bundle is that of the files and of the cached feature set, a batch's version
  passed when it was read, and its report is of that version or overtaken;
  `ReportInv` says the same of the stored report and the one being computed.
  `CountsAreStored`: a batch has a draft for each stock it counts, and either all
  of its drafts are stored or its moment is in `aborted`.
* **QuotesProof, first part.** `RecentAnswers`, `FreshQuotesAreRecent` and
  `NoOldPriceReturns` assume `Attended`: every shared task keeps a handler that
  waits for it to the end (no `Orphans`, see above). `RegisterIsAttended` is the
  invariant they need. Time does not pass while a handler has an answer in
  hand, so a task that has ended stays registered only for the moment in which
  it ended, a running one has somebody who waits for it, and a cache entry runs
  out `Ttl` after its answer; whoever joins a task is given what is answered
  after the call, and a row holds what was answered less than `Ttl` before its
  request began.
* **QuotesProof, second part.** `EveryStockIsAskedFor`: "waited less than a
  round" is not inductive, since it does not say where the cursor stands.
  `RoundOK` adds to the batches that a stock has waited for its distance from
  the cursor, along the circle; a batch that passes a stock brings it nearer by
  a batch, and a restart begins the count again. That these distances are all different is the lemma
  `DistancesAreAll`. `WalksAreComplete`: `WalkOK` says that of the rows that
  were there from the beginning those before the cursor have been seen, once,
  and no others. It needs that a page is an initial part of what lies behind the
  cursor (`PageIsInitial`), that what comes meanwhile has a new number
  (`NothingReturns`), and that the order of the rows is the order of their
  keys, which for the research pool holds only without ties (`RowsAreSorted`).
* **TrainingProof, first part.** `NothingLooksAhead`: the embargo is counted in
  sessions of the data and the horizon of a label in sessions of the calendar,
  of which there are at least as many between two sessions (`DaysBetween`).
  `ValidatedOnlyOnce`: the step between two folds is at least a validation
  window and an embargo, and all folds that are asked for fit (`StepFits`), which
  follows from the integer division in `FoldStep`; so no two windows share a
  session (`FoldsAreDisjoint`). `ReplayMatchesServing` compares what a replay
  loads with what inference loads, the documents of an event window, the last
  document and the session open included. `WorldsAssumption`
  says what a history is: bars and documents of finitely many sessions.
* **TrainingProof, second part.** `EveryMemberIsBackfilled` and
  `MembershipIsPointInTime` for tables of every kind. `PointInTime` speaks of
  the days that were taken over, up to the first fault, and faults only grow
  (`FaultsOnlyGrow`), so `SoundInv` asks `IntervalsInv` only of states without
  one. `IntervalsInv` adds where the intervals stand today: either
  they are up to date, or they are behind by exactly the last change, and then
  no day since was taken over. That an old table is not offered once a
  new one has been shown is an assumption about the publisher (`Offered`);
  with it, nothing that was taken over is undone. That one change is taken over
  before the next one comes is another assumption (`Tick`). For `apply_history` the
  recursion of `Backwards` is given a closed form (`Undone`: the first change
  after a day that moves a symbol tells whether it was there), from which
  follow that the tool accepts a membership only when it is up to date
  (`ConsistentIsUpToDate`) and that its intervals are those of the official
  history (`PeriodsAreExact`). That recursion is a recursive function, which is
  unique by the last day on which two of them could differ.

Every property that is proved is checked by TLC first, in a run of the same
module.

Only model-checked: all liveness (`SubmittedJobEnds`, `DegradedJobRecovers`,
`NothingStaysPending`, `AttemptEnds`), because fairness and `ENABLED` are out of
the prover's reach. No module needs a recursive operator.

## 5. Not modelled, and why

* Numbers: the features, the boosters, metrics and PSI, the historical analogs
  and the scorecard are sequential numeric code without state. `Training` has
  what they are given, not what they compute.
* Conversions of upstream fields, units and dates in the providers are inputs
  of the models; the check of corporate actions is a report nobody acts upon.
* The language model is any reply. The HTTP layer, the schemas and the frontend
  are stateless around the services; migrations are deployment.
* Triggers and windows of jobs are data for the scheduling library, and phases
  within a trading day appear only as the order of events. The cache of the
  whole market table in the AKShare client is not on the path of a quote.
* The daily bars that `backfill_missing_daily` loads for the members of an
  imported history (`csi300_history.py:220`).
* Values of prices, volumes and texts are abstracted throughout; rounding is
  left out.
* Times that a restart forgets (`runner.py:210`), the age of the health file
  (`system_status.py:95`), the look-back that slides while first runs fail
  (`analysis_jobs.py:157`), a settlement before the reconciliation at 18:00
  (`settlement.py:126`) and the older close as the reference of `today_close`
  (`reference_price.py:82`) are known and left alone: either no sentence of the
  repository says what should happen, or one step shows it.

## 6. Plan

Done: all modules above, and proofs of all safety properties that the passing
runs check. In the order of their weight, what could be added:

1. Theorems under weaker assumptions where the code needs less: `Quotes` with
   orphaned tasks (how old an answer can get then), `Universe` from the first
   whole table after a faulty one.
2. Corrections of a bar at 18:00 in `Ledger`, with a second stock.
3. Calendar, windows and back-off as operators against reference definitions
   over bounded inputs.
