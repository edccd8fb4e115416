-------------------------------- MODULE Quotes --------------------------------
(***************************************************************************)
(* The quote of one stock on its way from the source to a reader: the      *)
(* cache and the shared request of the AKShare provider (client.py), the   *)
(* gateway, the jobs that poll and refresh (market_data_jobs.py), the row  *)
(* of latest_quotes (ingest.py) and the age a reader is told               *)
(* (freshness.py).  The provider is a process of its own; a job and the    *)
(* handler it calls there are one request here.                            *)
(*                                                                         *)
(* A price is abstracted to the moment at which the source answered.       *)
(***************************************************************************)
EXTENDS Integers, FiniteSets, FiniteSetsExt

CONSTANTS
  Requests,      \* requests that may be under way at once
  Ttl,           \* QUOTE_CACHE_TTL_SECONDS
  FetchLimit,    \* both time limits of _load_bid_ask together
  LatestAge,     \* compute_age_status: at most 45 s
  DelayedAge,    \* at most 120 s
  StaleAfter,    \* quote_stale_seconds
  DegradedAfter, \* DEGRADED_AFTER_FAILURES
  LastMoment,    \* bound on the time
  Orphans        \* may the only handler that waits for a task be cancelled?

ASSUME QuotesAssumption ==
  /\ IsFiniteSet(Requests)
  /\ {Ttl, FetchLimit, LatestAge, DelayedAge, StaleAfter, DegradedAfter, LastMoment} \subseteq Nat \ {0}
  /\ LatestAge < DelayedAge
  /\ Orphans \in BOOLEAN

VARIABLES
  clock,
  cache,    \* provider: the entry of _quote_cache
  flight,   \* provider: the entry of _quote_inflight
  request,  \* the jobs and their handlers
  latest,   \* the row of latest_quotes
  failures  \* worker: consecutive failures of the source, up to DegradedAfter

vars == <<clock, cache, flight, request, latest, failures>>

Idle == [stage |-> "idle"]
NoEntry == [at |-> -1, expires |-> -1]
NoFlight == [task |-> 0, state |-> "none"]
NoRow == [at |-> -1, fetchedAt |-> -1]

Init ==
  /\ clock = 0
  /\ cache = NoEntry
  /\ flight = NoFlight
  /\ request = [r \in Requests |-> Idle]
  /\ latest = NoRow
  /\ failures = 0

Put(r, value) == request' = [request EXCEPT ![r] = value]

In(r, stages) == request[r].stage \in stages

\* A source that fails so often in a row is called degraded.
OneMoreFailure == Min({failures + 1, DegradedAfter})

-----------------------------------------------------------------------------
(***************************************************************************)
(* fetch_bid_ask.                                                          *)
(***************************************************************************)

\* The tasks that somebody still refers to.
Tasks == {flight.task} \cup {request[r].task : r \in {q \in Requests : In(q, {"waiting", "landed"})}}

FreshTask == Min((1..Cardinality(Requests) + 1) \ Tasks)

\* A job takes the time that will be fetched_at, and only then calls.
Begin(r) ==
  /\ In(r, {"idle"})
  /\ Put(r, [stage |-> "begun", began |-> clock])
  /\ UNCHANGED <<clock, cache, flight, latest, failures>>

Cached == cache # NoEntry /\ clock < cache.expires

Answered(r, at) == [stage |-> "answered", began |-> request[r].began, at |-> at]

\* A valid entry answers; else the handler joins the task that is registered,
\* whatever has become of it, or registers a new one.
Ask(r) ==
  /\ In(r, {"begun"})
  /\ \/ /\ Cached
        /\ Put(r, Answered(r, cache.at))
        /\ UNCHANGED flight
     \/ /\ ~Cached
        /\ flight = NoFlight
        /\ flight' = [task |-> FreshTask, state |-> "running", since |-> clock]
        /\ Put(r, [stage |-> "waiting", began |-> request[r].began, task |-> FreshTask, gone |-> FALSE])
     \/ /\ ~Cached
        /\ flight.state = "running"
        /\ Put(r, [stage |-> "waiting", began |-> request[r].began, task |-> flight.task, gone |-> FALSE])
        /\ UNCHANGED flight
     \/ /\ ~Cached
        /\ flight.state \in {"done", "failed"}
        /\ Put(r, [stage |-> "landed", began |-> request[r].began, task |-> flight.task, gone |-> FALSE,
                   ok |-> flight.state = "done", at |-> flight.at])
        /\ UNCHANGED flight
  /\ UNCHANGED <<clock, cache, latest, failures>>

\* _load_bid_ask ends, by either source or with the failure of both, and wakes
\* everybody who waits for it.
Land(ok) ==
  /\ flight.state = "running"
  /\ flight' = [task |-> flight.task, state |-> IF ok THEN "done" ELSE "failed", at |-> clock]
  /\ request' = [r \in Requests |->
       IF In(r, {"waiting"}) /\ request[r].task = flight.task
       THEN [stage |-> "landed", began |-> request[r].began, task |-> flight.task,
             gone |-> request[r].gone, ok |-> ok, at |-> clock]
       ELSE request[r]]
  /\ UNCHANGED <<clock, cache, latest, failures>>

\* Defect: the waiter of a failed request leaves it registered.
UnregisterIfDone(r) ==
  IF flight.task = request[r].task /\ request[r].ok THEN NoFlight ELSE flight

\* `_quote_inflight.get(code) is task`.
Unregister(r) == IF flight.task = request[r].task THEN NoFlight ELSE flight

\* The waiter goes on: it fills the cache if there is a result, and takes the task
\* off the register.
Resume(r) ==
  /\ In(r, {"landed"})
  /\ flight' = Unregister(r)
  /\ cache' = IF request[r].ok THEN [at |-> request[r].at, expires |-> clock + Ttl] ELSE cache
  /\ Put(r, IF request[r].gone THEN Idle
            ELSE IF request[r].ok THEN Answered(r, request[r].at)
            ELSE [stage |-> "failed", began |-> request[r].began, at |-> request[r].at])
  /\ UNCHANGED <<clock, latest, failures>>

\* The handler is cancelled.  The task is shielded, and stays registered unless
\* it has ended.
Cancel(r) ==
  /\ \/ In(r, {"landed"})
     \/ /\ In(r, {"waiting"})
        /\ Orphans \/ \E q \in Requests \ {r} : In(q, {"waiting"}) /\ request[q].task = request[r].task
  /\ Put(r, Idle)
  /\ flight' = IF flight.state = "running" THEN flight ELSE Unregister(r)
  /\ failures' = IF request[r].gone THEN failures ELSE OneMoreFailure
  /\ UNCHANGED <<clock, cache, latest>>

\* The provider is started anew; every call in it is cut off.
RestartProvider ==
  /\ cache # NoEntry \/ flight # NoFlight
  /\ cache' = NoEntry
  /\ flight' = NoFlight
  /\ request' = [r \in Requests |-> IF In(r, {"waiting", "landed"}) THEN Idle ELSE request[r]]
  /\ failures' = IF \E r \in Requests : In(r, {"waiting", "landed"}) /\ ~request[r].gone
                 THEN OneMoreFailure ELSE failures
  /\ UNCHANGED <<clock, latest>>

-----------------------------------------------------------------------------
(***************************************************************************)
(* The worker.                                                             *)
(***************************************************************************)

\* The time limit of the gateway: the job ends, the handler does not know.
GiveUp(r) ==
  /\ In(r, {"waiting"})
  /\ ~request[r].gone
  /\ Put(r, [request[r] EXCEPT !.gone = TRUE])
  /\ failures' = OneMoreFailure
  /\ UNCHANGED <<clock, cache, flight, latest>>

\* fetch_quotes leaves out what fails; an HTTP error if nothing is left of the batch.
Fail(r) ==
  /\ In(r, {"failed"})
  /\ Put(r, Idle)
  /\ failures' \in {0, OneMoreFailure}
  /\ UNCHANGED <<clock, cache, flight, latest>>

\* A field is missing or malformed, of this stock or of another one in the batch.
Refuse(r) ==
  /\ In(r, {"answered"})
  /\ Put(r, Idle)
  /\ failures' = OneMoreFailure
  /\ UNCHANGED <<clock, cache, flight, latest>>

\* The answer has come through the gateway.
Receive(r) ==
  /\ In(r, {"answered"})
  /\ Put(r, [request[r] EXCEPT !.stage = "writing"])
  /\ failures' = 0
  /\ UNCHANGED <<clock, cache, flight, latest>>

\* Defect: fetched_at is taken when the row is written.
RowAtWrite(r) == [at |-> request[r].at, fetchedAt |-> clock]

Row(r) == [at |-> request[r].at, fetchedAt |-> request[r].began]

\* Defect: ON CONFLICT DO UPDATE without WHERE.
ReplacesAlways(row) == TRUE

\* excluded.fetched_at >= latest_quotes.fetched_at
Replaces(row) == latest = NoRow \/ row.fetchedAt >= latest.fetchedAt

\* upsert_quotes.
Write(r) ==
  /\ In(r, {"writing"})
  /\ Put(r, Idle)
  /\ latest' = IF Replaces(Row(r)) THEN Row(r) ELSE latest
  /\ UNCHANGED <<clock, cache, flight, failures>>

\* validate_quote rejects the values, or the transaction fails.
DropWrite(r) ==
  /\ In(r, {"writing"})
  /\ Put(r, Idle)
  /\ UNCHANGED <<clock, cache, flight, latest, failures>>

\* Time does not pass the limits of a fetch, nor the handlers that can go on.
Tick ==
  /\ clock < LastMoment
  /\ flight.state = "running" => clock < flight.since + FetchLimit
  /\ \A r \in Requests : ~In(r, {"landed"})
  /\ clock' = clock + 1
  /\ UNCHANGED <<cache, flight, request, latest, failures>>

Next ==
  \/ \E r \in Requests :
       \/ Begin(r) \/ Ask(r) \/ Resume(r) \/ Cancel(r) \/ GiveUp(r) \/ Fail(r) \/ Refuse(r)
       \/ Receive(r) \/ Write(r) \/ DropWrite(r)
  \/ \E ok \in BOOLEAN : Land(ok)
  \/ RestartProvider
  \/ Tick

Spec == Init /\ [][Next]_vars

-----------------------------------------------------------------------------
(***************************************************************************)
(* What a reader is told (freshness.py).                                   *)
(***************************************************************************)

AgeSeconds == Max({0, clock - latest.fetchedAt})

Freshness == IF AgeSeconds > StaleAfter THEN "stale" ELSE "fresh"

AgeStatus ==
  CASE AgeSeconds <= LatestAge -> "latest"
    [] LatestAge < AgeSeconds /\ AgeSeconds <= DelayedAge -> "delayed"
    [] OTHER -> "stale"

\* The quote of get_snapshot.
Quote ==
  [known |-> latest # NoRow, at |-> latest.at, freshness |-> Freshness, ageStatus |-> AgeStatus]

-----------------------------------------------------------------------------
(***************************************************************************)
(* Properties.                                                             *)
(***************************************************************************)

\* What a job is given was answered by the source less than the life of a cache
\* entry before the job began, and a failure it is told of happened after it began:
\* neither shared requests nor the cache hand on anything older, and a failure is
\* not kept (client.py: failures are never cached), as long as every task has a
\* handler that waits for it to the end.
AnswersAreRecent ==
  \A r \in Requests :
    /\ In(r, {"answered", "writing"}) => request[r].at > request[r].began - Ttl
    /\ In(r, {"failed"}) => request[r].at >= request[r].began

\* A reader who is told that the quote is fresh, or the latest, sees a price that is
\* older than that by less than the life of a cache entry, however long requests
\* and writes took and in whichever order they ended.
FreshIsRecent ==
  Quote.known =>
    /\ Quote.freshness = "fresh" => clock - Quote.at < StaleAfter + Ttl
    /\ Quote.ageStatus = "latest" => clock - Quote.at < LatestAge + Ttl

\* A late writer does not put back an old price: what replaces a row was answered
\* less than the life of a cache entry before the request of the replaced row.
ReplacedByRecent == [][latest'.at > latest.fetchedAt - Ttl]_latest

=============================================================================
