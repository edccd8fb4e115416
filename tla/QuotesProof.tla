----------------------------- MODULE QuotesProof -----------------------------
(***************************************************************************)
(* Proofs about Quotes, for every number of requests, life of a cache      *)
(* entry and time limits: if every task has a handler that waits for it to *)
(* the end, nothing a job is given is older than the life of a cache entry *)
(* before the job began, and neither is what a reader takes for fresh.     *)
(*                                                                         *)
(* The argument: time does not pass while a handler has an answer in hand. *)
(* A task that has ended therefore stays registered only for the moment in *)
(* which it ended, a cache entry runs out Ttl after its answer, and whoever *)
(* joins a task joins one that answers after the call.                     *)
(*                                                                         *)
(* The second part is about Tracking, the stocks these quotes are asked    *)
(* for: every stock has its turn once in a round of batches, and a walk    *)
(* through the pages of a list misses and repeats nothing that stays.      *)
(***************************************************************************)
EXTENDS Quotes, Tracking, FiniteSetTheorems, WellFoundedInduction, TLAPS

\* The only handler that waits for a task is not cancelled.
Attended == Orphans = FALSE

-----------------------------------------------------------------------------
(***************************************************************************)
(* Min and Max.                                                            *)
(***************************************************************************)

Less == {p \in Nat \X Nat : p[1] < p[2]}

LEMMA LessIsWellFounded == IsWellFoundedOn(Less, Nat)
<1>1. OpToRel(<, Nat) = Less
  BY DEF OpToRel, Less
<1>. QED
  BY <1>1, NatLessThanWellFounded

\* A set of naturals has its least element as Min.
LEMMA LeastNatural ==
  ASSUME NEW S \in SUBSET Nat, S # {}
  PROVE  Min(S) \in S /\ \A y \in S : Min(S) <= y
<1>1. PICK x \in S : \A y \in S : ~(<<y, x>> \in Less)
  BY LessIsWellFounded, WFMin
<1>2. ASSUME NEW y \in S
      PROVE  x <= y
  <2>1. x \in Nat /\ y \in Nat /\ ~(<<y, x>> \in Less)
    BY <1>1
  <2>. QED
    BY <2>1 DEF Less
<1>. QED
  BY <1>2 DEF Min

LEMMA MaxOfTwo ==
  ASSUME NEW a \in Int, NEW b \in Int
  PROVE  Max({a, b}) = IF a >= b THEN a ELSE b
<1>. DEFINE m == IF a >= b THEN a ELSE b
<1>1. m \in {a, b} /\ \A y \in {a, b} : m >= y
  OBVIOUS
<1>2. \A x \in {a, b} : (\A y \in {a, b} : x >= y) => x = m
  OBVIOUS
<1>. QED
  BY <1>1, <1>2 DEF Max

-----------------------------------------------------------------------------
(***************************************************************************)
(* The invariant.                                                          *)
(***************************************************************************)

RequestTypes ==
  {Idle}
    \cup [stage : {"begun"}, began : Nat]
    \cup [stage : {"waiting"}, began : Nat, task : Nat \ {0}, gone : BOOLEAN]
    \cup [stage : {"landed"}, began : Nat, task : Nat \ {0}, gone : BOOLEAN, ok : BOOLEAN, at : Nat]
    \cup [stage : {"answered", "writing", "failed"}, began : Nat, at : Nat]

FlightTypes ==
  {NoFlight}
    \cup [task : Nat \ {0}, state : {"running"}, since : Nat]
    \cup [task : Nat \ {0}, state : {"done", "failed"}, at : Nat]

TypeOK ==
  /\ clock \in Nat
  /\ cache \in {NoEntry} \cup [at : Nat, expires : Nat]
  /\ flight \in FlightTypes
  /\ request \in [Requests -> RequestTypes]
  /\ latest \in {NoRow} \cup [at : Nat, fetchedAt : Nat]
  /\ failures \in 0..DegradedAfter

\* A request has begun before now; who waits, waits for the registered task; who has
\* an answer in hand got it now, and not from a task that is still running.
HandlerOK(r) ==
  /\ ~In(r, {"idle"}) => request[r].began <= clock
  /\ In(r, {"waiting"}) => flight.state = "running" /\ request[r].task = flight.task
  /\ In(r, {"landed"}) =>
       /\ request[r].at = clock
       /\ request[r].task = flight.task => flight.state \in {"done", "failed"}
  /\ In(r, {"answered", "writing"}) => request[r].at > request[r].began - Ttl
  /\ In(r, {"failed"}) => request[r].at >= request[r].began

\* A registered task has a handler; one that has ended did so now.
FlightOK ==
  /\ flight.state = "running" =>
       \E r \in Requests : In(r, {"waiting"}) /\ request[r].task = flight.task
  /\ flight.state \in {"done", "failed"} =>
       /\ flight.at = clock
       /\ \E r \in Requests : In(r, {"landed"}) /\ request[r].task = flight.task

\* The life of a cache entry begins with its answer.
CacheOK == cache # NoEntry => cache.expires = cache.at + Ttl

RowOK == latest # NoRow => latest.at > latest.fetchedAt - Ttl

IInv ==
  /\ TypeOK
  /\ \A r \in Requests : HandlerOK(r)
  /\ FlightOK
  /\ CacheOK
  /\ RowOK

\* What is in a request of each stage.
LEMMA Fields ==
  ASSUME TypeOK, NEW r \in Requests
  PROVE  /\ request[r].stage \in {"idle", "begun", "waiting", "landed", "answered", "writing", "failed"}
         /\ ~In(r, {"idle"}) => request[r].began \in Nat
         /\ In(r, {"waiting", "landed"}) => request[r].task \in Nat \ {0} /\ request[r].gone \in BOOLEAN
         /\ In(r, {"landed"}) => request[r].ok \in BOOLEAN
         /\ In(r, {"landed", "answered", "writing", "failed"}) => request[r].at \in Nat
         /\ In(r, {"waiting"}) =>
              request[r] \in [stage : {"waiting"}, began : Nat, task : Nat \ {0}, gone : BOOLEAN]
         /\ In(r, {"answered", "writing"}) =>
              request[r] \in [stage : {"answered", "writing", "failed"}, began : Nat, at : Nat]
BY DEF TypeOK, RequestTypes, In, Idle

\* What is in the register.
LEMMA FlightFields ==
  ASSUME TypeOK
  PROVE  /\ flight.task \in Nat
         /\ flight.state \in {"none", "running", "done", "failed"}
         /\ flight.state = "none" <=> flight = NoFlight
         /\ flight.state # "none" => flight.task # 0
         /\ flight.state = "running" => flight.since \in Nat
         /\ flight.state \in {"done", "failed"} => flight.at \in Nat
BY DEF TypeOK, FlightTypes, NoFlight

\* One more failure keeps the count.
LEMMA FailuresCounted ==
  ASSUME failures \in 0..DegradedAfter
  PROVE  OneMoreFailure \in 0..DegradedAfter
<1>1. DegradedAfter \in Nat /\ DegradedAfter # 0
  BY QuotesAssumption DEF QuotesAssumption
<1>2. {failures + 1, DegradedAfter} \in SUBSET Nat /\ {failures + 1, DegradedAfter} # {}
  BY <1>1
<1>3. OneMoreFailure \in {failures + 1, DegradedAfter} /\ OneMoreFailure <= DegradedAfter
  BY <1>2, LeastNatural, Zenon DEF OneMoreFailure
<1>. QED
  BY <1>1, <1>3

\* There is a name for a new task: there are more names than handlers.
LEMMA FreshTaskIsFresh ==
  ASSUME TypeOK, NEW r \in Requests, In(r, {"begun"}), flight = NoFlight
  PROVE  FreshTask \in Nat \ {0} /\ FreshTask \notin Tasks
<1>. DEFINE holders == {q \in Requests : In(q, {"waiting", "landed"})}
            taken == {request[q].task : q \in holders}
            names == 1..Cardinality(Requests) + 1
            task == [q \in holders |-> request[q].task]
<1>1. IsFiniteSet(Requests) /\ Cardinality(Requests) \in Nat
  BY QuotesAssumption, FS_CardinalityType DEF QuotesAssumption
<1>2. holders \in SUBSET Requests
  OBVIOUS
<1>3. IsFiniteSet(holders) /\ Cardinality(holders) \in Nat /\ Cardinality(holders) <= Cardinality(Requests)
  BY <1>1, <1>2, FS_Subset, FS_CardinalityType
<1>4. task \in Surjection(holders, taken)
  BY DEF Surjection
<1>5. IsFiniteSet(taken) /\ Cardinality(taken) <= Cardinality(holders)
  <2>. HIDE DEF holders, taken, task
  <2>. QED
    BY <1>3, <1>4, FS_Surjection
<1>6. Cardinality(taken) \in Nat
  BY <1>5, FS_CardinalityType
<1>7. IsFiniteSet(names) /\ Cardinality(names) = Cardinality(Requests) + 1
  BY <1>1, FS_Interval
<1>8. ~(names \subseteq taken)
  <2>1. SUFFICES ASSUME names \in SUBSET taken
                 PROVE  FALSE
    OBVIOUS
  <2>2. Cardinality(names) <= Cardinality(taken)
    <3>. HIDE DEF names, taken
    <3>. QED
      BY <1>5, <2>1, FS_Subset
  <2>. QED
    BY <1>1, <1>3, <1>5, <1>6, <1>7, <2>2
<1>9. Tasks = {0} \cup taken
  BY DEF Tasks, NoFlight
<1>10. names \ Tasks \in SUBSET Nat /\ names \ Tasks # {}
  BY <1>1, <1>8, <1>9
<1>11. FreshTask \in names \ Tasks
  BY <1>10, LeastNatural, Zenon DEF FreshTask
<1>. QED
  BY <1>1, <1>11

-----------------------------------------------------------------------------
(***************************************************************************)
(* Every step keeps the invariant.                                         *)
(***************************************************************************)

LEMMA InitInv ==
  ASSUME Init
  PROVE  IInv
BY QuotesAssumption DEF Init, IInv, TypeOK, RequestTypes, FlightTypes, HandlerOK, FlightOK, CacheOK, RowOK,
   In, Idle, NoEntry, NoFlight, NoRow, QuotesAssumption

LEMMA PutOne ==
  ASSUME TypeOK, NEW r \in Requests, NEW value \in RequestTypes, Put(r, value)
  PROVE  /\ request' \in [Requests -> RequestTypes]
         /\ request'[r] = value
         /\ \A q \in Requests \ {r} : request'[q] = request[q]
BY DEF TypeOK, Put

\* Whether a request that stays as it is is in order depends on the clock and the
\* register only.
LEMMA HandlerKept ==
  ASSUME NEW q \in Requests, HandlerOK(q), request'[q] = request[q], UNCHANGED clock,
         In(q, {"waiting"}) => flight'.state = "running" /\ flight'.task = flight.task,
         In(q, {"landed"}) /\ request[q].task = flight'.task =>
           flight'.state \in {"done", "failed"}
  PROVE  HandlerOK(q)'
BY DEF HandlerOK, In

\* A step of a request that neither waits nor has an answer in hand, before and after.
LEMMA StepAside ==
  ASSUME IInv, NEW r \in Requests, NEW value \in RequestTypes, Put(r, value),
         ~In(r, {"waiting", "landed"}), value.stage \notin {"waiting", "landed"},
         value.stage # "idle" => value.began <= clock,
         value.stage \in {"answered", "writing"} => value.at > value.began - Ttl,
         value.stage = "failed" => value.at >= value.began,
         UNCHANGED <<clock, cache, flight>>,
         latest' \in {NoRow} \cup [at : Nat, fetchedAt : Nat], RowOK',
         failures' \in 0..DegradedAfter
  PROVE  IInv'
<1>1. /\ request' \in [Requests -> RequestTypes]
      /\ request'[r] = value
      /\ \A q \in Requests \ {r} : request'[q] = request[q]
  BY PutOne DEF IInv
<1>2. TypeOK' /\ CacheOK'
  BY <1>1 DEF IInv, TypeOK, CacheOK
<1>3. ASSUME NEW q \in Requests
      PROVE  HandlerOK(q)'
  <2>1. CASE q = r
    BY <1>1, <2>1 DEF HandlerOK, In
  <2>2. CASE q # r
    BY <1>1, <2>2, HandlerKept DEF IInv, HandlerOK, In
  <2>. QED
    BY <2>1, <2>2
<1>4. FlightOK'
  <2>1. ASSUME NEW q \in Requests, In(q, {"waiting", "landed"})
        PROVE  request'[q] = request[q]
    BY <1>1, <2>1
  <2>. QED
    BY <2>1 DEF IInv, FlightOK, In
<1>. QED
  BY <1>2, <1>3, <1>4 DEF IInv

\* Some other row, or none.
LEMMA RowKept ==
  ASSUME IInv, UNCHANGED latest
  PROVE  latest' \in {NoRow} \cup [at : Nat, fetchedAt : Nat] /\ RowOK'
BY DEF IInv, TypeOK, RowOK

LEMMA BeginStep ==
  ASSUME IInv, NEW r \in Requests, Begin(r)
  PROVE  IInv'
<1>. DEFINE value == [stage |-> "begun", began |-> clock]
<1>1. value \in RequestTypes /\ Put(r, value)
  BY DEF Begin, IInv, TypeOK, RequestTypes
<1>2. failures' \in 0..DegradedAfter /\ clock <= clock
  BY DEF Begin, IInv, TypeOK
<1>. QED
  BY <1>1, <1>2, StepAside, RowKept DEF Begin, In

\* The request ends, with a failure or without.
LEMMA EndStep ==
  ASSUME IInv, NEW r \in Requests, Fail(r) \/ Refuse(r) \/ DropWrite(r)
  PROVE  IInv'
<1>1. Idle \in RequestTypes /\ Put(r, Idle)
  BY DEF Fail, Refuse, DropWrite, RequestTypes
<1>2. failures' \in 0..DegradedAfter
  BY FailuresCounted, QuotesAssumption DEF Fail, Refuse, DropWrite, IInv, TypeOK, QuotesAssumption
<1>. QED
  BY <1>1, <1>2, StepAside, RowKept DEF Fail, Refuse, DropWrite, In, Idle

LEMMA ReceiveStep ==
  ASSUME IInv, NEW r \in Requests, Receive(r)
  PROVE  IInv'
<1>. DEFINE value == [request[r] EXCEPT !.stage = "writing"]
<1>1. request[r] \in [stage : {"answered", "writing", "failed"}, began : Nat, at : Nat]
  BY Fields DEF IInv, Receive, In
<1>2. /\ value \in [stage : {"answered", "writing", "failed"}, began : Nat, at : Nat]
      /\ value.stage = "writing" /\ value.began = request[r].began /\ value.at = request[r].at
  BY <1>1
<1>3. value \in RequestTypes /\ Put(r, value)
  BY <1>2 DEF Receive, RequestTypes
<1>4. value.began <= clock /\ value.at > value.began - Ttl
  BY <1>2 DEF IInv, HandlerOK, Receive, In
<1>5. failures' \in 0..DegradedAfter
  BY QuotesAssumption DEF Receive, QuotesAssumption
<1>. HIDE DEF value
<1>. QED
  BY <1>2, <1>3, <1>4, <1>5, StepAside, RowKept DEF Receive, In

LEMMA WriteStep ==
  ASSUME IInv, NEW r \in Requests, Write(r)
  PROVE  IInv'
<1>1. Idle \in RequestTypes /\ Put(r, Idle)
  BY DEF Write, RequestTypes
<1>2. Row(r) \in [at : Nat, fetchedAt : Nat] /\ Row(r).at > Row(r).fetchedAt - Ttl
  BY Fields DEF IInv, HandlerOK, Write, In, Row
<1>3. latest' \in {NoRow} \cup [at : Nat, fetchedAt : Nat] /\ RowOK'
  BY <1>2 DEF Write, IInv, TypeOK, RowOK
<1>4. failures' \in 0..DegradedAfter
  BY DEF Write, IInv, TypeOK
<1>. QED
  BY <1>1, <1>3, <1>4, StepAside DEF Write, In, Idle

\* A handler that begins to wait.
LEMMA WaitStep ==
  ASSUME IInv, NEW r \in Requests, In(r, {"begun"}), NEW value \in RequestTypes, Put(r, value),
         value.stage = "waiting", value.began = request[r].began, value.task = flight'.task,
         flight' \in FlightTypes, flight'.state = "running",
         \/ flight' = flight
         \/ flight.state = "none" /\ flight'.task \notin Tasks,
         UNCHANGED <<clock, cache, latest, failures>>
  PROVE  IInv'
<1>1. /\ request' \in [Requests -> RequestTypes]
      /\ request'[r] = value
      /\ \A q \in Requests \ {r} : request'[q] = request[q]
  BY PutOne DEF IInv
<1>2. TypeOK' /\ CacheOK' /\ RowOK'
  BY <1>1 DEF IInv, TypeOK, CacheOK, RowOK
<1>3. ASSUME NEW q \in Requests
      PROVE  HandlerOK(q)'
  <2>1. CASE q = r
    BY <1>1, <2>1 DEF HandlerOK, In, IInv
  <2>2. CASE q # r /\ flight' = flight
    BY <1>1, <2>2, HandlerKept DEF IInv, HandlerOK, In
  <2>3. CASE q # r /\ flight.state = "none" /\ flight'.task \notin Tasks
    <3>1. ~In(q, {"waiting"})
      BY <2>3 DEF IInv, HandlerOK
    <3>2. In(q, {"landed"}) => request[q].task # flight'.task
      BY <2>3 DEF Tasks, In
    <3>. QED
      BY <1>1, <2>3, <3>1, <3>2, HandlerKept DEF IInv
  <2>. QED
    BY <2>1, <2>2, <2>3
<1>4. FlightOK'
  BY <1>1 DEF FlightOK, In
<1>. QED
  BY <1>2, <1>3, <1>4 DEF IInv

\* A handler that joins a task which has ended.
LEMMA JoinEnded ==
  ASSUME IInv, NEW r \in Requests, In(r, {"begun"}), flight.state \in {"done", "failed"},
         NEW value \in RequestTypes, Put(r, value),
         value.stage = "landed", value.began = request[r].began, value.task = flight.task,
         value.at = flight.at,
         UNCHANGED <<clock, cache, flight, latest, failures>>
  PROVE  IInv'
<1>1. /\ request' \in [Requests -> RequestTypes]
      /\ request'[r] = value
      /\ \A q \in Requests \ {r} : request'[q] = request[q]
  BY PutOne DEF IInv
<1>2. TypeOK' /\ CacheOK' /\ RowOK'
  BY <1>1 DEF IInv, TypeOK, CacheOK, RowOK
<1>3. ASSUME NEW q \in Requests
      PROVE  HandlerOK(q)'
  <2>1. CASE q = r
    BY <1>1, <2>1 DEF HandlerOK, FlightOK, In, IInv
  <2>2. CASE q # r
    BY <1>1, <2>2, HandlerKept DEF IInv, HandlerOK, In
  <2>. QED
    BY <2>1, <2>2
<1>4. FlightOK'
  BY <1>1 DEF FlightOK, In, IInv
<1>. QED
  BY <1>2, <1>3, <1>4 DEF IInv

LEMMA AskStep ==
  ASSUME IInv, NEW r \in Requests, Ask(r)
  PROVE  IInv'
<1>1. /\ In(r, {"begun"}) /\ ~In(r, {"waiting", "landed"})
      /\ request[r].began \in Nat /\ request[r].began <= clock
  BY Fields DEF IInv, HandlerOK, Ask, In
<1>2. UNCHANGED <<clock, cache, latest, failures>>
  BY DEF Ask
<1>3. CASE Cached /\ Put(r, Answered(r, cache.at)) /\ UNCHANGED flight
  <2>. DEFINE value == Answered(r, cache.at)
  <2>1. cache \in [at : Nat, expires : Nat] /\ cache.expires = cache.at + Ttl
    BY <1>3 DEF IInv, TypeOK, CacheOK, Cached
  <2>2. value \in RequestTypes /\ Put(r, value)
    BY <1>1, <1>3, <2>1 DEF Answered, RequestTypes
  <2>3. value.stage = "answered" /\ value.began = request[r].began /\ value.at = cache.at
    BY DEF Answered
  <2>4. Ttl \in Nat /\ clock \in Nat
    BY QuotesAssumption DEF QuotesAssumption, IInv, TypeOK
  <2>5. value.at > value.began - Ttl
    BY <1>1, <1>3, <2>1, <2>3, <2>4 DEF Cached
  <2>6. failures' \in 0..DegradedAfter
    BY <1>2 DEF IInv, TypeOK
  <2>. HIDE DEF value
  <2>. QED
    BY <1>1, <1>2, <1>3, <2>2, <2>3, <2>5, <2>6, StepAside, RowKept
<1>4. CASE /\ flight = NoFlight
           /\ flight' = [task |-> FreshTask, state |-> "running", since |-> clock]
           /\ Put(r, [stage |-> "waiting", began |-> request[r].began, task |-> FreshTask, gone |-> FALSE])
  <2>. DEFINE value == [stage |-> "waiting", began |-> request[r].began, task |-> FreshTask, gone |-> FALSE]
  <2>1. FreshTask \in Nat \ {0} /\ FreshTask \notin Tasks
    BY <1>1, <1>4, FreshTaskIsFresh DEF IInv
  <2>2. value \in RequestTypes /\ flight' \in FlightTypes
    BY <1>1, <1>4, <2>1 DEF RequestTypes, FlightTypes, IInv, TypeOK
  <2>3. /\ value.stage = "waiting" /\ value.began = request[r].began /\ value.task = flight'.task
        /\ flight'.state = "running" /\ flight'.task = FreshTask /\ flight.state = "none"
    BY <1>4 DEF NoFlight
  <2>4. Put(r, value)
    BY <1>4
  <2>. HIDE DEF value
  <2>. QED
    BY <1>1, <1>2, <2>1, <2>2, <2>3, <2>4, WaitStep
<1>5. CASE /\ flight.state = "running"
           /\ Put(r, [stage |-> "waiting", began |-> request[r].began, task |-> flight.task, gone |-> FALSE])
           /\ UNCHANGED flight
  <2>. DEFINE value == [stage |-> "waiting", began |-> request[r].began, task |-> flight.task, gone |-> FALSE]
  <2>1. value \in RequestTypes /\ flight' \in FlightTypes
    BY <1>1, <1>5, FlightFields DEF RequestTypes, IInv, TypeOK
  <2>2. value.stage = "waiting" /\ value.began = request[r].began /\ value.task = flight'.task
    BY <1>5
  <2>3. Put(r, value) /\ flight' = flight /\ flight'.state = "running"
    BY <1>5
  <2>. HIDE DEF value
  <2>. QED
    BY <1>1, <1>2, <2>1, <2>2, <2>3, WaitStep
<1>6. CASE /\ flight.state \in {"done", "failed"}
           /\ Put(r, [stage |-> "landed", began |-> request[r].began, task |-> flight.task, gone |-> FALSE,
                      ok |-> flight.state = "done", at |-> flight.at])
           /\ UNCHANGED flight
  <2>. DEFINE value == [stage |-> "landed", began |-> request[r].began, task |-> flight.task, gone |-> FALSE,
                        ok |-> flight.state = "done", at |-> flight.at]
  <2>1. value \in RequestTypes
    BY <1>1, <1>6, FlightFields DEF RequestTypes, IInv
  <2>2. /\ value.stage = "landed" /\ value.began = request[r].began
        /\ value.task = flight.task /\ value.at = flight.at
    OBVIOUS
  <2>3. Put(r, value)
    BY <1>6
  <2>. HIDE DEF value
  <2>. QED
    BY <1>1, <1>2, <1>6, <2>1, <2>2, <2>3, JoinEnded
<1>. QED
  BY <1>3, <1>4, <1>5, <1>6 DEF Ask

\* Everybody who waits has the answer; the others wait for another task.
LEMMA LandStep ==
  ASSUME IInv, NEW ok \in BOOLEAN, Land(ok)
  PROVE  IInv'
<1>. DEFINE Woken(q) == In(q, {"waiting"}) /\ request[q].task = flight.task
            result(q) == [stage |-> "landed", began |-> request[q].began, task |-> flight.task,
                          gone |-> request[q].gone, ok |-> ok, at |-> clock]
<1>1. /\ flight.state = "running" /\ UNCHANGED <<clock, cache, latest, failures>>
      /\ flight'.task = flight.task /\ flight'.state \in {"done", "failed"} /\ flight'.at = clock
      /\ flight' \in FlightTypes
  BY FlightFields DEF Land, IInv, TypeOK, FlightTypes
<1>2. \A q \in Requests : request'[q] = IF Woken(q) THEN result(q) ELSE request[q]
  BY DEF Land
<1>3. ASSUME NEW q \in Requests, Woken(q)
      PROVE  result(q) \in RequestTypes
  BY <1>1, <1>3, Fields, FlightFields DEF RequestTypes, In, IInv, TypeOK
<1>4. request' \in [Requests -> RequestTypes]
  <2>1. request' = [q \in Requests |-> IF Woken(q) THEN result(q) ELSE request[q]]
    BY DEF Land
  <2>2. \A q \in Requests : request[q] \in RequestTypes
    BY DEF IInv, TypeOK
  <2>. HIDE DEF result
  <2>. QED
    BY <1>3, <2>1, <2>2
<1>5. TypeOK' /\ CacheOK' /\ RowOK'
  BY <1>1, <1>4 DEF IInv, TypeOK, CacheOK, RowOK
<1>6. ASSUME NEW q \in Requests, Woken(q)
      PROVE  /\ request'[q].stage = "landed" /\ request'[q].began = request[q].began
             /\ request'[q].task = flight.task /\ request'[q].at = clock
  <2>1. request'[q] = result(q)
    <3>. HIDE DEF Woken, result
    <3>. QED
      BY <1>2, <1>6
  <2>. QED
    BY <2>1
<1>7. ASSUME NEW q \in Requests
      PROVE  HandlerOK(q)'
  <2>1. CASE Woken(q)
    <3>1. /\ request'[q].stage = "landed" /\ request'[q].began = request[q].began
          /\ request'[q].task = flight.task /\ request'[q].at = clock
      BY <1>6, <2>1
    <3>2. request[q].began <= clock
      BY <2>1 DEF IInv, HandlerOK, In
    <3>. QED
      BY <1>1, <3>1, <3>2 DEF HandlerOK, In
  <2>2. CASE ~Woken(q)
    <3>1. ~In(q, {"waiting"})
      BY <2>2 DEF IInv, HandlerOK
    <3>. QED
      BY <1>1, <1>2, <2>2, <3>1, HandlerKept DEF IInv
  <2>. QED
    BY <2>1, <2>2
<1>8. FlightOK'
  <2>1. PICK q \in Requests : Woken(q)
    BY <1>1 DEF IInv, FlightOK
  <2>2. request'[q].stage = "landed" /\ request'[q].task = flight.task
    BY <1>6, <2>1
  <2>. QED
    BY <1>1, <2>2 DEF FlightOK, In
<1>. QED
  BY <1>5, <1>7, <1>8 DEF IInv

\* A handler that leaves with an answer in hand, or without one, takes along the task
\* if nobody can need it any more; the others do not wait for a task that has ended.
LEMMA Unregistered ==
  ASSUME IInv, NEW r \in Requests, In(r, {"landed"}), flight' = Unregister(r),
         NEW q \in Requests, In(q, {"waiting"})
  PROVE  flight' = flight
BY DEF Unregister, IInv, HandlerOK

LEMMA LeaveStep ==
  ASSUME IInv, NEW r \in Requests, In(r, {"landed"}), flight' = Unregister(r),
         NEW value \in RequestTypes, Put(r, value),
         value.stage \in {"idle", "answered", "failed"},
         value.stage # "idle" => value.began = request[r].began /\ value.at = request[r].at,
         cache' \in {NoEntry} \cup [at : Nat, expires : Nat], CacheOK',
         failures' \in 0..DegradedAfter,
         UNCHANGED <<clock, latest>>
  PROVE  IInv'
<1>1. /\ request' \in [Requests -> RequestTypes]
      /\ request'[r] = value
      /\ \A q \in Requests \ {r} : request'[q] = request[q]
  BY PutOne DEF IInv
<1>2. flight' \in {flight, NoFlight} /\ flight' \in FlightTypes
  BY DEF Unregister, IInv, TypeOK, FlightTypes
<1>3. TypeOK' /\ RowOK'
  BY <1>1, <1>2 DEF IInv, TypeOK, RowOK
<1>4. /\ request[r].at \in Nat /\ request[r].began \in Nat /\ Ttl \in Nat \ {0}
      /\ request[r].began <= request[r].at /\ request[r].at = clock
  BY Fields, QuotesAssumption DEF IInv, HandlerOK, In, QuotesAssumption
<1>5. ASSUME NEW q \in Requests
      PROVE  HandlerOK(q)'
  <2>1. CASE q = r
    BY <1>1, <1>4, <2>1 DEF HandlerOK, In
  <2>2. CASE q # r
    <3>1. In(q, {"waiting"}) => flight' = flight
      BY Unregistered
    <3>2. In(q, {"waiting"}) => flight.state = "running"
      BY DEF IInv, HandlerOK
    <3>3. In(q, {"landed"}) => request[q].task # 0
      BY Fields DEF IInv, In
    <3>4. In(q, {"landed"}) /\ request[q].task = flight'.task => flight'.state \in {"done", "failed"}
      <4>1. CASE flight' = flight
        BY <4>1 DEF IInv, HandlerOK
      <4>2. CASE flight' = NoFlight
        BY <3>3, <4>2 DEF NoFlight
      <4>. QED
        BY <1>2, <4>1, <4>2
    <3>. QED
      BY <1>1, <2>2, <3>1, <3>2, <3>4, HandlerKept DEF IInv
  <2>. QED
    BY <2>1, <2>2
<1>6. FlightOK'
  <2>1. CASE flight.task = request[r].task
    BY <2>1 DEF FlightOK, Unregister, NoFlight
  <2>2. CASE flight.task # request[r].task
    <3>1. flight' = flight
      BY <2>2 DEF Unregister
    <3>2. ASSUME NEW q \in Requests, In(q, {"waiting", "landed"}), request[q].task = flight.task
          PROVE  request'[q] = request[q]
      BY <1>1, <2>2, <3>2
    <3>. QED
      BY <3>1, <3>2 DEF IInv, FlightOK, In
  <2>. QED
    BY <2>1, <2>2
<1>. QED
  BY <1>3, <1>5, <1>6 DEF IInv

LEMMA ResumeStep ==
  ASSUME IInv, NEW r \in Requests, Resume(r)
  PROVE  IInv'
<1>1. /\ In(r, {"landed"}) /\ request[r].began \in Nat /\ request[r].at \in Nat
      /\ request[r].at = clock /\ Ttl \in Nat
  BY Fields, QuotesAssumption DEF Resume, IInv, HandlerOK, In, QuotesAssumption
<1>2. cache' \in {NoEntry} \cup [at : Nat, expires : Nat] /\ CacheOK'
  BY <1>1 DEF Resume, IInv, TypeOK, CacheOK
<1>3. flight' = Unregister(r) /\ UNCHANGED <<clock, latest, failures>>
  BY DEF Resume
<1>4. failures' \in 0..DegradedAfter
  BY <1>3 DEF IInv, TypeOK
<1>5. CASE request[r].gone
  <2>1. Put(r, Idle) /\ Idle \in RequestTypes /\ Idle.stage = "idle"
    BY <1>5 DEF Resume, RequestTypes, Idle
  <2>. QED
    BY <1>1, <1>2, <1>3, <1>4, <2>1, LeaveStep
<1>6. CASE ~request[r].gone /\ request[r].ok
  <2>. DEFINE value == Answered(r, request[r].at)
  <2>1. Put(r, value) /\ value \in RequestTypes
    BY <1>1, <1>6 DEF Resume, RequestTypes, Answered
  <2>2. value.stage = "answered" /\ value.began = request[r].began /\ value.at = request[r].at
    BY DEF Answered
  <2>. HIDE DEF value
  <2>. QED
    BY <1>1, <1>2, <1>3, <1>4, <2>1, <2>2, LeaveStep
<1>7. CASE ~request[r].gone /\ ~request[r].ok
  <2>. DEFINE value == [stage |-> "failed", began |-> request[r].began, at |-> request[r].at]
  <2>1. Put(r, value) /\ value \in RequestTypes
    BY <1>1, <1>7 DEF Resume, RequestTypes
  <2>2. value.stage = "failed" /\ value.began = request[r].began /\ value.at = request[r].at
    OBVIOUS
  <2>. HIDE DEF value
  <2>. QED
    BY <1>1, <1>2, <1>3, <1>4, <2>1, <2>2, LeaveStep
<1>. QED
  BY <1>5, <1>6, <1>7

\* A cancelled handler leaves a running task to the others.
LEMMA CancelStep ==
  ASSUME IInv, NEW r \in Requests, Cancel(r), Attended
  PROVE  IInv'
<1>1. /\ Put(r, Idle) /\ Idle \in RequestTypes /\ Idle.stage = "idle"
      /\ UNCHANGED <<clock, cache, latest>>
  BY DEF Cancel, RequestTypes, Idle
<1>2. failures' \in 0..DegradedAfter
  BY FailuresCounted DEF Cancel, IInv, TypeOK
<1>3. cache' \in {NoEntry} \cup [at : Nat, expires : Nat] /\ CacheOK'
  BY <1>1 DEF IInv, TypeOK, CacheOK
<1>4. CASE In(r, {"landed"})
  <2>1. flight' = Unregister(r)
    BY <1>4 DEF Cancel, Unregister, IInv, HandlerOK
  <2>. QED
    BY <1>1, <1>2, <1>3, <1>4, <2>1, LeaveStep
<1>5. CASE In(r, {"waiting"})
  <2>1. flight.state = "running" /\ flight' = flight
    BY <1>5 DEF Cancel, IInv, HandlerOK
  <2>2. PICK p \in Requests \ {r} : In(p, {"waiting"}) /\ request[p].task = flight.task
    BY <1>5 DEF Cancel, Attended, In, IInv, HandlerOK
  <2>3. /\ request' \in [Requests -> RequestTypes]
        /\ request'[r] = Idle
        /\ \A q \in Requests \ {r} : request'[q] = request[q]
    BY <1>1, PutOne DEF IInv
  <2>4. TypeOK' /\ RowOK'
    BY <1>1, <1>2, <2>1, <2>3 DEF IInv, TypeOK, RowOK
  <2>5. ASSUME NEW q \in Requests
        PROVE  HandlerOK(q)'
    <3>1. CASE q = r
      BY <2>3, <3>1 DEF HandlerOK, In, Idle
    <3>2. CASE q # r
      BY <1>1, <2>1, <2>3, <3>2, HandlerKept DEF IInv, HandlerOK
    <3>. QED
      BY <3>1, <3>2
  <2>6. FlightOK'
    BY <2>1, <2>2, <2>3 DEF FlightOK, In
  <2>. QED
    BY <1>3, <2>4, <2>5, <2>6 DEF IInv
<1>. QED
  BY <1>4, <1>5 DEF Cancel

LEMMA RestartProviderStep ==
  ASSUME IInv, RestartProvider
  PROVE  IInv'
<1>1. cache' = NoEntry /\ flight' = NoFlight /\ UNCHANGED <<clock, latest>>
  BY DEF RestartProvider
<1>2. \A q \in Requests :
        request'[q] = IF In(q, {"waiting", "landed"}) THEN Idle ELSE request[q]
  BY DEF RestartProvider
<1>3. request' \in [Requests -> RequestTypes]
  BY DEF RestartProvider, IInv, TypeOK, RequestTypes
<1>4. failures' \in 0..DegradedAfter
  BY FailuresCounted DEF RestartProvider, IInv, TypeOK
<1>5. TypeOK' /\ CacheOK' /\ RowOK' /\ FlightOK'
  BY <1>1, <1>3, <1>4 DEF IInv, TypeOK, FlightTypes, CacheOK, RowOK, FlightOK, NoFlight
<1>6. ASSUME NEW q \in Requests
      PROVE  HandlerOK(q)'
  <2>1. CASE In(q, {"waiting", "landed"})
    BY <1>2, <2>1 DEF HandlerOK, In, Idle
  <2>2. CASE ~In(q, {"waiting", "landed"})
    BY <1>1, <1>2, <2>2, HandlerKept DEF IInv, HandlerOK, In
  <2>. QED
    BY <2>1, <2>2
<1>. QED
  BY <1>5, <1>6 DEF IInv

LEMMA GiveUpStep ==
  ASSUME IInv, NEW r \in Requests, GiveUp(r)
  PROVE  IInv'
<1>. DEFINE value == [request[r] EXCEPT !.gone = TRUE]
<1>1. request[r] \in [stage : {"waiting"}, began : Nat, task : Nat \ {0}, gone : BOOLEAN]
  BY Fields DEF GiveUp, IInv
<1>2. /\ value \in [stage : {"waiting"}, began : Nat, task : Nat \ {0}, gone : BOOLEAN]
      /\ value.stage = "waiting" /\ value.began = request[r].began /\ value.task = request[r].task
  BY <1>1
<1>3. value \in RequestTypes /\ Put(r, value) /\ UNCHANGED <<clock, cache, flight, latest>>
  BY <1>2 DEF GiveUp, RequestTypes
<1>. HIDE DEF value
<1>4. /\ request' \in [Requests -> RequestTypes]
      /\ request'[r] = value
      /\ \A q \in Requests \ {r} : request'[q] = request[q]
  BY <1>3, PutOne DEF IInv
<1>5. failures' \in 0..DegradedAfter
  BY FailuresCounted DEF GiveUp, IInv, TypeOK
<1>6. TypeOK' /\ CacheOK' /\ RowOK'
  BY <1>3, <1>4, <1>5 DEF IInv, TypeOK, CacheOK, RowOK
<1>7. ASSUME NEW q \in Requests
      PROVE  HandlerOK(q)'
  <2>1. CASE q = r
    BY <1>2, <1>3, <1>4, <2>1 DEF HandlerOK, In, IInv, GiveUp
  <2>2. CASE q # r
    BY <1>3, <1>4, <2>2, HandlerKept DEF IInv, HandlerOK
  <2>. QED
    BY <2>1, <2>2
<1>8. FlightOK'
  <2>1. \A q \in Requests : request'[q].stage = request[q].stage /\
          (In(q, {"waiting", "landed"}) => request'[q].task = request[q].task)
    BY <1>2, <1>4 DEF GiveUp, In
  <2>. QED
    BY <1>3, <2>1 DEF IInv, FlightOK, In
<1>. QED
  BY <1>6, <1>7, <1>8 DEF IInv

\* Time passes only when nobody has an answer in hand, so no task has ended.
LEMMA TickStep ==
  ASSUME IInv, Tick
  PROVE  IInv'
<1>1. clock' = clock + 1 /\ UNCHANGED <<cache, flight, request, latest, failures>>
  BY DEF Tick
<1>2. TypeOK' /\ CacheOK' /\ RowOK'
  BY <1>1 DEF IInv, TypeOK, CacheOK, RowOK
<1>3. FlightOK'
  BY <1>1 DEF IInv, FlightOK, Tick, In
<1>4. ASSUME NEW q \in Requests
      PROVE  HandlerOK(q)'
  <2>1. ~In(q, {"landed"}) /\ HandlerOK(q) /\ clock \in Nat
    BY DEF IInv, Tick, TypeOK
  <2>2. ~In(q, {"idle"}) => request[q].began \in Nat
    BY Fields DEF IInv
  <2>. QED
    BY <1>1, <2>1, <2>2 DEF HandlerOK, In
<1>. QED
  BY <1>2, <1>3, <1>4 DEF IInv

LEMMA NextInv ==
  ASSUME IInv, [Next]_vars, Attended
  PROVE  IInv'
<1>1. CASE UNCHANGED vars
  BY <1>1 DEF vars, IInv, TypeOK, HandlerOK, FlightOK, CacheOK, RowOK, In
<1>2. ASSUME NEW r \in Requests,
             \/ Begin(r) \/ Ask(r) \/ Resume(r) \/ Cancel(r) \/ GiveUp(r) \/ Fail(r) \/ Refuse(r)
             \/ Receive(r) \/ Write(r) \/ DropWrite(r)
      PROVE  IInv'
  BY <1>2, BeginStep, AskStep, ResumeStep, CancelStep, GiveUpStep, EndStep, ReceiveStep, WriteStep
<1>3. ASSUME NEW ok \in BOOLEAN, Land(ok)
      PROVE  IInv'
  BY <1>3, LandStep
<1>4. CASE RestartProvider \/ Tick
  BY <1>4, RestartProviderStep, TickStep
<1>. QED
  BY <1>1, <1>2, <1>3, <1>4 DEF Next

-----------------------------------------------------------------------------
(***************************************************************************)
(* The theorems.                                                           *)
(***************************************************************************)

\* The state of the provider, of every request and of the row is of the shape the
\* handlers leave it in, and every registered task has a handler that waits for it
\* or is about to take it off (client.py: the register holds no abandoned task).
THEOREM RegisterIsAttended == ASSUME Attended PROVE Spec => []IInv
<1>1. Init => IInv
  BY InitInv
<1>2. IInv /\ [Next]_vars => IInv'
  BY NextInv
<1>. QED
  BY <1>1, <1>2, PTL DEF Spec

LEMMA InvImpliesRecentAnswers ==
  ASSUME IInv
  PROVE  AnswersAreRecent
BY DEF IInv, HandlerOK, AnswersAreRecent

\* Whatever is shared, cached, cancelled or restarted, a job is given an answer that is
\* older than its beginning by less than the life of a cache entry, and a failure
\* that happened after it began.
THEOREM RecentAnswers == ASSUME Attended PROVE Spec => []AnswersAreRecent
  BY RegisterIsAttended, InvImpliesRecentAnswers, PTL

LEMMA InvImpliesFresh ==
  ASSUME IInv
  PROVE  FreshIsRecent
<1>1. /\ clock \in Nat /\ Ttl \in Nat \ {0} /\ LatestAge \in Nat /\ DelayedAge \in Nat
      /\ StaleAfter \in Nat /\ LatestAge < DelayedAge
  BY QuotesAssumption DEF IInv, TypeOK, QuotesAssumption
<1>2. SUFFICES ASSUME Quote.known
               PROVE  /\ Quote.freshness = "fresh" => clock - Quote.at < StaleAfter + Ttl
                      /\ Quote.ageStatus = "latest" => clock - Quote.at < LatestAge + Ttl
  BY DEF FreshIsRecent
<1>3. Quote.at = latest.at /\ Quote.freshness = Freshness /\ Quote.ageStatus = AgeStatus /\ latest # NoRow
  BY <1>2 DEF Quote
<1>4. latest.at \in Nat /\ latest.fetchedAt \in Nat /\ latest.at > latest.fetchedAt - Ttl
  BY <1>3 DEF IInv, TypeOK, RowOK
<1>5. AgeSeconds \in Int /\ clock - latest.fetchedAt <= AgeSeconds
  BY <1>1, <1>4, MaxOfTwo DEF AgeSeconds
<1>6. Freshness = "fresh" => AgeSeconds <= StaleAfter
  BY <1>1, <1>5 DEF Freshness
<1>7. AgeStatus = "latest" => AgeSeconds <= LatestAge
  BY <1>1, <1>5 DEF AgeStatus
<1>. QED
  BY <1>1, <1>3, <1>4, <1>5, <1>6, <1>7

\* A reader of freshness.py who is told "fresh" or "latest" sees a price that is older
\* than the limit by less than the life of a cache entry.
THEOREM FreshQuotesAreRecent == ASSUME Attended PROVE Spec => []FreshIsRecent
  BY RegisterIsAttended, InvImpliesFresh, PTL

LEMMA StepReplacesByRecent ==
  ASSUME IInv, [Next]_vars
  PROVE  [latest'.at > latest.fetchedAt - Ttl]_latest
<1>1. SUFFICES ASSUME latest' # latest
               PROVE  latest'.at > latest.fetchedAt - Ttl
  OBVIOUS
<1>2. PICK r \in Requests : Write(r)
  BY <1>1 DEF Next, vars, Begin, Ask, Resume, Cancel, GiveUp, Fail, Refuse, Receive, DropWrite, Land,
     RestartProvider, Tick
<1>3. latest' = Row(r) /\ Replaces(Row(r))
  BY <1>1, <1>2 DEF Write
<1>4. /\ Row(r).at \in Nat /\ Row(r).fetchedAt \in Nat /\ Row(r).at > Row(r).fetchedAt - Ttl
      /\ Ttl \in Nat
  BY <1>2, Fields, QuotesAssumption DEF IInv, HandlerOK, Write, In, Row, QuotesAssumption
<1>5. CASE latest = NoRow
  BY <1>3, <1>4, <1>5 DEF NoRow
<1>6. CASE latest # NoRow
  BY <1>3, <1>4, <1>6 DEF Replaces, IInv, TypeOK
<1>. QED
  BY <1>5, <1>6

\* upsert_quotes: however late a writer is, what replaces a row was answered less than
\* the life of a cache entry before the request of the replaced row began.
THEOREM NoOldPriceReturns == ASSUME Attended PROVE Spec => ReplacedByRecent
<1>1. IInv /\ [Next]_vars => [latest'.at > latest.fetchedAt - Ttl]_latest
  BY StepReplacesByRecent
<1>. QED
  BY <1>1, RegisterIsAttended, PTL DEF Spec, ReplacedByRecent

-----------------------------------------------------------------------------
(***************************************************************************)
(* The invariant of the followed stocks.                                   *)
(***************************************************************************)

\* The requests that write.
ClientTypes(c) ==
  \/ client[c] = AtRest
  \/ /\ client[c].stage = "adding"
     /\ client[c].symbol \in Symbols /\ client[c].order \in Nat
  \/ /\ client[c].stage = "ordering"
     /\ \A n \in DOMAIN client[c].place : client[c].place[n] \in Nat

DataTypes ==
  /\ members \in Indexes
  /\ nextId \in Nat \ {0}
  /\ items \subseteq [id : 1..nextId - 1, symbol : Symbols, order : Nat]
  /\ \A i, j \in items : i.id = j.id => i = j
  /\ client = [c \in Clients |-> client[c]]
  /\ \A c \in Clients : ClientTypes(c)

TrackingTypes ==
  /\ DataTypes
  /\ cursor \in Nat
  /\ waited \in [Symbols -> Nat]

\* How far a stock of T is from place c, along the circle.
Place(T, s) == Cardinality({t \in T : t < s})
Away(T, c, s) == (Place(T, s) - (c % Cardinality(T))) % Cardinality(T)

Distance(s) == Away(Tracked, cursor, s)

\* The stocks of a request.
Turn == Min({Batch, Cardinality(Tracked)})

\* The batches that have passed a stock and its distance make at most one round.
RoundOK == \A s \in Tracked : waited[s] * Turn + Distance(s) < Cardinality(Tracked)

\* Of the rows that were there from the beginning, those up to the place where the next
\* page begins have been seen, once, and no others.
WalkOK ==
  \/ reader = AtRest
  \/ /\ reader.stage = "done"
     /\ reader.stayed \subseteq reader.seen \ reader.twice
  \/ /\ reader.stage = "turning"
     /\ reader.list \in {"watchlist", "pool"}
     /\ reader.behind \in Int \X Int
     /\ \A id \in reader.stayed : id \in Int /\ id < nextId
     /\ \A r \in Rows(reader.list) :
          r.id \in reader.stayed =>
            /\ r.id \in reader.seen <=> ~Before(reader.behind, r.key)
            /\ r.id \notin reader.twice

TrackingInv == TrackingTypes /\ RoundOK /\ WalkOK
-----------------------------------------------------------------------------
(***************************************************************************)
(* Rounds.                                                                 *)
(***************************************************************************)

LEMMA Remainder ==
  ASSUME NEW n \in Nat \ {0}, NEW x \in Int
  PROVE  /\ x % n \in 0..n - 1
         /\ 0 <= x /\ x < n => x % n = x
         /\ -n <= x /\ x < 0 => x % n = x + n
         /\ n <= x /\ x < 2 * n => x % n = x - n
OBVIOUS

LEMMA PartIsFinite ==
  ASSUME NEW S, IsFiniteSet(S), NEW T \in SUBSET S
  PROVE  /\ IsFiniteSet(T)
         /\ Cardinality(T) \in Nat /\ Cardinality(S) \in Nat
         /\ Cardinality(T) <= Cardinality(S)
         /\ T # S => Cardinality(T) < Cardinality(S)
BY FS_Subset, FS_CardinalityType

\* The places of the stocks in the order of their symbols.
LEMMA PlacesAreAll ==
  ASSUME NEW T \in SUBSET Nat, IsFiniteSet(T)
  PROVE  /\ \A s \in T : Place(T, s) \in 0..Cardinality(T) - 1
         /\ \A s, t \in T : Place(T, s) = Place(T, t) => s = t
<1>1. ASSUME NEW s \in T
      PROVE  Place(T, s) \in 0..Cardinality(T) - 1
  <2>. DEFINE below == {t \in T : t < s}
  <2>1. below \in SUBSET T /\ below # T
    <3>1. s \notin below
      OBVIOUS
    <3>. QED
      BY <3>1
  <2>. HIDE DEF below
  <2>2. /\ Cardinality(below) \in Nat /\ Cardinality(T) \in Nat
        /\ Cardinality(below) < Cardinality(T)
    BY <2>1, PartIsFinite
  <2>. QED
    BY <2>2 DEF below, Place
<1>2. ASSUME NEW s \in T, NEW t \in T, s < t
      PROVE  Place(T, s) < Place(T, t)
  <2>. DEFINE below == {u \in T : u < s}
              belowLater == {u \in T : u < t}
  <2>1. \A u \in T : u \in Nat
    OBVIOUS
  <2>2. below \in SUBSET belowLater /\ below # belowLater /\ belowLater \in SUBSET T
    <3>1. s \in belowLater /\ s \notin below
      BY <1>2, <2>1
    <3>2. \A u \in T : u < s => u < t
      BY <1>2, <2>1
    <3>. QED
      BY <3>1, <3>2
  <2>. HIDE DEF below, belowLater
  <2>3. IsFiniteSet(belowLater)
    BY <2>2, PartIsFinite
  <2>4. Cardinality(below) < Cardinality(belowLater)
    BY <2>2, <2>3, PartIsFinite
  <2>. QED
    BY <2>4 DEF below, belowLater, Place
<1>3. ASSUME NEW s \in T, NEW t \in T, Place(T, s) = Place(T, t)
      PROVE  s = t
  <2>1. s \in Nat /\ t \in Nat /\ Place(T, s) \in Int
    <3>1. Cardinality(T) \in Nat
      BY FS_CardinalityType
    <3>. QED
      BY <1>1, <3>1
  <2>. QED
    BY <1>2, <1>3, <2>1
<1>. QED
  BY <1>1, <1>3

\* The distances of the stocks from the cursor are the numbers below their count.
LEMMA DistancesAreAll ==
  ASSUME NEW T \in SUBSET Nat, IsFiniteSet(T), T # {}, NEW c \in Nat
  PROVE  /\ Cardinality(T) \in Nat \ {0}
         /\ \A s \in T : Away(T, c, s) \in 0..Cardinality(T) - 1
         /\ \A s, t \in T : Away(T, c, s) = Away(T, c, t) => s = t
         /\ \A k \in 0..Cardinality(T) - 1 : \E s \in T : Away(T, c, s) = k
<1>. DEFINE n == Cardinality(T)
            start == c % n
<1>1. n \in Nat \ {0}
  BY FS_CardinalityType, FS_EmptySet
<1>2. start \in 0..n - 1
  <2>. HIDE DEF n
  <2>. QED
    BY <1>1, Remainder
<1>3. \A s \in T : Away(T, c, s) = (Place(T, s) - start) % n
  BY DEF Away
<1>. HIDE DEF n, start
<1>4. /\ \A s \in T : Place(T, s) \in 0..n - 1
      /\ \A s, t \in T : Place(T, s) = Place(T, t) => s = t
  BY PlacesAreAll DEF n
<1>5. ASSUME NEW s \in T
      PROVE  /\ Away(T, c, s) \in 0..n - 1
             /\ Away(T, c, s) = IF Place(T, s) >= start THEN Place(T, s) - start ELSE Place(T, s) - start + n
  <2>1. PICK i \in 0..n - 1 : i = Place(T, s)
    BY <1>4
  <2>2. i - start \in Int /\ -n <= i - start /\ i - start < n
    BY <1>1, <1>2
  <2>3. /\ (i - start) % n \in 0..n - 1
        /\ (i - start) % n = IF i >= start THEN i - start ELSE i - start + n
    <3>. DEFINE x == i - start
    <3>1. x \in Int /\ -n <= x /\ x < n /\ (i >= start <=> x >= 0)
      BY <1>1, <1>2
    <3>. HIDE DEF x
    <3>2. x % n \in 0..n - 1
      BY <1>1, <3>1, Remainder
    <3>3. /\ x >= 0 => x % n = x
          /\ ~(x >= 0) => x % n = x + n
      BY <1>1, <3>1
    <3>. QED
      BY <3>1, <3>2, <3>3 DEF x
  <2>. QED
    BY <1>3, <2>1, <2>3
<1>6. ASSUME NEW s \in T, NEW t \in T, Away(T, c, s) = Away(T, c, t)
      PROVE  s = t
  <2>1. PICK i \in 0..n - 1, j \in 0..n - 1 : i = Place(T, s) /\ j = Place(T, t)
    BY <1>4
  <2>2. i = j
    BY <1>1, <1>2, <1>5, <1>6, <2>1
  <2>. QED
    BY <1>4, <2>1, <2>2
<1>. DEFINE distance == [s \in T |-> Away(T, c, s)]
<1>7. distance \in Surjection(T, 0..n - 1)
  <2>1. distance \in [T -> 0..n - 1]
    BY <1>5
  <2>2. \A s, t \in T : distance[s] = distance[t] => s = t
    BY <1>6
  <2>. HIDE DEF distance
  <2>3. distance \in Injection(T, 0..n - 1)
    BY <2>1, <2>2 DEF Injection, IsInjective
  <2>4. IsFiniteSet(0..n - 1) /\ Cardinality(0..n - 1) = n
    BY <1>1, FS_Interval
  <2>. QED
    BY <2>3, <2>4, FS_Injection DEF n
<1>8. \A k \in 0..n - 1 : \E s \in T : Away(T, c, s) = k
  BY <1>7 DEF Surjection
<1>. QED
  BY <1>1, <1>5, <1>6, <1>8 DEF n

LEMMA TurnIsSome ==
  ASSUME NEW n \in Nat \ {0}
  PROVE  Min({Batch, n}) \in 1..n /\ Min({Batch, n}) = IF Batch <= n THEN Batch ELSE n
<1>1. Batch \in Nat \ {0}
  BY TrackingAssumption DEF TrackingAssumption
<1>2. Min({Batch, n}) \in {Batch, n} /\ \A y \in {Batch, n} : Min({Batch, n}) <= y
  BY <1>1, LeastNatural
<1>. QED
  BY <1>1, <1>2

\* A request asks for as many stocks as a batch holds, or for all.
LEMMA ATurnIsRequested ==
  ASSUME Tracked \in SUBSET Nat, IsFiniteSet(Tracked), Tracked # {}, cursor \in Nat
  PROVE  /\ Requested = {s \in Tracked : Distance(s) < Turn}
         /\ Cardinality(Requested) = Turn
<1>. DEFINE n == Cardinality(Tracked)
<1>1. Requested = {s \in Tracked : Distance(s) < Turn}
  BY DEF Requested, Distance, Turn, Away, Place, Index
<1>2. n \in Nat \ {0} /\ Turn \in 1..n
  BY DistancesAreAll, TurnIsSome DEF Turn
<1>. DEFINE distance == [s \in Requested |-> Distance(s)]
<1>3. distance \in [Requested -> 0..Turn - 1]
  <2>1. ASSUME NEW s \in Requested
        PROVE  Distance(s) \in 0..Turn - 1
    <3>1. Distance(s) \in 0..n - 1 /\ Distance(s) < Turn
      BY <1>1, DistancesAreAll DEF Distance
    <3>. QED
      BY <1>2, <3>1
  <2>. QED
    BY <2>1
<1>4. \A s, t \in Requested : distance[s] = distance[t] => s = t
  BY <1>1, DistancesAreAll DEF Distance
<1>5. \A k \in 0..Turn - 1 : \E s \in Requested : distance[s] = k
  <2>1. ASSUME NEW k \in 0..Turn - 1
        PROVE  \E s \in Requested : Distance(s) = k
    <3>1. k \in 0..n - 1 /\ k < Turn
      BY <1>2
    <3>2. PICK s \in Tracked : Distance(s) = k
      BY <3>1, DistancesAreAll DEF Distance
    <3>. QED
      BY <1>1, <3>1, <3>2
  <2>. QED
    BY <2>1
<1>. HIDE DEF distance, n
<1>6. distance \in Injection(Requested, 0..Turn - 1) /\ distance \in Surjection(Requested, 0..Turn - 1)
  BY <1>3, <1>4, <1>5 DEF Injection, IsInjective, Surjection
<1>7. IsFiniteSet(0..Turn - 1) /\ Cardinality(0..Turn - 1) = Turn
  <2>1. Turn \in Nat \ {0}
    BY <1>2
  <2>. QED
    BY <2>1, FS_Interval
<1>8. Cardinality(Requested) = Turn
  BY <1>6, <1>7, FS_Injection
<1>. QED
  BY <1>1, <1>8

\* A stock that is not asked for comes nearer by a turn, and has waited once more.
LEMMA PollKeepsRounds ==
  ASSUME Tracked \in SUBSET Nat, IsFiniteSet(Tracked), TrackingTypes, RoundOK, Poll
  PROVE  cursor' \in Nat /\ waited' \in [Symbols -> Nat] /\ RoundOK'
<1>. DEFINE n == Cardinality(Tracked)
            start == cursor % n
<1>1. /\ UNCHANGED <<members, items>> /\ Tracked # {}
      /\ cursor' = ((cursor % n) + Cardinality(Requested)) % n
      /\ waited' = [s \in Symbols |-> IF s \in Tracked \ Requested THEN waited[s] + 1 ELSE 0]
  BY DEF Poll, CursorAfter
<1>2. Tracked' = Tracked /\ Turn' = Turn /\ \A s : Distance(s)' = Away(Tracked, cursor', s)
  BY <1>1 DEF Tracked, Watched, Turn, Distance
<1>3. cursor \in Nat /\ waited \in [Symbols -> Nat]
  BY DEF TrackingTypes, DataTypes
<1>4. /\ n \in Nat \ {0} /\ Turn \in 1..n /\ Cardinality(Requested) = Turn
      /\ Requested = {s \in Tracked : Distance(s) < Turn}
  BY <1>1, <1>3, DistancesAreAll, TurnIsSome, ATurnIsRequested DEF Turn
<1>5. start \in 0..n - 1 /\ cursor' = (start + Turn) % n
  <2>. HIDE DEF n
  <2>. QED
    BY <1>1, <1>3, <1>4, Remainder
<1>6. cursor' \in 0..n - 1 /\ cursor' % n = cursor'
      /\ cursor' = IF start + Turn < n THEN start + Turn ELSE start + Turn - n
  <2>. DEFINE x == start + Turn
  <2>. HIDE DEF n, start
  <2>1. x \in Int /\ 0 <= x /\ x < 2 * n
    BY <1>4, <1>5
  <2>. HIDE DEF x
  <2>2. /\ x % n \in 0..n - 1
        /\ x < n => x % n = x
        /\ ~(x < n) => x % n = x - n
    BY <1>4, <2>1
  <2>3. cursor' = x % n
    BY <1>5 DEF x
  <2>4. cursor' % n = cursor'
    BY <1>4, <2>2, <2>3
  <2>5. cursor' \in 0..n - 1 /\ cursor' = IF x < n THEN x ELSE x - n
    BY <2>2, <2>3
  <2>6. cursor' = IF start + Turn < n THEN start + Turn ELSE start + Turn - n
    BY <1>4, <1>5, <2>5 DEF x
  <2>. QED
    BY <2>4, <2>5, <2>6
<1>7. ASSUME NEW s \in Tracked
      PROVE  /\ Distance(s)' \in 0..n - 1
             /\ ~(Distance(s) < Turn) => Distance(s)' = Distance(s) - Turn
  <2>1. PICK i \in 0..n - 1 : i = Place(Tracked, s)
    BY PlacesAreAll
  <2>2. Distance(s) = (i - start) % n /\ Distance(s)' = (i - cursor') % n
    BY <1>2, <1>6, <2>1 DEF Distance, Away
  <2>. HIDE DEF n, start
  <2>. DEFINE x == i - start
              y == i - cursor'
  <2>3. x \in Int /\ y \in Int /\ -n <= x /\ x < n /\ -n <= y /\ y < n
    BY <1>4, <1>5, <1>6
  <2>4. y = IF start + Turn < n THEN x - Turn ELSE x - Turn + n
    BY <1>4, <1>5, <1>6
  <2>5. Distance(s) = x % n /\ Distance(s)' = y % n
    BY <2>2
  <2>. HIDE DEF x, y
  <2>6. /\ x >= 0 => x % n = x
        /\ ~(x >= 0) => x % n = x + n
        /\ y >= 0 => y % n = y
        /\ ~(y >= 0) => y % n = y + n
        /\ x % n \in 0..n - 1 /\ y % n \in 0..n - 1
    BY <1>4, <2>3
  <2>. QED
    BY <1>4, <2>3, <2>4, <2>5, <2>6
<1>8. ASSUME NEW s \in Tracked
      PROVE  waited'[s] * Turn + Distance(s)' < n
  <2>1. s \in Symbols
    BY TrackingAssumption DEF TrackingTypes, DataTypes, TrackingAssumption, Tracked, Watched
  <2>2. CASE Distance(s) < Turn
    <3>1. waited'[s] = 0
      BY <1>1, <1>4, <2>1, <2>2
    <3>. HIDE DEF n
    <3>. QED
      BY <1>4, <1>7, <3>1
  <2>3. CASE ~(Distance(s) < Turn)
    <3>1. waited'[s] = waited[s] + 1 /\ waited[s] \in Nat
      BY <1>1, <1>3, <1>4, <2>1, <2>3
    <3>2. /\ Distance(s)' = Distance(s) - Turn /\ Distance(s) \in 0..n - 1
          /\ waited[s] * Turn + Distance(s) < n
      BY <1>1, <1>3, <1>7, <2>3, DistancesAreAll DEF RoundOK, Distance
    <3>. HIDE DEF n
    <3>3. waited[s] * Turn \in Nat /\ (waited[s] + 1) * Turn = waited[s] * Turn + Turn
      BY <1>4, <3>1
    <3>. QED
      BY <1>4, <3>1, <3>2, <3>3
  <2>. QED
    BY <2>2, <2>3
<1>9. waited' \in [Symbols -> Nat] /\ cursor' \in Nat
  <2>. HIDE DEF n
  <2>. QED
    BY <1>1, <1>3, <1>4, <1>6
<1>. QED
  BY <1>2, <1>8, <1>9 DEF RoundOK

\* Where the count begins anew, every stock is less than a round away.
LEMMA NewCount ==
  ASSUME TrackingTypes, Tracked' \in SUBSET Symbols, cursor' \in Nat,
         waited' = [s \in Symbols |-> 0]
  PROVE  waited' \in [Symbols -> Nat] /\ RoundOK'
<1>1. ASSUME NEW s \in Tracked'
      PROVE  waited'[s] * Turn' + Distance(s)' < Cardinality(Tracked)'
  <2>1. waited'[s] = 0
    BY <1>1
  <2>2. Tracked' \in SUBSET Nat /\ IsFiniteSet(Tracked')
    BY TrackingAssumption, PartIsFinite DEF TrackingAssumption
  <2>3. /\ Cardinality(Tracked') \in Nat \ {0}
        /\ Away(Tracked', cursor', s) \in 0..Cardinality(Tracked') - 1
    BY <1>1, <2>2, DistancesAreAll
  <2>4. Turn' \in Nat
    <3>1. Min({Batch, Cardinality(Tracked')}) \in 1..Cardinality(Tracked')
      BY <2>3, TurnIsSome
    <3>. QED
      BY <2>3, <3>1 DEF Turn
  <2>. QED
    BY <2>1, <2>3, <2>4 DEF Distance
<1>. QED
  BY <1>1 DEF RoundOK

\* A change of the scope, or none.
LEMMA ScopeKeepsRounds ==
  ASSUME Tracked \in SUBSET Nat, IsFiniteSet(Tracked), TrackingTypes, RoundOK,
         Tracked' \in SUBSET Symbols, UNCHANGED cursor, Rescoped \/ (UNCHANGED waited /\ Tracked' = Tracked)
  PROVE  waited' \in [Symbols -> Nat] /\ RoundOK'
<1>1. CASE Tracked' = Tracked
  <2>1. waited' = waited
    BY <1>1 DEF Rescoped
  <2>2. Turn' = Turn /\ \A s : Distance(s)' = Distance(s)
    BY <1>1 DEF Turn, Distance
  <2>. QED
    BY <1>1, <2>1, <2>2 DEF RoundOK, TrackingTypes, DataTypes
<1>2. CASE Tracked' # Tracked
  <2>1. waited' = [s \in Symbols |-> 0] /\ cursor' \in Nat
    BY <1>2 DEF Rescoped, TrackingTypes
  <2>. QED
    BY <2>1, NewCount
<1>. QED
  BY <1>1, <1>2

\* A stock that has waited for so many turns is still one of the round.
LEMMA RoundIsBound ==
  ASSUME Tracked \in SUBSET Symbols, TrackingTypes, RoundOK
  PROVE  AskedEachRound
<1>1. SUFFICES ASSUME NEW s \in Tracked
               PROVE  waited[s] * Batch < Cardinality(Tracked)
  BY DEF AskedEachRound
<1>2. Tracked \in SUBSET Nat /\ IsFiniteSet(Tracked) /\ Batch \in Nat \ {0}
  BY TrackingAssumption, PartIsFinite DEF TrackingAssumption
<1>3. waited[s] \in Nat /\ cursor \in Nat
  BY DEF TrackingTypes, DataTypes
<1>4. PICK n \in Nat \ {0} : n = Cardinality(Tracked)
  BY <1>1, <1>2, <1>3, DistancesAreAll
<1>5. Distance(s) \in 0..n - 1
  BY <1>1, <1>2, <1>3, <1>4, DistancesAreAll DEF Distance
<1>6. Turn \in 1..n /\ Turn = IF Batch <= n THEN Batch ELSE n
  BY <1>4, TurnIsSome DEF Turn
<1>7. waited[s] * Turn + Distance(s) < n
  BY <1>1, <1>4 DEF RoundOK
<1>8. PICK w \in Nat, d \in Nat : w = waited[s] /\ d = Distance(s)
  BY <1>3, <1>5
<1>9. w * Turn \in Nat /\ w * Turn < n
  BY <1>4, <1>6, <1>7, <1>8
<1>10. CASE Batch <= n
  BY <1>4, <1>6, <1>8, <1>9, <1>10
<1>11. CASE ~(Batch <= n)
  <2>1. Turn = n
    BY <1>6, <1>11
  <2>2. w >= 1 => w * n >= n
    BY <1>4
  <2>3. w = 0
    BY <1>4, <1>8, <1>9, <2>1, <2>2
  <2>. QED
    BY <1>2, <1>4, <1>8, <2>3
<1>. QED
  BY <1>10, <1>11

-----------------------------------------------------------------------------
(***************************************************************************)
(* Pages.                                                                  *)
(***************************************************************************)

LEMMA BeforeIsAnOrder ==
  ASSUME NEW x \in Int \X Int, NEW y \in Int \X Int
  PROVE  /\ ~Before(x, x)
         /\ Before(x, y) => ~Before(y, x)
         /\ x # y => Before(x, y) \/ Before(y, x)
         /\ \A z \in Int \X Int : Before(x, y) /\ Before(y, z) => Before(x, z)
BY DEF Before

\* Rows in which nothing can be passed over: their order is the one of their keys.
RowsOK(table) ==
  /\ IsFiniteSet(table)
  /\ \A r \in table : r.sort \in Int \X Int /\ r.key \in Int \X Int
  /\ \A x, y \in table : x.id = y.id => x = y
  /\ \A x, y \in table : x # y => Before(x.sort, y.sort) \/ Before(y.sort, x.sort)
  /\ \A x, y \in table : Before(x.key, y.key) <=> Before(x.sort, y.sort)

Earlier(S, r) == {x \in S : Before(x.sort, r.sort)}

\* Fewer rows are before an earlier row.
LEMMA EarlierGrows ==
  ASSUME NEW S, IsFiniteSet(S), \A r \in S : r.sort \in Int \X Int,
         NEW x \in S, NEW y \in S, Before(x.sort, y.sort)
  PROVE  Cardinality(Earlier(S, x)) < Cardinality(Earlier(S, y))
<1>1. Earlier(S, x) \in SUBSET Earlier(S, y)
  BY BeforeIsAnOrder DEF Earlier
<1>2. x \in Earlier(S, y) /\ x \notin Earlier(S, x) /\ Earlier(S, y) \in SUBSET S
  BY BeforeIsAnOrder DEF Earlier
<1>3. IsFiniteSet(Earlier(S, y)) /\ Earlier(S, x) # Earlier(S, y)
  BY <1>2, PartIsFinite
<1>. QED
  BY <1>1, <1>3, PartIsFinite

\* A page is an initial part of what lies behind the cursor, and has a last row.
LEMMA PageIsInitial ==
  ASSUME NEW table, RowsOK(table), NEW behind \in Int \X Int
  PROVE  /\ Page(table, behind) \subseteq {r \in table : Before(behind, r.key)}
         /\ \A r \in table : Before(behind, r.key) /\ r \notin Page(table, behind) =>
              /\ Page(table, behind) # {}
              /\ \A x \in Page(table, behind) : Before(x.sort, r.sort)
         /\ Page(table, behind) # {} =>
              \E r \in Page(table, behind) :
                \A x \in Page(table, behind) : x = r \/ Before(x.sort, r.sort)
<1>. DEFINE S == {r \in table : Before(behind, r.key)}
            ahead == {r \in table : \E x \in S : r = x \/ Before(x.sort, r.sort)}
            page == {r \in S : Cardinality(Earlier(S, r)) < Limit}
<1>1. Limit \in Nat \ {0}
  BY TrackingAssumption DEF TrackingAssumption
<1>2. ahead = S
  <2>1. ASSUME NEW r \in table, NEW x \in S, Before(x.sort, r.sort)
        PROVE  Before(behind, r.key)
    <3>1. x \in table /\ Before(behind, x.key) /\ x.key \in Int \X Int /\ r.key \in Int \X Int
      BY DEF RowsOK
    <3>2. Before(x.key, r.key)
      BY <2>1, <3>1 DEF RowsOK
    <3>. QED
      BY <3>1, <3>2, BeforeIsAnOrder
  <2>. QED
    BY <2>1
<1>3. Page(table, behind) = {r \in ahead : Cardinality({x \in ahead : Before(x.sort, r.sort)}) < Limit}
  BY DEF Page
<1>4. Page(table, behind) = page
  <2>. HIDE DEF ahead, S
  <2>. QED
    BY <1>2, <1>3 DEF Earlier
<1>5. S \in SUBSET table
  OBVIOUS
<1>. HIDE DEF S, ahead, page
<1>6. /\ IsFiniteSet(S) /\ \A r \in S : r.sort \in Int \X Int
      /\ \A x, y \in S : x # y => Before(x.sort, y.sort) \/ Before(y.sort, x.sort)
  BY <1>5, PartIsFinite DEF RowsOK
<1>7. ASSUME NEW r \in S
      PROVE  Cardinality(Earlier(S, r)) \in Nat
  <2>1. Earlier(S, r) \in SUBSET S
    BY DEF Earlier
  <2>. QED
    BY <1>6, <2>1, PartIsFinite
<1>8. ASSUME NEW r \in S, r \notin page
      PROVE  page # {} /\ \A x \in page : Before(x.sort, r.sort)
  <2>1. ~(Cardinality(Earlier(S, r)) < Limit)
    BY <1>8 DEF page
  <2>2. \A x \in page : Before(x.sort, r.sort)
    <3>1. SUFFICES ASSUME NEW x \in page, ~Before(x.sort, r.sort)
                   PROVE  FALSE
      OBVIOUS
    <3>2. x \in S /\ Cardinality(Earlier(S, x)) < Limit
      BY DEF page
    <3>3. Before(r.sort, x.sort)
      BY <1>6, <1>8, <3>1, <3>2
    <3>4. Cardinality(Earlier(S, r)) < Cardinality(Earlier(S, x))
      BY <1>6, <3>2, <3>3, EarlierGrows
    <3>5. Cardinality(Earlier(S, r)) \in Nat /\ Cardinality(Earlier(S, x)) \in Nat
      BY <1>7, <3>2
    <3>. QED
      BY <1>1, <2>1, <3>2, <3>4, <3>5
  <2>3. page # {}
    <3>. DEFINE ranks == {Cardinality(Earlier(S, x)) : x \in S}
    <3>1. ranks \in SUBSET Nat /\ ranks # {}
      BY <1>7
    <3>2. PICK m \in ranks : \A k \in ranks : m <= k
      <4>. HIDE DEF ranks
      <4>. QED
        BY <3>1, LeastNatural
    <3>3. PICK x \in S : m = Cardinality(Earlier(S, x))
      BY <3>2
    <3>4. Earlier(S, x) = {}
      <4>1. SUFFICES ASSUME NEW y \in Earlier(S, x)
                     PROVE  FALSE
        OBVIOUS
      <4>2. y \in S /\ Before(y.sort, x.sort)
        BY DEF Earlier
      <4>3. Cardinality(Earlier(S, y)) < Cardinality(Earlier(S, x))
        BY <1>6, <4>2, EarlierGrows
      <4>4. Cardinality(Earlier(S, x)) <= Cardinality(Earlier(S, y))
        BY <3>2, <3>3, <4>2
      <4>5. Cardinality(Earlier(S, x)) \in Nat /\ Cardinality(Earlier(S, y)) \in Nat
        BY <1>7, <4>2
      <4>. QED
        BY <4>3, <4>4, <4>5
    <3>5. Cardinality(Earlier(S, x)) = 0
      BY <3>4, FS_EmptySet
    <3>6. x \in page
      BY <1>1, <3>5 DEF page
    <3>. QED
      BY <3>6
  <2>. QED
    BY <2>2, <2>3
<1>9. ASSUME page # {}
      PROVE  \E r \in page : \A x \in page : x = r \/ Before(x.sort, r.sort)
  <2>. DEFINE ranks == {Limit - Cardinality(Earlier(S, x)) : x \in page}
  <2>1. \A x \in page : x \in S /\ Cardinality(Earlier(S, x)) \in Nat /\ Cardinality(Earlier(S, x)) < Limit
    BY <1>7 DEF page
  <2>2. ranks \in SUBSET Nat /\ ranks # {}
    BY <1>1, <1>9, <2>1
  <2>3. PICK m \in ranks : \A k \in ranks : m <= k
    <3>. HIDE DEF ranks
    <3>. QED
      BY <2>2, LeastNatural
  <2>4. PICK r \in page : m = Limit - Cardinality(Earlier(S, r))
    BY <2>3
  <2>5. ASSUME NEW x \in page, x # r
        PROVE  Before(x.sort, r.sort)
    <3>1. ~Before(r.sort, x.sort)
      <4>1. SUFFICES ASSUME Before(r.sort, x.sort)
                     PROVE  FALSE
        OBVIOUS
      <4>2. Cardinality(Earlier(S, r)) < Cardinality(Earlier(S, x))
        BY <1>6, <2>1, <4>1, EarlierGrows
      <4>3. Limit - Cardinality(Earlier(S, r)) <= Limit - Cardinality(Earlier(S, x))
        BY <2>3, <2>4
      <4>. QED
        BY <1>1, <2>1, <4>2, <4>3
    <3>. QED
      BY <1>6, <2>1, <2>5, <3>1
  <2>. QED
    BY <2>5
<1>10. page \subseteq S
  BY DEF page
<1>. QED
  BY <1>4, <1>8, <1>9, <1>10 DEF S

\* The sets of a state of the right type.
LEMMA TrackedTypes ==
  ASSUME TrackingTypes
  PROVE  /\ IsFiniteSet(items) /\ IsFiniteSet(members)
         /\ members \in SUBSET Symbols /\ members \in SUBSET Nat
         /\ Tracked \in SUBSET Symbols /\ Tracked \in SUBSET Nat /\ IsFiniteSet(Tracked)
<1>1. members \in SUBSET Symbols /\ Symbols \in SUBSET Nat /\ IsFiniteSet(Symbols)
  BY TrackingAssumption DEF TrackingTypes, DataTypes, TrackingAssumption
<1>2. Tracked \in SUBSET Symbols
  BY <1>1 DEF TrackingTypes, DataTypes, Tracked, Watched
<1>3. IsFiniteSet(items)
  <2>. DEFINE ids == [i \in items |-> i.id]
  <2>1. ids \in [items -> 1..nextId - 1] /\ \A i, j \in items : ids[i] = ids[j] => i = j
    BY DEF TrackingTypes, DataTypes
  <2>. HIDE DEF ids
  <2>2. ids \in Injection(items, 1..nextId - 1)
    BY <2>1 DEF Injection, IsInjective
  <2>3. IsFiniteSet(1..nextId - 1)
    <3>1. 1 \in Int /\ nextId - 1 \in Int
      BY DEF TrackingTypes, DataTypes
    <3>. QED
      BY <3>1, FS_Interval
  <2>. QED
    BY <2>2, <2>3, FS_Injection
<1>. QED
  BY <1>1, <1>2, <1>3, PartIsFinite

LEMMA ImageIsFinite ==
  ASSUME NEW S, IsFiniteSet(S), NEW f, f = [x \in S |-> f[x]]
  PROVE  IsFiniteSet({f[x] : x \in S})
<1>. DEFINE T == {f[x] : x \in S}
<1>1. f \in [S -> T] /\ \A y \in T : \E x \in S : f[x] = y
  OBVIOUS
<1>. HIDE DEF T
<1>2. f \in Surjection(S, T)
  BY <1>1 DEF Surjection
<1>3. IsFiniteSet(T)
  BY <1>2, FS_Surjection
<1>. QED
  BY <1>3 DEF T

LEMMA LargestNatural ==
  ASSUME NEW S \in SUBSET Nat, S # {}, IsFiniteSet(S)
  PROVE  Max(S) \in Nat
<1>. DEFINE ahead(x) == {y \in S : y > x}
            ranks == {Cardinality(ahead(x)) : x \in S}
<1>1. ASSUME NEW x \in S
      PROVE  ahead(x) \in SUBSET S /\ IsFiniteSet(ahead(x)) /\ Cardinality(ahead(x)) \in Nat
  <2>1. ahead(x) \in SUBSET S
    OBVIOUS
  <2>. HIDE DEF ahead
  <2>. QED
    BY <2>1, PartIsFinite
<1>2. ranks \in SUBSET Nat /\ ranks # {}
  BY <1>1
<1>3. PICK m \in ranks : \A k \in ranks : m <= k
  <2>. HIDE DEF ranks
  <2>. QED
    BY <1>2, LeastNatural
<1>4. PICK x \in S : m = Cardinality(ahead(x))
  BY <1>3
<1>5. ASSUME NEW y \in S, ~(x >= y)
      PROVE  FALSE
  <2>1. \A z \in S : z \in Nat
    OBVIOUS
  <2>2. ahead(y) \in SUBSET ahead(x) /\ y \in ahead(x) /\ y \notin ahead(y)
    <3>1. x \in Nat /\ y \in Nat /\ y > x /\ ~(y > y)
      BY <1>5, <2>1
    <3>2. \A z \in S : z > y => z > x
      BY <2>1, <3>1
    <3>. QED
      BY <3>1, <3>2
  <2>3. ahead(y) # ahead(x)
    BY <2>2
  <2>4. Cardinality(ahead(y)) < Cardinality(ahead(x))
    <3>. DEFINE X == ahead(x)
                Y == ahead(y)
    <3>1. IsFiniteSet(X) /\ Y \in SUBSET X /\ Y # X
      BY <1>1, <2>2, <2>3
    <3>. HIDE DEF X, Y
    <3>2. Cardinality(Y) < Cardinality(X)
      BY <3>1, PartIsFinite
    <3>. QED
      BY <3>2 DEF X, Y
  <2>5. Cardinality(ahead(x)) <= Cardinality(ahead(y))
    BY <1>3, <1>4
  <2>6. Cardinality(ahead(x)) \in Nat /\ Cardinality(ahead(y)) \in Nat
    BY <1>1
  <2>. HIDE DEF ahead
  <2>. QED
    BY <2>4, <2>5, <2>6
<1>. QED
  BY <1>5 DEF Max

LEMMA WatchlistIsSorted ==
  ASSUME TrackingTypes
  PROVE  RowsOK(WatchlistRows)
<1>. DEFINE row == [i \in items |-> [id |-> i.id, sort |-> <<i.order, i.id>>, key |-> Key(i)]]
<1>1. \A i \in items : i.id \in 1..nextId - 1 /\ i.order \in Nat /\ i.id \in Int /\ i.order \in Int
  BY DEF TrackingTypes, DataTypes
<1>2. WatchlistRows = {row[i] : i \in items}
  BY DEF WatchlistRows
<1>3. IsFiniteSet(WatchlistRows)
  <2>1. IsFiniteSet(items) /\ row = [i \in items |-> row[i]]
    BY TrackedTypes
  <2>. HIDE DEF row
  <2>. QED
    BY <1>2, <2>1, ImageIsFinite
<1>4. ASSUME NEW r \in WatchlistRows
      PROVE  r.sort \in Int \X Int /\ r.key = r.sort /\ r.sort[2] = r.id
  BY <1>1 DEF WatchlistRows, Key
<1>5. ASSUME NEW x \in WatchlistRows, NEW y \in WatchlistRows, x.id = y.id
      PROVE  x = y
  BY <1>5 DEF WatchlistRows, Key, TrackingTypes, DataTypes
<1>6. ASSUME NEW x \in WatchlistRows, NEW y \in WatchlistRows, x # y
      PROVE  Before(x.sort, y.sort) \/ Before(y.sort, x.sort)
  <2>1. x.sort # y.sort
    BY <1>4, <1>5, <1>6
  <2>. QED
    BY <1>4, <2>1, BeforeIsAnOrder
<1>. QED
  BY <1>3, <1>4, <1>5, <1>6 DEF RowsOK

LEMMA PoolIsSorted ==
  ASSUME TrackingTypes
  PROVE  /\ IsFiniteSet(PoolRows)
         /\ \A r \in PoolRows : /\ r.sort \in Int \X Int /\ r.key \in Int \X Int
                                /\ r.key[1] = r.sort[1] /\ r.key[1] >= 0
         /\ \A x, y \in PoolRows : x.id = y.id => x = y
<1>. DEFINE position(s) == Cardinality({m \in members : m < s})
            offset == Cardinality(members)
            others == {j \in items : j.symbol \notin members}
            member == [s \in members |-> [id |-> -s, sort |-> <<position(s), 0>>, key |-> <<position(s), s>>]]
            other == [i \in others |-> [id |-> i.id, sort |-> <<offset + i.order, i.id>>,
                                        key |-> <<offset + i.order, i.symbol>>]]
            Members == {member[s] : s \in members}
            Others == {other[i] : i \in others}
<1>1. PoolRows = Members \cup Others
  BY DEF PoolRows
<1>2. /\ IsFiniteSet(items) /\ IsFiniteSet(members)
      /\ members \in SUBSET Nat /\ 0 \notin members
      /\ \A i \in items : i.id \in Nat \ {0} /\ i.order \in Nat /\ i.symbol \in Nat
  <2>1. Symbols \in SUBSET (Nat \ {0})
    BY TrackingAssumption DEF TrackingAssumption
  <2>2. members \in SUBSET Symbols
    BY TrackedTypes
  <2>3. \A i \in items : i.id \in 1..nextId - 1 /\ i.order \in Nat /\ i.symbol \in Symbols
    BY DEF TrackingTypes, DataTypes
  <2>4. \A i \in items : i.id \in Nat \ {0} /\ i.order \in Nat /\ i.symbol \in Nat
    <3>1. nextId \in Nat
      BY DEF TrackingTypes, DataTypes
    <3>2. \A k \in 1..nextId - 1 : k \in Nat \ {0}
      BY <3>1
    <3>. QED
      BY <2>1, <2>3, <3>2
  <2>5. 0 \notin members
    BY <2>1, <2>2
  <2>. QED
    BY <2>4, <2>5, TrackedTypes
<1>3. offset \in Nat /\ \A s \in members : position(s) \in Nat
  <2>1. ASSUME NEW s \in members
        PROVE  position(s) \in Nat
    <3>1. {m \in members : m < s} \in SUBSET members
      OBVIOUS
    <3>. QED
      BY <1>2, <3>1, PartIsFinite
  <2>. QED
    BY <1>2, <2>1, FS_CardinalityType
<1>4. ASSUME NEW r \in Members
      PROVE  /\ r.sort \in Int \X Int /\ r.key \in Int \X Int
             /\ r.key[1] = r.sort[1] /\ r.key[1] >= 0
             /\ r.id \in Int /\ r.id < 0
  <2>1. PICK s \in members : r = member[s]
    OBVIOUS
  <2>2. PICK p \in Nat : p = position(s)
    BY <1>3
  <2>3. r = [id |-> -s, sort |-> <<p, 0>>, key |-> <<p, s>>] /\ s \in Nat \ {0}
    BY <1>2, <2>1, <2>2
  <2>. QED
    BY <2>3
<1>5. ASSUME NEW r \in Others
      PROVE  /\ r.sort \in Int \X Int /\ r.key \in Int \X Int
             /\ r.key[1] = r.sort[1] /\ r.key[1] >= 0
             /\ r.id \in Int /\ r.id > 0
  <2>1. PICK i \in others : r = other[i]
    OBVIOUS
  <2>2. PICK p \in Nat : p = offset + i.order
    BY <1>2, <1>3
  <2>3. r = [id |-> i.id, sort |-> <<p, i.id>>, key |-> <<p, i.symbol>>] /\ i \in items
    BY <2>1, <2>2
  <2>. QED
    BY <1>2, <2>3
<1>6. IsFiniteSet(Members) /\ IsFiniteSet(Others)
  <2>1. others \in SUBSET items
    OBVIOUS
  <2>2. IsFiniteSet(others)
    BY <1>2, <2>1, PartIsFinite
  <2>3. member = [s \in members |-> member[s]] /\ other = [i \in others |-> other[i]]
    OBVIOUS
  <2>. HIDE DEF member, other, others
  <2>. QED
    BY <1>2, <2>2, <2>3, ImageIsFinite
<1>7. ASSUME NEW x \in PoolRows, NEW y \in PoolRows, x.id = y.id
      PROVE  x = y
  <2>1. CASE x \in Members /\ y \in Members
    <3>1. PICK s \in members, t \in members : x = member[s] /\ y = member[t]
      BY <2>1
    <3>2. x.id = -s /\ y.id = -t /\ s \in Nat /\ t \in Nat
      BY <1>2, <3>1
    <3>3. -s = -t
      BY <1>7, <3>2
    <3>4. s = t
      BY <3>2, <3>3
    <3>. QED
      BY <3>1, <3>4
  <2>2. CASE x \in Others /\ y \in Others
    <3>1. PICK i \in others, j \in others : x = other[i] /\ y = other[j]
      BY <2>2
    <3>2. x.id = i.id /\ y.id = j.id /\ i \in items /\ j \in items
      BY <3>1
    <3>3. i = j
      BY <1>7, <3>2 DEF TrackingTypes, DataTypes
    <3>. QED
      BY <3>1, <3>3
  <2>3. ~(x \in Members /\ y \in Others) /\ ~(x \in Others /\ y \in Members)
    <3>. HIDE DEF Members, Others
    <3>1. \A r \in Members : r.id \in Int /\ r.id < 0
      BY <1>4
    <3>2. \A r \in Others : r.id \in Int /\ r.id > 0
      BY <1>5
    <3>. QED
      BY <1>7, <3>1, <3>2
  <2>. QED
    BY <1>1, <2>1, <2>2, <2>3
<1>8. IsFiniteSet(PoolRows)
  <2>. HIDE DEF Members, Others
  <2>. QED
    BY <1>1, <1>6, FS_Union
<1>9. ASSUME NEW r \in PoolRows
      PROVE  /\ r.sort \in Int \X Int /\ r.key \in Int \X Int
             /\ r.key[1] = r.sort[1] /\ r.key[1] >= 0
  <2>. HIDE DEF Members, Others
  <2>. QED
    BY <1>1, <1>4, <1>5
<1>. QED
  BY <1>7, <1>8, <1>9

\* Without ties the pool is in the order of its keys, too.
LEMMA RowsAreSorted ==
  ASSUME TrackingTypes, NEW list \in {"watchlist", "pool"}, list = "pool" => ~Tied(PoolRows)
  PROVE  RowsOK(Rows(list))
<1>1. CASE list = "watchlist"
  BY <1>1, WatchlistIsSorted DEF Rows
<1>2. CASE list = "pool"
  <2>1. Rows(list) = PoolRows
    BY <1>2 DEF Rows
  <2>2. /\ IsFiniteSet(PoolRows)
        /\ \A r \in PoolRows : /\ r.sort \in Int \X Int /\ r.key \in Int \X Int
                               /\ r.key[1] = r.sort[1]
        /\ \A x, y \in PoolRows : x.id = y.id => x = y
    BY PoolIsSorted
  <2>3. \A x, y \in PoolRows : x # y => x.sort[1] # y.sort[1]
    BY <1>2 DEF Tied
  <2>4. ASSUME NEW x \in PoolRows, NEW y \in PoolRows
        PROVE  /\ x # y => Before(x.sort, y.sort) \/ Before(y.sort, x.sort)
               /\ Before(x.key, y.key) <=> Before(x.sort, y.sort)
    <3>1. CASE x = y
      BY <2>2, <3>1, BeforeIsAnOrder
    <3>2. CASE x # y
      <4>1. PICK a \in Int, b \in Int : a = x.sort[1] /\ b = y.sort[1]
        BY <2>2
      <4>2. a # b /\ x.key[1] = a /\ y.key[1] = b
        BY <2>2, <2>3, <3>2, <4>1
      <4>. QED
        BY <4>1, <4>2 DEF Before
    <3>. QED
      BY <3>1, <3>2
  <2>. QED
    BY <2>1, <2>2, <2>4 DEF RowsOK
<1>. QED
  BY <1>1, <1>2

LEMMA TurnPageStep ==
  ASSUME TrackingTypes, WalkOK, TurnPage
  PROVE  WalkOK'
<1>. DEFINE table == Rows(reader.list)
            stayed == reader.stayed \cap {r.id : r \in table}
            page == Page(table, reader.behind)
            shown == stayed \cap {r.id : r \in page}
            last == CHOOSE r \in page : \A x \in page : x = r \/ Before(x.sort, r.sort)
            more == page # {} /\ \E r \in table : Before(last.sort, r.sort)
            seen == (reader.seen \cap stayed) \cup shown
            twice == (reader.twice \cap stayed) \cup (reader.seen \cap shown)
<1>1. /\ reader.stage = "turning"
      /\ reader.list = "pool" => ~Tied(PoolRows)
      /\ reader' = [stage |-> IF more THEN "turning" ELSE "done", list |-> reader.list,
                    behind |-> IF more THEN last.key ELSE reader.behind,
                    stayed |-> stayed, seen |-> seen, twice |-> twice]
      /\ UNCHANGED <<items, members, nextId>>
  BY DEF TurnPage
<1>2. /\ reader.list \in {"watchlist", "pool"}
      /\ reader.behind \in Int \X Int
      /\ \A id \in reader.stayed : id \in Int /\ id < nextId
      /\ \A r \in table : r.id \in reader.stayed =>
           /\ r.id \in reader.seen <=> ~Before(reader.behind, r.key)
           /\ r.id \notin reader.twice
  <2>1. reader # AtRest /\ reader.stage # "done"
    BY <1>1 DEF AtRest
  <2>. QED
    BY <2>1 DEF WalkOK
<1>3. RowsOK(table)
  BY <1>1, <1>2, RowsAreSorted
<1>4. Rows(reader.list)' = Rows(reader'.list)
  BY <1>1 DEF Rows, WatchlistRows, PoolRows
<1>5. Rows(reader'.list) = table
  BY <1>1
<1>. DEFINE behind == reader.behind
<1>. HIDE DEF table, page
<1>6. /\ page \subseteq table /\ \A r \in page : Before(behind, r.key)
      /\ \A r \in table : Before(behind, r.key) /\ r \notin page =>
           page # {} /\ \A x \in page : Before(x.sort, r.sort)
      /\ page # {} => \E r \in page : \A x \in page : x = r \/ Before(x.sort, r.sort)
  <2>1. page \subseteq {r \in table : Before(behind, r.key)}
    BY <1>2, <1>3, PageIsInitial DEF page
  <2>2. /\ \A r \in table : Before(behind, r.key) /\ r \notin page =>
             page # {} /\ \A x \in page : Before(x.sort, r.sort)
        /\ page # {} => \E r \in page : \A x \in page : x = r \/ Before(x.sort, r.sort)
    BY <1>2, <1>3, PageIsInitial DEF page
  <2>. QED
    BY <2>1, <2>2
<1>. HIDE DEF behind
<1>7. /\ \A r \in table : r.sort \in Int \X Int /\ r.key \in Int \X Int
      /\ \A x, y \in table : x.id = y.id => x = y
      /\ \A x, y \in table : Before(x.key, y.key) <=> Before(x.sort, y.sort)
      /\ \A x, y \in table : x # y => Before(x.sort, y.sort) \/ Before(y.sort, x.sort)
  BY <1>3 DEF RowsOK
<1>8. page # {} => last \in page /\ \A x \in page : x = last \/ Before(x.sort, last.sort)
  BY <1>6
<1>9. \A r \in table : r.id \in {x.id : x \in page} <=> r \in page
  BY <1>6, <1>7
\* No row is shown a second time.
<1>10. ASSUME NEW r \in table, r.id \in stayed
       PROVE  r.id \notin twice
  <2>1. r.id \notin reader.twice
    BY <1>2, <1>10
  <2>2. r.id \in shown => r.id \notin reader.seen
    <3>1. r \in page => Before(behind, r.key)
      BY <1>6
    <3>. QED
      BY <1>2, <1>9, <1>10, <3>1 DEF behind
  <2>. QED
    BY <2>1, <2>2
<1>11. ASSUME NEW r \in table, r.id \in stayed
       PROVE  r.id \in seen <=> ~Before(behind, r.key) \/ r \in page
  BY <1>2, <1>9, <1>11 DEF behind
<1>. HIDE DEF last, stayed, seen, twice
\* There is a next page: behind its cursor is what the page does not hold.
<1>12. CASE more
  <2>1. page # {} /\ last \in page /\ last \in table /\ last.key \in Int \X Int
    BY <1>6, <1>7, <1>8, <1>12
  <2>2. ASSUME NEW r \in table
        PROVE  (~Before(behind, r.key) \/ r \in page) <=> ~Before(last.key, r.key)
    <3>1. CASE r \in page
      <4>1. r = last \/ Before(r.key, last.key)
        BY <1>6, <1>7, <1>8, <2>1, <3>1
      <4>. QED
        BY <1>7, <2>1, <3>1, <4>1, BeforeIsAnOrder
    <3>2. CASE r \notin page /\ Before(behind, r.key)
      <4>1. Before(last.sort, r.sort)
        BY <1>6, <2>1, <3>2
      <4>. QED
        BY <1>7, <2>1, <3>2, <4>1
    <3>3. CASE r \notin page /\ ~Before(behind, r.key)
      <4>1. Before(behind, last.key) /\ behind \in Int \X Int
        BY <1>2, <1>6, <2>1 DEF behind
      <4>2. ~Before(last.key, r.key)
        BY <1>7, <2>1, <3>3, <4>1, BeforeIsAnOrder
      <4>. QED
        BY <3>3, <4>2
    <3>. QED
      BY <3>1, <3>2, <3>3
  <2>3. /\ reader'.stage = "turning" /\ reader'.list = reader.list /\ reader'.behind = last.key
        /\ reader'.stayed = stayed /\ reader'.seen = seen /\ reader'.twice = twice
    BY <1>1, <1>12
  <2>4. \A id \in stayed : id \in Int /\ id < nextId'
    BY <1>1, <1>2 DEF stayed
  <2>5. \A r \in table : r.id \in stayed =>
          /\ r.id \in seen <=> ~Before(last.key, r.key)
          /\ r.id \notin twice
    BY <1>10, <1>11, <2>2
  <2>6. /\ reader'.list \in {"watchlist", "pool"} /\ reader'.behind \in Int \X Int
    BY <1>2, <2>1, <2>3
  <2>. QED
    BY <1>4, <1>5, <2>3, <2>4, <2>5, <2>6 DEF WalkOK
\* There is none: nothing lies behind the page.
<1>13. CASE ~more
  <2>1. ASSUME NEW r \in table
        PROVE  ~Before(behind, r.key) \/ r \in page
    <3>1. SUFFICES ASSUME Before(behind, r.key), r \notin page
                   PROVE  FALSE
      OBVIOUS
    <3>2. page # {} /\ Before(last.sort, r.sort)
      BY <1>6, <1>8, <3>1
    <3>. QED
      BY <1>13, <3>2
  <2>2. /\ reader'.stage = "done"
        /\ reader'.stayed = stayed /\ reader'.seen = seen /\ reader'.twice = twice
    BY <1>1, <1>13
  <2>3. ASSUME NEW id \in stayed
        PROVE  id \in seen \ twice
    <3>1. PICK r \in table : r.id = id
      BY DEF stayed
    <3>. QED
      BY <1>10, <1>11, <2>1, <3>1
  <2>. QED
    BY <2>2, <2>3 DEF WalkOK
<1>. QED
  BY <1>12, <1>13

\* A walk goes on as it was if no row comes back that had been there.
LEMMA WalkKept ==
  ASSUME WalkOK, UNCHANGED reader, nextId \in Nat, nextId' \in Nat, nextId <= nextId',
         \A list \in {"watchlist", "pool"} : list = reader.list =>
           \A r \in Rows(list)' : r.id < nextId => r \in Rows(list)
  PROVE  WalkOK'
<1>1. CASE reader = AtRest
  BY <1>1 DEF WalkOK, AtRest
<1>2. CASE reader.stage = "done" /\ reader.stayed \subseteq reader.seen \ reader.twice
  BY <1>2 DEF WalkOK
<1>3. CASE reader.stage = "turning"
  <2>1. /\ reader.list \in {"watchlist", "pool"}
        /\ reader.behind \in Int \X Int
        /\ \A id \in reader.stayed : id \in Int /\ id < nextId
        /\ \A r \in Rows(reader.list) : r.id \in reader.stayed =>
             /\ r.id \in reader.seen <=> ~Before(reader.behind, r.key)
             /\ r.id \notin reader.twice
    BY <1>3 DEF WalkOK, AtRest
  <2>2. \A id \in reader.stayed : id \in Int /\ id < nextId'
    BY <1>3, <2>1
  <2>3. \A r \in Rows(reader.list)' : r.id < nextId => r \in Rows(reader.list)
    BY <2>1
  <2>4. \A r \in Rows(reader.list)' : r.id \in reader.stayed =>
             /\ r.id \in reader.seen <=> ~Before(reader.behind, r.key)
             /\ r.id \notin reader.twice
    BY <2>1, <2>3
  <2>. QED
    BY <1>3, <2>1, <2>2, <2>4 DEF WalkOK
<1>. QED
  BY <1>1, <1>2, <1>3 DEF WalkOK

\* Nothing comes back when items go or one comes with a new id.
LEMMA NothingReturns ==
  ASSUME NEW list \in {"watchlist", "pool"},
         list = "pool" => members' = members,
         \A i \in items' : i \in items \/ i.id = nextId, nextId \in Nat
  PROVE  \A r \in Rows(list)' : r.id < nextId => r \in Rows(list)
<1>1. CASE list = "watchlist"
  <2>1. ASSUME NEW r \in WatchlistRows', r.id < nextId
        PROVE  r \in WatchlistRows
    <3>1. PICK i \in items' : r = [id |-> i.id, sort |-> <<i.order, i.id>>, key |-> Key(i)]
      BY DEF WatchlistRows, Key
    <3>2. i \in items
      BY <2>1, <3>1
    <3>. QED
      BY <3>1, <3>2 DEF WatchlistRows
  <2>. QED
    BY <1>1, <2>1 DEF Rows
<1>2. CASE list = "pool"
  <2>. DEFINE position(s) == Cardinality({m \in members : m < s})
              offset == Cardinality(members)
              memberRows == {[id |-> -s, sort |-> <<position(s), 0>>, key |-> <<position(s), s>>] : s \in members}
              other(i) == [id |-> i.id, sort |-> <<offset + i.order, i.id>>, key |-> <<offset + i.order, i.symbol>>]
  <2>1. /\ PoolRows = memberRows \cup {other(i) : i \in {j \in items : j.symbol \notin members}}
        /\ PoolRows' = memberRows \cup {other(i) : i \in {j \in items' : j.symbol \notin members}}
    BY <1>2 DEF PoolRows
  <2>2. ASSUME NEW r \in PoolRows', r.id < nextId
        PROVE  r \in PoolRows
    <3>1. CASE r \in memberRows
      BY <2>1, <3>1
    <3>2. CASE r \notin memberRows
      <4>1. PICK i \in items' : i.symbol \notin members /\ r = other(i)
        BY <2>1, <3>2
      <4>2. i \in items
        BY <2>2, <4>1
      <4>. QED
        BY <2>1, <4>1, <4>2
    <3>. QED
      BY <3>1, <3>2
  <2>. QED
    BY <1>2, <2>2 DEF Rows
<1>. QED
  BY <1>1, <1>2

-----------------------------------------------------------------------------
(***************************************************************************)
(* Every step keeps the invariant.                                         *)
(***************************************************************************)

LEMMA TrackingInitInv ==
  ASSUME TrackingInit
  PROVE  TrackingInv
<1>1. items = {} /\ client = [c \in Clients |-> AtRest] /\ waited = [s \in Symbols |-> 0]
      /\ members \in Indexes /\ nextId = 1 /\ cursor = 0 /\ reader = AtRest
  BY DEF TrackingInit
<1>2. TrackingTypes
  BY <1>1 DEF TrackingTypes, DataTypes, ClientTypes
<1>3. RoundOK
  <2>1. ASSUME NEW s \in Tracked
        PROVE  waited[s] * Turn + Distance(s) < Cardinality(Tracked)
    <3>1. Tracked \in SUBSET Nat /\ IsFiniteSet(Tracked) /\ s \in Symbols
      BY <1>2, TrackedTypes
    <3>2. PICK n \in Nat \ {0} : n = Cardinality(Tracked) /\ Distance(s) \in 0..n - 1
      BY <1>1, <3>1, DistancesAreAll DEF Distance
    <3>3. Turn \in 1..n /\ waited[s] = 0
      BY <1>1, <3>1, <3>2, TurnIsSome DEF Turn
    <3>. QED
      BY <3>2, <3>3
  <2>. QED
    BY <2>1 DEF RoundOK
<1>. QED
  BY <1>1, <1>2, <1>3 DEF TrackingInv, WalkOK

\* Whatever does not move the cursor.
LEMMA StepOnScope ==
  ASSUME TrackingInv, DataTypes', UNCHANGED cursor, WalkOK',
         Rescoped \/ (UNCHANGED waited /\ Tracked' = Tracked)
  PROVE  TrackingInv'
<1>1. Tracked \in SUBSET Nat /\ IsFiniteSet(Tracked)
  BY TrackedTypes DEF TrackingInv
<1>2. Tracked' \in SUBSET Symbols
  <2>1. members' \in SUBSET Symbols
    BY TrackingAssumption DEF DataTypes, TrackingAssumption
  <2>2. \A i \in items' : i.symbol \in Symbols
    BY DEF DataTypes
  <2>. QED
    BY <2>1, <2>2 DEF Tracked, Watched
<1>3. waited' \in [Symbols -> Nat] /\ RoundOK'
  BY <1>1, <1>2, ScopeKeepsRounds DEF TrackingInv
<1>. QED
  BY <1>3 DEF TrackingInv, TrackingTypes

\* Whatever touches neither stocks nor lists.
LEMMA TrackingAside ==
  ASSUME TrackingInv, UNCHANGED <<members, items, nextId, cursor, waited>>,
         client' = [c \in Clients |-> client'[c]], \A c \in Clients : ClientTypes(c)', WalkOK'
  PROVE  TrackingInv'
<1>1. DataTypes'
  BY DEF TrackingInv, TrackingTypes, DataTypes
<1>2. Tracked' = Tracked
  BY DEF Tracked, Watched
<1>. QED
  BY <1>1, <1>2, StepOnScope

\* The lists and the walk are left alone.
LEMMA WalkAside ==
  ASSUME TrackingInv, UNCHANGED <<members, items, nextId, reader>>
  PROVE  WalkOK'
<1>1. nextId \in Nat
  BY DEF TrackingInv, TrackingTypes, DataTypes
<1>2. \A list \in {"watchlist", "pool"} : Rows(list)' = Rows(list)
  BY DEF Rows, WatchlistRows, PoolRows
<1>. QED
  BY <1>1, <1>2, WalkKept DEF TrackingInv

\* One request goes another step.
LEMMA ClientKept ==
  ASSUME TrackingInv, NEW c \in Clients, NEW value, client' = [client EXCEPT ![c] = value],
         \/ value = AtRest
         \/ value.stage = "adding" /\ value.symbol \in Symbols /\ value.order \in Nat
         \/ value.stage = "ordering" /\ \A n \in DOMAIN value.place : value.place[n] \in Nat
  PROVE  /\ client' = [d \in Clients |-> client'[d]]
         /\ \A d \in Clients : ClientTypes(d)'
<1>1. client = [d \in Clients |-> client[d]] /\ \A d \in Clients : ClientTypes(d)
  BY DEF TrackingInv, TrackingTypes, DataTypes
<1>2. client' = [d \in Clients |-> IF d = c THEN value ELSE client[d]]
  BY <1>1
<1>3. client' = [d \in Clients |-> client'[d]]
  BY <1>2
<1>4. ASSUME NEW d \in Clients
      PROVE  ClientTypes(d)'
  <2>1. CASE d = c
    <3>1. client'[d] = value
      BY <1>2, <2>1
    <3>. QED
      BY <3>1 DEF ClientTypes
  <2>2. CASE d # c
    <3>1. client'[d] = client[d]
      BY <1>2, <2>2
    <3>. QED
      BY <1>1, <3>1 DEF ClientTypes
  <2>. QED
    BY <2>1, <2>2
<1>. QED
  BY <1>3, <1>4

LEMMA MembersChangeStep ==
  ASSUME TrackingInv, MembersChange
  PROVE  TrackingInv'
<1>1. /\ members' \in Indexes /\ UNCHANGED <<items, nextId, client, cursor>> /\ Rescoped
      /\ reader' = IF reader # AtRest /\ reader.list = "pool" THEN AtRest ELSE reader
  BY DEF MembersChange
<1>2. DataTypes'
  BY <1>1 DEF TrackingInv, TrackingTypes, DataTypes, ClientTypes
<1>3. WalkOK'
  <2>1. CASE reader' = AtRest
    BY <2>1 DEF WalkOK
  <2>2. CASE reader' # AtRest
    <3>1. reader' = reader /\ reader.list # "pool"
      BY <1>1, <2>2
    <3>2. nextId \in Nat
      BY DEF TrackingInv, TrackingTypes, DataTypes
    <3>3. Rows("watchlist")' = Rows("watchlist")
      BY <1>1 DEF Rows, WatchlistRows
    <3>. QED
      BY <1>1, <3>1, <3>2, <3>3, WalkKept DEF TrackingInv
  <2>. QED
    BY <2>1, <2>2
<1>. QED
  BY <1>1, <1>2, <1>3, StepOnScope

\* A new item goes behind all others, as the request has seen them.
LEMMA AddReadStep ==
  ASSUME TrackingInv, NEW c \in Clients, NEW s \in Symbols, AddRead(c, s)
  PROVE  TrackingInv'
<1>1. /\ UNCHANGED <<members, items, nextId, reader, cursor, waited>>
      /\ client' = [client EXCEPT ![c] = [stage |-> "adding", symbol |-> s, order |-> NextDisplayOrder]]
  BY DEF AddRead
<1>2. NextDisplayOrder \in Nat
  <2>1. CASE items = {}
    BY <2>1 DEF NextDisplayOrder
  <2>2. CASE items # {}
    <3>. DEFINE orders == {i.order : i \in items}
                order == [i \in items |-> i.order]
    <3>1. orders = {order[i] : i \in items}
      OBVIOUS
    <3>2. IsFiniteSet(items) /\ order = [i \in items |-> order[i]]
      BY TrackedTypes DEF TrackingInv
    <3>3. orders \in SUBSET Nat /\ orders # {}
      BY <2>2 DEF TrackingInv, TrackingTypes, DataTypes
    <3>4. IsFiniteSet(orders)
      <4>. HIDE DEF order, orders
      <4>. QED
        BY <3>1, <3>2, ImageIsFinite
    <3>5. Max(orders) \in Nat
      <4>. HIDE DEF orders
      <4>. QED
        BY <3>3, <3>4, LargestNatural
    <3>. QED
      BY <2>2, <3>5 DEF NextDisplayOrder
  <2>. QED
    BY <2>1, <2>2
<1>. DEFINE value == [stage |-> "adding", symbol |-> s, order |-> NextDisplayOrder]
<1>3. value.stage = "adding" /\ value.symbol \in Symbols /\ value.order \in Nat
  BY <1>2
<1>. HIDE DEF value
<1>4. /\ client' = [d \in Clients |-> client'[d]] /\ \A d \in Clients : ClientTypes(d)'
  BY <1>1, <1>3, ClientKept DEF value
<1>5. WalkOK'
  BY <1>1, WalkAside
<1>. QED
  BY <1>1, <1>4, <1>5, TrackingAside

LEMMA AddCommitStep ==
  ASSUME TrackingInv, NEW c \in Clients, AddCommit(c)
  PROVE  TrackingInv'
<1>. DEFINE new == [id |-> nextId, symbol |-> client[c].symbol, order |-> client[c].order]
<1>1. /\ UNCHANGED <<members, reader, cursor>> /\ Rescoped
      /\ items' = items \/ items' = items \cup {new}
      /\ nextId' = nextId + 1
      /\ client' = [client EXCEPT ![c] = AtRest]
      /\ client[c].stage = "adding"
  BY DEF AddCommit
<1>2. nextId \in Nat \ {0} /\ new.symbol \in Symbols /\ new.order \in Nat /\ new.id = nextId
  BY <1>1 DEF TrackingInv, TrackingTypes, DataTypes, ClientTypes, AtRest
<1>3. client' = [d \in Clients |-> client'[d]] /\ \A d \in Clients : ClientTypes(d)'
  BY <1>1, ClientKept
<1>4. /\ items' \subseteq [id : 1..nextId' - 1, symbol : Symbols, order : Nat]
      /\ \A i, j \in items' : i.id = j.id => i = j
  <2>1. /\ items \subseteq [id : 1..nextId - 1, symbol : Symbols, order : Nat]
        /\ \A i, j \in items : i.id = j.id => i = j
    BY DEF TrackingInv, TrackingTypes, DataTypes
  <2>2. 1..nextId - 1 \subseteq 1..nextId' - 1 /\ nextId \in 1..nextId' - 1 /\ nextId \notin 1..nextId - 1
    BY <1>1, <1>2
  <2>3. new \in [id : 1..nextId' - 1, symbol : Symbols, order : Nat]
    BY <1>2, <2>2
  <2>4. \A i \in items : i \in [id : 1..nextId' - 1, symbol : Symbols, order : Nat] /\ i.id # nextId
    BY <2>1, <2>2
  <2>. HIDE DEF new
  <2>. QED
    BY <1>1, <1>2, <2>1, <2>3, <2>4
<1>5. DataTypes'
  BY <1>1, <1>2, <1>3, <1>4 DEF TrackingInv, TrackingTypes, DataTypes
<1>6. WalkOK'
  <2>1. \A i \in items' : i \in items \/ i.id = nextId
    BY <1>1, <1>2
  <2>2. \A list \in {"watchlist", "pool"} : \A r \in Rows(list)' : r.id < nextId => r \in Rows(list)
    BY <1>1, <1>2, <2>1, NothingReturns
  <2>3. nextId \in Nat /\ nextId' \in Nat /\ nextId <= nextId'
    BY <1>1, <1>2
  <2>. QED
    BY <1>1, <2>2, <2>3, WalkKept DEF TrackingInv
<1>. QED
  BY <1>1, <1>5, <1>6, StepOnScope

LEMMA RemoveStep ==
  ASSUME TrackingInv, NEW s \in Symbols, Remove(s)
  PROVE  TrackingInv'
<1>1. /\ UNCHANGED <<members, nextId, client, reader, cursor>> /\ Rescoped
      /\ items' \subseteq items
  BY DEF Remove
<1>2. DataTypes'
  BY <1>1 DEF TrackingInv, TrackingTypes, DataTypes, ClientTypes
<1>3. nextId \in Nat
  BY DEF TrackingInv, TrackingTypes, DataTypes
<1>4. \A list \in {"watchlist", "pool"} : \A r \in Rows(list)' : r.id < nextId => r \in Rows(list)
  BY <1>1, <1>3, NothingReturns
<1>5. WalkOK'
  BY <1>1, <1>3, <1>4, WalkKept DEF TrackingInv
<1>. QED
  BY <1>1, <1>2, <1>5, StepOnScope

LEMMA ReorderReadStep ==
  ASSUME TrackingInv, NEW c \in Clients, ReorderRead(c)
  PROVE  TrackingInv'
<1>1. PICK order \in [items -> 0..Cardinality(items) - 1] :
        LET moved == {i \in items : order[i] # i.order} IN
          client' = [client EXCEPT ![c] =
            [stage |-> "ordering", place |-> [n \in {i.id : i \in moved} |->
                                                order[CHOOSE i \in moved : i.id = n]]]]
  BY DEF ReorderRead
<1>. DEFINE moved == {i \in items : order[i] # i.order}
            value == [stage |-> "ordering", place |-> [n \in {i.id : i \in moved} |->
                                                         order[CHOOSE i \in moved : i.id = n]]]
<1>2. value.stage = "ordering" /\ \A n \in DOMAIN value.place : value.place[n] \in Nat
  <2>1. ASSUME NEW n \in {i.id : i \in moved}
        PROVE  order[CHOOSE i \in moved : i.id = n] \in Nat
    <3>1. (CHOOSE i \in moved : i.id = n) \in items
      OBVIOUS
    <3>2. Cardinality(items) \in Nat
      BY TrackedTypes, FS_CardinalityType DEF TrackingInv
    <3>. QED
      BY <3>1, <3>2
  <2>. QED
    BY <2>1
<1>3. client' = [client EXCEPT ![c] = value]
  BY <1>1
<1>. HIDE DEF value
<1>4. client' = [d \in Clients |-> client'[d]] /\ \A d \in Clients : ClientTypes(d)'
  BY <1>2, <1>3, ClientKept
<1>5. UNCHANGED <<members, items, nextId, reader, cursor, waited>>
  BY DEF ReorderRead
<1>6. WalkOK'
  BY <1>5, WalkAside
<1>. QED
  BY <1>4, <1>5, <1>6, TrackingAside

\* Only places change, and a walk ends if one does.
LEMMA ReorderCommitStep ==
  ASSUME TrackingInv, NEW c \in Clients, ReorderCommit(c)
  PROVE  TrackingInv'
<1>. DEFINE place == client[c].place
            moved(i) == IF i.id \in DOMAIN place THEN [i EXCEPT !.order = place[i.id]] ELSE i
<1>1. /\ UNCHANGED <<members, nextId, cursor, waited>> /\ GiveUpWalk
      /\ client' = [client EXCEPT ![c] = AtRest]
      /\ items' = items \/ items' = {moved(i) : i \in items}
      /\ client[c].stage = "ordering"
  BY DEF ReorderCommit
<1>2. client' = [d \in Clients |-> client'[d]] /\ \A d \in Clients : ClientTypes(d)'
  BY <1>1, ClientKept
<1>3. ASSUME NEW i \in items
      PROVE  /\ moved(i) \in [id : 1..nextId - 1, symbol : Symbols, order : Nat]
             /\ moved(i).id = i.id /\ moved(i).symbol = i.symbol
  <2>1. i \in [id : 1..nextId - 1, symbol : Symbols, order : Nat]
    BY DEF TrackingInv, TrackingTypes, DataTypes
  <2>2. \A n \in DOMAIN place : place[n] \in Nat
    BY <1>1 DEF TrackingInv, TrackingTypes, DataTypes, ClientTypes, AtRest
  <2>. HIDE DEF place
  <2>. QED
    BY <2>1, <2>2
<1>. HIDE DEF moved
<1>4. DataTypes' /\ Tracked' = Tracked
  <2>1. CASE items' = items
    BY <1>1, <1>2, <2>1 DEF TrackingInv, TrackingTypes, DataTypes, Tracked, Watched
  <2>2. CASE items' = {moved(i) : i \in items}
    <3>1. items' \subseteq [id : 1..nextId - 1, symbol : Symbols, order : Nat]
      BY <1>3, <2>2
    <3>2. \A i, j \in items' : i.id = j.id => i = j
      BY <1>3, <2>2 DEF TrackingInv, TrackingTypes, DataTypes
    <3>3. Watched' = Watched
      BY <1>3, <2>2 DEF Watched
    <3>. QED
      BY <1>1, <1>2, <3>1, <3>2, <3>3 DEF TrackingInv, TrackingTypes, DataTypes, Tracked
  <2>. QED
    BY <1>1, <2>1, <2>2
<1>5. WalkOK'
  <2>1. CASE items' = items
    BY <1>1, <2>1, WalkAside DEF GiveUpWalk
  <2>2. CASE items' # items
    BY <1>1, <2>2 DEF GiveUpWalk, WalkOK
  <2>. QED
    BY <2>1, <2>2
<1>. QED
  BY <1>1, <1>4, <1>5, StepOnScope

LEMMA AbortStep ==
  ASSUME TrackingInv, NEW c \in Clients, Abort(c)
  PROVE  TrackingInv'
<1>1. UNCHANGED <<members, items, nextId, reader, cursor, waited>> /\ client' = [client EXCEPT ![c] = AtRest]
  BY DEF Abort
<1>2. client' = [d \in Clients |-> client'[d]] /\ \A d \in Clients : ClientTypes(d)'
  BY <1>1, ClientKept
<1>3. WalkOK'
  BY <1>1, WalkAside
<1>. QED
  BY <1>1, <1>2, <1>3, TrackingAside

\* A walk begins in front of all rows.
LEMMA StartReadingStep ==
  ASSUME TrackingInv, NEW list \in {"watchlist", "pool"}, StartReading(list)
  PROVE  TrackingInv'
<1>1. /\ UNCHANGED <<members, items, nextId, client, cursor, waited>>
      /\ reader' = [stage |-> "turning", list |-> list, behind |-> <<-1, 0>>,
                    stayed |-> {r.id : r \in Rows(list)}, seen |-> {}, twice |-> {}]
  BY DEF StartReading
<1>2. TrackingTypes /\ nextId \in Nat \ {0} /\ \A i \in items : i.id \in 1..nextId - 1 /\ i.order \in Nat
  BY DEF TrackingInv, TrackingTypes, DataTypes
<1>3. ASSUME NEW r \in Rows(list)
      PROVE  r.id \in Int /\ r.id < nextId /\ Before(<<-1, 0>>, r.key)
  <2>1. CASE list = "watchlist"
    <3>1. PICK i \in items : r = [id |-> i.id, sort |-> <<i.order, i.id>>, key |-> Key(i)]
      BY <2>1 DEF Rows, WatchlistRows
    <3>. QED
      BY <1>2, <3>1 DEF Key, Before
  <2>2. CASE list = "pool"
    <3>1. r \in PoolRows
      BY <2>2 DEF Rows
    <3>2. r.key \in Int \X Int /\ r.key[1] >= 0
      BY <1>2, <3>1, PoolIsSorted
    <3>3. Before(<<-1, 0>>, r.key)
      BY <3>2 DEF Before
    <3>4. (\E s \in members : r.id = -s) \/ \E i \in items : r.id = i.id
      <4>. DEFINE position(s) == Cardinality({m \in members : m < s})
                  offset == Cardinality(members)
                  of(s) == [id |-> -s, sort |-> <<position(s), 0>>, key |-> <<position(s), s>>]
                  other(i) == [id |-> i.id, sort |-> <<offset + i.order, i.id>>,
                               key |-> <<offset + i.order, i.symbol>>]
      <4>1. PoolRows = {of(s) : s \in members} \cup
                       {other(i) : i \in {j \in items : j.symbol \notin members}}
        BY DEF PoolRows
      <4>2. (\A s : of(s).id = -s) /\ \A i : other(i).id = i.id
        OBVIOUS
      <4>. HIDE DEF of, other
      <4>3. (\E s \in members : r = of(s)) \/ \E i \in items : r = other(i)
        BY <3>1, <4>1
      <4>. QED
        BY <4>2, <4>3
    <3>5. \A s \in members : s \in Nat
      BY <1>2, TrackedTypes
    <3>6. r.id \in Int /\ r.id < nextId
      BY <1>2, <3>4, <3>5
    <3>. QED
      BY <3>3, <3>6
  <2>. QED
    BY <2>1, <2>2
<1>4. Rows(list)' = Rows(list)
  BY <1>1 DEF Rows, WatchlistRows, PoolRows
<1>5. /\ reader'.stage = "turning" /\ reader'.list = list /\ reader'.behind = <<-1, 0>>
      /\ reader'.stayed = {r.id : r \in Rows(list)} /\ reader'.seen = {} /\ reader'.twice = {}
  BY <1>1
<1>6. WalkOK'
  BY <1>1, <1>3, <1>4, <1>5 DEF WalkOK
<1>7. client' = [d \in Clients |-> client'[d]] /\ \A d \in Clients : ClientTypes(d)'
  BY <1>1 DEF TrackingInv, TrackingTypes, DataTypes, ClientTypes
<1>. QED
  BY <1>1, <1>6, <1>7, TrackingAside

LEMMA ReaderStep ==
  ASSUME TrackingInv, TurnPage \/ EndReading
  PROVE  TrackingInv'
<1>1. UNCHANGED <<members, items, nextId, client, cursor, waited>>
  BY DEF TurnPage, EndReading
<1>2. WalkOK'
  <2>1. CASE TurnPage
    BY <2>1, TurnPageStep DEF TrackingInv
  <2>2. CASE EndReading
    BY <2>2 DEF EndReading, WalkOK
  <2>. QED
    BY <2>1, <2>2
<1>3. client' = [d \in Clients |-> client'[d]] /\ \A d \in Clients : ClientTypes(d)'
  BY <1>1 DEF TrackingInv, TrackingTypes, DataTypes, ClientTypes
<1>. QED
  BY <1>1, <1>2, <1>3, TrackingAside

LEMMA PollStep ==
  ASSUME TrackingInv, Poll
  PROVE  TrackingInv'
<1>1. UNCHANGED <<members, items, nextId, client, reader>>
  BY DEF Poll
<1>2. WalkOK'
  BY <1>1, WalkAside
<1>3. DataTypes'
  BY <1>1 DEF TrackingInv, TrackingTypes, DataTypes, ClientTypes
<1>4. cursor' \in Nat /\ waited' \in [Symbols -> Nat] /\ RoundOK'
  BY TrackedTypes, PollKeepsRounds DEF TrackingInv
<1>. QED
  BY <1>2, <1>3, <1>4 DEF TrackingInv, TrackingTypes

LEMMA RestartStep ==
  ASSUME TrackingInv, Restart
  PROVE  TrackingInv'
<1>1. UNCHANGED <<members, items, nextId, client, reader>>
  BY DEF Restart
<1>2. WalkOK'
  BY <1>1, WalkAside
<1>3. DataTypes'
  BY <1>1 DEF TrackingInv, TrackingTypes, DataTypes, ClientTypes
<1>4. Tracked' \in SUBSET Symbols
  BY <1>1, TrackedTypes DEF TrackingInv, TrackingTypes, DataTypes, Tracked, Watched
<1>5. cursor' \in Nat /\ waited' = [s \in Symbols |-> 0]
  BY DEF Restart
<1>6. waited' \in [Symbols -> Nat] /\ RoundOK'
  BY <1>4, <1>5, NewCount DEF TrackingInv
<1>. QED
  BY <1>2, <1>3, <1>5, <1>6 DEF TrackingInv, TrackingTypes

LEMMA TrackingNextInv ==
  ASSUME TrackingInv, [TrackingNext]_trackingVars
  PROVE  TrackingInv'
<1>1. CASE UNCHANGED trackingVars
  <2>1. UNCHANGED <<members, items, nextId, client, reader, cursor, waited>>
    BY <1>1 DEF trackingVars
  <2>2. client' = [d \in Clients |-> client'[d]] /\ \A d \in Clients : ClientTypes(d)'
    BY <2>1 DEF TrackingInv, TrackingTypes, DataTypes, ClientTypes
  <2>. QED
    BY <2>1, <2>2, WalkAside, TrackingAside
<1>2. CASE TrackingNext
  BY <1>2, MembersChangeStep, AddReadStep, AddCommitStep, RemoveStep, ReorderReadStep, ReorderCommitStep,
     AbortStep, StartReadingStep, ReaderStep, PollStep, RestartStep DEF TrackingNext
<1>. QED
  BY <1>1, <1>2

\* Every list, request, round and walk is as the handlers leave it.
LEMMA TrackingInvAlways == TrackingSpec => []TrackingInv
<1>1. TrackingInit => TrackingInv
  BY TrackingInitInv
<1>2. TrackingInv /\ [TrackingNext]_trackingVars => TrackingInv'
  BY TrackingNextInv
<1>. QED
  BY <1>1, <1>2, PTL DEF TrackingSpec

-----------------------------------------------------------------------------
(***************************************************************************)
(* The theorems about the followed stocks.                                 *)
(***************************************************************************)

\* ingest_watchlist_quotes: whatever the batch size, the stocks and the changes of the
\* scope, a stock is asked for in as many batches as one round takes; a batch of all
\* stocks passes over none.
THEOREM EveryStockIsAskedFor == TrackingSpec => []AskedEachRound
<1>1. TrackingInv => AskedEachRound
  BY TrackedTypes, RoundIsBound DEF TrackingInv
<1>. QED
  BY <1>1, TrackingInvAlways, PTL

\* list_page and the research pool: whatever is added, removed and reordered by however
\* many requests meanwhile, a walk through all pages shows every row that stays exactly
\* once.
THEOREM WalksAreComplete == TrackingSpec => []PagesAreComplete
<1>1. TrackingInv => PagesAreComplete
  BY DEF TrackingInv, WalkOK, PagesAreComplete, AtRest
<1>. QED
  BY <1>1, TrackingInvAlways, PTL
=============================================================================
