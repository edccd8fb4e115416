------------------------------- MODULE Ledger -------------------------------
(***************************************************************************)
(* The prediction ledger of one stock: the daily bars and quotes the       *)
(* predictions start from, the reference price each one records            *)
(* (services/prediction/inference/reference_price.py), and the outcomes    *)
(* that settlement computes from the bars as they are then                 *)
(* (services/prediction/evaluation/settlement.py).                         *)
(*                                                                         *)
(* Bars are forward adjusted (qfq): each ex-rights day scales the whole    *)
(* past of the series, but a stored bar changes only when it is fetched    *)
(* again.  A price is given by its logarithm, so a factor between two      *)
(* prices is a difference, and a return is one, too.  Rounding is left     *)
(* out.                                                                    *)
(***************************************************************************)
EXTENDS Integers, FiniteSets, FiniteSetsExt

CONSTANTS
  LastDay,        \* bound: the trading calendar covers the sessions 1..LastDay
  DateOf,         \* the calendar date of each session
  ReconcileDays,  \* DAILY_RECONCILE_DAYS
  RetentionDays,  \* QUOTE_HISTORY_RETENTION_DAYS
  SessionsTo,     \* the sessions from a prediction to its target, by horizon
  Moves,          \* by how much a price may move from the previous close
  Cuts,           \* by how much an ex-rights day may lower the price
  MaxPredictions, \* bound: the size of the ledger
  DueLimit,       \* limit of settle_due_predictions
  Quotes          \* does the quote source answer?

Sessions == 1..LastDay

Horizons == {"today_close", "next_5d"}

ASSUME LedgerAssumption ==
  /\ LastDay \in Nat \ {0}
  /\ DateOf \in [Sessions -> Nat]
  /\ \A d, e \in Sessions : d < e => DateOf[d] < DateOf[e]
  /\ ReconcileDays \in Nat
  /\ RetentionDays \in Nat
  /\ SessionsTo \in [Horizons -> Nat]
  /\ Moves \subseteq Int
  /\ Cuts \subseteq Nat
  /\ MaxPredictions \in Nat
  /\ DueLimit \in Nat \ {0}
  /\ Quotes \in BOOLEAN

VARIABLES
  day,       \* today's session
  closed,    \* has it closed (15:00)?
  close,     \* the raw closing price of each session that has closed
  cuts,      \* the sum of all cuts up to each session
  stored,    \* the sessions with a row in bars
  bars,      \* bars.close of these rows
  fetched,   \* history: the session of the fetch that wrote each of them
  quote,     \* the latest row of quotes, of day 0 if there is none
  ledger,    \* predictions
  outcomes   \* prediction_outcomes

marketVars == <<day, closed, close, cuts>>
barVars == <<stored, bars, fetched>>
vars == <<marketVars, barVars, quote, ledger, outcomes>>

\* The sessions whose bar_time, 15:00 of the day, has passed.
Finished == IF closed THEN 1..day ELSE 1..(day - 1)

NoQuote == [day |-> 0, price |-> 0, prev |-> 0]

\* What a raw price of session d is on the basis of session t.
Adjusted(price, d, t) == price - (cuts[t] - cuts[d])

-----------------------------------------------------------------------------

\* The first session has closed, and its bar is stored.
Init ==
  /\ day = 1
  /\ closed = TRUE
  /\ close = [d \in Sessions |-> 0]
  /\ cuts = [d \in Sessions |-> 0]
  /\ stored = {1}
  /\ bars = [d \in Sessions |-> 0]
  /\ fetched = [d \in Sessions |-> 1]
  /\ quote = NoQuote
  /\ ledger = {}
  /\ outcomes = {}

-----------------------------------------------------------------------------
(***************************************************************************)
(* The market.                                                             *)
(***************************************************************************)

\* The next session opens; it may be an ex-rights day.
Open ==
  /\ closed
  /\ day < LastDay
  /\ day' = day + 1
  /\ closed' = FALSE
  /\ \E cut \in Cuts : cuts' = [cuts EXCEPT ![day + 1] = cuts[day] + cut]
  /\ UNCHANGED <<close, barVars, quote, ledger, outcomes>>

\* The exchange's previous close of today, lowered on an ex-rights day.
PreviousClose == Adjusted(close[day - 1], day - 1, day)

Close ==
  /\ ~closed
  /\ closed' = TRUE
  /\ \E move \in Moves : close' = [close EXCEPT ![day] = PreviousClose + move]
  /\ UNCHANGED <<day, cuts, barVars, quote, ledger, outcomes>>

-----------------------------------------------------------------------------
(***************************************************************************)
(* Ingestion (services/worker/jobs/market_data_jobs.py).                   *)
(***************************************************************************)

\* ingest_watchlist_quotes and run_quote_refresh: the raw price of the moment.
IngestQuote ==
  /\ Quotes
  /\ day > 1
  /\ \E price \in IF closed THEN {close[day]} ELSE {PreviousClose + move : move \in Moves} :
       quote' = [day |-> day, price |-> price, prev |-> PreviousClose]
  /\ UNCHANGED <<marketVars, barVars, ledger, outcomes>>

\* Defect: a row that is there is kept.
FetchMissing(some) ==
  /\ stored' = stored \cup some
  /\ bars' = [d \in Sessions |->
                IF d \in some \ stored THEN Adjusted(close[d], d, day) ELSE bars[d]]
  /\ fetched' = [d \in Sessions |-> IF d \in some THEN day ELSE fetched[d]]
  /\ UNCHANGED <<marketVars, ledger, outcomes>>

\* get_bars and upsert_bars: the rows fetched are written on today's basis.
Fetch(some) ==
  /\ stored' = stored \cup some
  /\ bars' = [d \in Sessions |->
                IF d \in some THEN Adjusted(close[d], d, day) ELSE bars[d]]
  /\ fetched' = [d \in Sessions |-> IF d \in some THEN day ELSE fetched[d]]
  /\ UNCHANGED <<marketVars, ledger, outcomes>>

\* Quotes older than the retention are deleted.
OldQuote == quote.day # 0 /\ DateOf[quote.day] < DateOf[day] - RetentionDays

\* ingest_daily_bars at 15:10 and 18:00.  A bar of ReconcileDays ago, 15:00, lies
\* before the start of the window.  When the fetch of a later stock fails, the run
\* ends there, and old quotes stay.
IngestDailyBars ==
  /\ closed
  /\ Fetch({d \in Finished : DateOf[d] > DateOf[day] - ReconcileDays})
  /\ quote' \in {quote} \cup (IF OldQuote THEN {NoQuote} ELSE {})

\* Defect: bars are kept whatever their bar_time.
BackfillUnfinished == Fetch(1..day) /\ UNCHANGED quote

\* The first step of run_instrument_backfill, at any time.  Bars whose bar_time
\* has not passed are left out by get_bars.
Backfill == Fetch(Finished) /\ UNCHANGED quote

-----------------------------------------------------------------------------
(***************************************************************************)
(* Predictions.                                                            *)
(***************************************************************************)

\* PitPanel.last_session.
LastSession == Max(stored \cap Finished)

\* The last close.  worth and of are history: the reference is the raw price worth
\* of the session of.
FromLastClose ==
  [source |-> "last_close", of |-> LastSession, worth |-> close[LastSession],
   anchor |-> LastSession, anchor_close |-> bars[LastSession], basis |-> bars[LastSession]]

\* The price of the quote, scaled by last_close / quote.previous_close.
FromQuote ==
  [source |-> "quote", of |-> quote.day, worth |-> quote.price,
   anchor |-> LastSession, anchor_close |-> bars[LastSession],
   basis |-> quote.price + (bars[LastSession] - quote.prev)]

\* resolve_reference_price
ReferencePrice(horizon) ==
  IF horizon = "next_5d" /\ quote.day # 0 THEN FromQuote ELSE FromLastClose

\* Defect: the end of the calendar is not looked at.
PredictBeyondCalendar(horizon) ==
  /\ Cardinality(ledger) < MaxPredictions
  /\ horizon = "today_close" => ~closed
  /\ stored \cap Finished # {}
  /\ ledger' = ledger \cup
       {[horizon |-> horizon, made |-> day, late |-> closed,
         target |-> day + SessionsTo[horizon], reference |-> ReferencePrice(horizon)]}
  /\ UNCHANGED <<marketVars, barVars, quote, outcomes>>

\* generate_prediction: today_close between 09:45 and 14:45, next_5d also at 15:20.
\* A target beyond the calendar is an error.
Predict(horizon) ==
  /\ Cardinality(ledger) < MaxPredictions
  /\ horizon = "today_close" => ~closed
  /\ day + SessionsTo[horizon] <= LastDay
  /\ stored \cap Finished # {}
  /\ ledger' = ledger \cup
       {[horizon |-> horizon, made |-> day, late |-> closed,
         target |-> day + SessionsTo[horizon], reference |-> ReferencePrice(horizon)]}
  /\ UNCHANGED <<marketVars, barVars, quote, outcomes>>

-----------------------------------------------------------------------------
(***************************************************************************)
(* Settlement.                                                             *)
(***************************************************************************)

Settled(p) == \E o \in outcomes : o.of = p

\* Defect: only today's targets are looked at.
DueToday == {p \in ledger : p.target = day /\ closed /\ ~Settled(p)}

\* target_at <= now and no outcome yet.
Due == {p \in ledger : p.target \in Finished /\ ~Settled(p)}

\* Defect: the reference stays on the basis of its prediction.
ReferenceAsRecorded(p) == p.reference.basis

\* _reference_on_current_basis
ReferenceNow(p) ==
  p.reference.basis + (bars[p.reference.anchor] - p.reference.anchor_close)

\* What a run may read: the oldest of the due predictions, at most DueLimit.
Batches ==
  {batch \in SUBSET Due :
     /\ Cardinality(batch) <= DueLimit
     /\ Cardinality(batch) < DueLimit => batch = Due
     /\ \A p \in batch, q \in Due \ batch : p.target <= q.target}

\* settle_due_predictions at 08:30 and 15:20.  A prediction whose target bar is
\* missing waits for a later run.  from and to are history: the sessions in which
\* the two bars were last fetched.
Settle ==
  \E batch \in Batches :
    /\ \E p \in batch : p.target \in stored
    /\ outcomes' = outcomes \cup
         {[of |-> p, actual |-> bars[p.target] - ReferenceNow(p),
           from |-> fetched[p.reference.anchor], to |-> fetched[p.target]] :
            p \in {q \in batch : q.target \in stored}}
    /\ UNCHANGED <<marketVars, barVars, quote, ledger>>

-----------------------------------------------------------------------------

Next ==
  \/ Open
  \/ Close
  \/ IngestQuote
  \/ IngestDailyBars
  \/ Backfill
  \/ \E horizon \in Horizons : Predict(horizon)
  \/ Settle

Spec == Init /\ [][Next]_vars

\* The settlement job is triggered twice on every trading day.
FairSpec == Spec /\ WF_vars(Settle)

-----------------------------------------------------------------------------
(***************************************************************************)
(* Properties.                                                             *)
(***************************************************************************)

References ==
  [source : {"quote", "last_close"}, of : Sessions, worth : Int,
   anchor : Sessions, anchor_close : Int, basis : Int]

Predictions ==
  [horizon : Horizons, made : Sessions, late : BOOLEAN, target : Sessions,
   reference : References]

\* Every variable keeps its type; an outcome belongs to a prediction.
TypeOK ==
  /\ day \in Sessions
  /\ closed \in BOOLEAN
  /\ close \in [Sessions -> Int]
  /\ cuts \in [Sessions -> Nat]
  /\ stored \subseteq Sessions
  /\ bars \in [Sessions -> Int]
  /\ fetched \in [Sessions -> Sessions]
  /\ quote \in [day : Sessions \cup {0}, price : Int, prev : Int]
  /\ ledger \subseteq Predictions
  /\ outcomes \subseteq [of : ledger, actual : Int, from : Sessions, to : Sessions]

\* "未来数据进入了 point-in-time 视图。这是 bug" (features/pit.py:45): no row of bars is
\* of a session that has not closed, and no prediction made while the market was
\* open is anchored to a close of its own day.
NoForesight ==
  /\ stored \subseteq Finished
  /\ \A p \in ledger : ~p.late => p.reference.anchor < p.made

\* The return from the reference of a prediction to its target, all cuts counted.
TrueReturn(p) ==
  close[p.target] - Adjusted(p.reference.worth, p.reference.of, p.target)

\* The previous close that comes with the quote is the close of the anchor.
Aligned(p) ==
  p.reference.source = "quote" => p.reference.of = p.reference.anchor + 1

\* An outcome is the return of the stock from the recorded reference to the target,
\* less the cuts of the ex-rights days between the last fetch of the anchor's bar
\* and that of the target's (_reference_on_current_basis), whichever fetches failed
\* and however late it is settled.  (A quote counts when its day follows the anchor:
\* see ReferenceAfterClose.)
SettledRight ==
  \A o \in outcomes :
    Aligned(o.of) => o.actual = TrueReturn(o.of) - (cuts[o.to] - cuts[o.from])

\* The two bars are on one basis, and the outcome is the return of the stock, when
\* the fetch of the target's bar reached back to the anchor (DAILY_RECONCILE_DAYS).
SettledInWindow ==
  \A o \in outcomes :
    /\ Aligned(o.of)
    /\ DateOf[o.of.reference.anchor] > DateOf[o.to] - ReconcileDays
    => o.actual = TrueReturn(o.of)

\* "期间除权多少次都不影响结果" (settlement.py:12): the outcome is the return of the stock
\* whatever ex-rights days lie between, when the prediction was made during a session
\* and started from the one before, the target's bar was fetched on its day and the
\* anchor's at least the session before that.
ExRightsHarmless ==
  \A o \in outcomes :
    /\ Aligned(o.of) /\ ~o.of.late
    /\ o.of.reference.anchor >= o.of.made - 1
    /\ o.to = o.of.target
    /\ o.from >= o.to - 1
    => o.actual = TrueReturn(o.of)

\* The due predictions whose target bar is missing.
Waiting == {p \in Due : p.target \notin stored}

\* "15:20 及次日 08:30 补偿" (prediction_jobs.py:150): a due prediction whose target bar
\* is stored, however late, does not stay pending, unless predictions that wait for a
\* bar fill the whole batch.
NothingStaysPending ==
  []<>(Cardinality(Waiting) < DueLimit =>
         \A p \in ledger : p.target \in Finished \cap stored => Settled(p))

\* "盘后 / 无盘中数据：用最近收盘价" (reference_price.py:125), "15:20 的版本没有这个问题"
\* (docs/model-card.md:200): a prediction made after the close, when the day's bar is
\* stored, starts from a price of that day on the basis of that bar.
ReferenceAfterClose ==
  \A p \in ledger :
    LET r == p.reference IN
      p.late /\ r.anchor = p.made /\ r.of = p.made =>
        r.basis - r.anchor_close = r.worth - close[p.made]

=============================================================================
