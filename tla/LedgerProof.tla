---------------------------- MODULE LedgerProof ----------------------------
(***************************************************************************)
(* Proofs about Ledger: for any calendar, moves, cuts and horizons, no     *)
(* prediction sees the future, every outcome is off the return from the    *)
(* recorded reference by the cuts between the last fetches of its two      *)
(* bars, and there are none when the later fetch reached the anchor.       *)
(***************************************************************************)
EXTENDS Ledger, WellFoundedInduction, TLAPS

-----------------------------------------------------------------------------
(***************************************************************************)
(* The last of finitely many sessions.                                     *)
(***************************************************************************)

Less == {p \in Nat \X Nat : p[1] < p[2]}

\* Counting down from a natural number ends.
LEMMA LessIsWellFounded == IsWellFoundedOn(Less, Nat)
<1>1. OpToRel(<, Nat) = Less
  BY DEF OpToRel, Less
<1> QED BY <1>1, NatLessThanWellFounded

\* Max picks the last of some sessions, as PitPanel.last_session does.
LEMMA MaxIsLast ==
  ASSUME NEW n \in Nat, NEW S \in SUBSET (1..n), S # {}
  PROVE  Max(S) \in S /\ \A d \in S : d <= Max(S)
<1> DEFINE T == {e \in Nat : n - e \in S}
<1>1. \A d \in S : d \in Int /\ d <= n /\ n - d \in Nat /\ n - (n - d) = d
  OBVIOUS
<1>2. T \subseteq Nat /\ T # {}
  BY <1>1
<1>3. PICK x \in T : \A y \in T : ~(<<y, x>> \in Less)
  <2> HIDE DEF T
  <2> QED BY <1>2, LessIsWellFounded, WFMin
<1>4. n - x \in S /\ x \in Nat
  OBVIOUS
<1>5. ASSUME NEW d \in S PROVE n - x >= d
  <2>1. n - d \in T /\ n - d \in Nat
    BY <1>1
  <2>2. ~(n - d < x)
    BY <2>1, <1>3, <1>4 DEF Less
  <2> QED BY <2>2, <1>4, <1>1
<1> QED BY <1>4, <1>5, <1>1 DEF Max

-----------------------------------------------------------------------------
(***************************************************************************)
(* Type correctness and no foresight.                                      *)
(***************************************************************************)

\* A session is open only after the first, whose bar was there at the start.
OpenLater == ~closed => day > 1

BaseInv == TypeOK /\ OpenLater /\ NoForesight

\* The part of the assumption that most steps need.
LEMMA CalendarBounds ==
  /\ LastDay \in Nat \ {0}
  /\ SessionsTo \in [Horizons -> Nat]
BY LedgerAssumption

\* The sessions whose close has passed are sessions up to today.
LEMMA FinishedParts ==
  ASSUME TypeOK
  PROVE  /\ Finished \subseteq 1..day
         /\ 1..day \subseteq Sessions
         /\ \A d \in Finished : d \in Sessions /\ d <= day
         /\ 1..(day - 1) \subseteq Finished
         /\ ~closed => \A d \in Finished : d < day
         /\ closed => day \in Finished
<1>1. day \in 1..LastDay /\ LastDay \in Int
  BY CalendarBounds DEF TypeOK, Sessions
<1> QED BY <1>1 DEF Sessions, Finished

\* PitPanel.last_session is a stored session that has closed.
LEMMA LastSessionParts ==
  ASSUME TypeOK, stored \cap Finished # {}
  PROVE  LastSession \in stored \cap Finished
<1>1. day \in Nat
  BY LedgerAssumption DEF TypeOK, Sessions
<1>2. stored \cap Finished \in SUBSET (1..day)
  BY FinishedParts
<1> HIDE DEF Finished
<1> QED BY <1>1, <1>2, MaxIsLast DEF LastSession

\* resolve_reference_price answers a reference anchored to the last session.
LEMMA ReferenceParts ==
  ASSUME TypeOK, stored \cap Finished # {}, NEW horizon \in Horizons
  PROVE  /\ ReferencePrice(horizon) \in References
         /\ ReferencePrice(horizon).anchor = LastSession
<1>1. LastSession \in Sessions
  BY LastSessionParts, FinishedParts
<1>2. bars[LastSession] \in Int /\ close[LastSession] \in Int
  BY <1>1 DEF TypeOK
<1>3. FromLastClose \in References
  BY <1>1, <1>2 DEF FromLastClose, References
<1>4. quote.day # 0 => FromQuote \in References
  BY <1>1, <1>2 DEF FromQuote, References, TypeOK
<1> QED BY <1>3, <1>4 DEF ReferencePrice, FromLastClose, FromQuote

\* Prices stay whole numbers when they are moved to another basis.
LEMMA AdjustedType ==
  ASSUME TypeOK, NEW price \in Int, NEW d \in Sessions, NEW t \in Sessions
  PROVE  Adjusted(price, d, t) \in Int
BY DEF Adjusted, TypeOK

LEMMA PreviousCloseType ==
  ASSUME TypeOK, day > 1
  PROVE  PreviousClose \in Int
<1>1. day \in Sessions /\ day - 1 \in Sessions
  BY LedgerAssumption DEF TypeOK, Sessions
<1>2. close[day - 1] \in Int
  BY <1>1 DEF TypeOK
<1> QED BY <1>1, <1>2, AdjustedType DEF PreviousClose

\* BaseInv holds at first.
LEMMA BaseInit == Init => BaseInv
<1> SUFFICES ASSUME Init PROVE BaseInv
  OBVIOUS
<1>1. 1 \in Sessions /\ Sessions \subseteq Int
  BY LedgerAssumption DEF Sessions
<1>2. TypeOK
  BY <1>1 DEF Init, TypeOK, NoQuote
<1>3. NoForesight
  BY DEF Init, NoForesight, Finished
<1> QED BY <1>2, <1>3 DEF BaseInv, OpenLater, Init

\* BaseInv is kept by the market: what has closed stays closed.
LEMMA BaseMarket ==
  ASSUME BaseInv, Open \/ Close
  PROVE  BaseInv'
<1> USE DEF BaseInv, OpenLater
<1>1. day \in Int /\ 1 <= day /\ day <= LastDay /\ LastDay \in Nat
  BY LedgerAssumption DEF TypeOK, Sessions
<1>2. CASE Open
  <2>1. day + 1 \in Sessions /\ day \in Sessions
    BY <1>1, <1>2 DEF Open, Sessions
  <2>2. cuts' \in [Sessions -> Nat]
    <3>1. PICK cut \in Cuts : cuts' = [cuts EXCEPT ![day + 1] = cuts[day] + cut]
      BY <1>2 DEF Open
    <3>2. cuts[day] + cut \in Nat
      BY <2>1, LedgerAssumption DEF TypeOK
    <3> QED BY <3>1, <3>2 DEF TypeOK
  <2>3. TypeOK'
    BY <1>2, <2>1, <2>2 DEF Open, TypeOK, barVars
  <2>4. Finished \subseteq Finished'
    BY <1>1, <1>2 DEF Open, Finished
  <2>5. NoForesight'
    BY <1>2, <2>4 DEF Open, barVars, NoForesight
  <2> QED BY <1>1, <1>2, <2>3, <2>5 DEF Open
<1>3. CASE Close
  <2>1. PreviousClose \in Int
    BY <1>3, PreviousCloseType DEF Close
  <2>2. close' \in [Sessions -> Int]
    BY <1>3, <2>1, LedgerAssumption DEF Close, TypeOK
  <2>3. TypeOK'
    BY <1>3, <2>2 DEF Close, TypeOK, barVars
  <2>4. Finished \subseteq Finished'
    BY <1>1, <1>3 DEF Close, Finished
  <2>5. NoForesight'
    BY <1>3, <2>4 DEF Close, barVars, NoForesight
  <2> QED BY <1>3, <2>3, <2>5 DEF Close
<1> QED BY <1>2, <1>3

\* BaseInv is kept by ingestion: only bars of sessions that have closed are stored.
LEMMA FetchTypes ==
  ASSUME BaseInv, NEW some \in SUBSET Finished, Fetch(some),
         quote' \in {quote, NoQuote}
  PROVE  BaseInv'
<1> USE DEF BaseInv, OpenLater
<1>1. \A d \in Finished : d \in Sessions /\ Adjusted(close[d], d, day) \in Int
  <2> SUFFICES ASSUME NEW d \in Finished
               PROVE  d \in Sessions /\ Adjusted(close[d], d, day) \in Int
    OBVIOUS
  <2>1. d \in Sessions /\ day \in Sessions
    BY FinishedParts DEF TypeOK
  <2> QED BY <2>1, AdjustedType DEF TypeOK
<1>2. bars' \in [Sessions -> Int]
  BY <1>1 DEF Fetch, TypeOK
<1>3. stored' \subseteq Finished /\ stored' \subseteq Sessions
  BY <1>1 DEF Fetch, NoForesight
<1>4. quote' \in [day : Sessions \cup {0}, price : Int, prev : Int]
  BY DEF TypeOK, NoQuote
<1>5. Finished' = Finished
  BY DEF Fetch, marketVars, Finished
<1>6. NoForesight'
  BY <1>3, <1>5 DEF Fetch, marketVars, NoForesight
<1>7. TypeOK'
  <2>1. fetched' \in [Sessions -> Sessions]
    BY DEF Fetch, TypeOK
  <2> QED BY <1>2, <1>3, <1>4, <2>1 DEF Fetch, marketVars, TypeOK
<1> QED BY <1>6, <1>7 DEF Fetch, marketVars

LEMMA BaseIngest ==
  ASSUME BaseInv, IngestQuote \/ IngestDailyBars \/ Backfill
  PROVE  BaseInv'
<1>1. CASE IngestQuote
  <2> USE DEF BaseInv, OpenLater
  <2>1. PreviousClose \in Int /\ close[day] \in Int
    BY <1>1, PreviousCloseType DEF IngestQuote, TypeOK
  <2>2. quote' \in [day : Sessions \cup {0}, price : Int, prev : Int]
    BY <1>1, <2>1, LedgerAssumption DEF IngestQuote, TypeOK
  <2>3. Finished' = Finished
    BY <1>1 DEF IngestQuote, marketVars, Finished
  <2>4. TypeOK'
    BY <1>1, <2>2 DEF IngestQuote, marketVars, barVars, TypeOK
  <2>5. NoForesight'
    BY <1>1, <2>3 DEF IngestQuote, marketVars, barVars, NoForesight
  <2> QED BY <1>1, <2>4, <2>5 DEF IngestQuote, marketVars
<1>2. CASE IngestDailyBars
  <2> DEFINE some == {d \in Finished : DateOf[d] > DateOf[day] - ReconcileDays}
  <2>1. Fetch(some) /\ quote' \in {quote, NoQuote} /\ some \in SUBSET Finished
    BY <1>2 DEF IngestDailyBars
  <2> HIDE DEF some
  <2> QED BY <2>1, FetchTypes
<1>3. CASE Backfill
  BY <1>3, FetchTypes DEF Backfill
<1> QED BY <1>1, <1>2, <1>3

\* BaseInv is kept by predictions: while the market is open, the last session is
\* an earlier one.
LEMMA BasePredict ==
  ASSUME BaseInv, NEW horizon \in Horizons, Predict(horizon)
  PROVE  BaseInv'
<1> USE DEF BaseInv, OpenLater
<1> DEFINE p == [horizon |-> horizon, made |-> day, late |-> closed,
                 target |-> day + SessionsTo[horizon], reference |-> ReferencePrice(horizon)]
<1>1. /\ ledger' = ledger \cup {p}
      /\ UNCHANGED <<marketVars, barVars, quote, outcomes>>
      /\ stored \cap Finished # {}
  BY DEF Predict
<1>2. day + SessionsTo[horizon] \in Sessions
  <2>1. SessionsTo[horizon] \in Nat /\ LastDay \in Nat
    BY LedgerAssumption
  <2>2. day \in 1..LastDay
    BY DEF TypeOK, Sessions
  <2>3. day + SessionsTo[horizon] <= LastDay
    BY DEF Predict
  <2> HIDE DEF p
  <2> QED BY <2>1, <2>2, <2>3 DEF Sessions
<1>3. p \in Predictions
  BY <1>1, <1>2, ReferenceParts DEF Predictions, TypeOK
<1>4. ~p.late => p.reference.anchor < p.made
  BY <1>1, ReferenceParts, LastSessionParts, FinishedParts
<1> HIDE DEF p
<1>5. ledger' \subseteq Predictions /\ outcomes' \subseteq [of : ledger', actual : Int, from : Sessions, to : Sessions]
  BY <1>1, <1>3 DEF TypeOK
<1>6. TypeOK'
  BY <1>1, <1>5 DEF TypeOK, marketVars, barVars
<1>7. Finished' = Finished
  BY <1>1 DEF marketVars, Finished
<1>8. NoForesight'
  BY <1>1, <1>4, <1>7 DEF NoForesight, marketVars, barVars
<1> QED BY <1>1, <1>6, <1>8 DEF marketVars

\* BaseInv is kept by settlement.
LEMMA BaseSettle ==
  ASSUME BaseInv, Settle
  PROVE  BaseInv'
<1> USE DEF BaseInv, OpenLater
<1>1. \A p \in ledger : /\ bars[p.target] - ReferenceNow(p) \in Int
                       /\ fetched[p.reference.anchor] \in Sessions
                       /\ fetched[p.target] \in Sessions
  BY DEF TypeOK, Predictions, References, ReferenceNow
<1>2. outcomes' \subseteq [of : ledger, actual : Int, from : Sessions, to : Sessions]
  BY <1>1 DEF Settle, Batches, Due, TypeOK
<1>3. TypeOK'
  BY <1>2 DEF Settle, TypeOK, marketVars, barVars
<1>4. Finished' = Finished
  BY DEF Settle, marketVars, Finished
<1>5. NoForesight'
  BY <1>4 DEF Settle, NoForesight, marketVars, barVars
<1> QED BY <1>3, <1>5 DEF Settle, marketVars

\* One step keeps BaseInv.
LEMMA BaseNext == BaseInv /\ [Next]_vars => BaseInv'
<1> SUFFICES ASSUME BaseInv, [Next]_vars PROVE BaseInv'
  OBVIOUS
<1>1. CASE UNCHANGED vars
  BY <1>1 DEF vars, marketVars, barVars, BaseInv, TypeOK, OpenLater, NoForesight, Finished
<1>2. CASE Next
  BY <1>2, BaseMarket, BaseIngest, BasePredict, BaseSettle DEF Next
<1> QED BY <1>1, <1>2

LEMMA BaseInvariance == Spec => []BaseInv
BY BaseInit, BaseNext, PTL DEF Spec

\* TypeOK for any calendar, moves, cuts and horizons.
THEOREM TypeCorrect == Spec => []TypeOK
BY BaseInvariance, PTL DEF BaseInv

\* NoForesight ("未来数据进入了 point-in-time 视图。这是 bug", features/pit.py:45): for any
\* calendar, only closes that have passed are stored, and no prediction made during
\* a session is anchored to that session.
THEOREM Foresight == Spec => []NoForesight
BY BaseInvariance, PTL DEF BaseInv

-----------------------------------------------------------------------------
(***************************************************************************)
(* What an outcome is.                                                     *)
(***************************************************************************)

\* The close of a session with all cuts up to it added back.
Whole(d) == close[d] + cuts[d]

\* A stored bar is on the basis of the session of its last fetch.
OnBasis ==
  \A d \in stored : /\ fetched[d] \in 1..day
                   /\ bars[d] = Whole(d) - cuts[fetched[d]]

\* A fetch that wrote a bar wrote every earlier bar of its window, too.
FetchedTogether ==
  \A a, d \in stored :
    a <= d /\ DateOf[a] > DateOf[fetched[d]] - ReconcileDays => fetched[a] = fetched[d]

\* The previous close of the quote is that of the session before, on its basis.
QuoteKnown ==
  quote.day # 0 =>
    /\ quote.day \in 2..day
    /\ quote.prev = close[quote.day - 1] - (cuts[quote.day] - cuts[quote.day - 1])

\* A reference stands to its anchor as its raw price stands to the anchor's close,
\* all cuts counted, and the anchor does not lie after the target.
ReferencesExact ==
  \A p \in ledger :
    /\ p.reference.anchor \in stored
    /\ p.reference.anchor <= p.target
    /\ p.reference.of \in 1..day
    /\ Aligned(p) =>
         p.reference.basis - p.reference.anchor_close =
           p.reference.worth + cuts[p.reference.of] - Whole(p.reference.anchor)

\* An outcome is of a target that has closed, and of fetches of the past.
OutcomesFinished ==
  \A o \in outcomes :
    /\ o.of.target \in Finished
    /\ o.from \in 1..day /\ o.to \in 1..day
    /\ DateOf[o.of.reference.anchor] > DateOf[o.to] - ReconcileDays => o.from = o.to

ExactInv == /\ BaseInv /\ OnBasis /\ FetchedTogether /\ QuoteKnown /\ ReferencesExact
            /\ OutcomesFinished /\ SettledRight

\* The past of the market does not change.
PastKept ==
  /\ \A d \in Finished : d \in Finished' /\ close'[d] = close[d] /\ cuts'[d] = cuts[d]
  /\ \A d \in 1..day : d \in 1..day' /\ cuts'[d] = cuts[d]

\* Every step keeps the past.
LEMMA MarketKeepsPast ==
  ASSUME BaseInv, Open \/ Close
  PROVE  PastKept
<1>1. day \in Int /\ 1 <= day /\ day <= LastDay /\ LastDay \in Nat
  BY LedgerAssumption DEF BaseInv, TypeOK, Sessions
<1>2. CASE Open
  <2>1. \A d \in 1..day : cuts'[d] = cuts[d]
    BY <1>1, <1>2 DEF Open, BaseInv, TypeOK, Sessions
  <2> QED BY <1>1, <1>2, <2>1 DEF Open, PastKept, Finished
<1>3. CASE Close
  <2>1. \A d \in Finished : d \in 1..(day - 1) /\ d \in Sessions /\ d # day
    BY <1>1, <1>3 DEF Close, Finished, Sessions
  <2>2. \A d \in Finished : close'[d] = close[d]
    BY <1>3, <2>1 DEF Close, BaseInv, TypeOK
  <2>3. \A d \in Finished : d \in Finished'
    BY <1>1, <1>3 DEF Close, Finished
  <2> QED BY <1>3, <2>2, <2>3 DEF Close, PastKept
<1> QED BY <1>2, <1>3

\* ExactInv is kept by the market.
LEMMA ExactMarket ==
  ASSUME ExactInv, Open \/ Close
  PROVE  ExactInv'
<1>1. PastKept /\ BaseInv'
  BY MarketKeepsPast, BaseMarket DEF ExactInv
<1>2. UNCHANGED <<stored, bars, fetched, quote, ledger, outcomes>>
  BY DEF Open, Close, barVars
<1>3. \A d \in Finished : Whole(d)' = Whole(d)
  BY <1>1 DEF PastKept, Whole
<1>4. stored \subseteq Finished
  BY DEF ExactInv, BaseInv, NoForesight
<1>5. OnBasis' /\ FetchedTogether'
  <2>1. \A d \in stored : fetched[d] \in 1..day' /\ cuts'[fetched[d]] = cuts[fetched[d]]
    BY <1>1 DEF ExactInv, OnBasis, PastKept
  <2> QED BY <1>2, <1>3, <1>4, <2>1 DEF ExactInv, OnBasis, FetchedTogether
<1>6. QuoteKnown'
  <2> SUFFICES ASSUME quote.day # 0
               PROVE  /\ quote.day \in 2..day'
                      /\ quote.prev = close'[quote.day - 1] - (cuts'[quote.day] - cuts'[quote.day - 1])
    BY <1>2 DEF QuoteKnown
  <2>1. quote.day \in 2..day /\ day \in Int
    BY LedgerAssumption DEF ExactInv, QuoteKnown, BaseInv, TypeOK, Sessions
  <2>2. quote.day \in 1..day /\ quote.day - 1 \in 1..(day - 1)
    BY <2>1
  <2>3. quote.day - 1 \in Finished
    BY <2>2, FinishedParts DEF ExactInv, BaseInv
  <2>4. day' \in Int /\ quote.day \in 1..day'
    <3>1. day' \in Int
      BY <1>1, CalendarBounds DEF BaseInv, TypeOK, Sessions
    <3> QED BY <1>1, <2>2, <3>1 DEF PastKept
  <2>5. quote.day \in 2..day'
    BY <2>1, <2>4
  <2> QED BY <1>1, <2>2, <2>3, <2>5 DEF PastKept, ExactInv, QuoteKnown
<1>7. ReferencesExact'
  <2> SUFFICES ASSUME NEW p \in ledger
               PROVE  /\ p.reference.anchor \in stored
                      /\ p.reference.anchor <= p.target
                      /\ p.reference.of \in 1..day'
                      /\ Aligned(p) =>
                           p.reference.basis - p.reference.anchor_close =
                             p.reference.worth + cuts'[p.reference.of] - Whole(p.reference.anchor)'
    BY <1>2 DEF ReferencesExact, Aligned
  <2>1. p.reference.anchor \in stored /\ p.reference.of \in 1..day
    BY DEF ExactInv, ReferencesExact
  <2>2. cuts'[p.reference.of] = cuts[p.reference.of] /\ p.reference.of \in 1..day'
    BY <1>1, <2>1 DEF PastKept
  <2>3. Whole(p.reference.anchor)' = Whole(p.reference.anchor)
    BY <1>3, <1>4, <2>1
  <2> QED BY <2>1, <2>2, <2>3 DEF ExactInv, ReferencesExact
<1>8. OutcomesFinished'
  BY <1>1, <1>2 DEF ExactInv, OutcomesFinished, PastKept
<1>9. SettledRight'
  <2> SUFFICES ASSUME NEW o \in outcomes, Aligned(o.of)
               PROVE  o.actual = TrueReturn(o.of)' - (cuts'[o.to] - cuts'[o.from])
    BY <1>2 DEF SettledRight, Aligned
  <2>1. /\ o.of.target \in Finished /\ o.of \in ledger
        /\ cuts'[o.to] = cuts[o.to] /\ cuts'[o.from] = cuts[o.from]
    BY <1>1 DEF ExactInv, OutcomesFinished, BaseInv, TypeOK, PastKept
  <2>2. o.of.reference.of \in 1..day
    BY <2>1 DEF ExactInv, ReferencesExact
  <2>3. TrueReturn(o.of)' = TrueReturn(o.of)
    BY <1>1, <2>1, <2>2 DEF PastKept, TrueReturn, Adjusted
  <2> QED BY <2>1, <2>3 DEF ExactInv, SettledRight
<1> QED BY <1>1, <1>5, <1>6, <1>7, <1>8, <1>9 DEF ExactInv

\* ExactInv is kept by quotes: they come with the close of the session before.
LEMMA ExactQuote ==
  ASSUME ExactInv, IngestQuote
  PROVE  ExactInv'
<1>1. BaseInv'
  BY BaseIngest DEF ExactInv
<1>2. UNCHANGED <<day, closed, close, cuts, stored, bars, fetched, ledger, outcomes>>
  BY DEF IngestQuote, marketVars, barVars
<1>3. QuoteKnown'
  <2>1. day > 1 /\ day \in Int /\ quote'.day = day /\ quote'.prev = PreviousClose
    BY LedgerAssumption DEF IngestQuote, ExactInv, BaseInv, TypeOK, Sessions
  <2>2. day \in 2..day
    BY <2>1
  <2> QED BY <1>2, <2>1, <2>2 DEF QuoteKnown, PreviousClose, Adjusted
<1>4. Finished' = Finished
  BY <1>2 DEF Finished
<1>5. /\ OnBasis' /\ FetchedTogether' /\ ReferencesExact' /\ OutcomesFinished' /\ SettledRight'
  BY <1>2, <1>4 DEF ExactInv, OnBasis, FetchedTogether, ReferencesExact, OutcomesFinished, SettledRight,
     Aligned, TrueReturn, Adjusted, Whole
<1> QED BY <1>1, <1>3, <1>5 DEF ExactInv

\* ExactInv is kept by a fetch of the closed sessions of any window.
LEMMA ExactFetch ==
  ASSUME ExactInv, BaseInv', quote' \in {quote, NoQuote},
         NEW some \in SUBSET Finished, Fetch(some),
         \A a \in Finished : \A d \in some : d <= a => a \in some,
         \A a \in Finished : DateOf[a] > DateOf[day] - ReconcileDays => a \in some
  PROVE  ExactInv'
<1>1. UNCHANGED <<day, closed, close, cuts, ledger, outcomes>>
  BY DEF Fetch, marketVars
<1>2. /\ stored' \subseteq Finished /\ stored \subseteq stored' /\ stored' = stored \cup some
      /\ \A d \in Finished : d \in Sessions /\ d \in Int
      /\ day \in Sessions /\ day \in 1..day
  <2>1. /\ \A d \in Finished : d \in Sessions
        /\ day \in Sessions /\ Sessions \subseteq Int /\ \A d \in Sessions : 1 <= d
    <3>1. Sessions \subseteq Int /\ \A d \in Sessions : 1 <= d
      BY DEF Sessions
    <3> QED BY <3>1, FinishedParts DEF ExactInv, BaseInv, TypeOK
  <2>2. stored' \subseteq Finished /\ stored' = stored \cup some
    BY DEF ExactInv, BaseInv, NoForesight, Fetch
  <2>3. day \in 1..day
    BY <2>1
  <2> QED BY <2>1, <2>2, <2>3
<1>3. \A d \in some : fetched'[d] = day /\ bars'[d] = Adjusted(close[d], d, day)
  BY <1>2 DEF Fetch
<1>4. \A d \in stored' \ some : d \in stored /\ fetched'[d] = fetched[d] /\ bars'[d] = bars[d]
  BY <1>2 DEF Fetch
<1>5. OnBasis'
  <2>1. ASSUME NEW d \in some
        PROVE  fetched'[d] \in 1..day /\ bars'[d] = (close[d] + cuts[d]) - cuts[fetched'[d]]
    <3>1. close[d] \in Int /\ cuts[d] \in Int /\ cuts[day] \in Int
      BY <1>2, <2>1 DEF ExactInv, BaseInv, TypeOK
    <3> QED BY <1>2, <1>3, <3>1 DEF Adjusted
  <2>2. ASSUME NEW d \in stored' \ some
        PROVE  fetched'[d] \in 1..day /\ bars'[d] = (close[d] + cuts[d]) - cuts[fetched'[d]]
    <3>1. d \in stored /\ fetched'[d] = fetched[d] /\ bars'[d] = bars[d]
      BY <1>4
    <3>2. OnBasis
      BY DEF ExactInv
    <3>3. fetched[d] \in 1..day /\ bars[d] = (close[d] + cuts[d]) - cuts[fetched[d]]
      BY <3>1, <3>2 DEF OnBasis, Whole
    <3> QED BY <3>1, <3>3
  <2>3. day' = day /\ close' = close /\ cuts' = cuts
    BY <1>1
  <2> QED BY <2>1, <2>2, <2>3 DEF OnBasis, Whole
<1>6. FetchedTogether'
  <2> SUFFICES ASSUME NEW a \in stored', NEW d \in stored', a <= d,
                      DateOf[a] > DateOf[fetched'[d]] - ReconcileDays
               PROVE  fetched'[a] = fetched'[d]
    BY DEF FetchedTogether
  <2>1. CASE d \in some
    BY <1>2, <1>3, <2>1
  <2>2. CASE d \notin some
    <3>1. a \notin some
      BY <1>2, <2>2
    <3> QED BY <1>4, <2>2, <3>1 DEF ExactInv, FetchedTogether
  <2> QED BY <2>1, <2>2
<1>7. QuoteKnown'
  BY <1>1 DEF ExactInv, QuoteKnown, NoQuote
<1>8. Finished' = Finished
  BY <1>1 DEF Finished
<1>9. ReferencesExact'
  BY <1>1, <1>2 DEF ExactInv, ReferencesExact, Aligned, Whole
<1>10. OutcomesFinished' /\ SettledRight'
  BY <1>1, <1>8 DEF ExactInv, OutcomesFinished, SettledRight, Aligned, TrueReturn, Adjusted
<1> QED BY <1>5, <1>6, <1>7, <1>9, <1>10 DEF ExactInv

\* ExactInv is kept by ingestion.
LEMMA ExactIngest ==
  ASSUME ExactInv, IngestQuote \/ IngestDailyBars \/ Backfill
  PROVE  ExactInv'
<1>1. BaseInv'
  BY BaseIngest DEF ExactInv
<1>2. CASE IngestQuote
  BY <1>2, ExactQuote
<1>3. CASE IngestDailyBars
  <2> DEFINE some == {d \in Finished : DateOf[d] > DateOf[day] - ReconcileDays}
  <2>1. \A d \in Finished : d \in Sessions /\ d \in Int /\ DateOf[d] \in Int
    BY FinishedParts, LedgerAssumption DEF ExactInv, BaseInv, Sessions
  <2>2. day \in Sessions /\ DateOf[day] \in Int /\ ReconcileDays \in Int
    BY LedgerAssumption DEF ExactInv, BaseInv, TypeOK
  <2>3. ASSUME NEW a \in Finished, NEW d \in some, d <= a
        PROVE  a \in some
    <3>1. DateOf[d] <= DateOf[a]
      BY <2>1, <2>3, LedgerAssumption
    <3> QED BY <2>1, <2>2, <3>1
  <2>4. /\ Fetch(some) /\ quote' \in {quote, NoQuote} /\ some \in SUBSET Finished
        /\ \A a \in Finished : DateOf[a] > DateOf[day] - ReconcileDays => a \in some
    BY <1>3 DEF IngestDailyBars
  <2> HIDE DEF some
  <2> QED BY <1>1, <2>3, <2>4, ExactFetch
<1>4. CASE Backfill
  BY <1>1, <1>4, ExactFetch DEF Backfill
<1> QED BY <1>2, <1>3, <1>4

\* A reference is exact when it is made.
LEMMA ReferenceExact ==
  ASSUME ExactInv, stored \cap Finished # {}, NEW horizon \in Horizons,
         NEW r, r = ReferencePrice(horizon),
         r.source = "quote" => r.of = r.anchor + 1
  PROVE  r.basis - r.anchor_close = r.worth + cuts[r.of] - Whole(r.anchor)
<1>1. LastSession \in Sessions /\ LastSession \in Int
  BY LastSessionParts, FinishedParts, LedgerAssumption DEF ExactInv, BaseInv, Sessions
<1>2. bars[LastSession] \in Int /\ close[LastSession] \in Int /\ cuts[LastSession] \in Int
  BY <1>1 DEF ExactInv, BaseInv, TypeOK
<1>3. CASE r = FromLastClose
  <2>1. /\ r.basis = bars[LastSession] /\ r.anchor_close = bars[LastSession]
        /\ r.worth = close[LastSession] /\ r.of = LastSession /\ r.anchor = LastSession
    BY <1>3 DEF FromLastClose
  <2> QED BY <1>2, <2>1 DEF Whole
<1>4. CASE r = FromQuote /\ quote.day # 0
  <2>1. /\ r.basis = quote.price + (bars[LastSession] - quote.prev)
        /\ r.anchor_close = bars[LastSession] /\ r.source = "quote"
        /\ r.worth = quote.price /\ r.of = quote.day /\ r.anchor = LastSession
    BY <1>4 DEF FromQuote
  <2>2. quote.day = LastSession + 1
    BY <2>1
  <2>3. quote.prev = close[LastSession] - (cuts[quote.day] - cuts[LastSession])
    <3>1. quote.day - 1 = LastSession
      BY <1>1, <2>2
    <3> QED BY <1>4, <3>1 DEF ExactInv, QuoteKnown
  <2>4. quote.price \in Int /\ cuts[quote.day] \in Int
    BY <1>4 DEF ExactInv, BaseInv, TypeOK
  <2> QED BY <1>2, <2>1, <2>3, <2>4 DEF Whole
<1> QED BY <1>3, <1>4 DEF ReferencePrice

\* ExactInv is kept by predictions.
LEMMA ExactPredict ==
  ASSUME ExactInv, NEW horizon \in Horizons, Predict(horizon)
  PROVE  ExactInv'
<1> DEFINE p == [horizon |-> horizon, made |-> day, late |-> closed,
                 target |-> day + SessionsTo[horizon], reference |-> ReferencePrice(horizon)]
<1>1. /\ ledger' = ledger \cup {p}
      /\ UNCHANGED <<day, closed, close, cuts, stored, bars, fetched, quote, outcomes>>
      /\ stored \cap Finished # {}
  BY DEF Predict, marketVars, barVars
<1>2. BaseInv'
  BY BasePredict DEF ExactInv
<1>3. p.reference.anchor \in stored /\ p.reference.anchor <= p.target
  <2>1. /\ LastSession \in stored \cap Finished
        /\ ReferencePrice(horizon).anchor = LastSession
    BY <1>1, ReferenceParts, LastSessionParts DEF ExactInv, BaseInv
  <2>2. /\ LastSession \in Int /\ LastSession <= day
        /\ day \in Int /\ SessionsTo[horizon] \in Nat
    <3>1. day \in Sessions /\ LastSession \in Sessions /\ LastSession <= day
      BY <2>1, FinishedParts DEF ExactInv, BaseInv, TypeOK
    <3> QED BY <3>1, CalendarBounds DEF Sessions
  <2> QED BY <2>1, <2>2
<1>4. p.reference.of \in 1..day
  <2>1. LastSession \in 1..day
    BY <1>1, LastSessionParts, FinishedParts DEF ExactInv, BaseInv
  <2>2. quote.day # 0 => quote.day \in 1..day
    BY LedgerAssumption DEF ExactInv, QuoteKnown, BaseInv, TypeOK, Sessions
  <2> QED BY <2>1, <2>2 DEF ReferencePrice, FromLastClose, FromQuote
<1>5. Aligned(p) =>
        p.reference.basis - p.reference.anchor_close =
          p.reference.worth + cuts[p.reference.of] - Whole(p.reference.anchor)
  BY <1>1, ReferenceExact DEF Aligned
<1> HIDE DEF p
<1>6. ReferencesExact'
  BY <1>1, <1>3, <1>4, <1>5 DEF ExactInv, ReferencesExact, Aligned, Whole
<1>7. Finished' = Finished
  BY <1>1 DEF Finished
<1>8. OnBasis' /\ FetchedTogether' /\ QuoteKnown' /\ OutcomesFinished' /\ SettledRight'
  BY <1>1, <1>7 DEF ExactInv, OnBasis, FetchedTogether, QuoteKnown, OutcomesFinished, SettledRight,
     Aligned, TrueReturn, Adjusted, Whole
<1> QED BY <1>2, <1>6, <1>8 DEF ExactInv

\* ExactInv is kept by settlement: anchor and target are on one basis.
LEMMA ExactSettle ==
  ASSUME ExactInv, Settle
  PROVE  ExactInv'
<1>1. BaseInv'
  BY BaseSettle DEF ExactInv
<1>2. UNCHANGED <<day, closed, close, cuts, stored, bars, fetched, quote, ledger>>
  BY DEF Settle, marketVars, barVars
<1>3. Finished' = Finished
  BY <1>2 DEF Finished
<1>4. ASSUME NEW o \in outcomes', o \notin outcomes
      PROVE  \E q \in Due : /\ q.target \in stored
                           /\ o.of = q /\ o.actual = bars[q.target] - ReferenceNow(q)
                           /\ o.from = fetched[q.reference.anchor] /\ o.to = fetched[q.target]
  BY <1>4 DEF Settle, Batches
<1>5. ASSUME NEW q \in ledger, q.target \in stored
      PROVE  /\ fetched[q.reference.anchor] \in 1..day /\ fetched[q.target] \in 1..day
             /\ DateOf[q.reference.anchor] > DateOf[fetched[q.target]] - ReconcileDays
                  => fetched[q.reference.anchor] = fetched[q.target]
  BY <1>5 DEF ExactInv, ReferencesExact, OnBasis, FetchedTogether
<1>6. OutcomesFinished'
  <2> SUFFICES ASSUME NEW o \in outcomes'
               PROVE  /\ o.of.target \in Finished
                      /\ o.from \in 1..day /\ o.to \in 1..day
                      /\ DateOf[o.of.reference.anchor] > DateOf[o.to] - ReconcileDays
                           => o.from = o.to
    BY <1>2, <1>3 DEF OutcomesFinished
  <2>1. CASE o \in outcomes
    BY <2>1 DEF ExactInv, OutcomesFinished
  <2>2. CASE o \notin outcomes
    BY <2>2, <1>4, <1>5 DEF Due
  <2> QED BY <2>1, <2>2
<1>7. ASSUME NEW q \in ledger, q.target \in stored, Aligned(q)
      PROVE  bars[q.target] - ReferenceNow(q) =
               TrueReturn(q) - (cuts[fetched[q.target]] - cuts[fetched[q.reference.anchor]])
  <2> DEFINE r == q.reference
  <2>1. /\ r.basis \in Int /\ r.anchor_close \in Int /\ r.worth \in Int
        /\ r.anchor \in Sessions /\ r.of \in Sessions /\ q.target \in Sessions
    BY DEF ExactInv, BaseInv, TypeOK, Predictions, References
  <2>2. /\ close[q.target] \in Int /\ close[r.anchor] \in Int
        /\ cuts[q.target] \in Int /\ cuts[r.anchor] \in Int /\ cuts[r.of] \in Int
        /\ cuts[fetched[q.target]] \in Int /\ cuts[fetched[r.anchor]] \in Int
    BY <2>1 DEF ExactInv, BaseInv, TypeOK
  <2>3. r.anchor \in stored /\ r.basis - r.anchor_close = r.worth + cuts[r.of] - Whole(r.anchor)
    BY <1>7 DEF ExactInv, ReferencesExact
  <2>4. /\ bars[q.target] = Whole(q.target) - cuts[fetched[q.target]]
        /\ bars[r.anchor] = Whole(r.anchor) - cuts[fetched[r.anchor]]
    BY <1>7, <2>3 DEF ExactInv, OnBasis
  <2>5. ReferenceNow(q) = r.basis + (bars[r.anchor] - r.anchor_close)
    BY DEF ReferenceNow
  <2>6. TrueReturn(q) = close[q.target] - (r.worth - (cuts[q.target] - cuts[r.of]))
    BY DEF TrueReturn, Adjusted
  <2> HIDE DEF r
  <2>7. bars[q.target] - ReferenceNow(q) =
          TrueReturn(q) - (cuts[fetched[q.target]] - cuts[fetched[r.anchor]])
    BY <2>1, <2>2, <2>3, <2>4, <2>5, <2>6 DEF Whole
  <2> QED BY <2>7 DEF r
<1>8. SettledRight'
  <2> SUFFICES ASSUME NEW o \in outcomes', Aligned(o.of)
               PROVE  o.actual = TrueReturn(o.of) - (cuts[o.to] - cuts[o.from])
    BY <1>2 DEF SettledRight, Aligned, TrueReturn, Adjusted
  <2>1. CASE o \in outcomes
    BY <2>1 DEF ExactInv, SettledRight
  <2>2. CASE o \notin outcomes
    BY <2>2, <1>4, <1>7 DEF Due
  <2> QED BY <2>1, <2>2
<1>9. OnBasis' /\ FetchedTogether' /\ QuoteKnown' /\ ReferencesExact'
  BY <1>2 DEF ExactInv, OnBasis, FetchedTogether, QuoteKnown, ReferencesExact, Aligned, Whole
<1> QED BY <1>1, <1>6, <1>8, <1>9 DEF ExactInv

\* One step keeps ExactInv.
LEMMA ExactNext == ExactInv /\ [Next]_vars => ExactInv'
<1> SUFFICES ASSUME ExactInv, [Next]_vars PROVE ExactInv'
  OBVIOUS
<1>1. CASE UNCHANGED vars
  <2>1. UNCHANGED <<day, closed, close, cuts, stored, bars, fetched, quote, ledger, outcomes>>
    BY <1>1 DEF vars, marketVars, barVars
  <2>2. BaseInv'
    BY <1>1, BaseNext DEF ExactInv
  <2> QED BY <2>1, <2>2 DEF ExactInv, OnBasis, FetchedTogether, QuoteKnown, ReferencesExact,
         OutcomesFinished, SettledRight, Aligned, TrueReturn, Adjusted, Whole, Finished
<1>2. CASE Next
  BY <1>2, ExactMarket, ExactIngest, ExactPredict, ExactSettle DEF Next
<1> QED BY <1>1, <1>2

\* ExactInv holds at first: one bar, no quote, no prediction.
LEMMA ExactInit == Init => ExactInv
<1> SUFFICES ASSUME Init PROVE ExactInv
  OBVIOUS
<1>1. BaseInv /\ 1 \in Sessions
  BY BaseInit, CalendarBounds DEF Sessions
<1>2. OnBasis /\ FetchedTogether
  BY <1>1 DEF Init, OnBasis, FetchedTogether, Whole
<1> QED BY <1>1, <1>2 DEF Init, ExactInv, QuoteKnown, NoQuote, ReferencesExact,
     OutcomesFinished, SettledRight

LEMMA ExactInvariance == Spec => []ExactInv
BY ExactInit, ExactNext, PTL DEF Spec

\* SettledRight (settlement.py:12) for any calendar, window, moves, cuts and horizons:
\* an outcome is off by the cuts between the last fetches of its two bars, and by
\* nothing else.
THEOREM OutcomesAreRight == Spec => []SettledRight
BY ExactInvariance, PTL DEF ExactInv

\* SettledInWindow: an outcome is the return of the stock when the last fetch of the
\* target's bar reached back to the anchor, whatever fetches were missed before.
THEOREM OutcomesInWindow == Spec => []SettledInWindow
<1>1. ExactInv => SettledInWindow
  <2> SUFFICES ASSUME ExactInv, NEW o \in outcomes, Aligned(o.of),
                      DateOf[o.of.reference.anchor] > DateOf[o.to] - ReconcileDays
               PROVE  o.actual = TrueReturn(o.of)
    BY DEF SettledInWindow
  <2>1. o.from = o.to
    BY DEF ExactInv, OutcomesFinished
  <2>2. o.actual = TrueReturn(o.of) - (cuts[o.to] - cuts[o.to])
    BY <2>1 DEF ExactInv, SettledRight
  <2>3. TrueReturn(o.of) \in Int /\ cuts[o.to] \in Int
    <3>1. o.of \in Predictions /\ o.to \in Sessions
      BY DEF ExactInv, BaseInv, TypeOK
    <3>2. o.of.target \in Sessions /\ o.of.reference.worth \in Int /\ o.of.reference.of \in Sessions
      BY <3>1 DEF Predictions, References
    <3> QED BY <3>1, <3>2 DEF TrueReturn, Adjusted, ExactInv, BaseInv, TypeOK
  <2> QED BY <2>2, <2>3
<1> QED BY <1>1, ExactInvariance, PTL

=============================================================================
