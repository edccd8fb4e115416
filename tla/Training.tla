------------------------------ MODULE Training ------------------------------
(***************************************************************************)
(* The training of one model version on one stock (services/prediction/    *)
(* training: samples, splits, labels, calibration, trainer) and the        *)
(* point-in-time panels it shares with inference (features/pit.py,         *)
(* panel.py, repository.py).                                               *)
(*                                                                         *)
(* Trading sessions are numbered from 1.  A session has three moments that *)
(* matter: its open, 09:45 and its close; a moment is a number, too.       *)
(* Prices are abstracted to the moment at which they are known, and to     *)
(* whether they are adjusted for what happened since.                      *)
(***************************************************************************)
EXTENDS Integers, FiniteSets, FiniteSetsExt

CONSTANTS
  Worlds,          \* the histories to train on, see Init
  NextSessions,    \* NEXT_5D_SESSIONS
  MinHistory,      \* history_requirements.min_completed_sessions
  Window,          \* feature_window_sessions
  Lookback,        \* the daily bars that inference loads
  DocumentDays,    \* event.document_lookback_days, in sessions
  EventDays,       \* the longest event window, in sessions
  DocumentLimit,   \* the documents that a replay takes along
  TestPart,        \* 1 / test_fraction
  MinTrain,        \* min_train_sessions
  FoldCount,       \* walk_forward_folds
  ValidLength,     \* validation_sessions
  MinFoldSamples,  \* a fold with fewer training samples is left out
  MinIsotonic,     \* MIN_ISOTONIC_SAMPLES
  Required         \* MIN_VALIDATION_PREDICTIONS of the horizon

\* What load_model_config and the feature configuration admit.
ConfigValid ==
  /\ {NextSessions, MinHistory, Window, TestPart, MinTrain, FoldCount, ValidLength,
      MinFoldSamples, MinIsotonic, Required, DocumentDays, DocumentLimit} \subseteq Nat \ {0}
  /\ Lookback \in Nat
  /\ Lookback > Window
  /\ EventDays \in 1..DocumentDays

ASSUME TrainingAssumption == ConfigValid

VARIABLES
  world,    \* what the database holds, and for which horizon a model is trained
  stage,    \* the next step of train_model
  samples,  \* the sessions with a sample
  dev,      \* the first and last session of the development part
  test,     \* and of the test part
  folds,    \* the folds still to do
  fitted,   \* history: what each fit has learnt from and is judged by
  oos,      \* the out-of-sample predictions, by session
  method,   \* the calibration method
  gate      \* the reasons against a release

vars == <<world, stage, samples, dev, test, folds, fitted, oos, method, gate>>

Horizons == {"today_close", "next_5d"}

NoPrice == [at |-> 0, adjusted |-> FALSE]

Open(t) == 3 * t
Cutoff0945(t) == 3 * t + 1
Close(t) == 3 * t + 2
SessionOf(moment) == moment \div 3

\* What a snapshot of the database holds: the sessions of the data, among them those of
\* the stock; documents and index bars of any moment; the sessions with minute bars, those
\* among them without the first ones, and those with a quote of the morning.
ASSUME WorldsAssumption ==
  \A w \in Worlds :
    /\ w.horizon \in Horizons
    /\ IsFiniteSet(w.sessions) /\ w.sessions \subseteq Nat \ {0}
    /\ w.bars \subseteq w.sessions
    /\ IsFiniteSet(w.bench) /\ w.bench \subseteq Nat
    /\ IsFiniteSet(w.documents) /\ w.documents \subseteq Nat \ {0}

-----------------------------------------------------------------------------
(***************************************************************************)
(* Panels: what is visible at a cutoff.                                    *)
(***************************************************************************)

\* The n largest elements of a set of numbers.
LastOf(n, S) == {x \in S : Cardinality({y \in S : y > x}) < n}

UpTo(S, limit) == {x \in S : x <= limit}

\* A daily bar is visible once its session has closed.
VisibleDaily(bars, cutoff) == {t \in bars : Close(t) <= cutoff}

\* Minute bars are visible once they are complete.
VisibleMinutes(bars, cutoff) == {t \in bars : Cutoff0945(t) <= cutoff}

\* Documents are visible once they are published, whenever they were observed.
VisibleDocuments(documents, cutoff) == UpTo(documents, cutoff)

\* PitPanel.build; minute bars of the session only.
Panel(cutoff, daily, bench, minute, documents, open) ==
  [cutoff    |-> cutoff,
   daily     |-> VisibleDaily(daily, cutoff),
   bench     |-> VisibleDaily(bench, cutoff),
   minute    |-> VisibleMinutes(minute, cutoff) \cap {SessionOf(cutoff)},
   documents |-> VisibleDocuments(documents, cutoff),
   open      |-> open]

\* The last visible document (_hours_since_last_document), 0 without any.
LastDocument(panel) == Max({0} \cup panel.documents)

\* Defect: no room for the bar of a session that has not closed.
LoadedDailyWithoutMargin(bars, cutoff) == LastOf(Window, UpTo(bars, SessionOf(cutoff)))

\* load_daily_bars: the newest rows by date; the day's own bar may be among them
\* before the session has closed.
LoadedDaily(bars, cutoff) == LastOf(Lookback, UpTo(bars, SessionOf(cutoff)))

\* session_open of load_pit_panel: of the first minute bar that is there, or of the
\* quote, which is not adjusted.
ServedOpen(t) ==
  IF world.horizon = "next_5d" \/ t \notin world.minute \cup world.quoted THEN NoPrice
  ELSE [at       |-> IF t \in world.minute \cap world.late THEN Cutoff0945(t) ELSE Open(t),
        adjusted |-> t \in world.minute]

\* load_pit_panel, when the database holds the same rows.
Served(cutoff) ==
  Panel(cutoff, LoadedDaily(world.bars, cutoff), LoadedDaily(world.bench, cutoff),
        IF world.horizon = "today_close" THEN world.minute ELSE {},
        {d \in world.documents : d > cutoff - 3 * DocumentDays},
        ServedOpen(SessionOf(cutoff)))

\* training_cutoff_for.
CutoffFor(t) == IF world.horizon = "today_close" THEN Cutoff0945(t) ELSE Close(t)

\* The bars before t, and t itself for the model that sees the close.
VisibleBars(t) ==
  IF world.horizon = "today_close" THEN UpTo(world.bars, t - 1) ELSE UpTo(world.bars, t)

\* For the model of the day, the benchmark ends where the stock's bars do.
BenchCutoff(t) ==
  IF world.horizon = "today_close" THEN Max(UpTo(world.bars, t - 1)) ELSE t

\* session_open of _build_for_instrument: of the daily bar.
ReplayedOpen(t) ==
  IF world.horizon = "today_close" THEN [at |-> Open(t), adjusted |-> TRUE] ELSE NoPrice

\* The panel that _build_for_instrument replays for session t.
Replayed(t) ==
  Panel(CutoffFor(t), LastOf(Window, VisibleBars(t)),
        LastOf(Window, UpTo(world.bench, BenchCutoff(t))),
        IF world.horizon = "today_close" THEN world.minute ELSE {},
        LastOf(DocumentLimit, UpTo(world.documents, CutoffFor(t))),
        ReplayedOpen(t))

-----------------------------------------------------------------------------
(***************************************************************************)
(* Labels and samples.                                                     *)
(***************************************************************************)

\* horizon_embargo_sessions.
Embargo(horizon) == IF horizon = "next_5d" THEN NextSessions ELSE 1

\* target_session_for: sessions are counted by the calendar, not by the bars.
Target(t) == IF world.horizon = "next_5d" THEN t + NextSessions ELSE t

\* MembershipIndex.is_member, both ends included.
Member(t) == \E p \in world.periods : p[1] <= t /\ t <= p[2]

\* A member with enough history whose label has come true.
Eligible(t) ==
  /\ Member(t)
  /\ Cardinality(VisibleBars(t)) >= MinHistory
  /\ Target(t) \in world.bars

Init ==
  /\ world \in Worlds
  /\ stage = "replay"
  /\ samples = {}
  /\ dev = <<0, 0>>
  /\ test = <<0, 0>>
  /\ folds = {}
  /\ fitted = {}
  /\ oos = {}
  /\ method = "none"
  /\ gate = {"untrained"}

\* build_samples; without any, train_model raises.
BuildSamples ==
  /\ stage = "replay"
  /\ samples' = {t \in world.bars : Eligible(t)}
  /\ stage' = IF samples' = {} THEN "failed" ELSE "split"
  /\ UNCHANGED <<world, dev, test, folds, fitted, oos, method, gate>>

-----------------------------------------------------------------------------
(***************************************************************************)
(* Splits.                                                                 *)
(***************************************************************************)

\* _in_range.
SamplesIn(range) == {t \in samples : range[1] <= t /\ t <= range[2]}

\* The sessions of the data between the first and the last sample.
Usable == {t \in world.sessions : Min(samples) <= t /\ t <= Max(samples)}

\* The k-th smallest, from 0.
Nth(S, k) == CHOOSE x \in S : Cardinality(UpTo(S, x - 1)) = k

\* assert_time_ordered: enough sessions of S between the two ranges.
TimeOrdered(earlier, later, S) ==
  /\ earlier[2] < later[1]
  /\ Cardinality({t \in S : earlier[2] < t /\ t < later[1]}) >= Embargo(world.horizon)

\* Development part, gap and test part; too little of either raises.
Split ==
  /\ stage = "split"
  /\ LET total == Cardinality(Usable)
         testLength == Max({1, total \div TestPart})
         devLength == total - testLength - Embargo(world.horizon) IN
       IF devLength < MinTrain
       THEN stage' = "failed" /\ UNCHANGED <<dev, test>>
       ELSE /\ dev' = <<Nth(Usable, 0), Nth(Usable, devLength - 1)>>
            /\ test' = <<Nth(Usable, devLength + Embargo(world.horizon)), Max(Usable)>>
            /\ stage' = IF \/ ~TimeOrdered(dev', test', Usable)
                          \/ {} \in {SamplesIn(dev'), SamplesIn(test')}
                       THEN "failed" ELSE "fold"
  /\ UNCHANGED <<world, samples, folds, fitted, oos, method, gate>>

\* Defect: the validation windows may overlap.
NeededForOneFold(embargo) == MinTrain + ValidLength + embargo

\* make_walk_forward_folds asks for as many sessions as disjoint windows take.
Needed(embargo) == MinTrain + FoldCount * (ValidLength + embargo)

FoldStep(total, embargo) ==
  IF FoldCount > 1
  THEN (total - MinTrain - embargo - ValidLength) \div (FoldCount - 1) ELSE 0

\* The i-th fold of total sessions, by position: training up to the first number,
\* validation from the second to the third.
FoldAt(i, total, embargo) ==
  LET end == MinTrain - 1 + i * FoldStep(total, embargo) IN
    <<end, end + 1 + embargo, end + embargo + ValidLength>>

DevSessions == {t \in Usable : dev[1] <= t /\ t <= dev[2]}

\* The folds that fit, as ranges of sessions.
WalkForward(embargo) ==
  LET total == Cardinality(DevSessions)
      fold(i) == FoldAt(i, total, embargo) IN
    {[index |-> i, train |-> <<dev[1], Nth(DevSessions, fold(i)[1])>>,
      valid |-> <<Nth(DevSessions, fold(i)[2]), Nth(DevSessions, fold(i)[3])>>] :
       i \in {j \in 0..FoldCount - 1 : fold(j)[3] < total}}

MakeFolds ==
  /\ stage = "fold"
  /\ LET made == WalkForward(Embargo(world.horizon)) IN
       IF \/ Cardinality(DevSessions) < Needed(Embargo(world.horizon))
          \/ \E f \in made : ~TimeOrdered(f.train, f.valid, DevSessions)
       THEN stage' = "failed" /\ UNCHANGED folds
       ELSE folds' = made /\ stage' = "fit"
  /\ UNCHANGED <<world, samples, dev, test, fitted, oos, method, gate>>

-----------------------------------------------------------------------------
(***************************************************************************)
(* Fits.                                                                   *)
(***************************************************************************)

NextFold == CHOOSE f \in folds : \A g \in folds : f.index <= g.index

\* One round of the loop over the folds: four boosters are fitted on the training
\* samples and predict the validation samples.
FitFold ==
  /\ stage = "fit"
  /\ folds # {}
  /\ LET train == SamplesIn(NextFold.train)
         valid == SamplesIn(NextFold.valid) IN
       IF Cardinality(train) < MinFoldSamples \/ valid = {}
       THEN UNCHANGED <<fitted, oos>>
       ELSE /\ fitted' = fitted \cup {[fit |-> "fold", by |-> NextFold.index, from |-> train, on |-> valid]}
            /\ oos' = oos \cup {<<NextFold.index, t>> : t \in valid}
  /\ folds' = folds \ {NextFold}
  /\ UNCHANGED <<world, stage, samples, dev, test, method, gate>>

\* fit_calibrator: on the out-of-sample predictions only; with one direction
\* among the outcomes there is nothing to calibrate.
Calibrate ==
  /\ stage = "fit"
  /\ folds = {}
  /\ IF oos = {} THEN stage' = "failed" /\ UNCHANGED <<method, fitted>>
     ELSE /\ \E oneDirection \in BOOLEAN :
               method' = IF oneDirection THEN "identity"
                         ELSE IF Cardinality(oos) < MinIsotonic THEN "platt" ELSE "isotonic"
          /\ fitted' = fitted \cup {[fit |-> "calibrator", by |-> 0,
                                     from |-> {p[2] : p \in oos}, on |-> SamplesIn(test)]}
          /\ stage' = "final"
  /\ UNCHANGED <<world, samples, dev, test, folds, oos, gate>>

\* Defect: the last fit takes all samples.
FinalSamplesAll == samples

\* The samples of the last fit of the boosters, of the normalizer, the reference
\* of the drift and the parameters of the baselines.
FinalSamples == SamplesIn(dev)

FitFinal ==
  /\ stage = "final"
  /\ fitted' = fitted \cup
       {[fit |-> "final", by |-> 0, from |-> FinalSamples, on |-> SamplesIn(test)]}
  /\ stage' = "release"
  /\ UNCHANGED <<world, samples, dev, test, folds, oos, method, gate>>

\* The release gate fails closed.
Reasons(leakFree, finite, compared, visible) ==
  {r \in {"leakage", "coverage", "metrics", "baselines", "interval"} :
     \/ r = "leakage" /\ ~leakFree
     \/ r = "coverage" /\ Cardinality(oos) < Required
     \/ r = "metrics" /\ ~finite
     \/ r = "baselines" /\ ~compared
     \/ r = "interval" /\ ~visible}

Release ==
  /\ stage = "release"
  /\ \E finite, compared, visible \in BOOLEAN :
       gate' = Reasons(world.leakFree, finite, compared, visible)
  /\ stage' = "done"
  /\ UNCHANGED <<world, samples, dev, test, folds, fitted, oos, method>>

Next ==
  BuildSamples \/ Split \/ MakeFolds \/ FitFold \/ Calibrate \/ FitFinal \/ Release

Spec == Init /\ [][Next]_vars

-----------------------------------------------------------------------------
(***************************************************************************)
(* Properties.                                                             *)
(***************************************************************************)

\* The documents of the longest event window.
EventDocuments(cutoff) == {d \in UpTo(world.documents, cutoff) : d > cutoff - 3 * EventDays}

\* "训练与线上共用同一份特征代码" (samples.py:3), and what that code sees of a sample is
\* what inference would have loaded at the same moment.  Suspensions, a missing index bar,
\* the unfinished bar of the day and the limits of both paths make no difference, but
\* for these cases: on the first day after a suspension the model of the day replays an
\* older index; more documents within an event window than a replay takes along; a last
\* document older than the look-back, which only a replay sees, against v1.yaml:292; the
\* open of a morning whose first minute bars are not all there.
ReplayIsServing ==
  \A t \in samples :
    LET replayed == Replayed(t)
        served == Served(CutoffFor(t)) IN
      /\ replayed.daily = LastOf(Window, served.daily)
      /\ replayed.minute = served.minute
      /\ world.horizon = "next_5d" \/ t - 1 \in world.bars
           => replayed.bench = LastOf(Window, served.bench)
      /\ Cardinality(EventDocuments(CutoffFor(t))) <= DocumentLimit
           => EventDocuments(CutoffFor(t)) \subseteq replayed.documents \cap served.documents
      /\ LastDocument(replayed) > CutoffFor(t) - 3 * DocumentDays
           => LastDocument(served) = LastDocument(replayed)
      /\ world.horizon = "next_5d" \/ t \in world.minute \ world.late
           => replayed.open = served.open

\* Nothing is judged on a session whose features were known before the labels of
\* all samples it was fitted on had come true: neither a fold on its validation
\* window, nor the calibrator or the final model on the test part.
NoLookAhead ==
  \A f \in fitted : \A s \in f.from, v \in f.on : Close(Target(s)) < CutoffFor(v)

\* A development part that is long enough gets every fold, and no sample is validated
\* twice: the coverage that the gate asks for is neither cut short nor inflated by
\* windows that overlap (config/models: disjoint windows of five folds).
ValidatedOnce ==
  /\ \A p, q \in oos : p[2] = q[2] => p = q
  /\ stage \in {"final", "release", "done"} =>
       Cardinality(WalkForward(Embargo(world.horizon))) = FoldCount

=============================================================================
