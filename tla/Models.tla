------------------------------- MODULE Models -------------------------------
(***************************************************************************)
(* The versions of one model, from the training that writes their          *)
(* artifacts to the predictions they serve: training/pipeline.py and       *)
(* cli.py, registry.py and scripts/rollback_model.sh, the caches of        *)
(* inference/loader.py, the batch of prediction_jobs.py, and the drift     *)
(* report that gates it.  Three processes take part: the training command, *)
(* operators who activate versions, and the worker.                        *)
(*                                                                         *)
(* A moment is a trading session.  The content of the feature set file is  *)
(* a number, and a checksum is the content itself.                         *)
(***************************************************************************)
EXTENDS Naturals, FiniteSets, FiniteSetsExt

CONSTANTS
  Versions,    \* versions in the order of created_at
  Symbols,     \* the tracked stocks
  Operators,   \* concurrent activations or rollbacks
  Lookback,    \* psi.lookback_sessions
  AtOnce,      \* bound: how many trainings, activations, batches, drift jobs may be under way
  LastMoment,  \* bound on the batches
  LastContent, \* bound: the feature set is edited in place so often
  BestLabels,  \* bound: the labels a validation may allow at best
  DriftLevels, \* bound: the levels of drift reports
  Degraded     \* bound: may the data of a stock be degraded?

ASSUME ModelsAssumption ==
  /\ Versions \subseteq Nat \ {0}
  /\ IsFiniteSet(Versions)
  /\ Lookback \in Nat
  /\ AtOnce \in Nat
  /\ LastMoment \in Nat \ {0}
  /\ LastContent \in Nat \ {0}
  /\ BestLabels \subseteq {"low", "medium", "high"}
  /\ DriftLevels \subseteq {"calm", "moved", "drifted", "blocking"}
  /\ Degraded \subseteq BOOLEAN

VARIABLES
  content,     \* the feature set file
  files,       \* the artifact directory of each version
  trained,     \* the content its samples were built with
  gate,        \* validation_metrics.release_gate.passed
  grade,       \* the best label its validation allows
  status,      \* model_versions.status
  training,    \* where the training command stands
  operation,   \* where each activation stands
  latest,      \* history: the version activated last, 0 if none
  clashed,     \* history: did another activation commit while that one was under way?
  seenContent, \* worker: the cached feature set, 0 if none
  bundles,     \* worker: the cached artifacts
  report,      \* drift report latest.json of the model key
  drift,       \* worker: where compute_feature_drift stands
  batch,       \* worker: where the batch stands
  now,         \* the next moment
  predictions, \* table predictions
  counted,     \* history: the stocks of each batch that it has counted as created
  aborted      \* history: the moments of the batches in which a statement failed

registryVars == <<files, trained, gate, grade, status, latest, clashed>>
workerVars == <<seenContent, bundles, drift, batch>>
ledgerVars == <<report, now, predictions, counted, aborted>>
vars == <<content, registryVars, training, operation, workerVars, ledgerVars>>

Grades == <<"low", "medium", "high">>
Rank(label) == CHOOSE n \in DOMAIN Grades : Grades[n] = label

\* max_psi: at most 0.10, 0.20, the block threshold, or above it.
Levels == {"calm", "moved", "drifted", "blocking"}

Idle == [stage |-> "idle"]

\* overtaken is history: another activation has been committed since the version of
\* the report was read.
NoReport == [of |-> 0, level |-> "none", overtaken |-> FALSE]

Init ==
  /\ content = 1
  /\ files = [v \in Versions |-> "none"]
  /\ trained = [v \in Versions |-> 0]
  /\ gate = [v \in Versions |-> FALSE]
  /\ grade = [v \in Versions |-> "low"]
  /\ status = [v \in Versions |-> "none"]
  /\ training = Idle
  /\ operation = [o \in Operators |-> Idle]
  /\ latest = 0
  /\ clashed = FALSE
  /\ seenContent = 0
  /\ bundles = {}
  /\ report = NoReport
  /\ drift = Idle
  /\ batch = Idle
  /\ now = 1
  /\ predictions = {}
  /\ counted = {}
  /\ aborted = {}

-----------------------------------------------------------------------------
(***************************************************************************)
(* Training: the directory first, then the row, in one transaction with an *)
(* activation if asked for.                                                *)
(***************************************************************************)

\* One more thing may be under way.
MayBegin ==
  Cardinality({o \in Operators : operation[o] # Idle})
    + Cardinality({i \in 1..3 : <<training, batch, drift>>[i] # Idle}) < AtOnce

Active == {v \in Versions : status[v] = "active"}

\* Defect: the versions active before stay so.
StatusWithoutRetiring(v, others) == [status EXCEPT ![v] = "active"]

StatusAfter(v, others) ==
  [w \in Versions |-> IF w = v THEN "active" ELSE IF w \in others THEN "retired" ELSE status[w]]

\* The commit of an activation of v that retires others: history is kept of what it
\* comes between.
Activated(v, others, alone) ==
  /\ status' = StatusAfter(v, others)
  /\ latest' = v
  /\ clashed' = ~alone
  /\ report' = [report EXCEPT !.overtaken = TRUE]
  /\ drift' = IF drift = Idle THEN drift ELSE [drift EXCEPT !.overtaken = TRUE]

\* The activations that are under way are no longer alone.
Disturbed == [o \in Operators |->
  IF operation[o] = Idle THEN Idle ELSE [operation[o] EXCEPT !.alone = FALSE]]

\* The rows that transactions other than that of o have written.
Locked(o) ==
  UNION {operation[p].others : p \in {q \in Operators \ {o} : operation[q].stage = "promoting"}}

\* Somebody edits the file of a feature set without a new version number.
EditContent ==
  /\ content < LastContent
  /\ content' = content + 1
  /\ UNCHANGED <<registryVars, training, operation, workerVars, ledgerVars>>

\* export_snapshot, build_samples and train_model, each version in its turn;
\* a directory that is there already is refused.
Train(v) ==
  /\ MayBegin
  /\ training = Idle
  /\ files[v] = "none"
  /\ \A w \in Versions : w < v => files[w] # "none"
  /\ files' = [files EXCEPT ![v] = "partial"]
  /\ trained' = [trained EXCEPT ![v] = content]
  /\ \E passed \in BOOLEAN, best \in BestLabels :
       /\ gate' = [gate EXCEPT ![v] = passed]
       /\ grade' = [grade EXCEPT ![v] = best]
  /\ training' = [stage |-> "writing", version |-> v]
  /\ UNCHANGED <<content, status, latest, clashed, operation, workerVars, ledgerVars>>

\* The last file, then read-only.
WriteRest ==
  /\ training.stage = "writing"
  /\ files' = [files EXCEPT ![training.version] = "complete"]
  /\ training' = [training EXCEPT !.stage = "writtenOut"]
  /\ UNCHANGED <<content, trained, gate, grade, status, latest, clashed, operation, workerVars, ledgerVars>>

\* Defect: the row is registered while files are still written.
MayRegisterEarly == training.stage \in {"writing", "writtenOut"}

MayRegister == training.stage = "writtenOut"

\* register_candidate and the commit of run_training.
Register ==
  /\ MayRegister
  /\ status' = [status EXCEPT ![training.version] = "candidate"]
  /\ training' = Idle
  /\ UNCHANGED <<content, files, trained, gate, grade, latest, clashed, operation, workerVars, ledgerVars>>

\* With --activate-passing the activation is part of the same transaction, which
\* waits for rows that others have written.
RegisterActivating ==
  /\ MayRegister
  /\ gate[training.version]
  /\ \A o \in Operators : operation[o].stage = "promoting" => operation[o].others \cap Active = {}
  /\ Activated(training.version, Active, TRUE)
  /\ training' = Idle
  /\ operation' = Disturbed
  /\ UNCHANGED <<content, files, trained, gate, grade, seenContent, bundles, batch, now,
                 predictions, counted, aborted>>

\* An exception or the end of the process: the directory stays as it is.
TrainingDies ==
  /\ training # Idle
  /\ training' = Idle
  /\ UNCHANGED <<content, registryVars, operation, workerVars, ledgerVars>>

-----------------------------------------------------------------------------
(***************************************************************************)
(* Activation.  Under READ COMMITTED the UPDATE that retires the others    *)
(* sees what is committed when it begins, waits for rows that another      *)
(* transaction has written, and leaves those out that are no longer active *)
(* then.                                                                   *)
(***************************************************************************)

\* Defect: any registered version may be activated.
MayActivateAny(v) == status[v] # "none"

\* activate, or the check of rollback_model.sh (which is right to skip the gate
\* only because nothing but activate makes a candidate anything else).
MayActivate(v) ==
  \/ status[v] # "none" /\ gate[v]
  \/ status[v] \in {"active", "retired"}

\* The check, and the snapshot of the UPDATE.
BeginActivation(o, v) ==
  /\ MayBegin
  /\ operation[o] = Idle
  /\ MayActivate(v)
  /\ operation' = [operation EXCEPT ![o] =
       [stage |-> "retiring", version |-> v, others |-> Active \ {v}, alone |-> TRUE]]
  /\ UNCHANGED <<content, registryVars, training, workerVars, ledgerVars>>

RetireOthers(o) ==
  /\ operation[o].stage = "retiring"
  /\ operation[o].others \cap Locked(o) = {}
  /\ operation' = [operation EXCEPT ![o].stage = "promoting", ![o].others = @ \cap Active]
  /\ UNCHANGED <<content, registryVars, training, workerVars, ledgerVars>>

CommitActivation(o) ==
  /\ operation[o].stage = "promoting"
  /\ operation[o].version \notin Locked(o)
  /\ Activated(operation[o].version, operation[o].others, operation[o].alone)
  /\ operation' = [Disturbed EXCEPT ![o] = Idle]
  /\ UNCHANGED <<content, files, trained, gate, grade, training, seenContent, bundles, batch, now,
                 predictions, counted, aborted>>

AbortActivation(o) ==
  /\ operation[o] # Idle
  /\ operation' = [operation EXCEPT ![o] = Idle]
  /\ UNCHANGED <<content, registryVars, training, workerVars, ledgerVars>>

-----------------------------------------------------------------------------
(***************************************************************************)
(* What the worker loads.                                                  *)
(***************************************************************************)

\* active_model: the newest active row.
Served == Max(Active)

\* load_feature_set, with its cache.
ContentInUse == IF seenContent = 0 THEN content ELSE seenContent

\* Defect: the recorded checksum is not compared.
LoadableUnchecked(v) == v \in bundles \/ files[v] = "complete"

\* load_model_bundle: cached, or complete and trained on the feature set in use.
Loadable(v) == v \in bundles \/ (files[v] = "complete" /\ trained[v] = ContentInUse)

\* The feature set is read before it is compared; only what loads is cached.
Load(v) ==
  /\ seenContent' = IF v \in bundles THEN seenContent ELSE ContentInUse
  /\ bundles' = IF Loadable(v) THEN bundles \cup {v} ELSE bundles

-----------------------------------------------------------------------------
(***************************************************************************)
(* The batch: all stocks in one transaction, an exception of one is        *)
(* counted and the loop goes on.                                           *)
(***************************************************************************)

\* _run_batch reads the clock and the tracked stocks.
BeginBatch ==
  /\ MayBegin
  /\ batch = Idle
  /\ now < LastMoment
  /\ batch' = [stage |-> "next", asOf |-> now, left |-> Symbols, symbol |-> {}, version |-> 0,
               report |-> NoReport, drafts |-> {}, created |-> {}, broken |-> FALSE]
  /\ now' = now + 1
  /\ UNCHANGED <<content, registryVars, training, operation, seenContent, bundles, drift, report,
                 predictions, counted, aborted>>

\* Defect: the session is rolled back in the except branch.
FailedRollingBack(s) == [batch EXCEPT !.stage = "next", !.left = @ \ {s}, !.drafts = {}]

\* The stock leaves the loop without a prediction.
Failed(s) == [batch EXCEPT !.stage = "next", !.left = @ \ {s}]

\* Gates 1 and 2: the active version, its artifacts, the drift report; in a
\* transaction the database has aborted, the first statement raises.
PassGates(s) ==
  /\ batch.stage = "next"
  /\ s \in batch.left
  /\ IF batch.broken \/ Active = {}
     THEN batch' = Failed(s) /\ UNCHANGED <<seenContent, bundles>>
     ELSE /\ Load(Served)
          /\ batch' = IF ~Loadable(Served) \/ report.level = "blocking" THEN Failed(s)
                      ELSE [batch EXCEPT !.stage = "predicting", !.symbol = {s},
                                         !.version = Served, !.report = report]
  /\ UNCHANGED <<content, registryVars, training, operation, drift, ledgerVars>>

PsiAllows(level) ==
  CASE level = "calm" -> "high" [] level \in {"none", "moved"} -> "medium" [] OTHER -> "low"

\* The least of what validation, drift and the data allow (decide_confidence).
Confidence(best, level, degraded) ==
  IF degraded THEN "low" ELSE Grades[Min({Rank(best), Rank(PsiAllows(level))})]

\* The later gates (calendar, membership, history, core features) may fail; else
\* the row is inserted, and a row that is there already is left alone; or a statement
\* fails, and with it the transaction.
Predict(s) ==
  /\ batch.stage = "predicting"
  /\ batch.symbol = {s}
  /\ \/ batch' = Failed(s)
     \/ \E degraded \in Degraded :
          LET row == [symbol |-> s, version |-> batch.version, asOf |-> batch.asOf,
                      content |-> ContentInUse, report |-> batch.report,
                      confidence |-> Confidence(grade[batch.version], batch.report.level, degraded)]
          IN batch' = [Failed(s) EXCEPT !.drafts = @ \cup {row}, !.created = @ \cup {s}]
     \/ batch' = [Failed(s) EXCEPT !.broken = TRUE]
  /\ UNCHANGED <<content, registryVars, training, operation, seenContent, bundles, drift,
                 ledgerVars>>

\* The commit, which the database turns into a rollback of an aborted
\* transaction, and the line in the log that counts what was created.
EndBatch ==
  /\ batch.stage = "next"
  /\ batch.left = {}
  /\ predictions' = predictions \cup IF batch.broken THEN {} ELSE batch.drafts
  /\ counted' = counted \cup {[symbol |-> s, asOf |-> batch.asOf] : s \in batch.created}
  /\ aborted' = IF batch.broken THEN aborted \cup {batch.asOf} ELSE aborted
  /\ batch' = Idle
  /\ UNCHANGED <<content, registryVars, training, operation, seenContent, bundles, drift, report,
                 now>>

-----------------------------------------------------------------------------
(***************************************************************************)
(* compute_feature_drift: the report is kept by model key, and is written  *)
(* only if some version of the key has predicted within the look-back.     *)
(***************************************************************************)

Recent == {p \in predictions : p.asOf + Lookback >= now}

\* Defect: the newest version is measured, active or not.
BeginDriftOfNewest ==
  /\ MayBegin
  /\ drift = Idle
  /\ \E v \in Versions : status[v] # "none"
  /\ LET newest == Max({v \in Versions : status[v] # "none"}) IN
       /\ Load(newest)
       /\ drift' = IF Loadable(newest)
                   THEN [stage |-> "reading", version |-> newest, overtaken |-> FALSE] ELSE Idle
  /\ UNCHANGED <<content, registryVars, training, operation, batch, ledgerVars>>

BeginDrift ==
  /\ MayBegin
  /\ drift = Idle
  /\ Active # {}
  /\ Load(Served)
  /\ drift' = IF Loadable(Served)
              THEN [stage |-> "reading", version |-> Served, overtaken |-> FALSE] ELSE Idle
  /\ UNCHANGED <<content, registryVars, training, operation, batch, ledgerVars>>

EndDrift ==
  /\ drift # Idle
  /\ IF Recent = {} THEN UNCHANGED report
     ELSE \E level \in DriftLevels : report' =
       [of |-> drift.version, level |-> level, overtaken |-> drift.overtaken]
  /\ drift' = Idle
  /\ UNCHANGED <<content, registryVars, training, operation, seenContent, bundles, batch, now,
                 predictions, counted, aborted>>

\* The worker stops and starts again: its caches and its open transaction are gone.
Restart ==
  /\ seenContent # 0 \/ batch # Idle \/ drift # Idle
  /\ seenContent' = 0
  /\ bundles' = {}
  /\ drift' = Idle
  /\ batch' = Idle
  /\ UNCHANGED <<content, registryVars, training, operation, ledgerVars>>

-----------------------------------------------------------------------------

Next ==
  \/ EditContent
  \/ \E v \in Versions : Train(v)
  \/ WriteRest
  \/ Register
  \/ RegisterActivating
  \/ TrainingDies
  \/ \E o \in Operators, v \in Versions : BeginActivation(o, v)
  \/ \E o \in Operators : RetireOthers(o) \/ CommitActivation(o) \/ AbortActivation(o)
  \/ BeginBatch
  \/ \E s \in Symbols : PassGates(s) \/ Predict(s)
  \/ EndBatch
  \/ BeginDrift
  \/ EndDrift
  \/ Restart

Spec == Init /\ [][Next]_vars

-----------------------------------------------------------------------------
(***************************************************************************)
(* Properties.                                                             *)
(***************************************************************************)

\* Whatever stands in the registry has all its files, though the training may
\* end between any two steps and the same version may not be written again.
RegisteredIsComplete ==
  \A v \in Versions : status[v] # "none" => files[v] = "complete"

\* No prediction comes from a version that did not pass its release gate, by
\* whichever of training, activation and rollback it came to serve.
ServedPassedGate ==
  \A p \in predictions : gate[p.version]

\* Every prediction is computed with the feature definitions its version was
\* trained on, in spite of edits in place, both caches and restarts.
FeaturesAsTrained ==
  \A p \in predictions : p.content = trained[p.version]

\* "一条事务内原子切换" (rollback_model.sh:8): an activation leaves its version as the
\* only active one, whatever was active before, unless another activation has been
\* committed between its check and its commit.
LastActivationServes ==
  ~clashed => Active = IF latest = 0 THEN {} ELSE {latest}

\* "high: ... 所有关键特征 PSI <= 0.10" (confidence.py:4): a prediction is labelled high
\* only after a report that the features have not moved, and that report is of the
\* very version that predicts, unless an activation was committed since it was begun
\* (reports are kept by model key, drift_store.py:46).
HighIsReported ==
  \A p \in predictions :
    p.confidence = "high" =>
      p.report.level = "calm" /\ (p.report.of = p.version \/ p.report.overtaken)

\* "单只股票失败不拖垮整批" (prediction_jobs.py:12): what a batch counts as created is in
\* the ledger whichever stocks fail, unless a statement of the batch failed in the
\* database; then nothing of the batch is.
CountedIsStored ==
  \A c \in counted :
    (\E p \in predictions : p.symbol = c.symbol /\ p.asOf = c.asOf) <=> c.asOf \notin aborted

=============================================================================
