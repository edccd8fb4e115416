------------------------------ MODULE Analyses ------------------------------
(***************************************************************************)
(* Which documents of one stock are analysed (services/worker/jobs/        *)
(* analysis_jobs.py): those behind a watermark, page by page.  Two runs    *)
(* can be under way for a stock: the scheduled refresh_analyses, and       *)
(* run_analysis_refresh of a user's request.  Stocks share nothing.  How   *)
(* one analysis is made, and the anomalies, are the matter of Agent.       *)
(*                                                                         *)
(* A moment is a natural number: reading the clock takes the next one, and *)
(* only their order counts.  Every statement sees what is committed then   *)
(* (READ COMMITTED); between two of them the agent is awaited.             *)
(***************************************************************************)
EXTENDS Naturals, FiniteSets, FiniteSetsExt

CONSTANTS
  Documents,    \* the stock's documents; a document is its id
  BatchSize,    \* DOCUMENT_BATCH_SIZE
  MaxDocuments, \* MAX_DOCUMENTS_PER_SYMBOL
  Lookback,     \* DOCUMENT_BOOTSTRAP_LOOKBACK
  LastMoment    \* bound: the clock is read at most so often

ASSUME AnalysesAssumption ==
  /\ Documents \subseteq Nat \ {0}
  /\ IsFiniteSet(Documents)
  /\ BatchSize \in Nat \ {0}
  /\ MaxDocuments \in Nat \ {0}
  /\ MaxDocuments % BatchSize = 0
  /\ Lookback \in Nat
  /\ LastMoment \in Nat

VARIABLES
  now,        \* the next moment
  observed,   \* documents.observed_at, 0 before the fetch
  visible,    \* the committed documents
  analysed,   \* the number of document analyses of each document
  watermark,  \* the largest data_cutoff of a document analysis, 0 if none
  since,      \* history: how far the first analysis looked back
  reported,   \* history: documents left behind with an ERROR in the log
  missed,     \* history: <<document, moment>>, on its way to a commit when a run whose
              \* analyses are stored read a page
  shared,     \* history: documents of runs in whose time another one stored analyses
  run         \* where each run stands

documentVars == <<observed, visible>>
analysisVars == <<analysed, watermark, since, reported, missed, shared>>
vars == <<now, documentVars, analysisVars, run>>

Runs == {"refresh", "manual"}

Idle == [phase |-> "idle"]

\* The run has read its as_of.
Started(asOf) == [phase |-> "started", asOf |-> asOf]

\* A transaction over documents: where it started, its keyset cursor, its drafts, and,
\* as history, whether it has been alone and what was on its way to a commit.
Paging(asOf, from, first) ==
  [phase |-> "paging", asOf |-> asOf, from |-> from, first |-> first,
   time |-> from, id |-> Max({0} \cup Documents), drafts |-> {},
   alone |-> TRUE, unseen |-> {}]

-----------------------------------------------------------------------------

Init ==
  /\ now = 1
  /\ observed = [d \in Documents |-> 0]
  /\ visible = {}
  /\ analysed = [d \in Documents |-> 0]
  /\ watermark = 0
  /\ since = 0
  /\ reported = {}
  /\ missed = {}
  /\ shared = {}
  /\ run = [a \in Runs |-> Idle]

-----------------------------------------------------------------------------
(***************************************************************************)
(* Documents arrive: ingest_announcements, ingest_news and the last step   *)
(* of a backfill.                                                          *)
(***************************************************************************)

InFlight == {d \in Documents : observed[d] # 0} \ visible

\* The gateway answers: all documents of one answer have one observed_at.
Fetch(answer) ==
  /\ now < LastMoment
  /\ answer # {}
  /\ \A d \in answer : observed[d] = 0
  /\ observed' = [d \in Documents |-> IF d \in answer THEN now ELSE observed[d]]
  /\ now' = now + 1
  /\ UNCHANGED <<visible, analysisVars, run>>

\* upsert_documents commits an answer, or fails: then a later one brings it again.
Ingest(moment) ==
  LET answer == {d \in InFlight : observed[d] = moment} IN
    /\ answer # {}
    /\ \/ visible' = visible \cup answer /\ UNCHANGED observed
       \/ /\ observed' = [d \in Documents |-> IF d \in answer THEN 0 ELSE observed[d]]
          /\ UNCHANGED visible
    /\ UNCHANGED <<now, analysisVars, run>>

-----------------------------------------------------------------------------
(***************************************************************************)
(* Document analyses.                                                      *)
(***************************************************************************)

\* as_of = clock.now().
Start(a) ==
  /\ now < LastMoment
  /\ run[a] = Idle
  /\ run' = [run EXCEPT ![a] = Started(now)]
  /\ now' = now + 1
  /\ UNCHANGED <<documentVars, analysisVars>>

\* Defect: every run looks back as far as the first one.
LowerBoundWithoutWatermark(asOf) == IF asOf > Lookback THEN asOf - Lookback ELSE 0

\* _document_watermark, or the bootstrap look-back.
LowerBound(asOf) ==
  IF watermark # 0 THEN watermark
  ELSE IF asOf > Lookback THEN asOf - Lookback ELSE 0

ReadWatermark(a) ==
  /\ run[a].phase = "started"
  /\ LET asOf == run[a].asOf IN
       run' = [run EXCEPT ![a] = Paging(asOf, LowerBound(asOf), watermark = 0)]
  /\ UNCHANGED <<now, documentVars, analysisVars>>

\* The order (observed_at, id).
After(d, time, id) == observed[d] > time \/ (observed[d] = time /\ d > id)

\* Defect: pages are told apart by observed_at alone.
PendingAfterTime(asOf, time, id) ==
  {d \in visible : observed[d] <= asOf /\ observed[d] > time}

\* The WHERE of get_documents_observed_after.  What is published after as_of is
\* left out, too, but the gateway never returns such a document.
Pending(asOf, time, id) ==
  {d \in visible : observed[d] <= asOf /\ After(d, time, id)}

\* ORDER BY observed_at, id LIMIT DOCUMENT_BATCH_SIZE.
Page(asOf, time, id) ==
  LET pending == Pending(asOf, time, id) IN
    {d \in pending :
       Cardinality({e \in pending : After(d, observed[e], e)}) < BatchSize}

\* What a run cannot see although it would be its business.
OnTheWay(asOf) == {<<d, observed[d]>> : d \in {e \in InFlight : observed[e] <= asOf}}

\* One page is read, and a draft is written for each of its documents.
ReadPage(a) ==
  /\ run[a].phase = "paging"
  /\ LET r == run[a]
         page == Page(r.asOf, r.time, r.id)
         drafts == r.drafts \cup page
         lastTime == Max({observed[d] : d \in page})
         lastId == Max({d \in page : observed[d] = lastTime})
         phase == IF \/ Cardinality(page) < BatchSize
                     \/ Cardinality(drafts) >= MaxDocuments
                  THEN "writing" ELSE "paging" IN
       run' = [run EXCEPT ![a] =
                 IF page = {}
                 THEN [r EXCEPT !.phase = "writing", !.unseen = @ \cup OnTheWay(r.asOf)]
                 ELSE [r EXCEPT !.phase = phase, !.time = lastTime, !.id = lastId,
                                !.drafts = drafts, !.unseen = @ \cup OnTheWay(r.asOf)]]
  /\ UNCHANGED <<now, documentVars, analysisVars>>

\* The transaction commits its drafts with data_cutoff = as_of.  Documents left
\* behind by the cap are reported.
CommitDocuments(a) ==
  /\ run[a].phase = "writing"
  /\ LET r == run[a] IN
       /\ analysed' = [d \in Documents |->
                         IF d \in r.drafts /\ analysed[d] < 2
                         THEN analysed[d] + 1 ELSE analysed[d]]
       /\ watermark' = IF r.drafts = {} THEN watermark ELSE Max({watermark, r.asOf})
       /\ since' = IF r.drafts # {} /\ r.first THEN Max({since, r.from}) ELSE since
       /\ reported' = reported \cup
            IF Cardinality(r.drafts) >= MaxDocuments
            THEN Pending(r.asOf, r.time, r.id) ELSE {}
       /\ missed' = IF r.drafts = {} THEN missed ELSE missed \cup r.unseen
       /\ shared' = IF r.alone THEN shared ELSE shared \cup r.drafts
       /\ run' = [b \in Runs |->
                    IF b = a THEN Idle
                    ELSE IF r.drafts # {} /\ run[b].phase \in {"paging", "writing"}
                    THEN [run[b] EXCEPT !.alone = FALSE]
                    ELSE run[b]]
  /\ UNCHANGED <<now, documentVars>>

\* The run raises, times out or dies: its transaction is rolled back.
Abort(a) ==
  /\ run[a] # Idle
  /\ run' = [run EXCEPT ![a] = Idle]
  /\ UNCHANGED <<now, documentVars, analysisVars>>

-----------------------------------------------------------------------------

RunStep(a) ==
  \/ Start(a) \/ ReadWatermark(a) \/ ReadPage(a) \/ CommitDocuments(a) \/ Abort(a)

Next ==
  \/ \E answer \in SUBSET Documents : Fetch(answer)
  \/ \E moment \in 1..LastMoment : Ingest(moment)
  \/ \E a \in Runs : RunStep(a)

Spec == Init /\ [][Next]_vars

-----------------------------------------------------------------------------
(***************************************************************************)
(* Properties.                                                             *)
(***************************************************************************)

\* "不遗漏" (analysis_jobs.py:14): a committed document behind the watermark is never
\* looked at again, so it must have been analysed, or at least been reported as
\* left behind, unless it is older than the first look-back, or was fetched but not
\* committed when a run that knew its moment read a page.
NothingPassedOver ==
  \A d \in visible :
    since < observed[d] /\ observed[d] <= watermark =>
      analysed[d] > 0 \/ d \in reported \/ <<d, observed[d]>> \in missed

\* "不重复" (analysis_jobs.py:14): no document is analysed twice, through aborted runs,
\* runs at the same time, answers that arrive while a run pages, and page boundaries,
\* except by a run in whose time another one has stored analyses.
AnalysedOnce == \A d \in Documents : analysed[d] <= 1 \/ d \in shared

=============================================================================
