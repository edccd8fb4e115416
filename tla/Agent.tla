------------------------------- MODULE Agent -------------------------------
(***************************************************************************)
(* How one analysis of one stock is made (services/research): the anomaly  *)
(* rules are judged on the bars, a language model is asked in rounds and   *)
(* may call read-only tools, its answer is checked against the documents   *)
(* it was shown, and the analysis is committed: the model's, or a template *)
(* without a claim.  Meanwhile other jobs fetch bars and documents.  The   *)
(* attempts on a stock follow each other; Analyses says which documents    *)
(* they are about.  All attempts are on one trading day.                   *)
(*                                                                         *)
(* A moment is a natural number: reading the clock takes the next one.     *)
(* Every statement sees what is committed then (READ COMMITTED), and the   *)
(* statements of an attempt are one transaction.                           *)
(***************************************************************************)
EXTENDS Naturals, FiniteSets

CONSTANTS
  Own,              \* the stock's documents, numbered as they are published
  Foreign,          \* documents of other stocks
  MaxToolRounds,    \* MAX_TOOL_ROUNDS
  MaxSchemaRetries, \* MAX_SCHEMA_RETRIES
  MaxShown,         \* MAX_DOCUMENTS
  LastMoment        \* bound: the clock is read at most so often

ASSUME AgentAssumption ==
  /\ Own \cup Foreign \subseteq Nat \ {0}
  /\ IsFiniteSet(Own \cup Foreign)
  /\ Own \cap Foreign = {}
  /\ MaxToolRounds \in Nat \ {0}
  /\ MaxSchemaRetries \in Nat
  /\ MaxShown \in Nat \ {0}
  /\ LastMoment \in Nat \ {0}

VARIABLES
  now,      \* the next moment
  bars,     \* bars.observed_at of each source, 0 if the source has no row
  observed, \* documents.observed_at, 0 if the document is not stored
  answer,   \* the documents fetched and not committed yet
  run,      \* where the attempt stands
  analyses  \* the analyses stored today

documentVars == <<observed, answer>>
vars == <<now, bars, documentVars, run, analyses>>

Documents == Own \cup Foreign

Rules == {"spike", "pace", "divergence", "gap"}

\* Today's and earlier bars of the stock; what the index's day return takes.
Sources == {"minutes", "pastMinutes", "daily", "pastDaily", "index"}

\* Pieces of a summary: the fact of a rule, a document's title, and the fixed
\* NO_VERIFIABLE_CAUSE_TEXT.
Title == "title"
NoCause == "no cause"

Idle == [phase |-> "idle"]

Started(asOf) == [phase |-> "started", asOf |-> asOf]

\* run_agent with an AgentToolbox bound to as_of.
Asking(asOf, facts, skipped) ==
  [phase |-> "asking", asOf |-> asOf, facts |-> facts, skipped |-> skipped,
   rounds |-> 0, retries |-> 0, served |-> {}, broken |-> FALSE]

Writing(r, draft) == [phase |-> "writing", broken |-> r.broken, draft |-> draft]

NoDocuments == [docs |-> {}, at |-> 0]

-----------------------------------------------------------------------------

\* A day starts with any bars of earlier days.  No job fetches those of the index: whoever
\* wants the day's return of the index judged has loaded them before.
Init ==
  /\ now = 2
  /\ bars \in [Sources -> {0, 1}]
  /\ bars["minutes"] = 0 /\ bars["daily"] = 0
  /\ observed = [d \in Documents |-> 0]
  /\ answer = NoDocuments
  /\ run = Idle
  /\ analyses = {}

-----------------------------------------------------------------------------
(***************************************************************************)
(* Bars and documents arrive while an attempt runs.                        *)
(***************************************************************************)

\* upsert_bars takes the new observed_at for every row it brings again, and
\* ingest_minute_bars brings all bars of the day again, every minute.
FetchBars(source) ==
  /\ source # "index"
  /\ now < LastMoment
  /\ bars' = [bars EXCEPT ![source] = now]
  /\ now' = now + 1
  /\ UNCHANGED <<documentVars, run, analyses>>

\* The gateway answers with documents, old ones among them.
FetchDocuments(docs) ==
  /\ now < LastMoment
  /\ answer = NoDocuments
  /\ docs # {}
  /\ answer' = [docs |-> docs, at |-> now]
  /\ now' = now + 1
  /\ UNCHANGED <<bars, observed, run, analyses>>

\* Defect: a document that is brought again takes the new observed_at.
IngestOverwriting ==
  /\ answer # NoDocuments
  /\ observed' = [d \in Documents |-> IF d \in answer.docs THEN answer.at ELSE observed[d]]
  /\ answer' = NoDocuments
  /\ UNCHANGED <<now, bars, run, analyses>>

\* upsert_documents: what the content hash knows already is left as it is.
Ingest ==
  /\ answer # NoDocuments
  /\ observed' = [d \in Documents |->
                    IF d \in answer.docs /\ observed[d] = 0 THEN answer.at ELSE observed[d]]
  /\ answer' = NoDocuments
  /\ UNCHANGED <<now, bars, run, analyses>>

-----------------------------------------------------------------------------
(***************************************************************************)
(* The rules.  What they find depends on prices; what they can be judged   *)
(* on depends on which bars the attempt sees.                              *)
(***************************************************************************)

\* _bar_stmt and get_bars_in_range: rows that are observed after as_of are hidden.
Visible(asOf) == {s \in Sources : bars[s] \in 1..asOf}

\* Is there any bar of the day?
DayBars(seen) == seen \cap {"minutes", "daily"}

\* The last return against those of the same time of earlier days.
SpikeResults(seen) ==
  IF "minutes" \notin seen THEN {"quiet"}
  ELSE {"skipped"} \cup IF "pastMinutes" \in seen THEN {"signal", "quiet"} ELSE {}

\* The volume so far against the mean of earlier days, taken from the same bars.
PaceResults(seen) == SpikeResults(seen)

\* The day's return against the index's.
DivergenceResults(seen) ==
  IF {"pastDaily", "index"} \subseteq seen /\ DayBars(seen) # {}
  THEN {"signal", "quiet"} ELSE {"skipped"}

\* The opening gap against earlier ones, if there are enough of them.
GapResults(seen) ==
  IF "pastDaily" \in seen /\ DayBars(seen) # {}
  THEN {"signal", "quiet", "skipped"} ELSE {"quiet"}

\* detect: what the four rules may say.
Verdicts(seen) ==
  {v \in [Rules -> {"signal", "quiet", "skipped"}] :
     /\ v["spike"] \in SpikeResults(seen)
     /\ v["pace"] \in PaceResults(seen)
     /\ v["divergence"] \in DivergenceResults(seen)
     /\ v["gap"] \in GapResults(seen)}

Saying(v, result) == {r \in Rules : v[r] = result}

\* Defect: a rule is recorded again at every detection.
UncoveredNever(signals) == signals

\* uncovered_signals: the rules whose label no anomaly summary of the day has.
Uncovered(signals) ==
  signals \ UNION {a.text : a \in {b \in analyses : b.facts # {Title}}}

\* detect_anomalies or run_analysis_refresh reads its as_of.  Its turn comes to
\* this stock later: other stocks are analysed first.
StartDetection ==
  /\ now < LastMoment
  /\ run = Idle
  /\ run' = Started(now)
  /\ now' = now + 1
  /\ UNCHANGED <<bars, documentVars, analyses>>

\* load_anomaly_input: without a bar of the day there is nothing to judge.
\* Otherwise an analysis is due when a rule fires that today's do not cover.
Detect ==
  /\ run.phase = "started"
  /\ LET seen == Visible(run.asOf) IN
       \/ DayBars(seen) = {} /\ run' = Idle
       \/ /\ DayBars(seen) # {}
          /\ \E v \in Verdicts(seen) :
               LET fresh == Uncovered(Saying(v, "signal")) IN
                 run' = IF fresh = {} THEN Idle
                        ELSE Asking(run.asOf, fresh, Saying(v, "skipped"))
  /\ UNCHANGED <<now, bars, documentVars, analyses>>

\* analyze_document: all that is certain about a document is its title.
StartDocument ==
  /\ now < LastMoment
  /\ run = Idle
  /\ \E d \in Own : observed[d] # 0
  /\ run' = Asking(now, {Title}, {})
  /\ now' = now + 1
  /\ UNCHANGED <<bars, documentVars, analyses>>

-----------------------------------------------------------------------------
(***************************************************************************)
(* The rounds.                                                             *)
(***************************************************************************)

\* The WHERE of get_documents.  A document is observed after it is published, so
\* that clamping the window's end to as_of takes nothing more away.
Found(asOf, from, to) == {d \in Own : observed[d] \in 1..asOf /\ d \in from..to}

\* The newest MAX_DOCUMENTS of them.
Shown(asOf, from, to) ==
  LET found == Found(asOf, from, to) IN
    {d \in found : Cardinality({e \in found : e > d}) < MaxShown}

\* The model has a round left.
MayReply == run.phase = "asking" /\ run.rounds < MaxToolRounds

\* The tool get_documents, on a window of the model's choice.
GetDocuments ==
  /\ MayReply
  /\ ~run.broken
  /\ \E from, to \in Own :
       run' = [run EXCEPT !.rounds = @ + 1, !.served = @ \cup Shown(run.asOf, from, to)]
  /\ UNCHANGED <<now, bars, documentVars, analyses>>

\* Another tool, or a call that is refused: unknown tool, foreign symbol, bad
\* argument.  The next round has its result.
CallOtherTool ==
  /\ MayReply
  /\ run' = [run EXCEPT !.rounds = @ + 1]
  /\ UNCHANGED <<now, bars, documentVars, analyses>>

\* A statement of a tool fails.  _execute_tool tells the model and goes on, but
\* the transaction cannot be used any more.
ToolFails ==
  /\ MayReply
  /\ run' = [run EXCEPT !.rounds = @ + 1, !.broken = TRUE]
  /\ UNCHANGED <<now, bars, documentVars, analyses>>

\* What an attempt stores.  served is history.
Draft(r, text, evidence, direction, author) ==
  [asOf |-> r.asOf, facts |-> r.facts, text |-> text, evidence |-> evidence,
   direction |-> direction, author |-> author, served |-> r.served]

\* template_output and _degraded_draft: the facts, the fixed text, a note.
Template(r, note) ==
  Draft(r, r.facts \cup {NoCause} \cup note, {}, "unknown", "none")

\* run_agent gives up: the note lists the rules that were not judged.
Degrade(r) == Writing(r, Template(r, r.skipped))

\* AgentUnavailable: not configured, not reached, too late, no completion.
NoReply ==
  /\ MayReply
  /\ run' = Degrade(run)
  /\ UNCHANGED <<now, bars, documentVars, analyses>>

\* Defect: the retry starts a conversation of its own, and is not counted.
BadReplyStartingOver ==
  /\ MayReply
  /\ run' = [run EXCEPT !.rounds = 0]
  /\ UNCHANGED <<now, bars, documentVars, analyses>>

\* AgentSchemaError: the reply is no AgentOutput.
BadReply ==
  /\ MayReply
  /\ run' = IF run.retries < MaxSchemaRetries
            THEN [run EXCEPT !.rounds = @ + 1, !.retries = @ + 1]
            ELSE Degrade(run)
  /\ UNCHANGED <<now, bars, documentVars, analyses>>

\* The tool budget is spent.
GiveUp ==
  /\ run.phase = "asking"
  /\ run.rounds = MaxToolRounds
  /\ run' = Degrade(run)
  /\ UNCHANGED <<now, bars, documentVars, analyses>>

-----------------------------------------------------------------------------
(***************************************************************************)
(* The answer.                                                             *)
(***************************************************************************)

\* An AgentOutput.  The model may cite anything, 0 stands for a made-up id; its
\* summary may repeat the facts, and may have the fixed text.
Claims ==
  {c \in [evidence : SUBSET (Documents \cup {0}), direction : {"positive", "unknown"},
          repeats : BOOLEAN, worded : BOOLEAN] :
     c.evidence = {} => c.direction = "unknown"}

\* facts_prefix: the facts of an anomaly come first, unless the model has them.
Prefix(r, c) == IF r.facts = {Title} \/ c.repeats THEN {} ELSE r.facts

Summary(r, c) ==
  Prefix(r, c) \cup (IF c.repeats THEN r.facts ELSE {}) \cup (IF c.worded THEN {NoCause} ELSE {})

\* Defect: what the model was shown does not count.
WasServedAny(r, c) == 0 \notin c.evidence

\* Only what this attempt was shown may be cited.
WasServed(r, c) == c.evidence \subseteq r.served

\* build_evidence: the document is stored, of this stock, and known at as_of.  A
\* quote is cut from its text, so it is found there.
Citable(d, asOf) == d \in Own /\ observed[d] \in 1..asOf

\* enforce_direction_consistency.
Consistent(r, c) ==
  c.evidence = {} => c.direction = "unknown" /\ NoCause \in Summary(r, c)

\* expand_and_validate_analysis: everything cited is there, or nothing is taken.
Accepted(r, c) == (\A d \in c.evidence : Citable(d, r.asOf)) /\ Consistent(r, c)

\* _finalize: the answer is taken as a whole or the template takes its place.  Its
\* SELECT raises in a broken transaction, and the attempt ends.
Answer ==
  /\ MayReply
  /\ \E c \in Claims :
       run' = IF ~WasServed(run, c) THEN Writing(run, Template(run, {}))
              ELSE IF run.broken /\ c.evidence # {} THEN Idle
              ELSE IF Accepted(run, c)
              THEN Writing(run, Draft(run, Summary(run, c), c.evidence, c.direction, "model"))
              ELSE Writing(run, Template(run, {}))
  /\ UNCHANGED <<now, bars, documentVars, analyses>>

\* session_scope commits.  A broken transaction raises, and nothing is stored.
Commit ==
  /\ run.phase = "writing"
  /\ analyses' = IF run.broken THEN analyses ELSE analyses \cup {run.draft}
  /\ run' = Idle
  /\ UNCHANGED <<now, bars, documentVars>>

\* The job times out or the worker dies: the transaction is rolled back.
Abort ==
  /\ run # Idle
  /\ run' = Idle
  /\ UNCHANGED <<now, bars, documentVars, analyses>>

-----------------------------------------------------------------------------

AttemptStep ==
  \/ Detect
  \/ GetDocuments \/ CallOtherTool \/ ToolFails
  \/ NoReply \/ BadReply \/ GiveUp \/ Answer
  \/ Commit

Next ==
  \/ \E s \in Sources : FetchBars(s)
  \/ \E docs \in SUBSET Documents : FetchDocuments(docs)
  \/ Ingest
  \/ StartDetection \/ StartDocument
  \/ AttemptStep
  \/ Abort

\* Every call of the client has a timeout and every statement ends, so an attempt
\* goes on.  Nothing is assumed of what the model replies.
Fairness == WF_vars(AttemptStep)

Spec == Init /\ [][Next]_vars /\ Fairness

-----------------------------------------------------------------------------
(***************************************************************************)
(* Properties.                                                             *)
(***************************************************************************)

\* The API shows an analysis only if every document it cites exists.
Displayable(a) == \A d \in a.evidence : d \in Documents /\ observed[d] # 0

\* "不返回部分证据 ... 绝不编造公司事件" (analyst.py:9): what a stored analysis claims,
\* the model was shown in that attempt, knew at its as_of, and the API can show;
\* without evidence there is no direction and the fixed text is in the summary.
ClaimsAreBacked ==
  \A a \in analyses :
    /\ a.evidence \subseteq a.served
    /\ \A d \in a.evidence : Citable(d, a.asOf)
    /\ Displayable(a)
    /\ a.evidence = {} => a.direction = "unknown" /\ NoCause \in a.text
    /\ a.author = "none" => a.evidence = {}

\* What a tool shows, the checks accept at the end: an answer that cites only what
\* was shown is never thrown away for its evidence, whatever is ingested meanwhile.
ShownIsCitable ==
  run.phase = "asking" => \A d \in run.served : Citable(d, run.asOf)

\* "同一交易日、同一规则不重复建分析" (analysis_jobs.py:15), although the label in a
\* summary is all that a later detection knows of an earlier one.
RuleOncePerDay ==
  \A r \in Rules : Cardinality({a \in analyses : r \in a.facts}) <= 1

\* An attempt ends, whatever the model replies.
AttemptEnds == run # Idle ~> run = Idle

=============================================================================
