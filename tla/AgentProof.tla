----------------------------- MODULE AgentProof -----------------------------
(***************************************************************************)
(* Proofs about Agent, for every number of documents, rounds and retries:  *)
(* the invariants that the run checks hold of every behaviour.             *)
(*                                                                         *)
(* Two facts carry the argument.  What is stored of a document never       *)
(* changes, so what a tool has shown stays citable.  And only the attempt  *)
(* under way stores analyses, so the rules it was given stay uncovered     *)
(* until it commits.                                                       *)
(***************************************************************************)
EXTENDS Agent, FiniteSetTheorems, TLAPS

-----------------------------------------------------------------------------
(***************************************************************************)
(* The inductive invariant.                                                *)
(***************************************************************************)

Facts == Rules \cup {Title}

AskingRuns ==
  [phase : {"asking"}, asOf : Nat, facts : SUBSET Facts, skipped : SUBSET Rules,
   rounds : Nat, retries : Nat, served : SUBSET Own, broken : BOOLEAN]

Drafts ==
  [asOf : Nat, facts : SUBSET Facts, text : SUBSET (Facts \cup {NoCause}), evidence : SUBSET Own,
   direction : {"positive", "unknown"}, author : {"model", "none"}, served : SUBSET Own]

WritingRuns == [phase : {"writing"}, broken : BOOLEAN, draft : Drafts]

StartedRuns == [phase : {"started"}, asOf : Nat]

TypeOK ==
  /\ now \in Nat
  /\ run \in {Idle} \cup StartedRuns \cup AskingRuns \cup WritingRuns
  /\ analyses \in SUBSET Drafts

\* The claims of a draft, and its facts.
Backed(a) ==
  /\ a.evidence \subseteq a.served
  /\ \A d \in a.evidence : Citable(d, a.asOf)
  /\ a.evidence = {} => a.direction = "unknown" /\ NoCause \in a.text
  /\ a.author = "none" => a.evidence = {}

Kept(a) == a.facts # {Title} \/ a.author = "none" => a.facts \subseteq a.text

\* No analysis of the day is about one of these rules.
New(facts) == \A r \in facts \cap Rules, a \in analyses : r \notin a.facts

AskingOK ==
  run.phase = "asking" => (\A d \in run.served : Citable(d, run.asOf)) /\ New(run.facts)

WritingOK ==
  run.phase = "writing" => Backed(run.draft) /\ Kept(run.draft) /\ New(run.draft.facts)

StoredOK == \A a \in analyses : Backed(a) /\ Kept(a)

Once == \A a, b \in analyses, r \in Rules : r \in a.facts /\ r \in b.facts => a = b

IInv == TypeOK /\ AskingOK /\ WritingOK /\ StoredOK /\ Once

-----------------------------------------------------------------------------
(***************************************************************************)
(* Lemmas.                                                                 *)
(***************************************************************************)

\* The phases tell the kinds of runs apart.
LEMMA Phases ==
  ASSUME TypeOK
  PROVE  /\ run.phase = "asking" => run \in AskingRuns
         /\ run.phase = "writing" => run \in WritingRuns
         /\ run.phase = "started" => run \in StartedRuns
BY DEF TypeOK, Idle, AskingRuns, WritingRuns, StartedRuns

\* upsert_documents leaves stored documents alone: what is citable stays so.
LEMMA CitableForGood ==
  ASSUME Ingest, NEW d, NEW asOf, Citable(d, asOf)
  PROVE  Citable(d, asOf)'
<1>1. d \in Documents /\ observed[d] # 0
  BY DEF Citable, Documents
<1>2. observed'[d] = observed[d]
  BY <1>1 DEF Ingest
<1>. QED
  BY <1>2 DEF Citable

\* The template has the facts and claims nothing.
LEMMA TemplateOK ==
  ASSUME NEW r \in AskingRuns, NEW note \in SUBSET Facts
  PROVE  /\ Template(r, note) \in Drafts
         /\ Backed(Template(r, note))
         /\ Kept(Template(r, note))
         /\ Template(r, note).facts = r.facts
BY DEF Template, Draft, Drafts, AskingRuns, Backed, Kept, Facts

\* An answer that passes the checks is backed, and has the facts of an anomaly.
LEMMA AnswerOK ==
  ASSUME NEW r \in AskingRuns, NEW c \in Claims, WasServed(r, c), Accepted(r, c),
         NEW a, a = Draft(r, Summary(r, c), c.evidence, c.direction, "model")
  PROVE  a \in Drafts /\ Backed(a) /\ Kept(a) /\ a.facts = r.facts
<1>1. c.evidence \subseteq r.served /\ r.served \in SUBSET Own /\ r.facts \in SUBSET Facts
  BY DEF WasServed, AskingRuns
<1>2. c.direction \in {"positive", "unknown"} /\ c.repeats \in BOOLEAN /\ c.worded \in BOOLEAN
  BY DEF Claims
<1>3. Summary(r, c) \in SUBSET (Facts \cup {NoCause})
  BY <1>1 DEF Summary, Prefix
<1>4. r.facts # {Title} => r.facts \subseteq Summary(r, c)
  BY <1>2 DEF Summary, Prefix
<1>5. a \in Drafts
  BY <1>1, <1>2, <1>3 DEF Draft, Drafts, AskingRuns
<1>6. Backed(a)
  BY <1>1 DEF Backed, Draft, Accepted, Consistent
<1>7. Kept(a) /\ a.facts = r.facts
  BY <1>4 DEF Kept, Draft
<1>. QED
  BY <1>5, <1>6, <1>7

\* Storing a draft about new rules keeps every rule to one analysis.
LEMMA StoringOnce ==
  ASSUME Once, NEW a, New(a.facts), analyses' = analyses \cup {a}
  PROVE  Once'
BY DEF Once, New

-----------------------------------------------------------------------------
(***************************************************************************)
(* The steps.                                                              *)
(***************************************************************************)

\* A step that moves the attempt while nothing is stored.
LEMMA RunStep ==
  ASSUME IInv, UNCHANGED <<observed, analyses>>, now' \in Nat,
         run' \in {Idle} \cup StartedRuns \cup AskingRuns \cup WritingRuns,
         run'.phase = "asking" =>
           (\A d \in run'.served : Citable(d, run'.asOf)) /\ New(run'.facts),
         run'.phase = "writing" =>
           Backed(run'.draft) /\ Kept(run'.draft) /\ New(run'.draft.facts)
  PROVE  IInv'
BY DEF IInv, TypeOK, AskingOK, WritingOK, StoredOK, Once, New, Backed, Kept, Citable

\* A round without documents.
LEMMA NextRound ==
  ASSUME IInv, run.phase = "asking", NEW rounds \in Nat, NEW retries \in Nat, NEW broken \in BOOLEAN,
         run' = [run EXCEPT !.rounds = rounds, !.retries = retries, !.broken = broken],
         UNCHANGED <<now, observed, analyses>>
  PROVE  IInv'
<1>1. run \in AskingRuns
  BY Phases DEF IInv
<1>2. run' \in AskingRuns /\ run'.served = run.served /\ run'.asOf = run.asOf /\ run'.facts = run.facts
        /\ run'.phase = "asking"
  BY <1>1 DEF AskingRuns
<1>. QED
  BY <1>2, RunStep DEF IInv, AskingOK, TypeOK

\* The end of an attempt.
LEMMA ToIdle ==
  ASSUME IInv, run' = Idle, UNCHANGED <<now, observed, analyses>>
  PROVE  IInv'
BY RunStep DEF IInv, TypeOK, Idle

\* The attempt has its draft.
LEMMA ToWriting ==
  ASSUME IInv, run \in AskingRuns, NEW draft \in Drafts, Backed(draft), Kept(draft), draft.facts = run.facts,
         run' = Writing(run, draft), UNCHANGED <<now, observed, analyses>>
  PROVE  IInv'
<1>1. run' \in WritingRuns /\ run'.phase = "writing" /\ run'.draft = draft
  BY DEF Writing, WritingRuns, AskingRuns
<1>2. New(run.facts)
  BY DEF IInv, AskingOK, AskingRuns
<1>. QED
  BY <1>1, <1>2, RunStep DEF IInv, TypeOK

\* run_agent gives up.
LEMMA Degrading ==
  ASSUME IInv, run.phase = "asking", run' = Degrade(run), UNCHANGED <<now, observed, analyses>>
  PROVE  IInv'
<1>1. run \in AskingRuns /\ run.skipped \in SUBSET Facts
  BY Phases DEF IInv, AskingRuns, Facts
<1>. QED
  BY <1>1, TemplateOK, ToWriting DEF Degrade

LEMMA IngestStep ==
  ASSUME IInv, Ingest
  PROVE  IInv'
<1>1. UNCHANGED <<now, run, analyses>>
  BY DEF Ingest
<1>2. TypeOK' /\ Once'
  BY <1>1 DEF IInv, TypeOK, Once
<1>3. AskingOK'
  BY <1>1, CitableForGood DEF IInv, AskingOK, New
<1>4. ASSUME NEW a, Backed(a)
      PROVE  Backed(a)'
  <2>1. \A d \in a.evidence : Citable(d, a.asOf)'
    BY <1>4, CitableForGood DEF Backed
  <2>. QED
    BY <1>4, <2>1 DEF Backed
<1>5. WritingOK'
  BY <1>1, <1>4 DEF IInv, WritingOK, Kept, New
<1>6. StoredOK'
  BY <1>1, <1>4 DEF IInv, StoredOK, Kept
<1>. QED
  BY <1>2, <1>3, <1>5, <1>6 DEF IInv

LEMMA DetectStep ==
  ASSUME IInv, Detect
  PROVE  IInv'
<1>1. UNCHANGED <<now, observed, analyses>> /\ run \in StartedRuns
  BY Phases DEF Detect, documentVars, IInv
<1>2. CASE run' = Idle
  BY <1>1, <1>2, ToIdle
<1>3. ASSUME NEW v, LET fresh == Uncovered(Saying(v, "signal")) IN
               run' = Asking(run.asOf, fresh, Saying(v, "skipped"))
      PROVE  IInv'
  <2>. DEFINE fresh == Uncovered(Saying(v, "signal"))
  <2>1. fresh \in SUBSET Rules /\ Saying(v, "skipped") \in SUBSET Rules
    BY DEF Uncovered, Saying
  <2>2. New(fresh)
    <3>1. SUFFICES ASSUME NEW r \in fresh, NEW a \in analyses, r \in a.facts
                   PROVE  FALSE
      BY DEF New
    <3>2. r # Title
      BY <2>1 DEF Rules, Title
    <3>3. r \in a.text
      BY <3>1, <3>2 DEF IInv, StoredOK, Kept
    <3>. QED
      BY <3>1, <3>2, <3>3 DEF Uncovered
  <2>3. run' = Asking(run.asOf, fresh, Saying(v, "skipped"))
    BY <1>3
  <2>. HIDE DEF fresh
  <2>4. run' \in AskingRuns /\ run'.phase = "asking" /\ run'.served = {} /\ run'.facts = fresh
    BY <1>1, <2>1, <2>3 DEF Asking, AskingRuns, StartedRuns, Facts
  <2>. QED
    BY <1>1, <2>2, <2>4, RunStep DEF IInv, TypeOK
<1>. QED
  BY <1>2, <1>3 DEF Detect

LEMMA GetDocumentsStep ==
  ASSUME IInv, GetDocuments
  PROVE  IInv'
<1>1. run \in AskingRuns /\ UNCHANGED <<now, observed, analyses>> /\ run.phase = "asking"
  BY Phases DEF GetDocuments, MayReply, documentVars, IInv
<1>2. PICK from \in Own, to \in Own :
        run' = [run EXCEPT !.rounds = @ + 1, !.served = @ \cup Shown(run.asOf, from, to)]
  BY DEF GetDocuments
<1>3. \A d \in Shown(run.asOf, from, to) : d \in Own /\ Citable(d, run.asOf)
  BY DEF Shown, Found, Citable
<1>4. run' \in AskingRuns /\ run'.phase = "asking" /\ run'.asOf = run.asOf /\ run'.facts = run.facts
        /\ run'.served = run.served \cup Shown(run.asOf, from, to)
  <2>. DEFINE shown == Shown(run.asOf, from, to)
  <2>1. shown \in SUBSET Own
    BY <1>3
  <2>2. run.rounds + 1 \in Nat /\ run.served \cup shown \in SUBSET Own
    BY <1>1, <2>1 DEF AskingRuns
  <2>3. run' = [run EXCEPT !.rounds = run.rounds + 1, !.served = run.served \cup shown]
    BY <1>2
  <2>. HIDE DEF shown
  <2>4. run' \in AskingRuns /\ run'.phase = "asking" /\ run'.asOf = run.asOf /\ run'.facts = run.facts
          /\ run'.served = run.served \cup shown
    BY <1>1, <2>2, <2>3 DEF AskingRuns
  <2>. QED
    BY <2>4 DEF shown
<1>. QED
  BY <1>1, <1>3, <1>4, RunStep DEF IInv, AskingOK, TypeOK

LEMMA AnswerStep ==
  ASSUME IInv, Answer
  PROVE  IInv'
<1>1. run \in AskingRuns /\ UNCHANGED <<now, observed, analyses>>
  BY Phases DEF Answer, MayReply, documentVars, IInv
<1>2. PICK c \in Claims :
        run' = IF ~WasServed(run, c) THEN Writing(run, Template(run, {}))
               ELSE IF run.broken /\ c.evidence # {} THEN Idle
               ELSE IF Accepted(run, c)
               THEN Writing(run, Draft(run, Summary(run, c), c.evidence, c.direction, "model"))
               ELSE Writing(run, Template(run, {}))
  BY DEF Answer
<1>3. CASE run' = Idle
  BY <1>1, <1>3, ToIdle
<1>4. CASE run' = Writing(run, Template(run, {}))
  BY <1>1, <1>4, TemplateOK, ToWriting
<1>5. CASE /\ WasServed(run, c) /\ Accepted(run, c)
           /\ run' = Writing(run, Draft(run, Summary(run, c), c.evidence, c.direction, "model"))
  BY <1>1, <1>5, AnswerOK, ToWriting
<1>. QED
  BY <1>2, <1>3, <1>4, <1>5

LEMMA CommitStep ==
  ASSUME IInv, Commit
  PROVE  IInv'
<1>1. run \in WritingRuns /\ run' = Idle /\ UNCHANGED <<now, observed>> /\ run.phase = "writing"
  BY Phases DEF Commit, documentVars, IInv
<1>2. CASE analyses' = analyses
  BY <1>1, <1>2, ToIdle
<1>3. CASE analyses' = analyses \cup {run.draft}
  <2>1. run.draft \in Drafts /\ Backed(run.draft) /\ Kept(run.draft) /\ New(run.draft.facts)
    BY <1>1 DEF IInv, WritingOK, WritingRuns
  <2>2. TypeOK' /\ AskingOK' /\ WritingOK'
    BY <1>1, <1>3, <2>1 DEF IInv, TypeOK, AskingOK, WritingOK, Idle
  <2>3. Once'
    BY <1>3, <2>1, StoringOnce DEF IInv
  <2>4. \A a \in analyses' : Backed(a) /\ Kept(a)
    BY <1>3, <2>1 DEF IInv, StoredOK
  <2>5. StoredOK'
    BY <1>1, <2>4 DEF StoredOK, Backed, Kept, Citable
  <2>. QED
    BY <2>2, <2>3, <2>5 DEF IInv
<1>. QED
  BY <1>2, <1>3 DEF Commit

-----------------------------------------------------------------------------

LEMMA Initially ==
  ASSUME Init
  PROVE  IInv
BY DEF Init, IInv, TypeOK, AskingOK, WritingOK, StoredOK, Once, Idle

LEMMA Inductive ==
  ASSUME IInv, [Next]_vars
  PROVE  IInv'
<1>1. ASSUME NEW s \in Sources, FetchBars(s)
      PROVE  IInv'
  BY <1>1, RunStep DEF FetchBars, documentVars, IInv, TypeOK, AskingOK, WritingOK
<1>2. ASSUME NEW docs \in SUBSET Documents, FetchDocuments(docs)
      PROVE  IInv'
  BY <1>2, RunStep DEF FetchDocuments, IInv, TypeOK, AskingOK, WritingOK
<1>3. CASE StartDetection
  <2>1. run' \in StartedRuns /\ run'.phase = "started" /\ now' \in Nat /\ UNCHANGED <<observed, analyses>>
    BY <1>3 DEF StartDetection, Started, StartedRuns, documentVars, IInv, TypeOK
  <2>. QED
    BY <2>1, RunStep
<1>4. CASE StartDocument
  <2>1. run' = Asking(now, {Title}, {}) /\ now' \in Nat /\ now \in Nat /\ UNCHANGED <<observed, analyses>>
    BY <1>4 DEF StartDocument, documentVars, IInv, TypeOK
  <2>2. run' \in AskingRuns /\ run'.phase = "asking" /\ run'.served = {} /\ run'.facts = {Title}
    BY <2>1 DEF Asking, AskingRuns, Facts
  <2>3. New({Title})
    BY DEF New, Rules, Title
  <2>. QED
    BY <2>1, <2>2, <2>3, RunStep
<1>5. CASE CallOtherTool \/ ToolFails
  <2>1. run \in AskingRuns /\ run.phase = "asking" /\ UNCHANGED <<now, observed, analyses>>
    BY <1>5, Phases DEF CallOtherTool, ToolFails, MayReply, documentVars, IInv
  <2>2. \E broken \in BOOLEAN :
          run' = [run EXCEPT !.rounds = run.rounds + 1, !.retries = run.retries, !.broken = broken]
    BY <1>5, <2>1 DEF CallOtherTool, ToolFails, AskingRuns
  <2>3. run.rounds + 1 \in Nat /\ run.retries \in Nat
    BY <2>1 DEF AskingRuns
  <2>. QED
    BY <2>1, <2>2, <2>3, NextRound
<1>6. CASE NoReply \/ GiveUp
  BY <1>6, Degrading DEF NoReply, GiveUp, MayReply, documentVars
<1>7. CASE BadReply
  <2>1. run \in AskingRuns /\ run.phase = "asking" /\ UNCHANGED <<now, observed, analyses>>
    BY <1>7, Phases DEF BadReply, MayReply, documentVars, IInv
  <2>2. CASE run' = Degrade(run)
    BY <2>1, <2>2, Degrading
  <2>3. CASE run' = [run EXCEPT !.rounds = @ + 1, !.retries = @ + 1]
    <3>1. run' = [run EXCEPT !.rounds = run.rounds + 1, !.retries = run.retries + 1, !.broken = run.broken]
      BY <2>1, <2>3 DEF AskingRuns
    <3>2. run.rounds + 1 \in Nat /\ run.retries + 1 \in Nat /\ run.broken \in BOOLEAN
      BY <2>1 DEF AskingRuns
    <3>. QED
      BY <2>1, <3>1, <3>2, NextRound
  <2>. QED
    BY <1>7, <2>2, <2>3 DEF BadReply
<1>8. CASE Abort
  BY <1>8, ToIdle DEF Abort, documentVars
<1>9. CASE UNCHANGED vars
  BY <1>9, RunStep DEF vars, documentVars, IInv, TypeOK, AskingOK, WritingOK
<1>. QED
  BY <1>1, <1>2, <1>3, <1>4, <1>5, <1>6, <1>7, <1>8, <1>9,
     IngestStep, DetectStep, GetDocumentsStep, AnswerStep, CommitStep DEF Next, AttemptStep

-----------------------------------------------------------------------------
(***************************************************************************)
(* Theorems.                                                               *)
(***************************************************************************)

LEMMA Always == Spec => []IInv
<1>1. Init => IInv
  BY Initially
<1>2. IInv /\ [Next]_vars => IInv'
  BY Inductive
<1>. QED
  BY <1>1, <1>2, PTL DEF Spec

\* The records of an attempt and of the stored analyses keep their shape.
THEOREM TypeCorrect == Spec => []TypeOK
<1>1. IInv => TypeOK
  BY DEF IInv
<1>. QED
  BY <1>1, Always, PTL

\* Whatever the model replies and whatever is ingested meanwhile, what a stored
\* analysis claims was shown to the model, known then, and can be displayed.
THEOREM ClaimsStayBacked == Spec => []ClaimsAreBacked
<1>1. IInv => ClaimsAreBacked
  BY DEF IInv, StoredOK, Backed, ClaimsAreBacked, Displayable, Citable, Documents
<1>. QED
  BY <1>1, Always, PTL

\* However many rounds there are and whatever is ingested meanwhile, no citation of
\* what a tool has shown is refused later.
THEOREM ShownStaysCitable == Spec => []ShownIsCitable
<1>1. IInv => ShownIsCitable
  BY DEF IInv, AskingOK, ShownIsCitable
<1>. QED
  BY <1>1, Always, PTL

\* A rule is the reason of at most one analysis a day.
THEOREM RulesOnce == Spec => []RuleOncePerDay
<1>1. ASSUME IInv
      PROVE  RuleOncePerDay
  <2>1. SUFFICES ASSUME NEW r \in Rules
                 PROVE  Cardinality({a \in analyses : r \in a.facts}) <= 1
    BY DEF RuleOncePerDay
  <2>. DEFINE S == {a \in analyses : r \in a.facts}
  <2>2. CASE S = {}
    <3>1. Cardinality(S) = 0
      BY <2>2, FS_EmptySet
    <3>. QED
      BY <3>1
  <2>3. CASE S # {}
    <3>1. PICK a \in S : TRUE
      BY <2>3
    <3>2. S = {a}
      BY <1>1, <3>1 DEF IInv, Once
    <3>3. Cardinality(S) = 1
      BY <3>2, FS_Singleton
    <3>. QED
      BY <3>3
  <2>. QED
    BY <2>2, <2>3
<1>2. IInv => RuleOncePerDay
  BY <1>1
<1>. QED
  BY <1>2, Always, PTL

=============================================================================
