---------------------------- MODULE AnalysesProof ----------------------------
(***************************************************************************)
(* Proofs about Analyses, for every number of documents, size of a page,   *)
(* cap and look-back: no document is analysed twice but by a run that was  *)
(* overtaken, and none is passed over but one that was on its way.         *)
(*                                                                         *)
(* The argument is about one run: the pages it has read are exactly the    *)
(* documents between its lower bound and its cursor, because a page is an  *)
(* initial part of what is pending, and a short page is all of it.  The    *)
(* other run changes only the watermark, which grows.                      *)
(***************************************************************************)
EXTENDS Analyses, FiniteSetTheorems, WellFoundedInduction, TLAPS

-----------------------------------------------------------------------------
(***************************************************************************)
(* Least and largest elements.                                             *)
(***************************************************************************)

\* By the well-founded inclusion of finite sets: a least set without a largest
\* element would have one after all.
LEMMA LargestNatural ==
  ASSUME NEW S \in SUBSET Nat, S # {}, IsFiniteSet(S)
  PROVE  /\ Max(S) \in S
         /\ \A y \in S : y <= Max(S)
<1>. DEFINE Bad == {T \in FiniteSubsetsOf(S) : T # {} /\ ~\E x \in T : \A y \in T : x >= y}
<1>1. Bad = {}
  <2>1. SUFFICES ASSUME Bad # {}
                 PROVE  FALSE
    OBVIOUS
  <2>2. PICK T \in Bad : \A U \in Bad : ~(<<U, T>> \in StrictSubsetOrdering(S))
    <3>1. Bad \subseteq FiniteSubsetsOf(S)
      OBVIOUS
    <3>. HIDE DEF Bad
    <3>. QED
      BY <2>1, <3>1, FS_StrictSubsetOrderingWellFounded, WFMin
  <2>3. T \in SUBSET S /\ IsFiniteSet(T) /\ T # {} /\ ~\E x \in T : \A y \in T : x >= y
    BY DEF FiniteSubsetsOf
  <2>4. PICK x \in T : TRUE
    BY <2>3
  <2>. DEFINE U == T \ {x}
  <2>5. U \in SUBSET S /\ IsFiniteSet(U) /\ U # T
    BY <2>3, <2>4, FS_RemoveElement
  <2>6. <<U, T>> \in StrictSubsetOrdering(S)
    BY <2>3, <2>5 DEF StrictSubsetOrdering
  <2>7. U \notin Bad
    BY <2>2, <2>6
  <2>8. U = {} \/ \E m \in U : \A y \in U : m >= y
    BY <2>5, <2>7 DEF FiniteSubsetsOf
  <2>9. CASE U = {}
    BY <2>3, <2>4, <2>9
  <2>10. CASE \E m \in U : \A y \in U : m >= y
    <3>1. PICK m \in U : \A y \in U : m >= y
      BY <2>10
    <3>2. m \in Nat /\ x \in Nat /\ T = U \cup {x} /\ U \subseteq Nat
      BY <2>3, <2>4, <3>1
    <3>3. CASE m >= x
      BY <2>3, <3>1, <3>2, <3>3
    <3>4. CASE x > m
      <4>1. \A y \in T : x >= y
        BY <3>1, <3>2, <3>4
      <4>. QED
        BY <2>3, <2>4, <4>1
    <3>. QED
      BY <3>2, <3>3, <3>4
  <2>. QED
    BY <2>8, <2>9, <2>10
<1>2. S \in FiniteSubsetsOf(S)
  BY DEF FiniteSubsetsOf
<1>3. \E x \in S : \A y \in S : x >= y
  BY <1>1, <1>2
<1>. QED
  BY <1>3 DEF Max

LEMMA LeastNatural ==
  ASSUME NEW S \in SUBSET Nat, S # {}
  PROVE  \E x \in S : \A y \in S : x <= y
<1>1. PICK x \in S : TRUE
  OBVIOUS
<1>. DEFINE Below == {n \in 0..x : x - n \in S}
<1>2. Below \in SUBSET Nat /\ Below # {}
  <2>1. x \in Nat /\ 0 \in 0..x /\ x - 0 = x
    BY <1>1
  <2>2. 0 \in Below
    BY <1>1, <2>1
  <2>3. Below \subseteq 0..x /\ 0..x \subseteq Nat
    BY <2>1
  <2>. HIDE DEF Below
  <2>. QED
    BY <2>2, <2>3
<1>3. IsFiniteSet(Below)
  <2>1. IsFiniteSet(0..x) /\ Below \subseteq 0..x
    BY <1>1, FS_Interval
  <2>. QED
    BY <2>1, FS_Subset
<1>4. PICK m \in Below : \A n \in Below : n <= m
  <2>. HIDE DEF Below
  <2>. QED
    BY <1>2, <1>3, LargestNatural
<1>5. ASSUME NEW y \in S
      PROVE  x - m <= y
  <2>1. x \in Nat /\ y \in Nat /\ m \in 0..x
    BY <1>1, <1>4
  <2>2. CASE y <= x
    <3>1. x - y \in 0..x /\ x - (x - y) = y
      BY <2>1, <2>2
    <3>2. x - y \in Below
      BY <3>1
    <3>. QED
      BY <1>4, <2>1, <3>2
  <2>3. CASE x < y
    BY <2>1, <2>3
  <2>. QED
    BY <2>1, <2>2, <2>3
<1>. QED
  BY <1>4, <1>5

-----------------------------------------------------------------------------
(***************************************************************************)
(* Pages.                                                                  *)
(***************************************************************************)

DocumentTypes ==
  /\ observed \in [Documents -> Nat]
  /\ visible \in SUBSET Documents

\* Documents are numbers, and finite sets of them have a size.
LEMMA Numbered ==
  ASSUME DocumentTypes
  PROVE  /\ \A d \in visible : d \in Nat /\ observed[d] \in Nat
         /\ \A S \in SUBSET visible : S \in SUBSET Nat /\ IsFiniteSet(S)
<1>1. visible \subseteq Documents /\ Documents \subseteq Nat /\ IsFiniteSet(Documents)
  BY AnalysesAssumption DEF DocumentTypes, AnalysesAssumption
<1>2. \A S \in SUBSET visible : S \in SUBSET Documents
  BY <1>1
<1>3. \A S \in SUBSET visible : IsFiniteSet(S)
  BY <1>1, <1>2, FS_Subset
<1>. QED
  BY <1>1, <1>3 DEF DocumentTypes

\* (observed_at, id) is a total order.
LEMMA Order ==
  ASSUME DocumentTypes, NEW d \in visible, NEW e \in visible, NEW t \in Nat, NEW i \in Nat
  PROVE  /\ After(d, observed[e], e) /\ After(e, t, i) => After(d, t, i)
         /\ ~After(d, observed[e], e) /\ After(d, t, i) => After(e, t, i)
         /\ d # e => After(d, observed[e], e) \/ After(e, observed[d], d)
         /\ ~(After(d, observed[e], e) /\ After(e, observed[d], d))
<1>1. d \in Nat /\ e \in Nat /\ observed[d] \in Nat /\ observed[e] \in Nat
  BY Numbered
<1>. QED
  BY <1>1 DEF After

Earlier(pending, d) == {e \in pending : After(d, observed[e], e)}

LEMMA PageIsPending ==
  ASSUME NEW asOf, NEW t, NEW i
  PROVE  /\ Page(asOf, t, i) \subseteq Pending(asOf, t, i)
         /\ Pending(asOf, t, i) \subseteq visible
         /\ Page(asOf, t, i) = {d \in Pending(asOf, t, i) :
                                  Cardinality(Earlier(Pending(asOf, t, i), d)) < BatchSize}
BY DEF Page, Pending, Earlier

\* What comes before a document of the page is on the page.
LEMMA PageIsInitial ==
  ASSUME DocumentTypes, NEW asOf, NEW t \in Nat, NEW i \in Nat,
         NEW e \in Page(asOf, t, i), NEW d \in Pending(asOf, t, i), ~After(d, observed[e], e)
  PROVE  d \in Page(asOf, t, i)
<1>. DEFINE pending == Pending(asOf, t, i)
<1>1. pending \subseteq visible /\ e \in pending /\ d \in pending
  BY PageIsPending
<1>. HIDE DEF pending
<1>2. Earlier(pending, d) \subseteq Earlier(pending, e)
  <2>1. ASSUME NEW x \in pending, After(d, observed[x], x)
        PROVE  After(e, observed[x], x)
    <3>1. x \in visible /\ x \in Nat /\ observed[x] \in Nat
      BY <1>1, <2>1, Numbered
    <3>. QED
      BY <1>1, <2>1, <3>1, Order
  <2>. QED
    BY <2>1 DEF Earlier
<1>3. IsFiniteSet(Earlier(pending, e))
  BY <1>1, Numbered DEF Earlier
<1>4. Cardinality(Earlier(pending, d)) <= Cardinality(Earlier(pending, e))
  BY <1>2, <1>3, FS_Subset
<1>5. Cardinality(Earlier(pending, d)) \in Nat /\ Cardinality(Earlier(pending, e)) \in Nat
  BY <1>2, <1>3, FS_Subset, FS_CardinalityType
<1>6. Cardinality(Earlier(pending, e)) < BatchSize /\ BatchSize \in Nat
  BY PageIsPending, AnalysesAssumption DEF pending, AnalysesAssumption
<1>7. Cardinality(Earlier(pending, d)) < BatchSize
  BY <1>4, <1>5, <1>6
<1>. QED
  BY <1>1, <1>7, PageIsPending DEF pending

\* A set of documents has a first one.
LEMMA FirstDocument ==
  ASSUME DocumentTypes, NEW S \in SUBSET visible, S # {}
  PROVE  \E d \in S : \A e \in S : ~After(d, observed[e], e)
<1>. DEFINE Times == {observed[d] : d \in S}
<1>1. Times \in SUBSET Nat /\ Times # {}
  BY Numbered
<1>2. PICK t \in Times : \A u \in Times : t <= u
  <2>. HIDE DEF Times
  <2>. QED
    BY <1>1, LeastNatural
<1>. DEFINE Firsts == {d \in S : observed[d] = t}
<1>3. Firsts \in SUBSET Nat /\ Firsts # {}
  BY Numbered
<1>4. PICK d \in Firsts : \A e \in Firsts : d <= e
  <2>. HIDE DEF Firsts
  <2>. QED
    BY <1>3, LeastNatural
<1>5. \A e \in S : ~After(d, observed[e], e)
  <2>1. SUFFICES ASSUME NEW e \in S
                 PROVE  ~After(d, observed[e], e)
    OBVIOUS
  <2>2. observed[d] = t /\ t <= observed[e] /\ d \in Nat /\ e \in Nat /\ observed[e] \in Nat /\ t \in Nat
    BY <1>1, <1>2, <1>4, Numbered
  <2>3. observed[e] = t => d <= e
    BY <1>4
  <2>. QED
    BY <2>2, <2>3 DEF After
<1>. QED
  BY <1>4, <1>5

\* A page that is not full is all that is pending.
LEMMA ShortPageIsAll ==
  ASSUME DocumentTypes, NEW asOf, NEW t \in Nat, NEW i \in Nat,
         Cardinality(Page(asOf, t, i)) < BatchSize
  PROVE  Page(asOf, t, i) = Pending(asOf, t, i)
<1>. DEFINE pending == Pending(asOf, t, i)
            page == Page(asOf, t, i)
            rest == pending \ page
<1>1. page \subseteq pending /\ pending \subseteq visible
  BY PageIsPending
<1>2. SUFFICES ASSUME rest # {}
               PROVE  FALSE
  BY <1>1
<1>3. PICK d \in rest : \A e \in rest : ~After(d, observed[e], e)
  <2>1. rest \in SUBSET visible
    BY <1>1
  <2>. HIDE DEF rest
  <2>. QED
    BY <1>2, <2>1, FirstDocument
<1>4. Earlier(pending, d) \subseteq page
  BY <1>3 DEF Earlier
<1>5. IsFiniteSet(page)
  BY <1>1, Numbered
<1>. HIDE DEF page, pending
<1>6. Cardinality(Earlier(pending, d)) <= Cardinality(page)
        /\ Cardinality(Earlier(pending, d)) \in Nat /\ Cardinality(page) \in Nat
  BY <1>4, <1>5, FS_Subset, FS_CardinalityType
<1>7. Cardinality(Earlier(pending, d)) < BatchSize
  BY <1>6, AnalysesAssumption DEF page, AnalysesAssumption
<1>8. d \in page
  BY <1>3, <1>7, PageIsPending DEF page, pending
<1>. QED
  BY <1>3, <1>8

\* The cursor that is taken from a page stands on its last document.
LEMMA LastOfPage ==
  ASSUME DocumentTypes, NEW page \in SUBSET visible, page # {}
  PROVE  LET lastTime == Max({observed[d] : d \in page})
             lastId == Max({d \in page : observed[d] = lastTime}) IN
           /\ lastId \in page /\ lastTime = observed[lastId]
           /\ lastTime \in Nat /\ lastId \in Nat
           /\ \A d \in page : ~After(d, lastTime, lastId)
<1>. DEFINE lastTime == Max({observed[d] : d \in page})
            lastId == Max({d \in page : observed[d] = lastTime})
<1>. DEFINE Times == {observed[d] : d \in page}
<1>1. Times \in SUBSET Nat /\ Times # {}
  BY Numbered
<1>2. IsFiniteSet(Times)
  <2>. DEFINE f == [d \in page |-> observed[d]]
  <2>1. f \in Surjection(page, Times)
    BY DEF Surjection
  <2>2. IsFiniteSet(page)
    BY Numbered
  <2>. HIDE DEF f, Times
  <2>. QED
    BY <2>1, <2>2, FS_Surjection
<1>3. lastTime \in Times /\ \A u \in Times : u <= lastTime
  <2>1. lastTime = Max(Times)
    OBVIOUS
  <2>. HIDE DEF Times
  <2>. QED
    BY <1>1, <1>2, <2>1, LargestNatural
<1>. HIDE DEF lastTime
<1>. DEFINE Lasts == {d \in page : observed[d] = lastTime}
<1>4. Lasts \in SUBSET Nat /\ Lasts # {} /\ IsFiniteSet(Lasts)
  BY <1>3, Numbered
<1>5. lastId \in Lasts /\ \A e \in Lasts : e <= lastId
  <2>1. lastId = Max(Lasts)
    OBVIOUS
  <2>. HIDE DEF Lasts
  <2>. QED
    BY <1>4, <2>1, LargestNatural
<1>6. lastId \in page /\ lastTime = observed[lastId] /\ lastTime \in Nat /\ lastId \in Nat
  BY <1>1, <1>3, <1>4, <1>5
<1>7. ASSUME NEW d \in page
      PROVE  ~After(d, lastTime, lastId)
  <2>1. observed[d] <= lastTime /\ (observed[d] = lastTime => d <= lastId)
    BY <1>3, <1>5
  <2>2. d \in Nat /\ observed[d] \in Nat
    BY Numbered
  <2>. QED
    BY <1>6, <2>1, <2>2 DEF After
<1>. QED
  BY <1>6, <1>7 DEF lastTime

-----------------------------------------------------------------------------
(***************************************************************************)
(* No document is analysed twice.                                          *)
(***************************************************************************)

ReadingStates ==
  [phase : {"paging", "writing"}, asOf : Nat, from : Nat, first : BOOLEAN,
   time : Nat, id : Nat, drafts : SUBSET Documents,
   alone : BOOLEAN, unseen : SUBSET (Documents \X Nat)]

RunStates == {Idle} \cup [phase : {"started"}, asOf : Nat] \cup ReadingStates

Types ==
  /\ DocumentTypes
  /\ now \in Nat \ {0}
  /\ analysed \in [Documents -> Nat]
  /\ watermark \in Nat
  /\ since \in Nat
  /\ run \in [Runs -> RunStates]

Reading(r) == r.phase \in {"paging", "writing"}

\* What is recorded lies in the past, and what is visible has been observed.
Past ==
  /\ watermark < now
  /\ \A d \in Documents : observed[d] < now
  /\ \A d \in visible : observed[d] # 0

\* An analysed document is behind the watermark.
Behind ==
  \A d \in Documents :
    /\ analysed[d] <= 1 \/ d \in shared
    /\ analysed[d] > 0 => d \in visible /\ observed[d] <= watermark

\* A run looks at what lies between its lower bound and its as_of; while it is alone,
\* the watermark does not pass its lower bound.
InRange(r) ==
  /\ r # Idle => r.asOf < now
  /\ Reading(r) =>
       /\ r.alone => watermark <= r.from
       /\ ~r.first => r.from <= watermark
       /\ r.time > r.from \/ (r.time = r.from /\ \A d \in Documents : d <= r.id)
       /\ \A d \in r.drafts : d \in visible /\ r.from < observed[d] /\ observed[d] <= r.asOf

RangeInv == Types /\ Past /\ Behind /\ \A a \in Runs : InRange(run[a])

LEMMA RunTypes ==
  ASSUME Types, NEW a \in Runs
  PROVE  /\ run[a].phase = "idle" <=> run[a] = Idle
         /\ run[a] # Idle => run[a].asOf \in Nat
         /\ run[a].phase = "started" => run[a] # Idle
         /\ Reading(run[a]) => run[a] # Idle /\ run[a] \in ReadingStates
BY DEF Types, RunStates, ReadingStates, Idle, Reading

LEMMA DocumentNumbers ==
  ASSUME Types
  PROVE  /\ \A d \in Documents : d \in Nat /\ observed[d] \in Nat
         /\ IsFiniteSet(Documents) /\ IsFiniteSet({0} \cup Documents)
         /\ Max({0} \cup Documents) \in Nat
         /\ \A d \in Documents : d <= Max({0} \cup Documents)
<1>1. \A d \in Documents : d \in Nat /\ observed[d] \in Nat
  BY AnalysesAssumption DEF Types, DocumentTypes, AnalysesAssumption
<1>2. IsFiniteSet(Documents) /\ IsFiniteSet({0} \cup Documents)
  BY AnalysesAssumption, FS_EmptySet, FS_AddElement, FS_Singleton, FS_Union DEF AnalysesAssumption
<1>. DEFINE D == {0} \cup Documents
<1>3. D \in SUBSET Nat /\ D # {}
  BY <1>1
<1>4. Max(D) \in D /\ \A y \in D : y <= Max(D)
  <2>. HIDE DEF D
  <2>. QED
    BY <1>2, <1>3, LargestNatural DEF D
<1>. QED
  BY <1>1, <1>2, <1>3, <1>4

LEMMA LargerOfTwo ==
  ASSUME NEW m \in Nat, NEW n \in Nat
  PROVE  Max({m, n}) \in {m, n} /\ Max({m, n}) >= m /\ Max({m, n}) >= n
<1>. DEFINE S == {m, n}
<1>1. S = {m} \cup {n} /\ IsFiniteSet({m})
  BY FS_Singleton
<1>2. S \in SUBSET Nat /\ S # {} /\ IsFiniteSet(S)
  BY <1>1, FS_AddElement
<1>3. Max(S) \in S /\ \A y \in S : y <= Max(S)
  <2>. HIDE DEF S
  <2>. QED
    BY <1>2, LargestNatural
<1>. QED
  BY <1>3

LEMMA RangeInit == Init => RangeInv
BY DEF Init, RangeInv, Types, DocumentTypes, RunStates, Past, Behind, InRange, Reading, Idle, Runs

\* A page of a run lies in its range, and so does the cursor taken from it.
LEMMA PageInRange ==
  ASSUME RangeInv, NEW a \in Runs, run[a].phase = "paging"
  PROVE  LET page == Page(run[a].asOf, run[a].time, run[a].id) IN
           /\ page \in SUBSET visible
           /\ \A d \in page : /\ After(d, run[a].time, run[a].id)
                              /\ run[a].from < observed[d] /\ observed[d] <= run[a].asOf
<1>. DEFINE r == run[a]
            page == Page(r.asOf, r.time, r.id)
<1>1. page \subseteq Pending(r.asOf, r.time, r.id) /\ Pending(r.asOf, r.time, r.id) \subseteq visible
  BY PageIsPending
<1>2. Types /\ InRange(r) /\ Reading(r)
  BY DEF RangeInv, Reading
<1>3. r.from \in Nat /\ r.time \in Nat /\ r.id \in Nat
  BY <1>2, RunTypes DEF ReadingStates
<1>4. r.time > r.from \/ (r.time = r.from /\ \A d \in Documents : d <= r.id)
  BY <1>2 DEF InRange
<1>5. ASSUME NEW d \in page
      PROVE  /\ After(d, r.time, r.id)
             /\ r.from < observed[d] /\ observed[d] <= r.asOf
  <2>1. d \in visible /\ observed[d] <= r.asOf /\ After(d, r.time, r.id)
    BY <1>1 DEF Pending
  <2>2. d \in Documents /\ d \in Nat /\ observed[d] \in Nat
    BY <1>2, <2>1, DocumentNumbers DEF Types, DocumentTypes
  <2>3. observed[d] > r.time \/ (observed[d] = r.time /\ d > r.id)
    BY <2>1 DEF After
  <2>4. r.from < observed[d]
    BY <1>3, <1>4, <2>2, <2>3
  <2>. QED
    BY <2>1, <2>4
<1>. QED
  BY <1>1, <1>5

\* What the step of a run that reads a page makes of the run.
LEMMA PageRead ==
  ASSUME RangeInv, NEW a \in Runs, ReadPage(a)
  PROVE  LET r == run[a]
             page == Page(r.asOf, r.time, r.id)
             s == run'[a] IN
           /\ r \in ReadingStates /\ r.phase = "paging" /\ s \in ReadingStates
           /\ run' = [run EXCEPT ![a] = s]
           /\ s.asOf = r.asOf /\ s.from = r.from /\ s.first = r.first /\ s.alone = r.alone
           /\ s.drafts = r.drafts \cup page
           /\ s.unseen = r.unseen \cup OnTheWay(r.asOf)
           /\ page = {} => s.time = r.time /\ s.id = r.id /\ s.phase = "writing"
           /\ page # {} => /\ s.id \in page /\ s.time = observed[s.id]
                           /\ \A d \in page : ~After(d, s.time, s.id)
           /\ s.phase = "writing" => \/ Cardinality(page) < BatchSize
                                     \/ Cardinality(s.drafts) >= MaxDocuments
<1>. DEFINE r == run[a]
            page == Page(r.asOf, r.time, r.id)
            drafts == r.drafts \cup page
            lastTime == Max({observed[d] : d \in page})
            lastId == Max({d \in page : observed[d] = lastTime})
            phase == IF \/ Cardinality(page) < BatchSize
                        \/ Cardinality(drafts) >= MaxDocuments
                     THEN "writing" ELSE "paging"
            unseen == r.unseen \cup OnTheWay(r.asOf)
            s == IF page = {}
                 THEN [r EXCEPT !.phase = "writing", !.unseen = @ \cup OnTheWay(r.asOf)]
                 ELSE [r EXCEPT !.phase = phase, !.time = lastTime, !.id = lastId,
                                !.drafts = drafts, !.unseen = @ \cup OnTheWay(r.asOf)]
<1>1. run' = [run EXCEPT ![a] = s]
  BY DEF ReadPage
<1>2. Reading(r) /\ r.phase = "paging" /\ Types /\ DocumentTypes
  BY DEF ReadPage, Reading, RangeInv, Types
<1>3. r \in ReadingStates
  BY <1>2, RunTypes
<1>4. page \in SUBSET visible /\ visible \in SUBSET Documents
  BY <1>2, PageInRange DEF DocumentTypes
<1>5. page # {} =>
        /\ lastId \in page /\ lastTime = observed[lastId]
        /\ lastTime \in Nat /\ lastId \in Nat
        /\ \A d \in page : ~After(d, lastTime, lastId)
  <2>. HIDE DEF page, r
  <2>. QED
    BY <1>2, <1>4, LastOfPage
<1>6. unseen \in SUBSET (Documents \X Nat)
  <2>1. OnTheWay(r.asOf) \in SUBSET (Documents \X Nat)
    BY <1>2, DocumentNumbers DEF OnTheWay, InFlight
  <2>. HIDE DEF r
  <2>. QED
    BY <1>3, <2>1 DEF ReadingStates
<1>7. run'[a] = s
  BY <1>1 DEF RangeInv, Types
<1>8. drafts \in SUBSET Documents /\ phase \in {"paging", "writing"}
  <2>. HIDE DEF page, r
  <2>. QED
    BY <1>3, <1>4 DEF ReadingStates
<1>9. CASE page = {}
  <2>1. s = [r EXCEPT !.phase = "writing", !.unseen = unseen]
    BY <1>9
  <2>2. drafts = r.drafts /\ Cardinality(page) < BatchSize
    BY <1>9, FS_EmptySet, AnalysesAssumption DEF AnalysesAssumption
  <2>. HIDE DEF r, page, unseen, s, drafts
  <2>3. /\ s \in ReadingStates
        /\ s.asOf = r.asOf /\ s.from = r.from /\ s.first = r.first /\ s.alone = r.alone
        /\ s.drafts = r.drafts /\ s.unseen = unseen
        /\ s.time = r.time /\ s.id = r.id /\ s.phase = "writing"
    BY <1>3, <1>6, <2>1 DEF ReadingStates
  <2>. QED
    BY <1>1, <1>2, <1>3, <1>7, <1>9, <2>2, <2>3 DEF r, page, unseen, drafts
<1>10. CASE page # {}
  <2>1. s = [r EXCEPT !.phase = phase, !.time = lastTime, !.id = lastId,
                      !.drafts = drafts, !.unseen = unseen]
    BY <1>10
  <2>2. phase = "writing" => \/ Cardinality(page) < BatchSize
                             \/ Cardinality(drafts) >= MaxDocuments
    OBVIOUS
  <2>. HIDE DEF r, page, unseen, s, drafts, lastTime, lastId, phase
  <2>3. /\ s \in ReadingStates
        /\ s.asOf = r.asOf /\ s.from = r.from /\ s.first = r.first /\ s.alone = r.alone
        /\ s.drafts = drafts /\ s.unseen = unseen
        /\ s.time = lastTime /\ s.id = lastId /\ s.phase = phase
    BY <1>3, <1>5, <1>6, <1>8, <1>10, <2>1 DEF ReadingStates
  <2>. QED
    BY <1>1, <1>2, <1>3, <1>5, <1>7, <1>10, <2>2, <2>3 DEF r, page, unseen, drafts
<1>. QED
  BY <1>9, <1>10

\* What a run's commit makes of the watermark and of the other run.
LEMMA Committed ==
  ASSUME RangeInv, NEW a \in Runs, CommitDocuments(a)
  PROVE  LET r == run[a] IN
           /\ Reading(r) /\ r.phase = "writing" /\ r \in ReadingStates /\ InRange(r)
           /\ watermark' \in Nat /\ watermark' >= watermark /\ watermark' < now
           /\ r.drafts = {} => watermark' = watermark
           /\ r.drafts # {} => /\ watermark' >= r.asOf
                               /\ watermark' = watermark \/ watermark' = r.asOf
           /\ since' \in Nat /\ since' >= since
           /\ r.drafts # {} /\ r.first => since' >= r.from
           /\ run'[a] = Idle
           /\ \A b \in Runs : b # a =>
                \/ run'[b] = run[b] /\ (watermark' = watermark \/ ~Reading(run[b]))
                \/ Reading(run[b]) /\ run'[b] = [run[b] EXCEPT !.alone = FALSE]
<1>. DEFINE r == run[a]
<1>1. Reading(r) /\ r.phase = "writing" /\ Types /\ InRange(r) /\ Past
  BY DEF CommitDocuments, Reading, RangeInv
<1>2. r \in ReadingStates /\ r # Idle
  BY <1>1, RunTypes
<1>3. watermark \in Nat /\ since \in Nat /\ now \in Nat /\ watermark < now
        /\ r.asOf \in Nat /\ r.from \in Nat /\ r.asOf < now
  BY <1>1, <1>2 DEF Types, ReadingStates, InRange, Past
<1>4. /\ watermark' = IF r.drafts = {} THEN watermark ELSE Max({watermark, r.asOf})
      /\ since' = IF r.drafts # {} /\ r.first THEN Max({since, r.from}) ELSE since
      /\ run' = [b \in Runs |->
                   IF b = a THEN Idle
                   ELSE IF r.drafts # {} /\ run[b].phase \in {"paging", "writing"}
                   THEN [run[b] EXCEPT !.alone = FALSE]
                   ELSE run[b]]
  BY DEF CommitDocuments
<1>. HIDE DEF r
<1>5. /\ watermark' \in Nat /\ watermark' >= watermark /\ watermark' < now
      /\ r.drafts = {} => watermark' = watermark
      /\ r.drafts # {} => watermark' >= r.asOf /\ (watermark' = watermark \/ watermark' = r.asOf)
  BY <1>3, <1>4, LargerOfTwo
<1>6. since' \in Nat /\ since' >= since /\ (r.drafts # {} /\ r.first => since' >= r.from)
  BY <1>3, <1>4, LargerOfTwo
<1>7. run'[a] = Idle
  BY <1>4
<1>8. ASSUME NEW b \in Runs, b # a
      PROVE  \/ run'[b] = run[b] /\ (watermark' = watermark \/ ~Reading(run[b]))
             \/ Reading(run[b]) /\ run'[b] = [run[b] EXCEPT !.alone = FALSE]
  BY <1>4, <1>5, <1>8 DEF Reading
<1>. QED
  BY <1>1, <1>2, <1>5, <1>6, <1>7, <1>8 DEF r

\* Documents arrive while the runs stand still.
LEMMA ArrivalKeepsRange ==
  ASSUME RangeInv, UNCHANGED <<analysisVars, run>>, now' \in Nat, now' >= now,
         observed' \in [Documents -> Nat], visible' \in SUBSET Documents,
         visible \subseteq visible',
         \A d \in visible : observed'[d] = observed[d],
         \A d \in Documents : observed'[d] < now',
         \A d \in visible' : observed'[d] # 0
  PROVE  RangeInv'
<1>1. Types' /\ now \in Nat \ {0} /\ watermark \in Nat
  BY DEF RangeInv, Types, DocumentTypes, analysisVars
<1>2. Past' /\ Behind'
  BY <1>1 DEF RangeInv, Past, Behind, analysisVars
<1>3. ASSUME NEW a \in Runs
      PROVE  InRange(run[a])'
  <2>1. InRange(run[a]) /\ run'[a] = run[a] /\ watermark' = watermark
    BY DEF RangeInv, analysisVars
  <2>2. run[a] # Idle => run[a].asOf < now'
    BY <1>1, <2>1, RunTypes DEF InRange, RangeInv
  <2>. QED
    BY <2>1, <2>2 DEF InRange, Reading
<1>. QED
  BY <1>1, <1>2, <1>3 DEF RangeInv

\* The step of one run leaves the other one in its range.
LEMMA OtherInRange ==
  ASSUME RangeInv, NEW b \in Runs, UNCHANGED documentVars, now' \in Nat, now' >= now,
         watermark' \in Nat, watermark' >= watermark,
         \/ run'[b] = run[b] /\ (watermark' = watermark \/ ~Reading(run[b]))
         \/ Reading(run[b]) /\ run'[b] = [run[b] EXCEPT !.alone = FALSE]
  PROVE  run'[b] \in RunStates /\ InRange(run[b])'
<1>. DEFINE r == run[b]
            s == run'[b]
<1>1. r \in RunStates /\ InRange(r) /\ Types /\ now \in Nat /\ watermark \in Nat
        /\ UNCHANGED <<observed, visible>>
  BY DEF RangeInv, Types, documentVars
<1>2. r # Idle => r.asOf \in Nat /\ r.asOf < now'
  BY <1>1, RunTypes DEF InRange
<1>3. CASE s = r /\ (watermark' = watermark \/ ~Reading(r))
  BY <1>1, <1>2, <1>3 DEF InRange, Reading
<1>4. CASE Reading(r) /\ s = [r EXCEPT !.alone = FALSE]
  <2>1. r \in ReadingStates /\ r # Idle
    BY <1>1, <1>4, RunTypes
  <2>. HIDE DEF r, s
  <2>2. /\ s \in ReadingStates /\ s.alone = FALSE
        /\ s.asOf = r.asOf /\ s.from = r.from /\ s.first = r.first /\ s.time = r.time
        /\ s.id = r.id /\ s.drafts = r.drafts
    BY <1>4, <2>1 DEF ReadingStates
  <2>3. s \in RunStates
    BY <2>2 DEF RunStates
  <2>4. r.from \in Nat
    BY <2>1 DEF ReadingStates
  <2>5. /\ s.asOf < now'
        /\ ~s.first => s.from <= watermark'
        /\ s.time > s.from \/ (s.time = s.from /\ \A d \in Documents : d <= s.id)
        /\ \A d \in s.drafts : d \in visible /\ s.from < observed[d] /\ observed[d] <= s.asOf
    BY <1>1, <1>2, <1>4, <2>1, <2>2, <2>4 DEF InRange
  <2>6. InRange(run[b])'
    BY <1>1, <2>2, <2>5 DEF InRange, s
  <2>. QED
    BY <2>3, <2>6 DEF s
<1>. QED
  BY <1>3, <1>4

\* A step of a run that stores nothing.
LEMMA QuietStep ==
  ASSUME RangeInv, NEW a \in Runs, UNCHANGED <<documentVars, analysisVars>>,
         now' \in Nat, now' >= now,
         run'[a] \in RunStates, run' = [run EXCEPT ![a] = run'[a]],
         InRange(run[a])'
  PROVE  RangeInv'
<1>1. now \in Nat \ {0} /\ watermark \in Nat /\ run \in [Runs -> RunStates]
  BY DEF RangeInv, Types
<1>2. UNCHANGED <<observed, visible, analysed, watermark, since, shared>>
  BY DEF documentVars, analysisVars
<1>3. Types'
  BY <1>1, <1>2 DEF RangeInv, Types, DocumentTypes
<1>4. watermark < now' /\ \A d \in Documents : observed[d] < now'
  BY <1>1 DEF RangeInv, Types, DocumentTypes, Past
<1>5. Past' /\ Behind'
  BY <1>2, <1>4 DEF RangeInv, Past, Behind
<1>6. ASSUME NEW b \in Runs
      PROVE  InRange(run[b])'
  <2>1. CASE b = a
    BY <2>1
  <2>2. CASE b # a
    <3>1. run'[b] = run[b]
      BY <1>1, <2>2
    <3>. QED
      BY <1>1, <1>2, <3>1, OtherInRange
  <2>. QED
    BY <2>1, <2>2
<1>. QED
  BY <1>3, <1>5, <1>6 DEF RangeInv

LEMMA RunStepKeepsRange ==
  ASSUME RangeInv, NEW a \in Runs, RunStep(a)
  PROVE  RangeInv'
<1>0. /\ now \in Nat \ {0} /\ watermark \in Nat
      /\ \A d \in Documents : observed[d] \in Nat
      /\ run \in [Runs -> RunStates]
      /\ visible \subseteq Documents
      /\ Types /\ Past /\ Behind /\ InRange(run[a])
  BY DEF RangeInv, Types, DocumentTypes
<1>1. CASE Start(a)
  <2>. DEFINE r == Started(now)
  <2>1. /\ run' = [run EXCEPT ![a] = r] /\ now' = now + 1
        /\ UNCHANGED <<documentVars, analysisVars>>
    BY <1>1 DEF Start
  <2>2. run'[a] = r
    BY <1>0, <2>1
  <2>3. r \in RunStates
    BY <1>0 DEF RunStates, Started
  <2>4. InRange(run[a])'
    BY <1>0, <2>1, <2>2 DEF InRange, Reading, Started
  <2>5. /\ UNCHANGED <<documentVars, analysisVars>> /\ now' \in Nat /\ now' >= now
        /\ run'[a] \in RunStates /\ run' = [run EXCEPT ![a] = run'[a]]
    BY <1>0, <2>1, <2>2, <2>3
  <2>. QED
    BY <2>4, <2>5, QuietStep
<1>2. CASE ReadWatermark(a)
  <2>. DEFINE asOf == run[a].asOf
              from == LowerBound(asOf)
              r == Paging(asOf, from, watermark = 0)
  <2>1. asOf \in Nat /\ run[a] # Idle /\ Lookback \in Nat
    BY <1>0, <1>2, RunTypes, AnalysesAssumption DEF ReadWatermark, AnalysesAssumption
  <2>2. from \in Nat /\ watermark <= from /\ (watermark # 0 => from = watermark)
    BY <1>0, <2>1 DEF LowerBound
  <2>3. run' = [run EXCEPT ![a] = r] /\ UNCHANGED <<now, documentVars, analysisVars>>
    BY <1>2 DEF ReadWatermark
  <2>4. run'[a] = r
    BY <1>0, <2>3
  <2>5. asOf < now
    BY <1>0, <2>1 DEF InRange
  <2>6. Max({0} \cup Documents) \in Nat /\ \A d \in Documents : d <= Max({0} \cup Documents)
    BY <1>0, DocumentNumbers
  <2>. HIDE DEF asOf, from
  <2>7. /\ r \in ReadingStates
        /\ r.asOf = asOf /\ r.from = from /\ r.time = from
        /\ r.id = Max({0} \cup Documents) /\ r.drafts = {}
    BY <2>1, <2>2, <2>6 DEF ReadingStates, Paging
  <2>8. r.first <=> watermark = 0
    BY DEF Paging
  <2>. HIDE DEF r
  <2>9. InRange(run[a])'
    <3>1. UNCHANGED <<now, watermark>>
      BY <2>3 DEF analysisVars
    <3>. QED
      BY <2>2, <2>4, <2>5, <2>6, <2>7, <2>8, <3>1 DEF InRange
  <2>10. r \in RunStates
    BY <2>7 DEF RunStates
  <2>11. /\ UNCHANGED <<documentVars, analysisVars>> /\ now' \in Nat /\ now' >= now
         /\ run'[a] \in RunStates /\ run' = [run EXCEPT ![a] = run'[a]]
    BY <1>0, <2>3, <2>4, <2>10
  <2>. QED
    BY <2>9, <2>11, QuietStep
<1>3. CASE ReadPage(a)
  <2>. DEFINE r == run[a]
              page == Page(r.asOf, r.time, r.id)
              s == run'[a]
  <2>1. /\ r \in ReadingStates /\ r.phase = "paging" /\ s \in ReadingStates
        /\ run' = [run EXCEPT ![a] = s]
        /\ s.asOf = r.asOf /\ s.from = r.from /\ s.first = r.first /\ s.alone = r.alone
        /\ s.drafts = r.drafts \cup page
        /\ page = {} => s.time = r.time /\ s.id = r.id
        /\ page # {} => s.id \in page /\ s.time = observed[s.id]
    BY <1>3, PageRead
  <2>2. \A d \in page : d \in visible /\ r.from < observed[d] /\ observed[d] <= r.asOf
    BY <2>1, PageInRange
  <2>3. UNCHANGED <<now, documentVars, analysisVars>>
    BY <1>3 DEF ReadPage
  <2>4. Reading(r) /\ r # Idle
    BY <2>1 DEF Reading, Idle
  <2>5. InRange(run[a])'
    <3>1. UNCHANGED <<now, observed, visible, watermark>>
      BY <2>3 DEF documentVars, analysisVars
    <3>2. /\ r.asOf < now
          /\ r.alone => watermark <= r.from
          /\ ~r.first => r.from <= watermark
          /\ r.time > r.from \/ (r.time = r.from /\ \A d \in Documents : d <= r.id)
          /\ \A d \in r.drafts : d \in visible /\ r.from < observed[d] /\ observed[d] <= r.asOf
      BY <1>0, <2>4 DEF InRange
    <3>. HIDE DEF page, r, s
    <3>3. s.time > s.from \/ (s.time = s.from /\ \A d \in Documents : d <= s.id)
      BY <1>0, <2>1, <2>2, <3>2
    <3>4. \A d \in s.drafts : d \in visible /\ s.from < observed[d] /\ observed[d] <= s.asOf
      BY <2>1, <2>2, <3>2
    <3>5. s.asOf < now /\ (s.alone => watermark <= s.from) /\ (~s.first => s.from <= watermark)
      BY <2>1, <3>2
    <3>. QED
      BY <3>1, <3>3, <3>4, <3>5 DEF InRange, s
  <2>6. s \in RunStates
    BY <2>1 DEF RunStates
  <2>7. /\ UNCHANGED <<documentVars, analysisVars>> /\ now' \in Nat /\ now' >= now
        /\ run'[a] \in RunStates /\ run' = [run EXCEPT ![a] = run'[a]]
    BY <1>0, <2>1, <2>3, <2>6
  <2>. QED
    BY <2>5, <2>7, QuietStep
<1>4. CASE CommitDocuments(a)
  <2>. DEFINE r == run[a]
  <2>1. /\ r \in ReadingStates /\ Reading(r) /\ InRange(r)
        /\ watermark' \in Nat /\ watermark' >= watermark /\ watermark' < now
        /\ r.drafts # {} => watermark' >= r.asOf
        /\ since' \in Nat
        /\ run'[a] = Idle
        /\ \A b \in Runs : b # a =>
             \/ run'[b] = run[b] /\ (watermark' = watermark \/ ~Reading(run[b]))
             \/ Reading(run[b]) /\ run'[b] = [run[b] EXCEPT !.alone = FALSE]
    BY <1>4, Committed
  <2>2. /\ UNCHANGED <<now, documentVars>>
        /\ analysed' = [d \in Documents |->
                          IF d \in r.drafts /\ analysed[d] < 2
                          THEN analysed[d] + 1 ELSE analysed[d]]
        /\ shared' = IF r.alone THEN shared ELSE shared \cup r.drafts
        /\ run' = [b \in Runs |->
                     IF b = a THEN Idle
                     ELSE IF r.drafts # {} /\ run[b].phase \in {"paging", "writing"}
                     THEN [run[b] EXCEPT !.alone = FALSE]
                     ELSE run[b]]
    BY <1>4 DEF CommitDocuments
  <2>3. ASSUME NEW b \in Runs
        PROVE  run'[b] \in RunStates /\ InRange(run[b])'
    <3>1. CASE b = a
      BY <2>1, <3>1 DEF RunStates, InRange, Reading, Idle
    <3>2. CASE b # a
      <4>1. UNCHANGED documentVars /\ now' \in Nat /\ now' >= now
        BY <1>0, <2>2
      <4>. QED
        BY <2>1, <3>2, <4>1, OtherInRange
    <3>. QED
      BY <3>1, <3>2
  <2>4. run' \in [Runs -> RunStates]
    <3>. DEFINE f(b) == IF b = a THEN Idle
                        ELSE IF r.drafts # {} /\ run[b].phase \in {"paging", "writing"}
                        THEN [run[b] EXCEPT !.alone = FALSE]
                        ELSE run[b]
    <3>1. run' = [b \in Runs |-> f(b)]
      BY <2>2
    <3>2. \A b \in Runs : run'[b] \in RunStates
      BY <2>3
    <3>. HIDE DEF f
    <3>. QED
      BY <3>1, <3>2
  <2>. HIDE DEF r
  <2>5. ASSUME NEW d \in Documents
        PROVE  /\ analysed'[d] \in Nat
               /\ analysed'[d] <= 1 \/ d \in shared'
               /\ analysed'[d] > 0 => d \in visible /\ observed[d] <= watermark'
    <3>1. analysed[d] \in Nat /\ observed[d] \in Nat
            /\ (analysed[d] <= 1 \/ d \in shared)
            /\ (analysed[d] > 0 => d \in visible /\ observed[d] <= watermark)
      BY <1>0 DEF Types, Behind
    <3>2. CASE d \in r.drafts
      <4>1. d \in visible /\ r.from < observed[d] /\ observed[d] <= r.asOf
              /\ (r.alone => watermark <= r.from)
        BY <2>1, <3>2 DEF InRange
      <4>2. r.asOf \in Nat /\ r.from \in Nat /\ r.drafts # {}
        BY <2>1, <3>2 DEF ReadingStates
      <4>3. observed[d] <= watermark'
        BY <2>1, <3>1, <4>1, <4>2
      <4>4. r.alone => analysed[d] = 0
        BY <1>0, <3>1, <4>1, <4>2
      <4>5. analysed'[d] = IF analysed[d] < 2 THEN analysed[d] + 1 ELSE analysed[d]
        BY <2>2, <3>2
      <4>. QED
        BY <2>2, <3>1, <3>2, <4>1, <4>3, <4>4, <4>5
    <3>3. CASE d \notin r.drafts
      <4>1. analysed'[d] = analysed[d] /\ shared \subseteq shared'
        BY <2>2, <3>3
      <4>. QED
        BY <1>0, <2>1, <3>1, <4>1
    <3>. QED
      BY <3>2, <3>3
  <2>6. analysed' \in [Documents -> Nat]
    BY <2>2, <2>5
  <2>7. UNCHANGED <<now, observed, visible>>
    BY <2>2 DEF documentVars
  <2>8. Types'
    BY <1>0, <2>1, <2>4, <2>6, <2>7 DEF Types, DocumentTypes
  <2>9. Past' /\ Behind'
    BY <1>0, <2>1, <2>5, <2>7 DEF Past, Behind
  <2>. QED
    BY <2>3, <2>8, <2>9 DEF RangeInv
<1>5. CASE Abort(a)
  <2>1. run' = [run EXCEPT ![a] = Idle] /\ UNCHANGED <<now, documentVars, analysisVars>>
    BY <1>5 DEF Abort
  <2>2. run'[a] = Idle
    BY <1>0, <2>1
  <2>3. Idle \in RunStates
    BY DEF RunStates
  <2>4. InRange(run[a])'
    BY <2>2 DEF InRange, Reading, Idle
  <2>5. /\ UNCHANGED <<documentVars, analysisVars>> /\ now' \in Nat /\ now' >= now
        /\ run'[a] \in RunStates /\ run' = [run EXCEPT ![a] = run'[a]]
    BY <1>0, <2>1, <2>2, <2>3
  <2>. QED
    BY <2>4, <2>5, QuietStep
<1>. QED
  BY <1>1, <1>2, <1>3, <1>4, <1>5 DEF RunStep

LEMMA RangeStep ==
  ASSUME RangeInv, [Next]_vars
  PROVE  RangeInv'
<1>. USE DEF RangeInv
<1>0. /\ now \in Nat \ {0} /\ watermark \in Nat
      /\ \A d \in Documents : observed[d] \in Nat
      /\ run \in [Runs -> RunStates]
      /\ visible \subseteq Documents
  BY DEF Types, DocumentTypes
<1>1. ASSUME NEW answer \in SUBSET Documents, Fetch(answer)
      PROVE  RangeInv'
  <2>1. /\ observed' \in [Documents -> Nat] /\ now' = now + 1 /\ visible' = visible
        /\ UNCHANGED <<analysisVars, run>>
    BY <1>0, <1>1 DEF Fetch
  <2>2. \A d \in Documents : observed'[d] = observed[d] \/ (d \in answer /\ observed'[d] = now)
    BY <1>1 DEF Fetch
  <2>3. \A d \in visible : observed'[d] = observed[d]
    BY <1>0, <1>1, <2>2 DEF Fetch, Past
  <2>4. \A d \in Documents : observed'[d] < now'
    BY <1>0, <2>1, <2>2 DEF Past
  <2>5. \A d \in visible' : observed'[d] # 0
    BY <2>1, <2>3 DEF Past
  <2>6. now' \in Nat /\ now' >= now /\ visible \subseteq visible' /\ visible' \in SUBSET Documents
    BY <1>0, <2>1
  <2>. QED
    BY <2>1, <2>3, <2>4, <2>5, <2>6, ArrivalKeepsRange
<1>2. ASSUME NEW moment \in 1..LastMoment, Ingest(moment)
      PROVE  RangeInv'
  <2>. DEFINE answer == {d \in InFlight : observed[d] = moment}
  <2>1. answer \subseteq Documents \ visible /\ \A d \in answer : observed[d] # 0
    BY DEF InFlight
  <2>2. now' = now /\ UNCHANGED <<analysisVars, run>>
    BY <1>2 DEF Ingest
  <2>3. CASE visible' = visible \cup answer /\ UNCHANGED observed
    <3>1. observed' \in [Documents -> Nat] /\ visible' \in SUBSET Documents /\ visible \subseteq visible'
      BY <1>0, <2>1, <2>3 DEF Types, DocumentTypes
    <3>2. /\ \A d \in visible : observed'[d] = observed[d]
          /\ \A d \in Documents : observed'[d] < now'
          /\ \A d \in visible' : observed'[d] # 0
      BY <2>1, <2>2, <2>3 DEF Past
    <3>. QED
      BY <1>0, <2>2, <3>1, <3>2, ArrivalKeepsRange
  <2>4. CASE /\ observed' = [d \in Documents |-> IF d \in answer THEN 0 ELSE observed[d]]
             /\ UNCHANGED visible
    <3>. HIDE DEF answer
    <3>1. observed' \in [Documents -> Nat] /\ visible' \in SUBSET Documents /\ visible \subseteq visible'
      BY <1>0, <2>4
    <3>2. \A d \in visible : observed'[d] = observed[d]
      BY <1>0, <2>1, <2>4
    <3>3. \A d \in Documents : observed'[d] < now'
      BY <1>0, <2>2, <2>4 DEF Past
    <3>4. \A d \in visible' : observed'[d] # 0
      BY <2>4, <3>2 DEF Past
    <3>. QED
      BY <1>0, <2>2, <3>1, <3>2, <3>3, <3>4, ArrivalKeepsRange
  <2>. QED
    BY <1>2, <2>3, <2>4 DEF Ingest
<1>3. ASSUME NEW a \in Runs, RunStep(a)
      PROVE  RangeInv'
  BY <1>3, RunStepKeepsRange
<1>4. CASE UNCHANGED vars
  <2>1. UNCHANGED <<now, observed, visible, analysed, watermark, since, shared, run>>
    BY <1>4 DEF vars, documentVars, analysisVars
  <2>. QED
    BY <2>1 DEF Types, DocumentTypes, Past, Behind, InRange, Reading
<1>. QED
  BY <1>1, <1>2, <1>3, <1>4 DEF Next

\* No document is analysed twice, however runs overlap, are aborted and answers arrive
\* in between, but by a run in whose time another one has stored its analyses
\* (analysis_jobs.py:14).
THEOREM NoDocumentTwice == Spec => []AnalysedOnce
<1>1. RangeInv => AnalysedOnce
  BY DEF RangeInv, Behind, AnalysedOnce
<1>. QED
  BY <1>1, RangeInit, RangeStep, PTL DEF Spec

-----------------------------------------------------------------------------
(***************************************************************************)
(* No document is passed over.                                             *)
(***************************************************************************)

\* What is still on its way behind the watermark was on its way when a page was read.
Settled == \A d \in InFlight : observed[d] <= watermark => <<d, observed[d]>> \in missed

\* The run has a draft for all of its range up to its cursor, but for what was on its
\* way when it read a page; once it has read its last page, nothing else is left.
Covers(r) ==
  /\ Reading(r) =>
       \A d \in Documents :
         observed[d] # 0 /\ r.from < observed[d] /\ observed[d] <= r.asOf =>
           d \in r.drafts \/ After(d, r.time, r.id) \/ <<d, observed[d]>> \in r.unseen
  /\ r.phase = "writing" =>
       /\ \A d \in InFlight : observed[d] <= r.asOf => <<d, observed[d]>> \in r.unseen
       /\ \/ Cardinality(r.drafts) >= MaxDocuments
          \/ \A d \in Documents :
               observed[d] # 0 /\ observed[d] <= r.asOf /\ After(d, r.time, r.id) =>
                 <<d, observed[d]>> \in r.unseen

CoverInv == Settled /\ NothingPassedOver /\ \A a \in Runs : Covers(run[a])

LEMMA CoverInit == Init => CoverInv
BY DEF Init, CoverInv, Settled, NothingPassedOver, Covers, Reading, Idle, Runs, InFlight

\* Documents arrive while the runs stand still.
LEMMA ArrivalKeepsCover ==
  ASSUME RangeInv, CoverInv, UNCHANGED <<analysisVars, run>>,
         visible' \in SUBSET Documents, visible \subseteq visible',
         \A d \in Documents : observed'[d] \in {0, observed[d], now},
         \A d \in visible' : observed'[d] = observed[d] /\ observed[d] # 0
  PROVE  CoverInv'
<1>0. /\ now \in Nat /\ watermark \in Nat /\ watermark < now /\ watermark' = watermark
      /\ visible \subseteq Documents
      /\ \A d \in Documents : observed[d] \in Nat
      /\ UNCHANGED <<analysed, since, reported, missed, run>>
  BY DEF RangeInv, Types, DocumentTypes, Past, analysisVars
<1>1. ASSUME NEW m \in Nat, m < now, NEW d \in InFlight', observed'[d] <= m
      PROVE  d \in InFlight /\ observed'[d] = observed[d]
  BY <1>0, <1>1 DEF InFlight
<1>2. Settled'
  BY <1>0, <1>1 DEF CoverInv, Settled
<1>3. NothingPassedOver'
  <2>1. ASSUME NEW d \in visible', since < observed'[d], observed'[d] <= watermark
        PROVE  analysed[d] > 0 \/ d \in reported \/ <<d, observed'[d]>> \in missed
    <3>1. observed'[d] = observed[d] /\ observed[d] # 0 /\ d \in Documents
      OBVIOUS
    <3>2. CASE d \in visible
      BY <2>1, <3>1, <3>2 DEF CoverInv, NothingPassedOver
    <3>3. CASE d \notin visible
      BY <2>1, <3>1, <3>3 DEF CoverInv, Settled, InFlight
    <3>. QED
      BY <3>2, <3>3
  <2>. QED
    BY <1>0, <2>1 DEF NothingPassedOver
<1>4. ASSUME NEW a \in Runs
      PROVE  Covers(run[a])'
  <2>. DEFINE r == run[a]
  <2>1. Covers(r) /\ r' = r /\ InRange(r) /\ Types
    BY <1>0 DEF RangeInv, CoverInv
  <2>2. CASE r = Idle
    BY <2>1, <2>2 DEF Covers, Reading, Idle
  <2>3. CASE r # Idle
    <3>1. r.asOf \in Nat /\ r.asOf < now
      BY <2>1, <2>3, RunTypes DEF InRange
    <3>. HIDE DEF r
    <3>2. \A d \in Documents :
            observed'[d] # 0 /\ observed'[d] <= r.asOf => observed'[d] = observed[d]
      BY <1>0, <3>1
    <3>3. \A d \in InFlight' :
            observed'[d] <= r.asOf => d \in InFlight /\ observed'[d] = observed[d]
      BY <1>1, <3>1
    <3>4. ASSUME NEW d \in Documents, observed'[d] = observed[d]
          PROVE  After(d, r.time, r.id)' <=> After(d, r.time, r.id)
      BY <2>1, <3>4 DEF After
    <3>5. Reading(r) =>
            \A d \in Documents :
              observed'[d] # 0 /\ r.from < observed'[d] /\ observed'[d] <= r.asOf =>
                d \in r.drafts \/ After(d, r.time, r.id)' \/ <<d, observed'[d]>> \in r.unseen
      BY <2>1, <3>2, <3>4 DEF Covers
    <3>6. r.phase = "writing" =>
            /\ \A d \in InFlight' : observed'[d] <= r.asOf => <<d, observed'[d]>> \in r.unseen
            /\ \/ Cardinality(r.drafts) >= MaxDocuments
               \/ \A d \in Documents :
                    observed'[d] # 0 /\ observed'[d] <= r.asOf /\ After(d, r.time, r.id)' =>
                      <<d, observed'[d]>> \in r.unseen
      BY <2>1, <3>2, <3>3, <3>4 DEF Covers
    <3>. QED
      BY <2>1, <3>5, <3>6 DEF Covers, Reading, r
  <2>. QED
    BY <2>2, <2>3
<1>. QED
  BY <1>2, <1>3, <1>4 DEF CoverInv

\* The documents stand still, and so does a run, but for whether it is alone.
LEMMA OtherCovers ==
  ASSUME RangeInv, NEW b \in Runs, UNCHANGED documentVars, Covers(run[b]),
         \/ run'[b] = run[b]
         \/ Reading(run[b]) /\ run'[b] = [run[b] EXCEPT !.alone = FALSE]
  PROVE  Covers(run[b])'
<1>1. UNCHANGED <<observed, visible>>
  BY DEF documentVars
<1>2. CASE run'[b] = run[b]
  BY <1>1, <1>2 DEF Covers, Reading, After, InFlight
<1>3. CASE Reading(run[b]) /\ run'[b] = [run[b] EXCEPT !.alone = FALSE]
  <2>1. run[b] \in ReadingStates
    BY <1>3, RunTypes DEF RangeInv
  <2>2. LET r == run[b]
            s == run'[b] IN
          /\ s.phase = r.phase /\ s.asOf = r.asOf /\ s.from = r.from /\ s.time = r.time
          /\ s.id = r.id /\ s.drafts = r.drafts /\ s.unseen = r.unseen
    BY <1>3, <2>1 DEF ReadingStates
  <2>. QED
    BY <1>1, <2>2 DEF Covers, Reading, After, InFlight
<1>. QED
  BY <1>2, <1>3

\* A page moves the cursor past documents for each of which there is a draft, unless
\* it is on its way.
LEMMA PageCovers ==
  ASSUME RangeInv, NEW a \in Runs, ReadPage(a), Covers(run[a])
  PROVE  Covers(run[a])'
<1>. DEFINE r == run[a]
            page == Page(r.asOf, r.time, r.id)
            s == run'[a]
            pending == Pending(r.asOf, r.time, r.id)
<1>1. /\ r \in ReadingStates /\ r.phase = "paging" /\ s \in ReadingStates
      /\ s.asOf = r.asOf /\ s.from = r.from
      /\ s.drafts = r.drafts \cup page
      /\ s.unseen = r.unseen \cup OnTheWay(r.asOf)
      /\ page = {} => s.time = r.time /\ s.id = r.id /\ s.phase = "writing"
      /\ page # {} => /\ s.id \in page /\ s.time = observed[s.id]
                      /\ \A d \in page : ~After(d, s.time, s.id)
      /\ s.phase = "writing" => \/ Cardinality(page) < BatchSize
                                \/ Cardinality(s.drafts) >= MaxDocuments
  BY PageRead
<1>2. UNCHANGED <<observed, visible>> /\ DocumentTypes /\ Reading(r)
  BY <1>1 DEF ReadPage, documentVars, RangeInv, Types, Reading
<1>3. r.time \in Nat /\ r.id \in Nat
  BY <1>1 DEF ReadingStates
<1>4. page \in SUBSET visible /\ \A d \in page : After(d, r.time, r.id)
  BY <1>1, PageInRange
<1>5. /\ page \subseteq pending
      /\ Cardinality(page) < BatchSize => page = pending
  BY <1>2, <1>3, PageIsPending, ShortPageIsAll
<1>6. \A e \in page : \A d \in pending : ~After(d, observed[e], e) => d \in page
  BY <1>2, <1>3, PageIsInitial
<1>7. \A d \in Documents :
        observed[d] # 0 /\ r.from < observed[d] /\ observed[d] <= r.asOf =>
          d \in r.drafts \/ After(d, r.time, r.id) \/ <<d, observed[d]>> \in r.unseen
  BY <1>2 DEF Covers
<1>8. Cardinality(page) < BatchSize \/ page # {}
  BY FS_EmptySet, AnalysesAssumption DEF AnalysesAssumption
<1>9. \A d \in InFlight : observed[d] <= r.asOf => <<d, observed[d]>> \in s.unseen
  BY <1>1 DEF OnTheWay
<1>. HIDE DEF r, s, page, pending
<1>10. ASSUME NEW d \in Documents, observed[d] # 0, observed[d] <= r.asOf,
              After(d, r.time, r.id), ~After(d, s.time, s.id)
       PROVE  d \in page \/ <<d, observed[d]>> \in s.unseen
  <2>1. CASE d \notin visible
    BY <1>9, <1>10, <2>1 DEF InFlight
  <2>2. CASE d \in visible
    <3>1. d \in pending
      BY <1>10, <2>2 DEF Pending, pending
    <3>2. page # {}
      BY <1>1, <1>10
    <3>. QED
      BY <1>1, <1>6, <1>10, <3>1, <3>2
  <2>. QED
    BY <2>1, <2>2
<1>11. ASSUME NEW d \in Documents,
              observed[d] # 0, r.from < observed[d], observed[d] <= r.asOf
       PROVE  d \in s.drafts \/ After(d, s.time, s.id) \/ <<d, observed[d]>> \in s.unseen
  BY <1>1, <1>7, <1>10, <1>11
<1>12. ASSUME Cardinality(page) < BatchSize,
              NEW d \in Documents, observed[d] # 0, observed[d] <= r.asOf,
              After(d, s.time, s.id)
       PROVE  <<d, observed[d]>> \in s.unseen
  <2>1. CASE d \notin visible
    BY <1>9, <1>12, <2>1 DEF InFlight
  <2>2. CASE d \in visible
    <3>1. After(d, r.time, r.id)
      <4>1. CASE page = {}
        BY <1>1, <1>12, <4>1
      <4>2. CASE page # {}
        <5>1. s.id \in visible /\ After(s.id, r.time, r.id) /\ s.time = observed[s.id]
          BY <1>1, <1>4, <4>2
        <5>. QED
          BY <1>2, <1>3, <1>12, <2>2, <5>1, Order
      <4>. QED
        BY <4>1, <4>2
    <3>2. d \in page
      BY <1>5, <1>12, <2>2, <3>1 DEF Pending, pending
    <3>. QED
      BY <1>1, <1>12, <3>2
  <2>. QED
    BY <2>1, <2>2
<1>13. s.phase = "writing" =>
         /\ \A d \in InFlight : observed[d] <= s.asOf => <<d, observed[d]>> \in s.unseen
         /\ \/ Cardinality(s.drafts) >= MaxDocuments
            \/ \A d \in Documents :
                 observed[d] # 0 /\ observed[d] <= s.asOf /\ After(d, s.time, s.id) =>
                   <<d, observed[d]>> \in s.unseen
  BY <1>1, <1>9, <1>12
<1>. QED
  BY <1>1, <1>2, <1>11, <1>13 DEF Covers, InFlight, After, s

\* What a run commits leaves nothing behind its new watermark.
LEMMA CommitCovers ==
  ASSUME RangeInv, CoverInv, NEW a \in Runs, CommitDocuments(a)
  PROVE  Settled' /\ NothingPassedOver'
<1>. DEFINE r == run[a]
<1>1. /\ UNCHANGED <<observed, visible>>
      /\ analysed' = [d \in Documents |->
                        IF d \in r.drafts /\ analysed[d] < 2
                        THEN analysed[d] + 1 ELSE analysed[d]]
      /\ reported' = reported \cup
           IF Cardinality(r.drafts) >= MaxDocuments
           THEN Pending(r.asOf, r.time, r.id) ELSE {}
      /\ missed' = IF r.drafts = {} THEN missed ELSE missed \cup r.unseen
  BY DEF CommitDocuments, documentVars
<1>2. /\ Reading(r) /\ r.phase = "writing" /\ r \in ReadingStates /\ InRange(r)
      /\ watermark' \in Nat
      /\ r.drafts = {} => watermark' = watermark
      /\ r.drafts # {} => watermark' = watermark \/ watermark' = r.asOf
      /\ since' \in Nat /\ since' >= since
      /\ r.drafts # {} /\ r.first => since' >= r.from
  BY Committed
<1>3. Covers(r) /\ Types
  BY DEF RangeInv, CoverInv
<1>4. /\ watermark \in Nat /\ since \in Nat /\ analysed \in [Documents -> Nat]
      /\ visible \subseteq Documents /\ \A d \in Documents : observed[d] \in Nat
      /\ r.asOf \in Nat /\ r.from \in Nat
  BY <1>2, <1>3 DEF Types, DocumentTypes, ReadingStates
<1>5. \A d \in visible : observed[d] # 0
  BY DEF RangeInv, Past
<1>. HIDE DEF r
<1>6. Settled'
  <2>1. \A d \in InFlight : observed[d] <= r.asOf => <<d, observed[d]>> \in r.unseen
    BY <1>2, <1>3 DEF Covers
  <2>2. ASSUME NEW d \in InFlight, observed[d] <= watermark'
        PROVE  <<d, observed[d]>> \in missed'
    BY <1>1, <1>2, <2>1, <2>2 DEF CoverInv, Settled
  <2>3. InFlight' = InFlight
    BY <1>1 DEF InFlight
  <2>. QED
    BY <1>1, <2>2, <2>3 DEF Settled
<1>7. ASSUME NEW d \in visible, since' < observed[d], observed[d] <= watermark'
      PROVE  analysed'[d] > 0 \/ d \in reported' \/ <<d, observed[d]>> \in missed'
  <2>1. d \in Documents /\ analysed[d] \in Nat /\ observed[d] \in Nat /\ observed[d] # 0
    BY <1>4, <1>5
  <2>2. analysed'[d] >= analysed[d] /\ analysed'[d] \in Nat
          /\ reported \subseteq reported' /\ missed \subseteq missed'
    BY <1>1, <2>1
  <2>3. CASE observed[d] <= watermark
    <3>1. since < observed[d]
      BY <1>2, <1>4, <1>7, <2>1
    <3>2. analysed[d] > 0 \/ d \in reported \/ <<d, observed[d]>> \in missed
      BY <2>3, <3>1 DEF CoverInv, NothingPassedOver
    <3>. QED
      BY <2>1, <2>2, <3>2
  <2>4. CASE ~(observed[d] <= watermark)
    <3>1. r.drafts # {} /\ observed[d] <= r.asOf
      BY <1>2, <1>7, <2>4
    <3>2. r.from < observed[d]
      <4>1. CASE r.first
        BY <1>2, <1>4, <1>7, <2>1, <3>1, <4>1
      <4>2. CASE ~r.first
        BY <1>2, <1>4, <2>1, <2>4, <4>2 DEF InRange
      <4>. QED
        BY <4>1, <4>2
    <3>3. CASE d \in r.drafts
      BY <1>1, <2>1, <3>3
    <3>4. CASE <<d, observed[d]>> \in r.unseen
      BY <1>1, <3>1, <3>4
    <3>5. CASE After(d, r.time, r.id)
      <4>1. d \in Pending(r.asOf, r.time, r.id)
        BY <1>7, <3>1, <3>5 DEF Pending
      <4>2. Cardinality(r.drafts) >= MaxDocuments \/ <<d, observed[d]>> \in r.unseen
        BY <1>2, <1>3, <2>1, <3>1, <3>5 DEF Covers
      <4>. QED
        BY <1>1, <3>4, <4>1, <4>2
    <3>. QED
      BY <1>2, <1>3, <2>1, <3>1, <3>2, <3>3, <3>4, <3>5 DEF Covers
  <2>. QED
    BY <2>3, <2>4
<1>. QED
  BY <1>1, <1>6, <1>7 DEF NothingPassedOver

LEMMA RunStepKeepsCover ==
  ASSUME RangeInv, CoverInv, NEW a \in Runs, RunStep(a)
  PROVE  CoverInv'
<1>0. /\ run \in [Runs -> RunStates] /\ watermark \in Nat
      /\ \A d \in Documents : observed[d] \in Nat
      /\ Types /\ Covers(run[a])
  BY DEF RangeInv, Types, DocumentTypes, CoverInv
<1>1. ASSUME UNCHANGED <<documentVars, analysisVars>>, Covers(run[a])',
             \A b \in Runs : b # a => run'[b] = run[b]
      PROVE  CoverInv'
  <2>1. UNCHANGED <<observed, visible, analysed, watermark, since, reported, missed>>
    BY <1>1 DEF documentVars, analysisVars
  <2>2. ASSUME NEW b \in Runs
        PROVE  Covers(run[b])'
    <3>1. CASE b = a
      BY <1>1, <3>1
    <3>2. CASE b # a
      <4>1. Covers(run[b]) /\ run'[b] = run[b]
        BY <1>1, <3>2 DEF CoverInv
      <4>. QED
        BY <1>1, <4>1, OtherCovers
    <3>. QED
      BY <3>1, <3>2
  <2>3. Settled' /\ NothingPassedOver'
    BY <2>1 DEF CoverInv, Settled, NothingPassedOver, InFlight
  <2>. QED
    BY <2>2, <2>3 DEF CoverInv
<1>2. CASE Start(a)
  <2>1. /\ run'[a] = Started(now) /\ UNCHANGED <<documentVars, analysisVars>>
        /\ \A b \in Runs : b # a => run'[b] = run[b]
    BY <1>0, <1>2 DEF Start
  <2>2. Covers(run[a])'
    BY <2>1 DEF Covers, Reading, Started
  <2>. QED
    BY <1>1, <2>1, <2>2
<1>3. CASE ReadWatermark(a)
  <2>. DEFINE asOf == run[a].asOf
              from == LowerBound(asOf)
              r == Paging(asOf, from, watermark = 0)
  <2>1. /\ run'[a] = r /\ UNCHANGED <<documentVars, analysisVars>>
        /\ \A b \in Runs : b # a => run'[b] = run[b]
    BY <1>0, <1>3 DEF ReadWatermark
  <2>2. from \in Nat
    <3>1. asOf \in Nat /\ Lookback \in Nat
      BY <1>0, <1>3, RunTypes, AnalysesAssumption DEF ReadWatermark, AnalysesAssumption
    <3>. QED
      BY <1>0, <3>1 DEF LowerBound
  <2>. HIDE DEF asOf, from
  <2>3. r.from = from /\ r.time = from /\ r.phase = "paging"
    BY DEF Paging
  <2>. HIDE DEF r
  <2>4. \A d \in Documents : from < observed[d] => After(d, from, r.id)
    BY <1>0, <2>2 DEF After
  <2>5. observed' = observed
    BY <2>1 DEF documentVars
  <2>6. Covers(run[a])'
    BY <2>1, <2>3, <2>4, <2>5 DEF Covers, After
  <2>. QED
    BY <1>1, <2>1, <2>6
<1>4. CASE ReadPage(a)
  <2>1. Covers(run[a])'
    BY <1>0, <1>4, PageCovers
  <2>2. /\ UNCHANGED <<documentVars, analysisVars>>
        /\ \A b \in Runs : b # a => run'[b] = run[b]
    BY <1>0, <1>4 DEF ReadPage
  <2>. QED
    BY <1>1, <2>1, <2>2
<1>5. CASE CommitDocuments(a)
  <2>1. /\ run'[a] = Idle
        /\ \A b \in Runs : b # a =>
             \/ run'[b] = run[b]
             \/ Reading(run[b]) /\ run'[b] = [run[b] EXCEPT !.alone = FALSE]
    BY <1>5, Committed
  <2>2. UNCHANGED documentVars
    BY <1>5 DEF CommitDocuments
  <2>3. ASSUME NEW b \in Runs
        PROVE  Covers(run[b])'
    <3>1. CASE b = a
      BY <2>1, <3>1 DEF Covers, Reading, Idle
    <3>2. CASE b # a
      <4>1. Covers(run[b])
        BY DEF CoverInv
      <4>. QED
        BY <2>1, <2>2, <3>2, <4>1, OtherCovers
    <3>. QED
      BY <3>1, <3>2
  <2>. QED
    BY <1>5, <2>3, CommitCovers DEF CoverInv
<1>6. CASE Abort(a)
  <2>1. /\ run'[a] = Idle /\ UNCHANGED <<documentVars, analysisVars>>
        /\ \A b \in Runs : b # a => run'[b] = run[b]
    BY <1>0, <1>6 DEF Abort
  <2>2. Covers(run[a])'
    BY <2>1 DEF Covers, Reading, Idle
  <2>. QED
    BY <1>1, <2>1, <2>2
<1>. QED
  BY <1>2, <1>3, <1>4, <1>5, <1>6 DEF RunStep

LEMMA CoverStep ==
  ASSUME RangeInv, CoverInv, [Next]_vars
  PROVE  CoverInv'
<1>0. /\ now \in Nat \ {0}
      /\ observed \in [Documents -> Nat]
      /\ \A d \in visible : observed[d] # 0
      /\ visible \subseteq Documents
  BY DEF RangeInv, Types, DocumentTypes, Past
<1>1. ASSUME NEW answer \in SUBSET Documents, Fetch(answer)
      PROVE  CoverInv'
  <2>1. visible' = visible /\ UNCHANGED <<analysisVars, run>>
    BY <1>1 DEF Fetch
  <2>2. \A d \in Documents :
          \/ observed'[d] = observed[d]
          \/ observed'[d] = now /\ observed[d] = 0
    BY <1>0, <1>1 DEF Fetch
  <2>3. \A d \in visible' : observed'[d] = observed[d] /\ observed[d] # 0
    BY <1>0, <2>1, <2>2
  <2>. QED
    BY <1>0, <2>1, <2>2, <2>3, ArrivalKeepsCover
<1>2. ASSUME NEW moment \in 1..LastMoment, Ingest(moment)
      PROVE  CoverInv'
  <2>. DEFINE answer == {d \in InFlight : observed[d] = moment}
  <2>1. answer \subseteq Documents \ visible /\ \A d \in answer : observed[d] # 0
    BY DEF InFlight
  <2>2. UNCHANGED <<analysisVars, run>>
    BY <1>2 DEF Ingest
  <2>3. CASE visible' = visible \cup answer /\ UNCHANGED observed
    <3>1. /\ visible' \in SUBSET Documents /\ visible \subseteq visible'
          /\ \A d \in visible' : observed'[d] = observed[d] /\ observed[d] # 0
          /\ \A d \in Documents : observed'[d] = observed[d]
      BY <1>0, <2>1, <2>3
    <3>. QED
      BY <2>2, <3>1, ArrivalKeepsCover
  <2>4. CASE /\ observed' = [d \in Documents |-> IF d \in answer THEN 0 ELSE observed[d]]
             /\ UNCHANGED visible
    <3>. HIDE DEF answer
    <3>1. /\ visible' \in SUBSET Documents /\ visible \subseteq visible'
          /\ \A d \in visible' : observed'[d] = observed[d] /\ observed[d] # 0
          /\ \A d \in Documents : observed'[d] \in {0, observed[d]}
      BY <1>0, <2>1, <2>4
    <3>. QED
      BY <2>2, <3>1, ArrivalKeepsCover
  <2>. QED
    BY <1>2, <2>3, <2>4 DEF Ingest
<1>3. ASSUME NEW a \in Runs, RunStep(a)
      PROVE  CoverInv'
  BY <1>3, RunStepKeepsCover
<1>4. CASE UNCHANGED vars
  <2>1. UNCHANGED <<observed, visible, analysed, watermark, since, reported, missed, run>>
    BY <1>4 DEF vars, documentVars, analysisVars
  <2>. QED
    BY <2>1 DEF CoverInv, Settled, NothingPassedOver, Covers, Reading, InFlight, After
<1>. QED
  BY <1>1, <1>2, <1>3, <1>4 DEF Next

\* However runs overlap, are cut short by the cap and are aborted, every committed
\* document behind the watermark was analysed, or reported, unless it was on its way to
\* its commit when a page was read (analysis_jobs.py:14).
THEOREM NoDocumentPassedOver == Spec => []NothingPassedOver
<1>1. CoverInv => NothingPassedOver
  BY DEF CoverInv
<1>2. Init => RangeInv /\ CoverInv
  BY RangeInit, CoverInit
<1>3. RangeInv /\ CoverInv /\ [Next]_vars => RangeInv' /\ CoverInv'
  BY RangeStep, CoverStep
<1>. QED
  BY <1>1, <1>2, <1>3, PTL DEF Spec

=============================================================================
